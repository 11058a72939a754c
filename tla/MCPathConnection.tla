-------------------------- MODULE MCPathConnection --------------------------
(* Instances of PathConnection for TLC. *)
EXTENDS PathConnection

CONSTANTS main, repair, reader
=============================================================================
