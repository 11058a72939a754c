----------------------------- MODULE MCRegistry -----------------------------
(* Instances of Registry for TLC. *)
EXTENDS Registry

(* A connection of one endpoint, then two of another, as after a           *)
(* reconnect.                                                              *)
TwoRemotes == [c \in Data |-> IF c = 1 THEN "s" ELSE "r"]

(* Responses while a connection closes, or while one is too large; and no  *)
(* responses while a connection closes and so does the health connection   *)
(* that replaced it.                                                       *)
Scenarios == {[deaths |-> 1, responses |-> 1, refusals |-> 0],
              [deaths |-> 0, responses |-> 2, refusals |-> 1],
              [deaths |-> 2, responses |-> 0, refusals |-> 0]}
=============================================================================
