---------------------------- MODULE MCRepairCache ----------------------------
(* Instances of RepairCache for TLC. *)
EXTENDS RepairCache

(* All fragments of any packet, or one fragment of a packet. *)
CacheRequests ==
  [sequence : 0..MaxMediaSequence, missing : {0..(MaxFragments - 1)}]
  \cup {[sequence |-> 0, missing |-> {1}]}
=============================================================================
