------------------------------ MODULE MCStream ------------------------------
(* Instances of Stream for TLC. *)
EXTENDS Stream, TLC

CONSTANTS c1, c2

OneClient == [c \in Connections |-> "client"]

NoRecovery == << >>

(* Every frame the sender may make. *)
StreamPackets ==
  UNION {{Parsed(FrameOf(n, i, k)) : n \in 0..(Len(Strategies) - 1), i \in 0..(k - 1)} :
           k \in {1} \cup FragmentCounts}

WrapStrategies == [n \in 1..4 |-> {"redundant"}]

StreamStrategies ==
  <<{"redundant", "split"}, {"split", "rescue"}, {"redundant", "split"}>>

(* The second packet may be lost whole and the third in part, or whole     *)
(* with its rescue copy left.                                              *)
RepairStrategies == <<{"round_robin"}, {"round_robin"}, {"rescue"}>>

(* The two paths are alike. *)
PathSymmetry == Permutations({c1, c2})
=============================================================================
