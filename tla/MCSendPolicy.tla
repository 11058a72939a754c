---------------------------- MODULE MCSendPolicy ----------------------------
(* Instances of SendPolicy for TLC. *)
EXTENDS SendPolicy

(* Nothing, a payload that is split, one above the MTU, one that needs too *)
(* many fragments, and one that goes out in three chunks.                  *)
MixedPayloads ==
  {[len |-> n, ts |-> FALSE] : n \in {0, 3, 6, 13}} \cup {[len |-> 5, ts |-> TRUE]}

(* All paths are well, the last one lags, and one path has brought nothing *)
(* yet.                                                                    *)
MixedReports ==
  { [p \in 1..3 |-> [seq |-> 5, mbps |-> 100]],
    [p \in 1..3 |-> IF p = 3 THEN [seq |-> 1, mbps |-> 20] ELSE [seq |-> 5, mbps |-> 40 * p]],
    [p \in 1..1 |-> [seq |-> None, mbps |-> 0]] }
=============================================================================
