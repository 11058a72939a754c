--------------------------- MODULE MCReorderWindow ---------------------------
(* Instances of ReorderWindow for TLC. *)
EXTENDS ReorderWindow

Header(s, i, n) == [sequence |-> s, fragment |-> i, fragments |-> n, payload |-> s]

Whole(S) == {Header(s, 0, 1) : s \in S}

Split(S, n) == {Header(s, i, n) : s \in S, i \in 0..(n - 1)}

NoRecovery == << >>

(* Sequences 0..3, the last of which wraps.  1 and 2 come whole or in two  *)
(* fragments; 1 also as the first of three, as an earlier sender cut it.   *)
(* Parity can reconstruct 2 and 3.                                         *)
WindowPackets == Whole(0..3) \cup Split({1, 2}, 2) \cup {Header(1, 0, 3)}

WindowRecovery == [s \in {2, 3} |-> s]

OneRemote == [c \in Connections |-> "client"]

(* Sequences below twice the restart gap, as after a restart from zero. *)
RestartPackets == Whole(0..(2 * RestartBackwardGap - 1))

(* The first two connections belong to one client, the third to another. *)
CONSTANTS c1, c2, c3

TwoRemotes == [c \in Connections |-> IF c = c3 THEN "other" ELSE "client"]

(* Only even sequences arrive: every second one is lost on every path. *)
GapPackets == Whole({0, 2, 4, 6})
=============================================================================
