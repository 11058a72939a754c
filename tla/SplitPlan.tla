------------------------------ MODULE SplitPlan ------------------------------
(***************************************************************************)
(* How the client cuts one payload over several paths: the pure functions  *)
(* of crates/client/src/main.rs and crates/client/src/path_strategy.rs,    *)
(* and the health that they look at.                                       *)
(*                                                                         *)
(* Paths are numbered in the order of the command line.  A range is        *)
(* [path, from, to]: the bytes from from to to - 1, for the path at that   *)
(* index of the list it was cut for.  Shares of paths are integers, in the *)
(* proportion of the code's weights: thousandths of a raw weight, rounded  *)
(* down.  Rates are in hundredths of Mbit/s.                               *)
(***************************************************************************)
EXTENDS Integers, FiniteSets, Sequences, SequencesExt

CONSTANTS
  Mtu,           \* --mtu; without it, any number above every payload
  Threshold,     \* --split-threshold-bytes, likewise
  ChunkBytes,    \* --mpeg-ts-chunk-bytes, likewise
  MaxFragments,  \* MAX_FRAGMENTS, 7 in the code
  DegradeLag     \* AUTO_SPLIT_DEGRADE_LAG_PACKETS, 120 in the code

ASSUME PlanAssumption ==
  /\ Mtu \in Nat \ {0}
  /\ Threshold \in Nat
  /\ ChunkBytes \in Nat \ {0}
  /\ MaxFragments \in Nat \ {0}
  /\ DegradeLag \in Nat \ {0}

None == -1   \* no last_seq in a health report

Total(shares) == FoldLeft(+, 0, shares)

Clamp(x, low, high) == Max({low, Min({x, high})})

Between(from, to) == [from |-> from, to |-> to]

(* The numbers of S in ascending order. *)
InOrder(S) ==
  [i \in 1..Cardinality(S) |-> CHOOSE p \in S : Cardinality({q \in S : q < p}) = i - 1]

-----------------------------------------------------------------------------
(* weighted_split_ranges *)

(* Where range i ends: at the share of the first i paths, rounded to the   *)
(* nearest byte, and the last at the end of the payload.  Without any      *)
(* share the last path gets everything.                                    *)
End(len, shares, i) ==
  LET total == Max({1, Total(shares)})
  IN  IF i = Len(shares) THEN len
      ELSE (2 * len * Total(SubSeq(shares, 1, i)) + total) \div (2 * total)

WeightedRanges(len, shares) ==
  [i \in DOMAIN shares |->
     Between(IF i = 1 THEN 0 ELSE End(len, shares, i - 1), End(len, shares, i))]

-----------------------------------------------------------------------------
(* packet_split_ranges *)

ExceedsMtu(len) == len > Mtu

(* Variant: drops what is left when size does not divide the length. *)
Chunks_Exact(len, size) ==
  [j \in 1..(len \div size) |-> Between((j - 1) * size, j * size)]

(* The payload in pieces of size bytes, payload.chunks and step_by. *)
Chunks(len, size) ==
  [j \in 1..((len + size - 1) \div size) |-> Between((j - 1) * size, Min({j * size, len}))]

(* The pieces, dealt to the paths in runs. *)
Dealt(pieces, shares) ==
  LET runs == WeightedRanges(Len(pieces), shares)
  IN  [j \in DOMAIN pieces |->
         [ path |-> CHOOSE i \in DOMAIN runs : j \in (runs[i].from + 1)..runs[i].to,
           from |-> pieces[j].from,
           to   |-> pieces[j].to ]]

(* packet_split_ranges returns None. *)
TooManyFragments(len) == ExceedsMtu(len) /\ Len(Chunks(len, Mtu)) > MaxFragments

(* mtu_chunked_split_ranges, and else a range for each path that has one. *)
PacketRanges(len, shares) ==
  IF shares = << >> THEN << >>
  ELSE IF ExceedsMtu(len) THEN Dealt(Chunks(len, Mtu), shares)
  ELSE LET ranges == WeightedRanges(len, shares)
           kept   == InOrder({i \in DOMAIN shares : ranges[i].from # ranges[i].to})
       IN  [j \in DOMAIN kept |->
              [path |-> kept[j], from |-> ranges[kept[j]].from, to |-> ranges[kept[j]].to]]

(* should_split *)
ShouldSplit(len, paths, mode, effective) ==
  \/ ExceedsMtu(len)
  \/ paths > 1 /\ mode = "split"
  \/ paths > 1 /\ mode = "auto" /\ effective = "split" /\ len > Threshold

(* The payload goes out in MPEG-TS chunks. *)
Chunked(payload) == payload.ts /\ payload.len > ChunkBytes

-----------------------------------------------------------------------------
(* The health of paths, a function from some paths to [seq, mbps, fresh]:  *)
(* what the server last reported, and whether that is recent.              *)

Fresh(health, S) == {p \in S \cap DOMAIN health : health[p].fresh}

(* The best last_seq that paths of S have, or None. *)
BestSeq(health, S) == Max({None} \cup {health[p].seq : p \in S \cap DOMAIN health})

SumOfRates(health, S) ==
  LET q == InOrder(S) IN Total([i \in DOMAIN q |-> health[q[i]].mbps])

(* path_health_allows_split, for a fresh path p *)
AllowsSplit(health, p, fresh) ==
  LET sum   == SumOfRates(health, fresh)
      count == Cardinality(fresh)
  IN  /\ health[p].seq # None
      /\ BestSeq(health, fresh) - health[p].seq <= DegradeLag
      /\ \/ sum < 25 * count
         \/ 100 * health[p].mbps * count >= 15 * sum /\ health[p].mbps >= 5

(* Variant: what lags behind is in neither group. *)
AutoPathGroups_DropsLagging(health, failed, S) ==
  LET candidates == S \ failed
      fresh      == Fresh(health, candidates)
      healthy    == {p \in fresh : AllowsSplit(health, p, fresh)}
  IN  IF Cardinality(candidates) < 2 THEN [split |-> candidates, rescue |-> S]
      ELSE [split |-> healthy, rescue |-> S \cap failed]

(* auto_path_groups: the paths to split over, and those that get every     *)
(* payload whole.  No fresh path, or none with a last_seq, is healthy.     *)
AutoPathGroups(health, failed, S) ==
  LET candidates == S \ failed
      fresh      == Fresh(health, candidates)
      healthy    == {p \in fresh : AllowsSplit(health, p, fresh)}
  IN  IF Cardinality(candidates) < 2 THEN [split |-> candidates, rescue |-> S]
      ELSE [split |-> healthy, rescue |-> S \ healthy]

(* auto_split_ready *)
AutoSplitReady(health, failed, S) ==
  LET groups == AutoPathGroups(health, failed, S)
  IN  Cardinality(groups.split) >= 2 /\ groups.rescue = {}

MinShare == 10   \* AUTO_WEIGHT_MIN_RAW_SHARE

LagPenalty(health, p, best) ==
  IF health[p].seq = None THEN 1000
  ELSE Clamp(1000 - (1000 * (best - health[p].seq)) \div DegradeLag, 350, 1000)

(* blended_auto_weight: a quarter of it follows the rate. *)
BlendedShare(health, p, fresh, penalty) ==
  LET sum   == SumOfRates(health, fresh)
      ratio == IF sum = 0 THEN 1000
               ELSE Clamp((1000 * health[p].mbps * Cardinality(fresh)) \div sum, 250, 2000)
  IN  Max({MinShare, ((750 + ratio \div 4) * penalty) \div 1000})

(* auto_split_weights, before they are normalized *)
AutoShare(health, failed, p, S) ==
  LET fresh == Fresh(health, S \ failed)
  IN  IF p \in fresh
      THEN BlendedShare(health, p, fresh, LagPenalty(health, p, BestSeq(health, S)))
      ELSE MinShare

(* active_split_weights, for the list of paths q; nothing sets the         *)
(* percentages of split_weights, so that it is even.                       *)
Shares(health, failed, blended, q) ==
  [i \in DOMAIN q |->
     IF q[i] \in failed THEN 0
     ELSE IF blended THEN AutoShare(health, failed, q[i], Range(q))
     ELSE 1]
=============================================================================
