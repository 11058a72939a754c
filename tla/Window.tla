------------------------------- MODULE Window -------------------------------
(***************************************************************************)
(* The server's reorder window as a value.                                 *)
(*                                                                         *)
(* crates/server/src/main.rs keeps the window in the local variables of    *)
(* reorder_loop (next_seq, buffered, fragments, seen, skipped_sequences,   *)
(* gap_repair_requests) and passes them by reference through a fixed chain *)
(* of stages.  Here the window is one record and a stage is an operator    *)
(* from a window to a window; ReorderWindow.tla composes the stages into   *)
(* the handlers of the loop.                                               *)
(*                                                                         *)
(* Time stamps are ages: an Instant becomes the time elapsed since it,     *)
(* which saturates at AgeBound (RepairInterval for repair requests).       *)
(* A payload is the set of source packets whose bytes it is made of, a     *)
(* singleton unless an assembly mixes fragments of different packets.      *)
(*                                                                         *)
(* The loops of the code that pop one sequence after another are given in  *)
(* closed form: they stop at the least sequence where their condition      *)
(* fails, and what they do to the sequences before it does not depend on   *)
(* their order.  The closed forms rely on nothing pending being behind     *)
(* next, which is PendingAhead of ReorderWindow.tla, checked and proved.   *)
(***************************************************************************)
EXTENDS Integers, FiniteSets, Sequences, SequencesExt

CONSTANTS
  MaxMediaSequence,          \* MAX_MEDIA_SEQUENCE, 2^26 - 2 in the code
  MaxFragments,              \* MAX_FRAGMENTS, 7 in the code
  MaxReorderDelay,           \* --max-reorder-delay-ms, in ticks
  AgeBound,                  \* ages of pending packets saturate here
  Repair,                    \* --repair
  RepairInterval,            \* --repair-request-interval-ms, in ticks
  MaxRepairRequestsPerTick,  \* MAX_REPAIR_REQUESTS_PER_TICK, 64 in the code
  SkippedTrackLimit,         \* SKIPPED_SEQUENCE_TRACK_LIMIT, 4096 in the code
  FecPayload                 \* what parity frames can reconstruct:
                             \* protected sequence |-> source packet

ASSUME WindowAssumption ==
  /\ MaxMediaSequence \in Nat
  /\ MaxFragments \in Nat \ {0}
  /\ MaxReorderDelay \in Nat \ {0}
  /\ AgeBound \in Nat /\ AgeBound >= MaxReorderDelay
  /\ Repair \in BOOLEAN
  /\ RepairInterval \in Nat
  /\ MaxRepairRequestsPerTick \in Nat \ {0}
  /\ SkippedTrackLimit \in Nat
  /\ DOMAIN FecPayload \subseteq 0..MaxMediaSequence

MediaSequences == 0..MaxMediaSequence

FragmentIndices == 0..(MaxFragments - 1)

(***************************************************************************)
(* An empty window that expects sequence s next.  The last five fields are *)
(* not state of the code: out and requests are what the last handler       *)
(* forwarded and asked for; start, delivered and skips record the current  *)
(* flow until wrapped says that next has passed MaxMediaSequence in it.    *)
(***************************************************************************)
EmptyWindow(s) ==
  [ next      |-> s,
    buffered  |-> << >>,   \* sequence |-> [payload, age]
    fragments |-> << >>,   \* sequence |-> assembly
    seen      |-> {},
    skipped   |-> << >>,   \* RecentSkippedSequences.order, oldest first
    gap       |-> << >>,   \* sequence |-> age of its last repair request
    out       |-> << >>,
    requests  |-> {},
    start     |-> s,
    delivered |-> {},
    skips     |-> {},
    wrapped   |-> FALSE ]

Pending(w) == DOMAIN w.buffered \cup DOMAIN w.fragments

(* Variant: forgets the packets that wait whole. *)
HasPendingState_OnlyAssemblies(w) == DOMAIN w.fragments # {}

HasPendingState(w) == Pending(w) # {} \/ w.seen # {}

(* f without the keys in S: BTreeMap::remove of every key in S. *)
Without(f, S) == Restrict(f, DOMAIN f \ S)

(* f with the entries of g, which win: BTreeMap::insert of each. *)
With(f, g) == [s \in DOMAIN f \cup DOMAIN g |->
                 IF s \in DOMAIN g THEN g[s] ELSE f[s]]

(* Variant: wraps one sequence too soon. *)
Wrap_TooSoon(s) == IF s >= MaxMediaSequence THEN 0 ELSE s

(* The sequence after s - 1, for s in 1..MaxMediaSequence + 1. *)
Wrap(s) == IF s > MaxMediaSequence THEN 0 ELSE s

(* What the history of window w becomes when its next moves to end: once   *)
(* next has wrapped, a sequence no longer names one packet.                *)
Recorded(w, end, history) ==
  IF w.wrapped \/ end > MaxMediaSequence THEN {} ELSE history

-----------------------------------------------------------------------------
(* drain_ready: forward the run of buffered packets that starts at next.   *)

RunEnd(w) == Min((w.next..(MaxMediaSequence + 1)) \ DOMAIN w.buffered)

Drain(w) ==
  LET end == RunEnd(w)
      run == w.next..(end - 1)
  IN  [w EXCEPT
        !.next      = Wrap(end),
        !.buffered  = Without(@, run),
        !.seen      = @ \ run,
        !.gap       = Without(@, run),
        !.out       = @ \o [i \in 1..(end - w.next) |->
                              [sequence |-> w.next + i - 1,
                               payload  |-> w.buffered[w.next + i - 1].payload]],
        !.delivered = Recorded(w, end, @ \cup run),
        !.skips     = Recorded(w, end, @),
        !.wrapped   = @ \/ end > MaxMediaSequence]

(* accept_complete_payload for each sequence of P, a map from sequence to  *)
(* payload: at next it is forwarded and the run behind it drained,         *)
(* elsewhere it is buffered.  Its callers remove the sequence's assembly;  *)
(* in the variant they forget to.                                          *)
Accept_KeepsAssembly(w, P) ==
  Drain([w EXCEPT
          !.buffered = With(@, [s \in DOMAIN P |-> [payload |-> P[s], age |-> 0]]),
          !.seen     = @ \cup DOMAIN P])

Accept(w, P) ==
  Drain([w EXCEPT
          !.buffered  = With(@, [s \in DOMAIN P |-> [payload |-> P[s], age |-> 0]]),
          !.fragments = Without(@, DOMAIN P),
          !.seen      = @ \cup DOMAIN P])

(***************************************************************************)
(* recover_fec_ready.  FecState decides which sequences its parity frames  *)
(* and cached payloads can reconstruct; here that is any set of protected  *)
(* sequences that the loop would accept: not behind next and not held.     *)
(* The code repeats the pass until nothing is accepted.  Passes that do    *)
(* not wrap next add up to one; when recovering MaxMediaSequence wraps it, *)
(* a later pass may still recover protected sequences of the new lap.      *)
(***************************************************************************)
Recoverable(w) ==
  {s \in DOMAIN FecPayload : s >= w.next /\ s \notin w.seen /\ s \notin DOMAIN w.buffered}

RecoverPass(w) ==
  {Accept(w, [s \in R |-> {FecPayload[s]}]) : R \in SUBSET Recoverable(w)}

RecoverFecReady(w) ==
  RecoverPass(w) \cup UNION {RecoverPass(v) : v \in {u \in RecoverPass(w) : u.next < w.next}}

-----------------------------------------------------------------------------
(* request_due_repairs: ask for the missing head of the window, then for   *)
(* the missing fragments of incomplete assemblies in ascending order.      *)

Missing(assembly) == (0..(assembly.total - 1)) \ DOMAIN assembly.got

(* Variant: asks for a head that is being assembled as if it were absent. *)
HeadRequestDue_IgnoresAssembly(w) ==
  /\ w.next \notin DOMAIN w.buffered
  /\ Pending(w) # {}
  /\ w.next \in DOMAIN w.gap => w.gap[w.next] >= RepairInterval

HeadRequestDue(w) ==
  /\ w.next \notin Pending(w)
  /\ Pending(w) # {}
  /\ w.next \in DOMAIN w.gap => w.gap[w.next] >= RepairInterval

AssembliesDue(w) ==
  {s \in DOMAIN w.fragments :
     w.fragments[s].asked >= RepairInterval /\ Missing(w.fragments[s]) # {}}

AssembliesAsked(w) ==
  LET headRequests == IF HeadRequestDue(w) THEN 1 ELSE 0
      due          == AssembliesDue(w)
  IN  {s \in due :
         headRequests + Cardinality({t \in due : t < s}) < MaxRepairRequestsPerTick}

RequestDueRepairs(w) ==
  LET head  == IF HeadRequestDue(w) THEN {w.next} ELSE {}
      asked == AssembliesAsked(w)
  IN  [w EXCEPT
        !.gap       = With(@, [s \in head |-> 0]),
        !.fragments = [s \in DOMAIN @ |->
                         IF s \in asked THEN [@[s] EXCEPT !.asked = 0] ELSE @[s]],
        !.requests  = [sequence : head, missing : {FragmentIndices}]
                      \cup {[sequence |-> s, missing |-> Missing(w.fragments[s])] : s \in asked}]

-----------------------------------------------------------------------------
(* expire_reorder_gap: skip the head while the packets behind it have      *)
(* waited MaxReorderDelay, or while its own incomplete assembly has.       *)

PendingAge(w, s) ==
  IF s \in DOMAIN w.buffered THEN w.buffered[s].age ELSE w.fragments[s].first_seen

(* Variants: a gap expires whatever its age; the youngest packet decides. *)
ExpireStopsAt_NoDelay(w, k) ==
  \/ k \in DOMAIN w.buffered
  \/ k \in DOMAIN w.fragments /\ w.fragments[k].first_seen < MaxReorderDelay
  \/ \A s \in Pending(w) : s < k

ExpireStopsAt_Youngest(w, k) ==
  \/ k \in DOMAIN w.buffered
  \/ k \in DOMAIN w.fragments /\ w.fragments[k].first_seen < MaxReorderDelay
  \/ \A s \in Pending(w) : s < k
  \/ k \notin Pending(w) /\ \E s \in Pending(w) : s >= k /\ PendingAge(w, s) < MaxReorderDelay

(* The loop stops with its head at k, everything before k being gone. *)
ExpireStopsAt(w, k) ==
  \/ k \in DOMAIN w.buffered
  \/ k \in DOMAIN w.fragments /\ w.fragments[k].first_seen < MaxReorderDelay
  \/ /\ k \notin Pending(w)
     /\ \A s \in Pending(w) : s >= k => PendingAge(w, s) < MaxReorderDelay

ExpireEnd(w) == Min({k \in w.next..(MaxMediaSequence + 1) : ExpireStopsAt(w, k)})

(* Variant: a full list drops the newest sequence. *)
InsertSkipped_DropsNewest(order, s) ==
  IF Contains(order, s) \/ Len(order) >= SkippedTrackLimit THEN order ELSE Append(order, s)

(* RecentSkippedSequences::insert, its lookup being the set of its order. *)
InsertSkipped(order, s) ==
  LET longer == IF Contains(order, s) THEN order ELSE Append(order, s)
  IN  IF Len(longer) > SkippedTrackLimit THEN Tail(longer) ELSE longer

Expire(w) ==
  LET end     == ExpireEnd(w)
      expired == w.next..(end - 1)
  IN  [w EXCEPT
        !.next      = Wrap(end),
        !.fragments = Without(@, expired),
        !.seen      = @ \ (expired \cap DOMAIN w.fragments),
        !.gap       = Without(@, expired),
        !.skipped   = FoldLeft(InsertSkipped, @, [i \in 1..(end - w.next) |-> w.next + i - 1]),
        !.delivered = Recorded(w, end, @),
        !.skips     = Recorded(w, end, @ \cup expired),
        !.wrapped   = @ \/ end > MaxMediaSequence]

(***************************************************************************)
(* advance_reorder_window, from any window of the set W.  Some handlers    *)
(* call recover_fec_ready themselves just before; as it runs until it      *)
(* accepts nothing, the two calls in a row are one.                        *)
(***************************************************************************)
RepairsAsked(W) == IF Repair THEN {RequestDueRepairs(w) : w \in W} ELSE W

Advance(W) ==
  LET recovered == UNION {RecoverFecReady(w) : w \in W}
      expired   == {Expire(w) : w \in RepairsAsked(recovered)}
  IN  {Drain(w) : w \in expired}

-----------------------------------------------------------------------------
(* FragmentAssembly::new and ::insert for the fragment carried by packet p. *)

WithFragment(w, p) ==
  LET fresh == [total      |-> p.fragments,
                got        |-> << >>,
                first_seen |-> 0,
                asked      |-> RepairInterval]   \* None: due at once
      held  == IF p.sequence \in DOMAIN w.fragments THEN w.fragments[p.sequence] ELSE fresh
  IN  [held EXCEPT !.got = With(@, [i \in {p.fragment} |-> p.payload])]

(* Variants: the last fragment completes an assembly; off by one. *)
IsComplete_Early(assembly) == assembly.total - 1 \in DOMAIN assembly.got

IsComplete_OffByOne(assembly) == Cardinality(DOMAIN assembly.got) > assembly.total

IsComplete(assembly) == Missing(assembly) = {}

IntoPayload(assembly) == {assembly.got[i] : i \in DOMAIN assembly.got}

(* One tick of the clock for every time stamp of the window. *)
Older(age, bound) == IF age < bound THEN age + 1 ELSE age

OlderPacket(b) == [payload |-> b.payload, age |-> Older(b.age, AgeBound)]

OlderAssembly(a) ==
  [a EXCEPT !.first_seen = Older(@, AgeBound), !.asked = Older(@, RepairInterval)]

Aged(w) ==
  [w EXCEPT
    !.buffered  = [s \in DOMAIN @ |-> OlderPacket(@[s])],
    !.fragments = [s \in DOMAIN @ |-> OlderAssembly(@[s])],
    !.gap       = [s \in DOMAIN @ |-> Older(@[s], RepairInterval)]]

=============================================================================
