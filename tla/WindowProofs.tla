---------------------------- MODULE WindowProofs ----------------------------
(***************************************************************************)
(* What the stages of a turn do to the window, for every value of the      *)
(* constants of Window: lemmas that the proofs about the loop share.       *)
(*                                                                         *)
(* Sound(w) is what every stage may assume and must establish; Drain,      *)
(* which ends every turn, also establishes that the head is not waiting    *)
(* (AtRest).  Accounted says that the history covers what is behind next.  *)
(* Ordered and Patient relate the window a stage leaves to the window u    *)
(* that the turn started from; as each stage only looks at ages that       *)
(* packets had at the start, what a whole turn forwards and skips follows. *)
(* Modest says that a window asks only for what it misses; Within bounds   *)
(* how far a turn moves next, which is what restarts are judged by.        *)
(* Windows that are Formed are compared as values: AcceptOneMore says that *)
(* recovering one packet more is recovering all of them at once.           *)
(***************************************************************************)
EXTENDS Window, FiniteSetTheorems, SequenceTheorems, Induction

WindowFields ==
  {"next", "buffered", "fragments", "seen", "skipped", "gap", "out",
   "requests", "start", "delivered", "skips", "wrapped"}

(* Nothing pending is behind next, a sequence is buffered or under assembly *)
(* but not both, seen is what is buffered, and only the head has asked.    *)
Sound(w) ==
  /\ DOMAIN w = WindowFields
  /\ w.next \in MediaSequences
  /\ DOMAIN w.buffered \subseteq w.next..MaxMediaSequence
  /\ DOMAIN w.fragments \subseteq w.next..MaxMediaSequence
  /\ DOMAIN w.buffered \cap DOMAIN w.fragments = {}
  /\ w.seen = DOMAIN w.buffered
  /\ DOMAIN w.gap \subseteq {w.next}

AtRest(w) == Sound(w) /\ w.next \notin DOMAIN w.buffered

(* The history of the flow covers exactly the sequences behind next. *)
Accounted(w) ==
  /\ w.wrapped \in BOOLEAN
  /\ w.start \in Nat
  /\ w.wrapped = FALSE =>
       /\ w.start <= w.next
       /\ w.delivered \cup w.skips = w.start..(w.next - 1)
       /\ w.delivered \cap w.skips = {}

-----------------------------------------------------------------------------
(* The stages. *)

(* RunEnd is the first sequence from next on that is not buffered. *)
LEMMA RunEndIsFirstMissing ==
  ASSUME NEW w, Sound(w)
  PROVE  /\ RunEnd(w) \in w.next..(MaxMediaSequence + 1)
         /\ RunEnd(w) \notin DOMAIN w.buffered
         /\ w.next..(RunEnd(w) - 1) \subseteq DOMAIN w.buffered
<1> DEFINE T == (w.next..(MaxMediaSequence + 1)) \ DOMAIN w.buffered
<1>1. w.next \in Nat /\ MaxMediaSequence \in Nat /\ w.next <= MaxMediaSequence
  BY WindowAssumption DEF Sound, MediaSequences
<1>2. T \in SUBSET Nat /\ MaxMediaSequence + 1 \in T
  BY <1>1, SMT DEF Sound
<1>3. Min(T) \in T /\ \A y \in T : Min(T) <= y
  BY <1>2, MinOfNaturals, Zenon
<1>4. RunEnd(w) = Min(T)
  BY DEF RunEnd
<1>5. ASSUME NEW s \in w.next..(Min(T) - 1), s \notin DOMAIN w.buffered
      PROVE  FALSE
  <2>1. s \in T
    BY <1>1, <1>3, <1>5, SMT
  <2>2. Min(T) <= s
    BY <1>3, <2>1
  <2> QED BY <1>1, <1>2, <1>3, <2>2, SMT
<1> QED BY <1>3, <1>4, <1>5

(* Draining a sound window leaves it at rest, with its history complete. *)
LEMMA DrainSound ==
  ASSUME NEW w, Sound(w)
  PROVE  AtRest(Drain(w)) /\ (Accounted(w) => Accounted(Drain(w)))
<1> DEFINE end == RunEnd(w)
           run == w.next..(end - 1)
           v   == Drain(w)
<1>1. /\ end \in w.next..(MaxMediaSequence + 1)
      /\ end \notin DOMAIN w.buffered
      /\ run \subseteq DOMAIN w.buffered
  BY RunEndIsFirstMissing
<1>2. w.next \in Nat /\ MaxMediaSequence \in Nat /\ end \in Nat /\ w.next <= MaxMediaSequence
  BY <1>1, WindowAssumption DEF Sound, MediaSequences
<1>3. /\ DOMAIN v = WindowFields
      /\ v.next = Wrap(end)
      /\ v.buffered = Without(w.buffered, run)
      /\ v.fragments = w.fragments
      /\ v.seen = w.seen \ run
      /\ v.gap = Without(w.gap, run)
      /\ v.start = w.start
      /\ v.delivered = Recorded(w, end, w.delivered \cup run)
      /\ v.skips = Recorded(w, end, w.skips)
      /\ v.wrapped = (w.wrapped \/ end > MaxMediaSequence)
  BY DEF Drain, Sound, WindowFields
<1> HIDE DEF v, end
<1>4. /\ DOMAIN v.buffered = DOMAIN w.buffered \ run
      /\ DOMAIN v.gap = DOMAIN w.gap \ run
  BY <1>3 DEF Without, Restrict
<1>5. CASE end <= MaxMediaSequence
  <2>1. v.next = end
    BY <1>2, <1>3, <1>5 DEF Wrap
  <2>2. AtRest(v)
    BY <1>1, <1>2, <1>3, <1>4, <2>1, <1>5 DEF AtRest, Sound, MediaSequences
  <2>3. ASSUME Accounted(w) PROVE Accounted(v)
    BY <1>1, <1>2, <1>3, <2>1, <1>5, <2>3 DEF Accounted, Recorded
  <2> QED BY <2>2, <2>3 DEF v
<1>6. CASE end = MaxMediaSequence + 1
  <2>1. v.next = 0
    BY <1>2, <1>3, <1>6 DEF Wrap
  <2>2. DOMAIN v.buffered = {} /\ DOMAIN w.fragments = {}
    BY <1>1, <1>2, <1>4, <1>6 DEF Sound
  <2>3. DOMAIN v.gap = {}
    BY <1>2, <1>4, <1>6 DEF Sound
  <2>4. AtRest(v)
    BY <1>2, <1>3, <1>4, <2>1, <2>2, <2>3 DEF AtRest, Sound, MediaSequences
  <2>5. ASSUME Accounted(w) PROVE Accounted(v)
    <3>1. end > MaxMediaSequence
      BY <1>2, <1>6
    <3>2. v.wrapped = TRUE
      BY <1>3, <3>1, Zenon
    <3>3. v.start \in Nat
      BY <1>3, <2>5 DEF Accounted
    <3> QED BY <3>2, <3>3 DEF Accounted
  <2> QED BY <2>4, <2>5 DEF v
<1> QED BY <1>1, <1>2, <1>5, <1>6

(* Accepting payloads at or ahead of next keeps the window sound. *)
LEMMA AcceptSound ==
  ASSUME NEW w, Sound(w), NEW P, DOMAIN P \subseteq w.next..MaxMediaSequence
  PROVE  AtRest(Accept(w, P)) /\ (Accounted(w) => Accounted(Accept(w, P)))
<1> DEFINE B == [s \in DOMAIN P |-> [payload |-> P[s], age |-> 0]]
           u == [w EXCEPT !.buffered  = With(@, B),
                          !.fragments = Without(@, DOMAIN P),
                          !.seen      = @ \cup DOMAIN P]
<1>1. /\ DOMAIN u = WindowFields
      /\ u.next = w.next
      /\ u.buffered = With(w.buffered, B)
      /\ u.fragments = Without(w.fragments, DOMAIN P)
      /\ u.seen = w.seen \cup DOMAIN P
      /\ u.gap = w.gap
      /\ u.start = w.start
      /\ u.delivered = w.delivered
      /\ u.skips = w.skips
      /\ u.wrapped = w.wrapped
  BY DEF Sound, WindowFields
<1>2. DOMAIN B = DOMAIN P
  OBVIOUS
<1>3. Accept(w, P) = Drain(u)
  BY DEF Accept
<1> HIDE DEF u, B
<1>4. /\ DOMAIN u.buffered = DOMAIN w.buffered \cup DOMAIN P
      /\ DOMAIN u.fragments = DOMAIN w.fragments \ DOMAIN P
  BY <1>1, <1>2 DEF With, Without, Restrict
<1>5. Sound(u)
  BY <1>1, <1>4 DEF Sound
<1>6. Accounted(w) => Accounted(u)
  BY <1>1 DEF Accounted
<1> QED BY <1>3, <1>5, <1>6, DrainSound

(* One pass of recovery accepts protected sequences at or ahead of next. *)
LEMMA RecoverPassSound ==
  ASSUME NEW w, Sound(w), NEW v \in RecoverPass(w)
  PROVE  AtRest(v) /\ (Accounted(w) => Accounted(v))
<1>1. PICK R \in SUBSET Recoverable(w) : v = Accept(w, [s \in R |-> {FecPayload[s]}])
  BY DEF RecoverPass
<1>2. R \subseteq w.next..MaxMediaSequence
  BY WindowAssumption DEF Recoverable, Sound, MediaSequences
<1> DEFINE P == [s \in R |-> {FecPayload[s]}]
<1>3. DOMAIN P = R
  OBVIOUS
<1> HIDE DEF P
<1>4. AtRest(Accept(w, P)) /\ (Accounted(w) => Accounted(Accept(w, P)))
  BY <1>2, <1>3, AcceptSound
<1> QED BY <1>1, <1>4 DEF P

(* So do two passes. *)
LEMMA RecoverFecReadySound ==
  ASSUME NEW w, Sound(w), NEW v \in RecoverFecReady(w)
  PROVE  AtRest(v) /\ (Accounted(w) => Accounted(v))
<1>1. CASE v \in RecoverPass(w)
  BY <1>1, RecoverPassSound
<1>2. CASE v \notin RecoverPass(w)
  <2>1. PICK u \in RecoverPass(w) : v \in RecoverPass(u)
    BY <1>2 DEF RecoverFecReady
  <2>2. AtRest(u) /\ (Accounted(w) => Accounted(u))
    BY <2>1, RecoverPassSound
  <2>3. AtRest(v) /\ (Accounted(u) => Accounted(v))
    BY <2>1, <2>2, RecoverPassSound DEF AtRest
  <2> QED BY <2>2, <2>3
<1> QED BY <1>1, <1>2

(* Asking for repairs only touches the request times. *)
LEMMA RequestDueRepairsSound ==
  ASSUME NEW w, Sound(w)
  PROVE  LET v == RequestDueRepairs(w)
         IN  Sound(v) /\ (Accounted(w) => Accounted(v))
<1> DEFINE v == RequestDueRepairs(w)
           head == IF HeadRequestDue(w) THEN {w.next} ELSE {}
           A == AssembliesAsked(w)
<1>1. /\ DOMAIN v = WindowFields
      /\ v.next = w.next
      /\ v.buffered = w.buffered
      /\ DOMAIN v.fragments = DOMAIN w.fragments
      /\ v.seen = w.seen
      /\ v.gap = With(w.gap, [s \in head |-> 0])
      /\ v.start = w.start
      /\ v.delivered = w.delivered
      /\ v.skips = w.skips
      /\ v.wrapped = w.wrapped
  BY DEF RequestDueRepairs, Sound, WindowFields
<1>2. DOMAIN v.gap = DOMAIN w.gap \cup head
  BY <1>1 DEF With
<1>3. head \subseteq {w.next}
  OBVIOUS
<1> HIDE DEF v, head
<1>4. Sound(v)
  BY <1>1, <1>2, <1>3 DEF Sound
<1>5. Accounted(w) => Accounted(v)
  BY <1>1 DEF Accounted
<1> QED BY <1>4, <1>5 DEF v

(* The expiry stops at the end of the window at the latest. *)
LEMMA ExpireEndIsFirstStop ==
  ASSUME NEW w, Sound(w)
  PROVE  /\ ExpireEnd(w) \in w.next..(MaxMediaSequence + 1)
         /\ \A s \in w.next..(ExpireEnd(w) - 1) : ~ExpireStopsAt(w, s)
<1> DEFINE T == {k \in w.next..(MaxMediaSequence + 1) : ExpireStopsAt(w, k)}
<1>1. w.next \in Nat /\ MaxMediaSequence \in Nat /\ w.next <= MaxMediaSequence
  BY WindowAssumption DEF Sound, MediaSequences
<1>2. T \in SUBSET Nat
  BY <1>1, SMT
<1>3. MaxMediaSequence + 1 \in T
  <2>1. \A s \in Pending(w) : s \in w.next..MaxMediaSequence
    BY DEF Sound, Pending
  <2>2. ExpireStopsAt(w, MaxMediaSequence + 1)
    BY <1>1, <2>1 DEF ExpireStopsAt
  <2> QED BY <1>1, <2>2
<1>4. Min(T) \in T /\ \A y \in T : Min(T) <= y
  BY <1>2, <1>3, MinOfNaturals, Zenon
<1>5. ASSUME NEW s \in w.next..(Min(T) - 1), ExpireStopsAt(w, s)
      PROVE  FALSE
  <2>1. Min(T) \in w.next..(MaxMediaSequence + 1)
    BY <1>4
  <2>2. s \in w.next..(MaxMediaSequence + 1)
    BY <1>1, <2>1, SMT
  <2>3. s \in T
    BY <1>5, <2>2
  <2>4. Min(T) <= s
    BY <1>4, <2>3
  <2> QED BY <1>1, <2>1, <2>4, SMT
<1>6. ExpireEnd(w) = Min(T)
  BY DEF ExpireEnd
<1> QED BY <1>4, <1>5, <1>6

(* Expiring a gap skips sequences that are not buffered. *)
LEMMA ExpireSound ==
  ASSUME NEW w, Sound(w)
  PROVE  Sound(Expire(w)) /\ (Accounted(w) => Accounted(Expire(w)))
<1> DEFINE end == ExpireEnd(w)
           expired == w.next..(end - 1)
           v == Expire(w)
<1>1. /\ end \in w.next..(MaxMediaSequence + 1)
      /\ \A s \in expired : ~ExpireStopsAt(w, s)
  BY ExpireEndIsFirstStop
<1>2. w.next \in Nat /\ MaxMediaSequence \in Nat /\ end \in Nat /\ w.next <= MaxMediaSequence
  BY <1>1, WindowAssumption DEF Sound, MediaSequences
<1>3. expired \cap DOMAIN w.buffered = {}
  BY <1>1 DEF ExpireStopsAt
<1>4. /\ DOMAIN v = WindowFields
      /\ v.next = Wrap(end)
      /\ v.buffered = w.buffered
      /\ v.fragments = Without(w.fragments, expired)
      /\ v.seen = w.seen \ (expired \cap DOMAIN w.fragments)
      /\ v.gap = Without(w.gap, expired)
      /\ v.start = w.start
      /\ v.delivered = Recorded(w, end, w.delivered)
      /\ v.skips = Recorded(w, end, w.skips \cup expired)
      /\ v.wrapped = (w.wrapped \/ end > MaxMediaSequence)
  BY DEF Expire, Sound, WindowFields
<1> HIDE DEF v, end
<1>5. /\ DOMAIN v.fragments = DOMAIN w.fragments \ expired
      /\ DOMAIN v.gap = DOMAIN w.gap \ expired
  BY <1>4 DEF Without, Restrict
<1>6. v.seen = w.seen
  BY <1>3, <1>4 DEF Sound
<1>7. CASE end <= MaxMediaSequence
  <2>1. v.next = end
    BY <1>2, <1>4, <1>7 DEF Wrap
  <2>2. Sound(v)
    BY <1>1, <1>2, <1>3, <1>4, <1>5, <1>6, <2>1, <1>7 DEF Sound, MediaSequences
  <2>3. ASSUME Accounted(w) PROVE Accounted(v)
    BY <1>1, <1>2, <1>4, <2>1, <1>7, <2>3 DEF Accounted, Recorded
  <2> QED BY <2>2, <2>3 DEF v
<1>8. CASE end = MaxMediaSequence + 1
  <2>1. v.next = 0
    BY <1>2, <1>4, <1>8 DEF Wrap
  <2>2. DOMAIN w.buffered = {} /\ DOMAIN v.fragments = {}
    BY <1>2, <1>3, <1>5, <1>8 DEF Sound
  <2>3. DOMAIN v.gap = {}
    BY <1>2, <1>5, <1>8 DEF Sound
  <2>4. Sound(v)
    BY <1>2, <1>4, <1>6, <2>1, <2>2, <2>3 DEF Sound, MediaSequences
  <2>5. ASSUME Accounted(w) PROVE Accounted(v)
    <3>1. end > MaxMediaSequence
      BY <1>2, <1>8
    <3>2. v.wrapped = TRUE
      BY <1>4, <3>1, Zenon
    <3>3. v.start \in Nat
      BY <1>4, <2>5 DEF Accounted
    <3> QED BY <3>2, <3>3 DEF Accounted
  <2> QED BY <2>4, <2>5 DEF v
<1> QED BY <1>1, <1>2, <1>7, <1>8

(* advance_reorder_window as a whole. *)
LEMMA AdvanceSound ==
  ASSUME NEW W, NEW v \in Advance(W), \A w \in W : Sound(w)
  PROVE  AtRest(v) /\ ((\A w \in W : Accounted(w)) => Accounted(v))
<1> DEFINE R == UNION {RecoverFecReady(w) : w \in W}
<1>1. PICK u \in RepairsAsked(R) : v = Drain(Expire(u))
  BY DEF Advance
<1>2. \A r \in R : Sound(r) /\ ((\A w \in W : Accounted(w)) => Accounted(r))
  BY RecoverFecReadySound DEF AtRest
<1> HIDE DEF R
<1>3. Sound(u) /\ ((\A w \in W : Accounted(w)) => Accounted(u))
  BY RequestDueRepairsSound, <1>1, <1>2 DEF RepairsAsked
<1>4. Sound(Expire(u)) /\ (Accounted(u) => Accounted(Expire(u)))
  BY <1>3, ExpireSound
<1> QED BY <1>1, <1>3, <1>4, DrainSound

(* So does the clock. *)
LEMMA AgedSound ==
  ASSUME NEW w, AtRest(w)
  PROVE  /\ AtRest(Aged(w)) /\ (Accounted(w) => Accounted(Aged(w)))
         /\ Aged(w).next = w.next /\ Pending(Aged(w)) = Pending(w)
         /\ DOMAIN Aged(w).gap = DOMAIN w.gap
<1> DEFINE v == Aged(w)
<1>1. /\ DOMAIN v = WindowFields
      /\ v.next = w.next
      /\ DOMAIN v.buffered = DOMAIN w.buffered
      /\ DOMAIN v.fragments = DOMAIN w.fragments
      /\ DOMAIN v.gap = DOMAIN w.gap
      /\ v.seen = w.seen
      /\ v.start = w.start /\ v.delivered = w.delivered
      /\ v.skips = w.skips /\ v.wrapped = w.wrapped
  BY DEF Aged, AtRest, Sound, WindowFields
<1> HIDE DEF v
<1>2. AtRest(v)
  BY <1>1 DEF AtRest, Sound
<1>3. Accounted(w) => Accounted(v)
  BY <1>1 DEF Accounted
<1>4. Pending(v) = Pending(w)
  BY <1>1 DEF Pending
<1> QED BY <1>1, <1>2, <1>3, <1>4 DEF v

(* A window that expects s and holds nothing is where a flow begins. *)
LEMMA EmptyWindowSound ==
  ASSUME NEW s \in MediaSequences
  PROVE  AtRest(EmptyWindow(s)) /\ Accounted(EmptyWindow(s))
BY WindowAssumption DEF EmptyWindow, AtRest, Sound, Accounted, WindowFields, MediaSequences

-----------------------------------------------------------------------------
(* What each stage does to the fields of the window. *)

(* drain_ready moves next past the run and forwards the run. *)
LEMMA DrainFields ==
  ASSUME NEW w, DOMAIN w = WindowFields
  PROVE  LET end == RunEnd(w)
             run == w.next..(end - 1)
             v   == Drain(w)
         IN  /\ DOMAIN v = WindowFields
             /\ v.next = Wrap(end)
             /\ v.buffered = Without(w.buffered, run)
             /\ v.fragments = w.fragments
             /\ v.out = w.out \o [i \in 1..(end - w.next) |->
                                    [sequence |-> w.next + i - 1,
                                     payload  |-> w.buffered[w.next + i - 1].payload]]
             /\ v.requests = w.requests
             /\ v.delivered = Recorded(w, end, w.delivered \cup run)
             /\ v.skips = Recorded(w, end, w.skips)
             /\ v.wrapped = (w.wrapped \/ end > MaxMediaSequence)
BY DEF Drain, WindowFields

(* expire_reorder_gap moves next and forgets the assemblies it passes. *)
LEMMA ExpireFields ==
  ASSUME NEW w, DOMAIN w = WindowFields
  PROVE  LET end     == ExpireEnd(w)
             expired == w.next..(end - 1)
             v       == Expire(w)
         IN  /\ DOMAIN v = WindowFields
             /\ v.next = Wrap(end)
             /\ v.buffered = w.buffered
             /\ v.fragments = Without(w.fragments, expired)
             /\ v.out = w.out
             /\ v.requests = w.requests
             /\ v.delivered = Recorded(w, end, w.delivered)
             /\ v.skips = Recorded(w, end, w.skips \cup expired)
             /\ v.wrapped = (w.wrapped \/ end > MaxMediaSequence)
BY DEF Expire, WindowFields

(* next has not wrapped if it does not wrap now and had not before; until  *)
(* it does, moving it keeps the history.                                   *)
LEMMA StillUnwrapped ==
  ASSUME NEW w, w.wrapped \in BOOLEAN, NEW v, NEW end \in Int,
         v.wrapped = (w.wrapped \/ end > MaxMediaSequence)
  PROVE  /\ v.wrapped \in BOOLEAN
         /\ v.wrapped = FALSE => /\ w.wrapped = FALSE
                                 /\ ~(end > MaxMediaSequence)
                                 /\ \A history : Recorded(w, end, history) = history
<1>1. v.wrapped \in BOOLEAN
  BY Zenon
<1>2. v.wrapped = FALSE => w.wrapped = FALSE /\ ~(end > MaxMediaSequence)
  BY Zenon
<1> QED BY <1>1, <1>2, Zenon DEF Recorded

(* Frames in ascending order, of sequences from low up to high. *)
Ascending(frames, low, high) ==
  /\ \A i \in 1..Len(frames) : frames[i].sequence \in low..(high - 1)
  /\ \A i \in 1..Len(frames) : \A j \in 1..(i - 1) :
       frames[j].sequence < frames[i].sequence

(* They stay so when high moves up. *)
LEMMA AscendingBelow ==
  ASSUME NEW frames, NEW low \in Int, NEW high \in Int, NEW end \in Int,
         high <= end, Ascending(frames, low, high)
  PROVE  Ascending(frames, low, end)
<1>1. \A i \in 1..Len(frames) : frames[i].sequence \in low..(end - 1)
  BY DEF Ascending
<1> QED BY <1>1 DEF Ascending

(* They stay so when the run of n sequences that starts at high follows. *)
LEMMA AscendingRun ==
  ASSUME NEW S, NEW frames \in Seq(S), NEW low \in Int, NEW high \in Int, low <= high,
         Ascending(frames, low, high),
         NEW n \in Nat, NEW T, NEW run \in [1..n -> T],
         \A i \in 1..n : run[i].sequence = high + i - 1
  PROVE  /\ frames \o run \in Seq(S \cup T)
         /\ Len(frames \o run) = Len(frames) + n
         /\ Ascending(frames \o run, low, high + n)
<1> DEFINE m == Len(frames)
           o == frames \o run
<1>1. frames \in Seq(S \cup T) /\ m \in Nat
  OBVIOUS
<1>2. run \in Seq(S \cup T) /\ Len(run) = n
  OBVIOUS
<1>3. /\ o \in Seq(S \cup T)
      /\ Len(o) = m + n
      /\ \A i \in 1..m : o[i] = frames[i]
      /\ \A i \in 1..n : o[m + i] = run[i]
  <2>1. o \in Seq(S \cup T) /\ Len(o) = m + n
    BY <1>1, <1>2
  <2>2. \A i \in 1..m : o[i] = frames[i]
    BY <1>1, <1>2
  <2>3. \A i \in 1..n : o[m + i] = run[i]
    BY <1>1, <1>2
  <2> QED BY <2>1, <2>2, <2>3
<1>4. /\ \A i \in 1..m : frames[i].sequence \in low..(high - 1)
      /\ \A i \in 1..m : \A j \in 1..(i - 1) : frames[j].sequence < frames[i].sequence
  BY DEF Ascending
<1> HIDE DEF m, o
<1>5. ASSUME NEW i \in 1..m PROVE o[i].sequence \in low..(high - 1)
  BY <1>3, <1>4, <1>5
<1>6. ASSUME NEW i \in (m + 1)..(m + n) PROVE o[i].sequence = high + (i - m) - 1
  <2>1. i - m \in 1..n /\ i = m + (i - m)
    BY <1>1, <1>6
  <2> QED BY <1>3, <2>1
<1>7. ASSUME NEW i \in 1..(m + n) PROVE i \in 1..m \/ i \in (m + 1)..(m + n)
  BY <1>1, <1>7
<1>8. ASSUME NEW i \in 1..(m + n) PROVE o[i].sequence \in low..(high + n - 1)
  BY <1>1, <1>5, <1>6, <1>7, <1>8
<1>9. ASSUME NEW i \in 1..(m + n), NEW j \in 1..(i - 1)
      PROVE  o[j].sequence < o[i].sequence
  <2>1. CASE i \in 1..m
    <3>1. j \in 1..m
      BY <1>1, <1>9, <2>1
    <3> QED BY <1>3, <1>4, <2>1, <3>1
  <2>2. CASE i \in (m + 1)..(m + n)
    <3>1. o[i].sequence = high + (i - m) - 1
      BY <1>6, <2>2
    <3>2. CASE j \in 1..m
      BY <1>1, <1>5, <2>2, <3>1, <3>2
    <3>3. CASE j \in (m + 1)..(m + n)
      <4>1. o[j].sequence = high + (j - m) - 1
        BY <1>6, <3>3
      <4> QED BY <1>1, <1>9, <2>2, <3>1, <3>3, <4>1
    <3> QED BY <1>1, <1>9, <3>2, <3>3
  <2> QED BY <1>7, <1>9, <2>1, <2>2
<1>10. Ascending(o, low, high + n)
  BY <1>3, <1>8, <1>9 DEF Ascending
<1> QED BY <1>3, <1>10 DEF m, o

-----------------------------------------------------------------------------
(* What one turn may forward and skip. *)

OutIsSequence(w) == \E S : w.out \in Seq(S)

(* Until next wraps, what was forwarded lies between next at the start of  *)
(* the turn and next now, in ascending order.                              *)
Ordered(w, u) ==
  /\ OutIsSequence(w)
  /\ w.wrapped \in BOOLEAN
  /\ w.wrapped = FALSE =>
       u.wrapped = FALSE /\ u.next <= w.next /\ Ascending(w.out, u.next, w.next)

Overdue(w, t) == PendingAge(w, t) >= MaxReorderDelay

(* What may be skipped in a turn that starts at u. *)
MaySkip(u, s) ==
  /\ s \notin DOMAIN u.buffered
  /\ \E t \in Pending(u) : t >= s /\ Overdue(u, t)

(* Until next wraps, what was buffered at the start of the turn and is not *)
(* behind next still is; what is overdue was so at the start; and what was *)
(* skipped might be.                                                       *)
Patient(w, u) ==
  w.wrapped = FALSE =>
    /\ \A s \in DOMAIN u.buffered : s >= w.next => s \in DOMAIN w.buffered
    /\ \A t \in Pending(w) : Overdue(w, t) => t \in Pending(u) /\ Overdue(u, t)
    /\ \A s \in w.skips \ u.skips : MaySkip(u, s)

(* Draining forwards the run at next. *)
LEMMA DrainOrdered ==
  ASSUME NEW w, Sound(w), NEW u, Sound(u), Ordered(w, u)
  PROVE  /\ Ordered(Drain(w), u)
         /\ w.next \in DOMAIN w.buffered => Drain(w).out # << >>
<1> DEFINE end    == RunEnd(w)
           n      == end - w.next
           run    == [i \in 1..n |-> [sequence |-> w.next + i - 1,
                                     payload  |-> w.buffered[w.next + i - 1].payload]]
           T      == {run[i] : i \in 1..n}
           v      == Drain(w)
           frames == w.out
           low    == u.next
           high   == w.next
<1>1. /\ end \in w.next..(MaxMediaSequence + 1) /\ end \notin DOMAIN w.buffered
      /\ high \in Nat /\ low \in Nat /\ MaxMediaSequence \in Nat
  BY RunEndIsFirstMissing, WindowAssumption DEF Sound, MediaSequences
<1>2. end \in Int /\ n \in Nat /\ end = high + n
  BY <1>1
<1>3. /\ v.next = Wrap(end)
      /\ v.out = frames \o run
      /\ v.wrapped = (w.wrapped \/ end > MaxMediaSequence)
  BY DrainFields DEF Sound
<1>4. \A i \in 1..n : run[i].sequence = high + i - 1
  OBVIOUS
<1>5. run \in [1..n -> T]
  OBVIOUS
<1>6. PICK S : frames \in Seq(S)
  BY DEF Ordered, OutIsSequence
<1>7. high \in DOMAIN w.buffered => n > 0
  BY <1>1, <1>2
<1>8. w.wrapped = FALSE => u.wrapped = FALSE /\ low <= high /\ Ascending(frames, low, high)
  BY DEF Ordered
<1> HIDE DEF end, v, run, n, T, frames, low, high
<1>9. /\ OutIsSequence(v)
      /\ n > 0 => v.out # << >>
  <2>1. frames \o run \in Seq(S \cup T) /\ Len(frames \o run) = Len(frames) + n
    <3>1. Len(frames) \in Nat /\ run \in Seq(T) /\ Len(run) = n
      BY <1>2, <1>5, <1>6
    <3>2. run \in Seq(S \cup T) /\ frames \in Seq(S \cup T)
      BY <1>6, <3>1
    <3> QED BY <3>1, <3>2
  <2>2. n > 0 => Len(frames \o run) # 0
    BY <1>2, <1>6, <2>1
  <2> QED BY <1>3, <2>1, <2>2 DEF OutIsSequence
<1>10. v.wrapped \in BOOLEAN /\ (v.wrapped = FALSE => w.wrapped = FALSE /\ ~(end > MaxMediaSequence))
  BY <1>2, <1>3, StillUnwrapped DEF Ordered
<1>11. ASSUME v.wrapped = FALSE
       PROVE  u.wrapped = FALSE /\ low <= v.next /\ Ascending(v.out, low, v.next)
  <2>1. u.wrapped = FALSE /\ v.next = high + n /\ low <= high /\ Ascending(frames, low, high)
    BY <1>2, <1>3, <1>8, <1>10, <1>11 DEF Wrap
  <2>2. Ascending(frames \o run, low, high + n)
    <3>1. low \in Int /\ high \in Int /\ n \in Nat
      BY <1>1, <1>2
    <3> QED BY <1>4, <1>5, <1>6, <2>1, <3>1, AscendingRun, Zenon
  <2> QED BY <1>1, <1>2, <1>3, <2>1, <2>2
<1>12. Ordered(v, u)
  BY <1>9, <1>10, <1>11 DEF Ordered, low
<1> QED BY <1>7, <1>9, <1>12 DEF v, high

(* It skips nothing. *)
LEMMA DrainPatient ==
  ASSUME NEW w, Sound(w), w.wrapped \in BOOLEAN, NEW u, Sound(u), Patient(w, u)
  PROVE  Patient(Drain(w), u)
<1> DEFINE end == RunEnd(w)
           run == w.next..(end - 1)
           v   == Drain(w)
<1>1. end \in w.next..(MaxMediaSequence + 1) /\ w.next \in Nat /\ MaxMediaSequence \in Nat
  BY RunEndIsFirstMissing, WindowAssumption DEF Sound, MediaSequences
<1>2. end \in Int
  BY <1>1
<1>3. /\ v.next = Wrap(end)
      /\ v.buffered = Without(w.buffered, run)
      /\ v.fragments = w.fragments
      /\ v.skips = Recorded(w, end, w.skips)
      /\ v.wrapped = (w.wrapped \/ end > MaxMediaSequence)
  BY DrainFields DEF Sound
<1> HIDE DEF v, end
<1> SUFFICES ASSUME v.wrapped = FALSE
             PROVE  /\ \A s \in DOMAIN u.buffered : s >= v.next => s \in DOMAIN v.buffered
                    /\ \A t \in Pending(v) : Overdue(v, t) => t \in Pending(u) /\ Overdue(u, t)
                    /\ \A s \in v.skips \ u.skips : MaySkip(u, s)
  BY DEF Patient, v
<1>4. w.wrapped = FALSE /\ ~(end > MaxMediaSequence) /\ v.skips = w.skips
  <2>1. v.wrapped = (w.wrapped \/ end > MaxMediaSequence)
    BY <1>3
  <2>2. w.wrapped = FALSE /\ ~(end > MaxMediaSequence)
    BY <1>2, <2>1, StillUnwrapped
  <2> QED BY <1>3, <2>2 DEF Recorded
<1>5. v.next = end
  BY <1>3, <1>4 DEF Wrap
<1>6. /\ DOMAIN v.buffered = DOMAIN w.buffered \ run
      /\ \A s \in DOMAIN v.buffered : v.buffered[s] = w.buffered[s]
  BY <1>3 DEF Without, Restrict
<1>7. ASSUME NEW s \in DOMAIN u.buffered, s >= v.next PROVE s \in DOMAIN v.buffered
  <2>1. s >= w.next => s \in DOMAIN w.buffered
    BY <1>4 DEF Patient
  <2>2. s \in Nat
    BY WindowAssumption DEF Sound, MediaSequences
  <2> QED BY <1>1, <1>5, <1>6, <1>7, <2>1, <2>2
<1>8. ASSUME NEW t \in Pending(v), Overdue(v, t) PROVE t \in Pending(u) /\ Overdue(u, t)
  <2>1. t \in Pending(w) /\ PendingAge(v, t) = PendingAge(w, t)
    <3>1. CASE t \in DOMAIN v.buffered
      BY <1>6, <3>1 DEF Pending, PendingAge
    <3>2. CASE t \notin DOMAIN v.buffered
      <4>1. t \in DOMAIN w.fragments
        BY <1>3, <3>2 DEF Pending
      <4>2. t \notin DOMAIN w.buffered
        BY <4>1 DEF Sound
      <4> QED BY <1>3, <3>2, <4>1, <4>2 DEF Pending, PendingAge
    <3> QED BY <3>1, <3>2
  <2>2. Overdue(w, t)
    BY <1>8, <2>1 DEF Overdue
  <2> QED BY <1>4, <2>1, <2>2 DEF Patient
<1> QED BY <1>4, <1>7, <1>8 DEF Patient

(* Accepted payloads are new: they are not overdue, as the delay is not 0. *)
LEMMA AcceptInTurn ==
  ASSUME NEW w, Sound(w), NEW u, Sound(u), Ordered(w, u), Patient(w, u),
         NEW P, DOMAIN P \subseteq w.next..MaxMediaSequence
  PROVE  Ordered(Accept(w, P), u) /\ Patient(Accept(w, P), u)
<1> DEFINE B == [s \in DOMAIN P |-> [payload |-> P[s], age |-> 0]]
           x == [w EXCEPT !.buffered  = With(@, B),
                          !.fragments = Without(@, DOMAIN P),
                          !.seen      = @ \cup DOMAIN P]
<1>1. /\ DOMAIN x = WindowFields
      /\ x.next = w.next
      /\ x.buffered = With(w.buffered, B)
      /\ x.fragments = Without(w.fragments, DOMAIN P)
      /\ x.seen = w.seen \cup DOMAIN P
      /\ x.gap = w.gap
      /\ x.out = w.out
      /\ x.skips = w.skips
      /\ x.wrapped = w.wrapped
  BY DEF Sound, WindowFields
<1>2. DOMAIN B = DOMAIN P /\ \A s \in DOMAIN B : B[s].age = 0
  OBVIOUS
<1>3. Accept(w, P) = Drain(x)
  BY DEF Accept
<1> HIDE DEF x, B
<1>4. /\ DOMAIN x.buffered = DOMAIN w.buffered \cup DOMAIN P
      /\ DOMAIN x.fragments = DOMAIN w.fragments \ DOMAIN P
      /\ \A s \in DOMAIN P : x.buffered[s].age = 0
      /\ \A s \in DOMAIN w.buffered \ DOMAIN P : x.buffered[s] = w.buffered[s]
      /\ \A s \in DOMAIN x.fragments : x.fragments[s] = w.fragments[s]
  BY <1>1, <1>2 DEF With, Without, Restrict
<1>5. Sound(x)
  BY <1>1, <1>4 DEF Sound
<1>6. Ordered(x, u)
  BY <1>1 DEF Ordered, OutIsSequence
<1>7. ASSUME NEW t \in Pending(x), Overdue(x, t)
      PROVE  t \in Pending(w) /\ Overdue(w, t)
  <2>1. t \notin DOMAIN P
    BY <1>4, <1>7, WindowAssumption DEF Overdue, PendingAge
  <2>2. t \in Pending(w)
    BY <1>4, <2>1 DEF Pending
  <2>3. PendingAge(x, t) = PendingAge(w, t)
    BY <1>4, <2>1, <2>2 DEF Pending, PendingAge
  <2> QED BY <1>7, <2>2, <2>3 DEF Overdue
<1>8. Patient(x, u)
  <2>1. w.wrapped = FALSE =>
          \A s \in DOMAIN u.buffered : s >= x.next => s \in DOMAIN x.buffered
    BY <1>1, <1>4 DEF Patient
  <2>2. w.wrapped = FALSE =>
          \A t \in Pending(x) : Overdue(x, t) => t \in Pending(u) /\ Overdue(u, t)
    BY <1>7 DEF Patient
  <2> QED BY <1>1, <2>1, <2>2 DEF Patient
<1>9. x.wrapped \in BOOLEAN
  BY <1>6 DEF Ordered
<1> QED BY <1>3, <1>5, <1>6, <1>8, <1>9, DrainOrdered, DrainPatient

(* So recovery stays within the turn. *)
LEMMA RecoverInTurn ==
  ASSUME NEW w, Sound(w), NEW u, Sound(u), Ordered(w, u), Patient(w, u),
         NEW v \in RecoverFecReady(w)
  PROVE  Ordered(v, u) /\ Patient(v, u)
<1>1. ASSUME NEW x, Sound(x), Ordered(x, u), Patient(x, u), NEW y \in RecoverPass(x)
      PROVE  Ordered(y, u) /\ Patient(y, u)
  <2>1. PICK R \in SUBSET Recoverable(x) : y = Accept(x, [s \in R |-> {FecPayload[s]}])
    BY DEF RecoverPass
  <2>2. R \subseteq x.next..MaxMediaSequence
    BY <1>1, WindowAssumption DEF Recoverable, Sound, MediaSequences
  <2> DEFINE P == [s \in R |-> {FecPayload[s]}]
  <2>3. DOMAIN P = R
    OBVIOUS
  <2> HIDE DEF P
  <2>4. Ordered(Accept(x, P), u) /\ Patient(Accept(x, P), u)
    BY <1>1, <2>2, <2>3, AcceptInTurn
  <2> QED BY <2>1, <2>4 DEF P
<1>2. CASE v \in RecoverPass(w)
  BY <1>1, <1>2
<1>3. CASE v \notin RecoverPass(w)
  <2>1. PICK x \in RecoverPass(w) : v \in RecoverPass(x)
    BY <1>3 DEF RecoverFecReady
  <2>2. Sound(x)
    BY <2>1, RecoverPassSound DEF AtRest
  <2> QED BY <1>1, <2>1, <2>2
<1> QED BY <1>2, <1>3

(* The expiry stops where its condition says. *)
LEMMA ExpireEndStops ==
  ASSUME NEW w, Sound(w)
  PROVE  ExpireStopsAt(w, ExpireEnd(w))
<1> DEFINE T == {k \in w.next..(MaxMediaSequence + 1) : ExpireStopsAt(w, k)}
<1>1. w.next \in Nat /\ MaxMediaSequence \in Nat /\ w.next <= MaxMediaSequence
  BY WindowAssumption DEF Sound, MediaSequences
<1>2. T \in SUBSET Nat
  BY <1>1, SMT
<1>3. MaxMediaSequence + 1 \in T
  <2>1. \A s \in Pending(w) : s \in w.next..MaxMediaSequence
    BY DEF Sound, Pending
  <2>2. ExpireStopsAt(w, MaxMediaSequence + 1)
    BY <1>1, <2>1 DEF ExpireStopsAt
  <2> QED BY <1>1, <2>2
<1>4. Min(T) \in T
  BY <1>2, <1>3, MinOfNaturals, Zenon
<1>5. ExpireEnd(w) = Min(T)
  BY DEF ExpireEnd
<1> QED BY <1>4, <1>5

(* A turn starts with nothing forwarded. *)
LEMMA TurnBegins ==
  ASSUME NEW w, NEW u, Sound(w), w.wrapped \in BOOLEAN, w.out = << >>,
         /\ w.next = u.next /\ w.buffered = u.buffered /\ w.fragments = u.fragments
         /\ w.skips = u.skips /\ w.wrapped = u.wrapped
  PROVE  Ordered(w, u) /\ Patient(w, u)
<1>1. w.next \in Nat
  BY WindowAssumption DEF Sound, MediaSequences
<1>2. w.out \in Seq({}) /\ Len(w.out) = 0
  OBVIOUS
<1>3. OutIsSequence(w) /\ Ascending(w.out, u.next, w.next)
  BY <1>2 DEF OutIsSequence, Ascending
<1>4. Ordered(w, u)
  BY <1>1, <1>3 DEF Ordered
<1>5. Patient(w, u)
  BY DEF Patient, Pending, Overdue, PendingAge
<1> QED BY <1>4, <1>5

-----------------------------------------------------------------------------
(* The repair requests of a turn. *)

(* At most k members of a finite set of naturals have fewer than k members *)
(* below them.                                                             *)
LEMMA RankBound ==
  ASSUME NEW T \in SUBSET Nat, IsFiniteSet(T), NEW k \in Nat
  PROVE  LET A == {s \in T : Cardinality({t \in T : t < s}) < k}
         IN  IsFiniteSet(A) /\ Cardinality(A) \in Nat /\ Cardinality(A) <= k
<1> DEFINE Below(s) == {t \in T : t < s}
           A == {s \in T : Cardinality(Below(s)) < k}
           f == [s \in A |-> Cardinality(Below(s))]
           K == 0..(k - 1)
<1>1. ASSUME NEW s \in T
      PROVE  IsFiniteSet(Below(s)) /\ Cardinality(Below(s)) \in Nat
  <2> DEFINE b == Below(s)
  <2>1. b \in SUBSET T
    OBVIOUS
  <2> HIDE DEF b
  <2>2. IsFiniteSet(b)
    BY <2>1, FS_Subset
  <2>3. Cardinality(b) \in Nat
    BY <2>2, FS_CardinalityType
  <2> QED BY <2>2, <2>3 DEF b
<1>2. ASSUME NEW s \in T, NEW r \in T, s < r
      PROVE  Cardinality(Below(s)) < Cardinality(Below(r))
  <2> DEFINE b == Below(s)
             c == Below(r)
  <2>0. \A t \in T : t \in Nat
    OBVIOUS
  <2>1. b \in SUBSET c /\ s \in c /\ s \notin b
    <3>1. \A t \in b : t \in T /\ t < r
      BY <1>2, <2>0
    <3>2. b \in SUBSET c
      BY <3>1
    <3>3. s \in c
      BY <1>2
    <3>4. ~(s < s)
      BY <2>0
    <3> QED BY <3>2, <3>3, <3>4
  <2>2. IsFiniteSet(c) /\ Cardinality(b) \in Nat /\ Cardinality(c) \in Nat
    BY <1>1
  <2> HIDE DEF b, c
  <2>3. Cardinality(b) <= Cardinality(c) /\ (Cardinality(c) = Cardinality(b) => c = b)
    BY <2>1, <2>2, FS_Subset
  <2>4. Cardinality(b) < Cardinality(c)
    BY <2>1, <2>2, <2>3
  <2> QED BY <2>4 DEF b, c
<1> HIDE DEF Below
<1>3. f \in [A -> K]
  <2>1. \A s \in A : Cardinality(Below(s)) \in K
    BY <1>1
  <2> QED BY <2>1
<1>4. ASSUME NEW s \in A, NEW r \in A, f[s] = f[r]
      PROVE  s = r
  <2>1. s \in T /\ r \in T /\ s \in Nat /\ r \in Nat
    OBVIOUS
  <2>2. Cardinality(Below(s)) = Cardinality(Below(r)) /\ Cardinality(Below(s)) \in Nat
    BY <1>1, <1>4
  <2> QED BY <1>2, <2>1, <2>2
<1>5. IsFiniteSet(K) /\ Cardinality(K) = k
  <2>1. /\ IsFiniteSet(0..(k - 1))
        /\ Cardinality(0..(k - 1)) = IF 0 > k - 1 THEN 0 ELSE (k - 1) - 0 + 1
    <3> DEFINE b == k - 1
    <3>1. 0 \in Int /\ b \in Int
      OBVIOUS
    <3> HIDE DEF b
    <3>2. IsFiniteSet(0..b) /\ Cardinality(0..b) = IF 0 > b THEN 0 ELSE b - 0 + 1
      BY <3>1, FS_Interval
    <3> QED BY <3>2 DEF b
  <2> QED BY <2>1
<1> HIDE DEF f, K, A
<1>6. f \in Injection(A, K)
  BY <1>3, <1>4 DEF Injection, IsInjective
<1>7. IsFiniteSet(A) /\ Cardinality(A) <= Cardinality(K)
  BY <1>5, <1>6, FS_Injection
<1>8. Cardinality(A) \in Nat
  BY <1>7, FS_CardinalityType
<1> QED BY <1>5, <1>7, <1>8 DEF A, Below

(* Everything asked for is missing, and of an assembly exactly what misses. *)
Requested(w) ==
  \A r \in w.requests :
    /\ r.sequence \notin DOMAIN w.buffered
    /\ ~w.wrapped => r.sequence \notin w.delivered
    /\ r.sequence \in DOMAIN w.fragments => r.missing = Missing(w.fragments[r.sequence])

Modest(w) == Requested(w) /\ Cardinality(w.requests) <= MaxRepairRequestsPerTick

(* A turn that asks for nothing. *)
LEMMA NothingRequested ==
  ASSUME NEW w, w.requests = {}
  PROVE  Modest(w)
<1>1. Cardinality({}) = 0
  BY FS_EmptySet
<1> QED BY <1>1, WindowAssumption DEF Modest, Requested

(* The head and the assemblies asked for are at most                       *)
(* MaxRepairRequestsPerTick.                                               *)
LEMMA FewRequests ==
  ASSUME NEW w, Sound(w), NEW requests,
         requests = [sequence : IF HeadRequestDue(w) THEN {w.next} ELSE {},
                     missing  : {FragmentIndices}]
                    \cup {[sequence |-> s, missing |-> Missing(w.fragments[s])] :
                            s \in AssembliesAsked(w)}
  PROVE  Cardinality(requests) <= MaxRepairRequestsPerTick
<1> DEFINE h == IF HeadRequestDue(w) THEN 1 ELSE 0
           k == MaxRepairRequestsPerTick - h
           T == AssembliesDue(w)
           A == AssembliesAsked(w)
           Of(s) == [sequence |-> s, missing |-> Missing(w.fragments[s])]
           head == [sequence |-> w.next, missing |-> FragmentIndices]
           heads == IF HeadRequestDue(w) THEN {head} ELSE {}
           tails == {Of(s) : s \in A}
<1>1. h \in 0..1 /\ k \in Nat /\ h + k = MaxRepairRequestsPerTick
  BY WindowAssumption
<1>2. T \in SUBSET Nat /\ IsFiniteSet(T)
  <2> DEFINE M == 0..MaxMediaSequence
  <2>1. T \in SUBSET M /\ M \in SUBSET Nat
    BY WindowAssumption DEF AssembliesDue, Sound, MediaSequences
  <2>2. IsFiniteSet(M)
    BY WindowAssumption, FS_Interval
  <2> HIDE DEF T, M
  <2> QED BY <2>1, <2>2, FS_Subset
<1> HIDE DEF T
<1>3. A = {s \in T : Cardinality({t \in T : t < s}) < k}
  <2>1. \A s \in T : Cardinality({t \in T : t < s}) \in Nat
    <3> SUFFICES ASSUME NEW s \in T PROVE Cardinality({t \in T : t < s}) \in Nat
      OBVIOUS
    <3> DEFINE b == {t \in T : t < s}
    <3>1. b \in SUBSET T
      OBVIOUS
    <3> HIDE DEF b
    <3>2. IsFiniteSet(b)
      BY <1>2, <3>1, FS_Subset
    <3>3. Cardinality(b) \in Nat
      BY <3>2, FS_CardinalityType
    <3> QED BY <3>3 DEF b
  <2>2. A = {s \in T : h + Cardinality({t \in T : t < s}) < MaxRepairRequestsPerTick}
    BY DEF AssembliesAsked, T
  <2> HIDE DEF A, h, k
  <2>3. \A c \in Nat : h + c < MaxRepairRequestsPerTick <=> c < k
    BY <1>1, WindowAssumption
  <2> QED BY <2>1, <2>2, <2>3
<1> HIDE DEF A
<1>4. IsFiniteSet(A) /\ Cardinality(A) \in Nat /\ Cardinality(A) <= k
  BY <1>1, <1>2, <1>3, RankBound
<1>5. IsFiniteSet(tails) /\ Cardinality(tails) <= k
  <2> DEFINE f == [s \in A |-> Of(s)]
  <2>1. f \in Surjection(A, tails)
    BY DEF Surjection
  <2> HIDE DEF f, tails
  <2>2. IsFiniteSet(tails) /\ Cardinality(tails) <= Cardinality(A)
    BY <1>4, <2>1, FS_Surjection
  <2>3. Cardinality(tails) \in Nat
    BY <2>2, FS_CardinalityType
  <2> QED BY <1>1, <1>4, <2>2, <2>3
<1>6. IsFiniteSet(heads) /\ Cardinality(heads) = h
  <2>1. CASE HeadRequestDue(w)
    <3>1. IsFiniteSet({head}) /\ Cardinality({head}) = 1
      BY FS_Singleton, Zenon
    <3> QED BY <2>1, <3>1
  <2>2. CASE ~HeadRequestDue(w)
    BY <2>2, FS_EmptySet
  <2> QED BY <2>1, <2>2
<1> DEFINE all == heads \cup tails
<1>7. requests = all
  <2> DEFINE S == [sequence : {w.next}, missing : {FragmentIndices}]
  <2>1. head \in S /\ \A r \in S : r = head
    OBVIOUS
  <2>2. S = {head}
    BY <2>1, Zenon
  <2>3. [sequence : {}, missing : {FragmentIndices}] = {}
    OBVIOUS
  <2>4. [sequence : IF HeadRequestDue(w) THEN {w.next} ELSE {}, missing : {FragmentIndices}] = heads
    BY <2>2, <2>3
  <2> QED BY <2>4 DEF A
<1> HIDE DEF heads, tails, h, k
<1>8. /\ IsFiniteSet(all)
      /\ Cardinality(all) = Cardinality(heads) + Cardinality(tails) - Cardinality(heads \cap tails)
  BY <1>5, <1>6, FS_Union
<1>9. Cardinality(heads \cap tails) \in Nat
  <2> DEFINE both == heads \cap tails
  <2>1. both \in SUBSET heads
    OBVIOUS
  <2> HIDE DEF both
  <2>2. IsFiniteSet(both)
    BY <1>6, <2>1, FS_Subset
  <2>3. Cardinality(both) \in Nat
    BY <2>2, FS_CardinalityType
  <2> QED BY <2>3 DEF both
<1> DEFINE c == Cardinality(heads \cap tails)
<1>10. /\ Cardinality(heads) \in Nat /\ Cardinality(tails) \in Nat /\ c \in Nat
       /\ Cardinality(all) = Cardinality(heads) + Cardinality(tails) - c
  BY <1>5, <1>6, <1>8, <1>9, FS_CardinalityType
<1> HIDE DEF all, c
<1>11. Cardinality(all) <= h + k
  BY <1>1, <1>5, <1>6, <1>10
<1> QED BY <1>1, <1>7, <1>11

(* What is asked for is still missing when the gap has expired, *)
LEMMA ExpireModest ==
  ASSUME NEW w, DOMAIN w = WindowFields, Modest(w)
  PROVE  Modest(Expire(w))
<1> DEFINE end     == ExpireEnd(w)
           expired == w.next..(end - 1)
           v       == Expire(w)
<1>1. /\ v.buffered = w.buffered
      /\ v.fragments = Without(w.fragments, expired)
      /\ v.requests = w.requests
      /\ v.delivered = Recorded(w, end, w.delivered)
      /\ v.wrapped = (w.wrapped \/ end > MaxMediaSequence)
  BY ExpireFields
<1> HIDE DEF v, end, expired
<1>2. /\ DOMAIN v.fragments \subseteq DOMAIN w.fragments
      /\ \A s \in DOMAIN v.fragments : v.fragments[s] = w.fragments[s]
  BY <1>1 DEF Without, Restrict
<1>3. ~v.wrapped => ~w.wrapped /\ v.delivered = w.delivered
  <2>1. ~v.wrapped => ~w.wrapped /\ ~(end > MaxMediaSequence)
    BY <1>1, Zenon
  <2> QED BY <1>1, <2>1, Zenon DEF Recorded
<1>4. Modest(v)
  BY <1>1, <1>2, <1>3 DEF Modest, Requested
<1> QED BY <1>4 DEF v

(* and when the run behind it has been forwarded. *)
LEMMA DrainModest ==
  ASSUME NEW w, Sound(w), Modest(w)
  PROVE  Modest(Drain(w))
<1> DEFINE end == RunEnd(w)
           run == w.next..(end - 1)
           v   == Drain(w)
<1>1. /\ v.buffered = Without(w.buffered, run)
      /\ v.fragments = w.fragments
      /\ v.requests = w.requests
      /\ v.delivered = Recorded(w, end, w.delivered \cup run)
      /\ v.wrapped = (w.wrapped \/ end > MaxMediaSequence)
  BY DrainFields DEF Sound
<1>2. run \subseteq DOMAIN w.buffered
  BY RunEndIsFirstMissing
<1> HIDE DEF v, end, run
<1>3. DOMAIN v.buffered \subseteq DOMAIN w.buffered
  BY <1>1 DEF Without, Restrict
<1>4. ~v.wrapped => ~w.wrapped /\ v.delivered = w.delivered \cup run
  <2>1. ~v.wrapped => ~w.wrapped /\ ~(end > MaxMediaSequence)
    BY <1>1, Zenon
  <2> QED BY <1>1, <2>1, Zenon DEF Recorded
<1>5. Modest(v)
  BY <1>1, <1>2, <1>3, <1>4 DEF Modest, Requested
<1> QED BY <1>5 DEF v

(* Accepting payloads asks for nothing. *)
LEMMA AcceptRequestsNothing ==
  ASSUME NEW w, DOMAIN w = WindowFields, NEW P
  PROVE  Accept(w, P).requests = w.requests
<1> DEFINE x == [w EXCEPT
                   !.buffered  = With(@, [s \in DOMAIN P |-> [payload |-> P[s], age |-> 0]]),
                   !.fragments = Without(@, DOMAIN P),
                   !.seen      = @ \cup DOMAIN P]
<1>1. DOMAIN x = WindowFields /\ x.requests = w.requests
  BY DEF WindowFields
<1>2. Accept(w, P) = Drain(x)
  BY DEF Accept
<1> HIDE DEF x
<1> QED BY <1>1, <1>2, DrainFields

(* Recovery by parity asks for nothing. *)
LEMMA RecoverRequestsNothing ==
  ASSUME NEW w, Sound(w), NEW v \in RecoverFecReady(w)
  PROVE  v.requests = w.requests
<1>1. ASSUME NEW x, Sound(x), NEW y \in RecoverPass(x)
      PROVE  y.requests = x.requests
  <2>1. PICK R : y = Accept(x, [s \in R |-> {FecPayload[s]}])
    BY DEF RecoverPass
  <2>2. DOMAIN x = WindowFields
    BY <1>1 DEF Sound
  <2> QED BY <2>1, <2>2, AcceptRequestsNothing
<1>2. CASE v \in RecoverPass(w)
  BY <1>1, <1>2
<1>3. CASE v \notin RecoverPass(w)
  <2>1. PICK x \in RecoverPass(w) : v \in RecoverPass(x)
    BY <1>3 DEF RecoverFecReady
  <2>2. Sound(x)
    BY <2>1, RecoverPassSound DEF AtRest
  <2> QED BY <1>1, <2>1, <2>2
<1> QED BY <1>2, <1>3

-----------------------------------------------------------------------------
(* How far a turn moves next when no parity frame recovers anything. *)

(* Nothing pending is beyond b, and next at most just beyond it. *)
Within(w, b) == w.next <= b + 1 /\ \A s \in Pending(w) : s <= b

(* Draining stops at the first sequence that is not pending. *)
LEMMA DrainWithin ==
  ASSUME NEW w, Sound(w), NEW b \in Nat, Within(w, b)
  PROVE  Within(Drain(w), b)
<1> DEFINE end == RunEnd(w)
           run == w.next..(end - 1)
           v   == Drain(w)
<1>1. /\ end \in w.next..(MaxMediaSequence + 1) /\ run \subseteq DOMAIN w.buffered
      /\ w.next \in Nat /\ MaxMediaSequence \in Nat
  BY RunEndIsFirstMissing, WindowAssumption DEF Sound, MediaSequences
<1>2. /\ v.next = Wrap(end)
      /\ v.buffered = Without(w.buffered, run)
      /\ v.fragments = w.fragments
  BY DrainFields DEF Sound
<1> HIDE DEF v, end
<1>3. DOMAIN v.buffered \subseteq DOMAIN w.buffered
  BY <1>2 DEF Without, Restrict
<1>4. Pending(v) \subseteq Pending(w)
  BY <1>2, <1>3 DEF Pending
<1>5. end <= b + 1
  <2>1. CASE end = w.next
    BY <2>1 DEF Within
  <2>2. CASE end # w.next
    <3>1. end - 1 \in run
      BY <1>1, <2>2
    <3>2. end - 1 \in Pending(w)
      BY <1>1, <3>1 DEF Pending
    <3> QED BY <1>1, <3>2 DEF Within
  <2> QED BY <2>1, <2>2
<1>6. v.next <= b + 1
  BY <1>1, <1>2, <1>5 DEF Wrap
<1> QED BY <1>4, <1>6 DEF Within, v

(* The expiry stops at the latest behind the last that is pending. *)
LEMMA ExpireWithin ==
  ASSUME NEW w, Sound(w), NEW b \in Nat, Within(w, b)
  PROVE  Within(Expire(w), b)
<1> DEFINE end     == ExpireEnd(w)
           expired == w.next..(end - 1)
           v       == Expire(w)
<1>1. /\ end \in w.next..(MaxMediaSequence + 1)
      /\ \A s \in expired : ~ExpireStopsAt(w, s)
      /\ w.next \in Nat /\ MaxMediaSequence \in Nat
  BY ExpireEndIsFirstStop, WindowAssumption DEF Sound, MediaSequences
<1>2. /\ v.next = Wrap(end)
      /\ v.buffered = w.buffered
      /\ v.fragments = Without(w.fragments, expired)
  BY ExpireFields DEF Sound
<1> HIDE DEF v, end
<1>3. DOMAIN v.fragments \subseteq DOMAIN w.fragments
  BY <1>2 DEF Without, Restrict
<1>4. Pending(v) \subseteq Pending(w)
  BY <1>2, <1>3 DEF Pending
<1>5. end <= b + 1
  <2>1. CASE end = w.next
    BY <2>1 DEF Within
  <2>2. CASE end # w.next
    <3>1. end - 1 \in expired
      BY <1>1, <2>2
    <3>2. ~ExpireStopsAt(w, end - 1)
      BY <1>1, <3>1
    <3>3. PICK t \in Pending(w) : t >= end - 1
      <4>1. CASE end - 1 \in Pending(w)
        <5>1. end - 1 >= end - 1
          BY <1>1
        <5> QED BY <4>1, <5>1
      <4>2. CASE end - 1 \notin Pending(w)
        BY <3>2, <4>2 DEF ExpireStopsAt
      <4> QED BY <4>1, <4>2
    <3>4. t \in Nat
      BY WindowAssumption DEF Sound, Pending, MediaSequences
    <3> QED BY <1>1, <3>3, <3>4 DEF Within
  <2> QED BY <2>1, <2>2
<1>6. v.next <= b + 1
  BY <1>1, <1>2, <1>5 DEF Wrap
<1> QED BY <1>4, <1>6 DEF Within, v

(* Accepting payloads of sequences up to b stays within b. *)
LEMMA AcceptWithin ==
  ASSUME NEW w, Sound(w), NEW b \in Nat, Within(w, b),
         NEW P, DOMAIN P \subseteq w.next..MaxMediaSequence, \A s \in DOMAIN P : s <= b
  PROVE  Within(Accept(w, P), b)
<1> DEFINE B == [s \in DOMAIN P |-> [payload |-> P[s], age |-> 0]]
           x == [w EXCEPT !.buffered  = With(@, B),
                          !.fragments = Without(@, DOMAIN P),
                          !.seen      = @ \cup DOMAIN P]
<1>1. /\ DOMAIN x = WindowFields
      /\ x.next = w.next
      /\ x.buffered = With(w.buffered, B)
      /\ x.fragments = Without(w.fragments, DOMAIN P)
      /\ x.seen = w.seen \cup DOMAIN P
      /\ x.gap = w.gap
  BY DEF Sound, WindowFields
<1>2. DOMAIN B = DOMAIN P
  OBVIOUS
<1>3. Accept(w, P) = Drain(x)
  BY DEF Accept
<1> HIDE DEF x, B
<1>4. /\ DOMAIN x.buffered = DOMAIN w.buffered \cup DOMAIN P
      /\ DOMAIN x.fragments = DOMAIN w.fragments \ DOMAIN P
  BY <1>1, <1>2 DEF With, Without, Restrict
<1>5. Sound(x)
  BY <1>1, <1>4 DEF Sound
<1>6. Within(x, b)
  BY <1>1, <1>4 DEF Within, Pending
<1> QED BY <1>3, <1>5, <1>6, DrainWithin

(* Without parity frames, advance_reorder_window stays within b. *)
LEMMA AdvanceWithin ==
  ASSUME DOMAIN FecPayload = {}, NEW b \in Nat, NEW W, NEW v \in Advance(W),
         \A w \in W : Sound(w) /\ Within(w, b)
  PROVE  Within(v, b)
<1> DEFINE R == UNION {RecoverFecReady(w) : w \in W}
<1>1. PICK x \in RepairsAsked(R) : v = Drain(Expire(x))
  BY DEF Advance
<1>2. ASSUME NEW w, Sound(w), Within(w, b), NEW y \in RecoverPass(w)
      PROVE  Sound(y) /\ Within(y, b)
  <2>1. PICK S \in SUBSET Recoverable(w) : y = Accept(w, [s \in S |-> {FecPayload[s]}])
    BY DEF RecoverPass
  <2> DEFINE P == [s \in S |-> {FecPayload[s]}]
  <2>2. DOMAIN P = {}
    BY DEF Recoverable
  <2> HIDE DEF P
  <2>3. AtRest(Accept(w, P)) /\ Within(Accept(w, P), b)
    BY <1>2, <2>2, AcceptSound, AcceptWithin
  <2> QED BY <2>1, <2>3 DEF P, AtRest
<1>3. ASSUME NEW w \in W, NEW r \in RecoverFecReady(w)
      PROVE  Sound(r) /\ Within(r, b)
  <2>1. CASE r \in RecoverPass(w)
    BY <1>2, <2>1
  <2>2. CASE r \notin RecoverPass(w)
    <3>1. PICK y \in RecoverPass(w) : r \in RecoverPass(y)
      BY <2>2 DEF RecoverFecReady
    <3> QED BY <1>2, <3>1
  <2> QED BY <2>1, <2>2
<1>4. \A r \in R : Sound(r) /\ Within(r, b)
  BY <1>3
<1> HIDE DEF R
<1>5. Sound(x) /\ Within(x, b)
  <2>1. CASE x \in R
    BY <1>4, <2>1
  <2>2. CASE x \notin R
    <3>1. PICK r \in R : x = RequestDueRepairs(r)
      BY <1>1, <2>2 DEF RepairsAsked
    <3>2. Sound(r) /\ Within(r, b)
      BY <1>4
    <3>3. x.next = r.next /\ x.buffered = r.buffered /\ DOMAIN x.fragments = DOMAIN r.fragments
      BY <3>1, <3>2 DEF RequestDueRepairs, Sound, WindowFields
    <3> QED BY <3>1, <3>2, <3>3, RequestDueRepairsSound DEF Within, Pending
  <2> QED BY <2>1, <2>2
<1>6. Sound(Expire(x)) /\ Within(Expire(x), b)
  BY <1>5, ExpireSound, ExpireWithin
<1> QED BY <1>1, <1>6, DrainWithin

-----------------------------------------------------------------------------
(* The list of skipped sequences. *)

Skips == INSTANCE Induction WITH Op <- InsertSkipped

(* l holds the latest SkippedTrackLimit of the sequences in S, in ascending *)
(* order.                                                                  *)
Latest(l, S) ==
  /\ l \in Seq(Nat) /\ S \subseteq Nat /\ IsFiniteSet(S)
  /\ \A i \in 1..Len(l) : l[i] \in S
  /\ \A j \in 1..Len(l) : \A i \in 1..(j - 1) : l[i] < l[j]
  /\ \A t \in S : (\A i \in 1..Len(l) : l[i] # t) => \A i \in 1..Len(l) : t < l[i]
  /\ Len(l) = Cardinality(S) \/ (Len(l) = SkippedTrackLimit /\ Len(l) <= Cardinality(S))
  /\ Len(l) <= SkippedTrackLimit

(* Skipping a sequence beyond all of S keeps that. *)
LEMMA InsertLatest ==
  ASSUME NEW l, NEW S, Latest(l, S), NEW x \in Nat, \A t \in S : t < x
  PROVE  Latest(InsertSkipped(l, x), S \cup {x})
<1> DEFINE n == Len(l)
           o == Append(l, x)
           r == InsertSkipped(l, x)
           T == S \cup {x}
<1>1. /\ n \in Nat /\ SkippedTrackLimit \in Nat /\ l \in Seq(Nat) /\ Cardinality(S) \in Nat
      /\ \A i \in 1..n : l[i] \in S /\ l[i] \in Nat /\ l[i] < x
      /\ n <= SkippedTrackLimit
  BY WindowAssumption, FS_CardinalityType DEF Latest
<1>2. x \notin S
  BY DEF Latest
<1>3. ~Contains(l, x)
  BY <1>1, <1>2 DEF Contains
<1>4. /\ o \in Seq(Nat) /\ Len(o) = n + 1
      /\ \A i \in 1..n : o[i] = l[i]
      /\ o[n + 1] = x
  BY <1>1
<1>5. r = IF n + 1 > SkippedTrackLimit THEN Tail(o) ELSE o
  BY <1>3, <1>4 DEF InsertSkipped
<1>6. T \subseteq Nat /\ IsFiniteSet(T) /\ Cardinality(T) = Cardinality(S) + 1
  BY <1>2, FS_AddElement DEF Latest
<1>7. /\ \A j \in 1..n : \A i \in 1..(j - 1) : l[i] < l[j]
      /\ \A t \in S : (\A i \in 1..n : l[i] # t) => \A i \in 1..n : t < l[i]
      /\ n = Cardinality(S) \/ (n = SkippedTrackLimit /\ n <= Cardinality(S))
  BY DEF Latest
<1> HIDE DEF n, o, r, T
<1>8. CASE n + 1 <= SkippedTrackLimit
  <2>1. r = o /\ Len(r) = n + 1 /\ Len(r) = Cardinality(T)
    BY <1>1, <1>4, <1>5, <1>6, <1>7, <1>8
  <2>2. \A i \in 1..(n + 1) : r[i] = IF i = n + 1 THEN x ELSE l[i]
    <3>1. \A i \in 1..(n + 1) : i = n + 1 \/ i \in 1..n
      BY <1>1
    <3> QED BY <1>4, <2>1, <3>1
  <2>3. \A i \in 1..(n + 1) : r[i] \in T
    BY <1>1, <2>2 DEF T
  <2>4. ASSUME NEW j \in 1..(n + 1), NEW i \in 1..(j - 1) PROVE r[i] < r[j]
    <3>1. i \in 1..n
      BY <1>1
    <3> QED BY <1>1, <1>7, <2>2, <3>1
  <2>5. ASSUME NEW t \in T, \A i \in 1..(n + 1) : r[i] # t, NEW i \in 1..(n + 1)
        PROVE  t < r[i]
    <3>1. r[n + 1] = x /\ n + 1 \in 1..(n + 1)
      BY <1>1, <2>2
    <3>2. t # x /\ t \in S
      BY <2>5, <3>1 DEF T
    <3>3. \A k \in 1..n : l[k] # t
      <4>1. \A k \in 1..n : k \in 1..(n + 1) /\ r[k] = l[k]
        BY <1>1, <2>2
      <4> QED BY <2>5, <4>1
    <3>4. CASE i = n + 1
      BY <3>1, <3>2, <3>4
    <3>5. CASE i # n + 1
      <4>1. i \in 1..n
        BY <1>1, <3>5
      <4> QED BY <1>7, <2>2, <3>2, <3>3, <3>5, <4>1
    <3> QED BY <3>4, <3>5
  <2>6. Latest(r, T)
    BY <1>4, <1>6, <1>8, <2>1, <2>3, <2>4, <2>5 DEF Latest
  <2> QED BY <2>6 DEF r, T
<1>9. CASE n + 1 > SkippedTrackLimit
  <2>1. n = SkippedTrackLimit /\ r = Tail(o) /\ n <= Cardinality(S)
    BY <1>1, <1>5, <1>7, <1>9
  <2>2. r \in Seq(Nat) /\ Len(r) = n /\ \A i \in 1..n : r[i] = o[i + 1]
    BY <1>1, <1>4, <2>1
  <2>3. \A i \in 1..n : i + 1 \in 1..n \/ i = n
    BY <1>1
  <2>4. \A i \in 1..n : r[i] = IF i = n THEN x ELSE l[i + 1]
    BY <1>1, <1>4, <2>2, <2>3
  <2>5. \A i \in 1..n : r[i] \in T
    BY <1>1, <2>3, <2>4 DEF T
  <2>6. ASSUME NEW j \in 1..n, NEW i \in 1..(j - 1) PROVE r[i] < r[j]
    <3>1. i \in 1..n /\ i + 1 \in 1..n /\ i # n
      BY <1>1
    <3>2. r[i] = l[i + 1]
      BY <2>4, <3>1
    <3>3. CASE j = n
      BY <1>1, <2>4, <3>1, <3>2, <3>3
    <3>4. CASE j # n
      <4>1. j + 1 \in 1..n /\ i + 1 \in 1..((j + 1) - 1)
        BY <1>1, <3>1, <3>4
      <4>2. l[i + 1] < l[j + 1]
        BY <1>7, <4>1
      <4> QED BY <2>4, <3>2, <3>4, <4>2
    <3> QED BY <3>3, <3>4
  <2>7. ASSUME NEW t \in T, \A i \in 1..n : r[i] # t, NEW i \in 1..n
        PROVE  t < r[i]
    <3>1. n \in 1..n /\ r[n] = x
      BY <1>1, <2>4
    <3>2. t # x /\ t \in S /\ t < x
      BY <2>7, <3>1 DEF T
    <3>3. CASE i = n
      BY <3>1, <3>2, <3>3
    <3>4. CASE i # n
      <4>1. i + 1 \in 1..n /\ r[i] = l[i + 1]
        BY <1>1, <2>4, <3>4
      <4>2. CASE t = l[1]
        <5>1. 1 \in 1..((i + 1) - 1)
          BY <1>1
        <5> QED BY <1>7, <4>1, <4>2, <5>1
      <4>3. CASE t # l[1]
        <5>1. ASSUME NEW k \in 1..n PROVE l[k] # t
          <6>1. CASE k = 1
            BY <4>3, <6>1
          <6>2. CASE k # 1
            <7>1. k - 1 \in 1..n /\ k - 1 # n /\ (k - 1) + 1 = k
              BY <1>1, <6>2
            <7> QED BY <2>4, <2>7, <7>1
          <6> QED BY <6>1, <6>2
        <5> QED BY <1>7, <3>2, <4>1, <5>1
      <4> QED BY <4>2, <4>3
    <3> QED BY <3>3, <3>4
  <2>8. Len(r) = SkippedTrackLimit /\ Len(r) <= Cardinality(T)
    BY <1>1, <1>6, <2>1, <2>2
  <2>9. Latest(r, T)
    BY <1>1, <1>6, <2>1, <2>2, <2>5, <2>6, <2>7, <2>8 DEF Latest
  <2> QED BY <2>9 DEF r, T
<1> QED BY <1>1, <1>8, <1>9

(* So does skipping n sequences from a on, one after another. *)
LEMMA FoldLatest ==
  ASSUME NEW l, NEW S, Latest(l, S), NEW a \in Nat, NEW n \in Nat, \A t \in S : t < a
  PROVE  Latest(FoldLeft(InsertSkipped, l, [i \in 1..n |-> a + i - 1]), S \cup a..(a + n - 1))
<1> DEFINE s == [i \in 1..n |-> a + i - 1]
<1>1. DOMAIN s = 1..n
  OBVIOUS
<1>2. Skips!Folded(l, s) = FoldLeft(InsertSkipped, l, s)
  BY DEF Skips!Folded, Skips!FoldLeft, FoldLeft, Skips!MapThenFoldSet, MapThenFoldSet,
         Skips!Max, Max
<1>3. \A k \in 1..n : s[k] = a + k - 1
  OBVIOUS
<1> HIDE DEF s
<1> DEFINE g == Skips!Trace(n, l, s)
<1>4. /\ g[0] = l
      /\ g[n] = Skips!Folded(l, s)
      /\ \A k \in 1..n : g[k] = InsertSkipped(g[k - 1], s[k])
  <2>1. Skips!IsTrace(Skips!Trace(n, l, s), n, l, s)
    BY <1>1, Skips!FoldTrace
  <2> QED BY <2>1 DEF Skips!IsTrace
<1> HIDE DEF g
<1> DEFINE H == {k \in 0..n : Latest(g[k], S \cup a..(a + k - 1))}
<1>5. 0 \in H
  <2>1. S \cup a..(a + 0 - 1) = S
    OBVIOUS
  <2>2. 0 \in 0..n
    OBVIOUS
  <2> QED BY <1>4, <2>1, <2>2
<1>6. ASSUME NEW k \in 0..(n - 1), k \in H PROVE k + 1 \in H
  <2> DEFINE U == S \cup a..(a + k - 1)
  <2>1. Latest(g[k], U) /\ a + k \in Nat /\ k + 1 \in 1..n /\ (k + 1) - 1 = k
    BY <1>6
  <2>2. \A t \in U : t < a + k
    BY DEF Latest
  <2>3. S \cup a..(a + (k + 1) - 1) = U \cup {a + k}
    OBVIOUS
  <2>4. g[k + 1] = InsertSkipped(g[k], a + k)
    <3>1. s[k + 1] = a + k
      BY <1>3, <2>1
    <3> QED BY <1>4, <2>1, <3>1
  <2> HIDE DEF U
  <2>5. Latest(g[k + 1], U \cup {a + k})
    BY <2>1, <2>2, <2>4, InsertLatest
  <2> QED BY <2>1, <2>3, <2>5
<1>7. H \in SUBSET Nat
  OBVIOUS
<1> HIDE DEF H
<1>8. n \in H
  BY <1>5, <1>6, <1>7, UpTo
<1>9. Latest(g[n], S \cup a..(a + n - 1))
  BY <1>8 DEF H
<1> QED BY <1>2, <1>4, <1>9 DEF s

(* Until next wraps, the list of a window holds the latest of its skips. *)
ListLatest(w) == w.wrapped = FALSE => Latest(w.skipped, w.skips)

(* Draining skips nothing. *)
LEMMA DrainLatest ==
  ASSUME NEW w, Sound(w), w.wrapped \in BOOLEAN, ListLatest(w)
  PROVE  ListLatest(Drain(w))
<1> DEFINE v == Drain(w)
           end == RunEnd(w)
<1>1. /\ v.skipped = w.skipped
      /\ v.skips = Recorded(w, end, w.skips)
      /\ v.wrapped = (w.wrapped \/ end > MaxMediaSequence)
  BY DEF Drain, Sound, WindowFields
<1>2. end \in Int
  BY RunEndIsFirstMissing, WindowAssumption DEF Sound, MediaSequences
<1> HIDE DEF v, end
<1>3. v.wrapped = FALSE => w.wrapped = FALSE /\ Recorded(w, end, w.skips) = w.skips
  <2>1. v.wrapped = (w.wrapped \/ end > MaxMediaSequence)
    BY <1>1, Zenon
  <2>2. v.wrapped = FALSE => w.wrapped = FALSE /\ ~(end > MaxMediaSequence)
    BY <2>1, Zenon
  <2> QED BY <2>2, Zenon DEF Recorded
<1> QED BY <1>1, <1>3 DEF ListLatest, v

(* Nor does accepting payloads. *)
LEMMA AcceptLatest ==
  ASSUME NEW w, Sound(w), w.wrapped \in BOOLEAN, ListLatest(w),
         NEW P, DOMAIN P \subseteq w.next..MaxMediaSequence
  PROVE  ListLatest(Accept(w, P))
<1> DEFINE B == [s \in DOMAIN P |-> [payload |-> P[s], age |-> 0]]
           x == [w EXCEPT !.buffered  = With(@, B),
                          !.fragments = Without(@, DOMAIN P),
                          !.seen      = @ \cup DOMAIN P]
<1>1. /\ DOMAIN x = WindowFields
      /\ x.next = w.next
      /\ x.buffered = With(w.buffered, B)
      /\ x.fragments = Without(w.fragments, DOMAIN P)
      /\ x.seen = w.seen \cup DOMAIN P
      /\ x.gap = w.gap
      /\ x.skipped = w.skipped /\ x.skips = w.skips /\ x.wrapped = w.wrapped
  BY DEF Sound, WindowFields
<1>2. DOMAIN B = DOMAIN P
  OBVIOUS
<1>3. Accept(w, P) = Drain(x)
  BY DEF Accept
<1> HIDE DEF x, B
<1>4. /\ DOMAIN x.buffered = DOMAIN w.buffered \cup DOMAIN P
      /\ DOMAIN x.fragments = DOMAIN w.fragments \ DOMAIN P
  BY <1>1, <1>2 DEF With, Without, Restrict
<1>5. Sound(x)
  BY <1>1, <1>4 DEF Sound
<1>6. ListLatest(x)
  BY <1>1 DEF ListLatest
<1> QED BY <1>1, <1>3, <1>5, <1>6, DrainLatest

(* Expiry adds what it skips, in order. *)
LEMMA ExpireLatest ==
  ASSUME NEW w, Sound(w), Accounted(w), ListLatest(w)
  PROVE  ListLatest(Expire(w))
<1> DEFINE v == Expire(w)
           end == ExpireEnd(w)
           n == end - w.next
<1>1. /\ v.skipped = FoldLeft(InsertSkipped, w.skipped, [i \in 1..n |-> w.next + i - 1])
      /\ v.skips = Recorded(w, end, w.skips \cup w.next..(end - 1))
      /\ v.wrapped = (w.wrapped \/ end > MaxMediaSequence)
  BY DEF Expire, Sound, WindowFields
<1>2. w.next \in Nat /\ end \in Int /\ n \in Nat /\ w.next + n - 1 = end - 1
  BY ExpireEndIsFirstStop, WindowAssumption DEF Sound, MediaSequences
<1> HIDE DEF v, end, n
<1>3. v.wrapped = FALSE =>
        /\ w.wrapped = FALSE
        /\ Recorded(w, end, w.skips \cup w.next..(end - 1)) = w.skips \cup w.next..(end - 1)
  <2>1. v.wrapped = (w.wrapped \/ end > MaxMediaSequence) /\ w.wrapped \in BOOLEAN
    BY <1>1, Zenon DEF Accounted
  <2>2. v.wrapped = FALSE => w.wrapped = FALSE /\ ~(end > MaxMediaSequence)
    BY <2>1, Zenon
  <2> QED BY <2>2, Zenon DEF Recorded
<1>4. w.wrapped = FALSE => \A t \in w.skips : t < w.next
  <2>1. w.wrapped = FALSE => w.skips \subseteq w.start..(w.next - 1)
    BY DEF Accounted
  <2> QED BY <1>2, <2>1 DEF Accounted
<1>5. ASSUME w.wrapped = FALSE
      PROVE  Latest(v.skipped, w.skips \cup w.next..(w.next + n - 1))
  <2> DEFINE l == w.skipped
             S == w.skips
             a == w.next
  <2>1. Latest(l, S) /\ a \in Nat /\ n \in Nat /\ \A t \in S : t < a
    BY <1>2, <1>4, <1>5 DEF ListLatest
  <2>2. v.skipped = FoldLeft(InsertSkipped, l, [i \in 1..n |-> a + i - 1])
    BY <1>1
  <2> HIDE DEF l, S, a
  <2>3. Latest(FoldLeft(InsertSkipped, l, [i \in 1..n |-> a + i - 1]), S \cup a..(a + n - 1))
    BY <2>1, FoldLatest
  <2> QED BY <2>2, <2>3, Zenon DEF S, a
<1> QED BY <1>1, <1>2, <1>3, <1>5 DEF ListLatest, v

(* So advance_reorder_window keeps the list. *)
LEMMA AdvanceLatest ==
  ASSUME NEW W, NEW v \in Advance(W), \A w \in W : Sound(w) /\ Accounted(w) /\ ListLatest(w)
  PROVE  ListLatest(v)
<1> DEFINE R == UNION {RecoverFecReady(w) : w \in W}
           Good(x) == Sound(x) /\ Accounted(x) /\ ListLatest(x)
<1>1. PICK x \in RepairsAsked(R) : v = Drain(Expire(x))
  BY DEF Advance
<1>2. ASSUME NEW w, Good(w), NEW y \in RecoverPass(w) PROVE Good(y)
  <2>1. PICK S \in SUBSET Recoverable(w) : y = Accept(w, [s \in S |-> {FecPayload[s]}])
    BY DEF RecoverPass
  <2> DEFINE P == [s \in S |-> {FecPayload[s]}]
  <2>2. S \subseteq w.next..MaxMediaSequence
    BY <1>2, WindowAssumption DEF Recoverable, Sound, MediaSequences
  <2>3. DOMAIN P \subseteq w.next..MaxMediaSequence
    BY <2>2
  <2> HIDE DEF P
  <2>4. ListLatest(Accept(w, P))
    BY <1>2, <2>3, AcceptLatest DEF Accounted
  <2> QED BY <1>2, <2>1, <2>4, RecoverPassSound DEF P, AtRest
<1>3. ASSUME NEW w \in W, NEW r \in RecoverFecReady(w) PROVE Good(r)
  <2>1. CASE r \in RecoverPass(w)
    BY <1>2, <2>1
  <2>2. CASE r \notin RecoverPass(w)
    <3>1. PICK y \in RecoverPass(w) : r \in RecoverPass(y)
      BY <2>2 DEF RecoverFecReady
    <3> QED BY <1>2, <3>1
  <2> QED BY <2>1, <2>2
<1>4. \A r \in R : Good(r)
  BY <1>3
<1> HIDE DEF R
<1>5. Good(x)
  <2>1. CASE x \in R
    BY <1>4, <2>1
  <2>2. CASE x \notin R
    <3>1. PICK r \in R : x = RequestDueRepairs(r)
      BY <1>1, <2>2 DEF RepairsAsked
    <3>2. Good(r)
      BY <1>4
    <3>3. x.skipped = r.skipped /\ x.skips = r.skips /\ x.wrapped = r.wrapped
      BY <3>1, <3>2 DEF RequestDueRepairs, Sound, WindowFields
    <3> QED BY <3>1, <3>2, <3>3, RequestDueRepairsSound DEF ListLatest
  <2> QED BY <2>1, <2>2
<1>6. Sound(Expire(x)) /\ Accounted(Expire(x)) /\ ListLatest(Expire(x))
  BY <1>5, ExpireSound, ExpireLatest
<1> QED BY <1>1, <1>6, DrainLatest DEF Accounted

-----------------------------------------------------------------------------
(* Accepting one recovered packet after another. *)

(* The packets that parity reconstructs under the sequences R. *)
Reconstructed(R) == [s \in R |-> {FecPayload[s]}]

(* Where the head is once they are accepted. *)
AcceptEnd(w, R) == Min((w.next..(MaxMediaSequence + 1)) \ (DOMAIN w.buffered \cup R))

(* What is buffered before the head moves. *)
Arrived(s) == [payload |-> {FecPayload[s]}, age |-> 0]

BufferedWith(w, R) == With(w.buffered, [s \in R |-> Arrived(s)])

(* What the head passes, and what is forwarded. *)
AcceptRun(w, R) == w.next..(AcceptEnd(w, R) - 1)

AcceptOut(w, R) ==
  [i \in 1..(AcceptEnd(w, R) - w.next) |->
     [sequence |-> w.next + i - 1, payload |-> BufferedWith(w, R)[w.next + i - 1].payload]]

(* What accepting them does to the fields of w. *)
IsAccept(v, w, R) ==
  /\ v = [field \in WindowFields |-> v[field]]
  /\ v.next = Wrap(AcceptEnd(w, R))
  /\ v.buffered = Without(BufferedWith(w, R), AcceptRun(w, R))
  /\ v.fragments = Without(w.fragments, R)
  /\ v.seen = (w.seen \cup R) \ AcceptRun(w, R)
  /\ v.skipped = w.skipped
  /\ v.gap = Without(w.gap, AcceptRun(w, R))
  /\ v.out = w.out \o AcceptOut(w, R)
  /\ v.requests = w.requests
  /\ v.start = w.start
  /\ v.delivered = Recorded(w, AcceptEnd(w, R), w.delivered \cup AcceptRun(w, R))
  /\ v.skips = Recorded(w, AcceptEnd(w, R), w.skips)
  /\ v.wrapped = (w.wrapped \/ AcceptEnd(w, R) > MaxMediaSequence)

(* A window is a record, its maps are maps, and there is no history after  *)
(* next has wrapped.                                                       *)
Formed(w) ==
  /\ w = [field \in WindowFields |-> w[field]]
  /\ w.buffered = [s \in DOMAIN w.buffered |-> w.buffered[s]]
  /\ w.fragments = [s \in DOMAIN w.fragments |-> w.fragments[s]]
  /\ w.gap = [s \in DOMAIN w.gap |-> w.gap[s]]
  /\ \E Packets : w.out \in Seq(Packets)
  /\ w.wrapped \in BOOLEAN
  /\ w.wrapped = TRUE => w.delivered = {} /\ w.skips = {}

(* Two windows with equal fields are equal. *)
LEMMA SameWindow ==
  ASSUME NEW v, v = [field \in WindowFields |-> v[field]],
         NEW w, w = [field \in WindowFields |-> w[field]],
         v.next = w.next, v.buffered = w.buffered, v.fragments = w.fragments,
         v.seen = w.seen, v.skipped = w.skipped, v.gap = w.gap, v.out = w.out,
         v.requests = w.requests, v.start = w.start, v.delivered = w.delivered,
         v.skips = w.skips, v.wrapped = w.wrapped
  PROVE  v = w
<1>1. \A field \in WindowFields : v[field] = w[field]
  BY DEF WindowFields
<1> HIDE DEF WindowFields
<1> QED BY <1>1

(* The first sequence from next on that is neither buffered nor accepted. *)
LEMMA AcceptEndIsFirstMissing ==
  ASSUME NEW w, Sound(w), NEW R \in SUBSET (w.next..MaxMediaSequence)
  PROVE  /\ AcceptEnd(w, R) \in w.next..(MaxMediaSequence + 1)
         /\ AcceptEnd(w, R) \notin DOMAIN w.buffered \cup R
         /\ w.next..(AcceptEnd(w, R) - 1) \subseteq DOMAIN w.buffered \cup R
         /\ \A t \in w.next..(MaxMediaSequence + 1) :
              t \notin DOMAIN w.buffered \cup R => AcceptEnd(w, R) <= t
<1> DEFINE B == DOMAIN w.buffered \cup R
           T == (w.next..(MaxMediaSequence + 1)) \ B
<1>1. w.next \in Nat /\ MaxMediaSequence \in Nat /\ w.next <= MaxMediaSequence
  BY WindowAssumption DEF Sound, MediaSequences
<1>2. B \subseteq w.next..MaxMediaSequence
  BY DEF Sound
<1> HIDE DEF B
<1>3. T \in SUBSET Nat /\ MaxMediaSequence + 1 \in T
  BY <1>1, <1>2
<1>4. Min(T) \in T /\ \A y \in T : Min(T) <= y
  BY <1>3, MinOfNaturals, Zenon
<1>5. AcceptEnd(w, R) = Min(T)
  BY DEF AcceptEnd, B
<1>6. ASSUME NEW s \in w.next..(Min(T) - 1), s \notin B PROVE FALSE
  <2>1. s \in T
    BY <1>1, <1>4, <1>6
  <2>2. Min(T) <= s
    BY <1>4, <2>1
  <2>3. Min(T) \in Nat
    BY <1>3, <1>4
  <2> QED BY <1>1, <2>2, <2>3
<1>7. ASSUME NEW t \in w.next..(MaxMediaSequence + 1), t \notin B PROVE Min(T) <= t
  BY <1>4, <1>7
<1> QED BY <1>4, <1>5, <1>6, <1>7 DEF B

(* Accepting them does that. *)
LEMMA AcceptFields ==
  ASSUME NEW w, DOMAIN w = WindowFields, NEW R
  PROVE  IsAccept(Accept(w, Reconstructed(R)), w, R)
<1> DEFINE P == Reconstructed(R)
           B == [s \in DOMAIN P |-> [payload |-> P[s], age |-> 0]]
           u == [w EXCEPT !.buffered  = With(@, B),
                          !.fragments = Without(@, DOMAIN P),
                          !.seen      = @ \cup DOMAIN P]
           v == Drain(u)
           end == RunEnd(u)
           run == u.next..(end - 1)
<1>1. Accept(w, P) = v
  BY DEF Accept
<1>2. DOMAIN P = R /\ \A s \in R : P[s] = {FecPayload[s]}
  BY DEF Reconstructed
<1>3. With(w.buffered, B) = BufferedWith(w, R)
  <2> HIDE DEF P
  <2>1. B = [s \in R |-> Arrived(s)]
    BY <1>2 DEF Arrived
  <2> QED BY <2>1 DEF BufferedWith
<1> HIDE DEF P, B
<1>4. /\ DOMAIN u = WindowFields
      /\ u.next = w.next /\ u.buffered = BufferedWith(w, R)
      /\ u.fragments = Without(w.fragments, R) /\ u.seen = w.seen \cup R
      /\ u.skipped = w.skipped /\ u.gap = w.gap /\ u.out = w.out
      /\ u.requests = w.requests /\ u.start = w.start
      /\ u.delivered = w.delivered /\ u.skips = w.skips /\ u.wrapped = w.wrapped
  BY <1>2, <1>3 DEF WindowFields
<1>5. DOMAIN BufferedWith(w, R) = DOMAIN w.buffered \cup R
  BY DEF BufferedWith, With
<1>6. end = AcceptEnd(w, R)
  <2> HIDE DEF u
  <2> QED BY <1>4, <1>5 DEF RunEnd, AcceptEnd
<1> HIDE DEF u
<1>7. /\ v = [field \in WindowFields |-> v[field]]
      /\ v.next = Wrap(end)
      /\ v.buffered = Without(u.buffered, run)
      /\ v.fragments = u.fragments
      /\ v.seen = u.seen \ run
      /\ v.skipped = u.skipped
      /\ v.gap = Without(u.gap, run)
      /\ v.requests = u.requests
      /\ v.start = u.start
  BY <1>4 DEF Drain, WindowFields
<1>8. /\ v.out = u.out \o [i \in 1..(end - u.next) |->
                             [sequence |-> u.next + i - 1,
                              payload  |-> u.buffered[u.next + i - 1].payload]]
      /\ v.delivered = Recorded(u, end, u.delivered \cup run)
      /\ v.skips = Recorded(u, end, u.skips)
      /\ v.wrapped = (u.wrapped \/ end > MaxMediaSequence)
  BY <1>4, DrainFields
<1> HIDE DEF v, end
<1>9. Recorded(u, end, u.delivered \cup run) = Recorded(w, end, w.delivered \cup run)
      /\ Recorded(u, end, u.skips) = Recorded(w, end, w.skips)
  BY <1>4 DEF Recorded
<1>10. run = AcceptRun(w, R)
  BY <1>4, <1>6 DEF AcceptRun
<1>11. [i \in 1..(end - u.next) |->
          [sequence |-> u.next + i - 1, payload |-> u.buffered[u.next + i - 1].payload]]
         = AcceptOut(w, R)
  BY <1>4, <1>6 DEF AcceptOut
<1>12. v.out = w.out \o AcceptOut(w, R)
  BY <1>4, <1>8, <1>11, Zenon
<1>13. /\ v = [field \in WindowFields |-> v[field]]
       /\ v.delivered = Recorded(w, end, w.delivered \cup AcceptRun(w, R))
       /\ v.skips = Recorded(w, end, w.skips)
  BY <1>7, <1>8, <1>9, <1>10, Zenon
<1>14. IsAccept(v, w, R)
  BY <1>4, <1>6, <1>7, <1>8, <1>10, <1>12, <1>13, Zenon DEF IsAccept
<1> QED BY <1>1, <1>14 DEF P

(* Accepting nothing changes nothing. *)
LEMMA AcceptNothing ==
  ASSUME NEW w, AtRest(w), Formed(w)
  PROVE  Accept(w, Reconstructed({})) = w
<1> DEFINE end == AcceptEnd(w, {})
           run == w.next..(end - 1)
           b == BufferedWith(w, {})
           v == Accept(w, Reconstructed({}))
<1>1. Sound(w) /\ DOMAIN w = WindowFields /\ w.next \in Nat /\ MaxMediaSequence \in Nat
      /\ w.next <= MaxMediaSequence
  BY WindowAssumption DEF AtRest, Sound, MediaSequences
<1>2. end = w.next
  <2>1. end \in w.next..(MaxMediaSequence + 1) /\ end <= w.next
    BY <1>1, AcceptEndIsFirstMissing DEF AtRest
  <2> HIDE DEF end
  <2> QED BY <1>1, <2>1
<1>3. run = {}
  BY <1>1, <1>2
<1>4. /\ v = [field \in WindowFields |-> v[field]]
      /\ v.next = Wrap(end)
      /\ v.buffered = Without(b, run)
      /\ v.fragments = Without(w.fragments, {})
      /\ v.seen = (w.seen \cup {}) \ run
      /\ v.skipped = w.skipped
      /\ v.gap = Without(w.gap, run)
      /\ v.out = w.out \o AcceptOut(w, {})
      /\ v.requests = w.requests
      /\ v.start = w.start
      /\ v.delivered = Recorded(w, end, w.delivered \cup run)
      /\ v.skips = Recorded(w, end, w.skips)
      /\ v.wrapped = (w.wrapped \/ end > MaxMediaSequence)
  <2>1. IsAccept(v, w, {})
    BY <1>1, AcceptFields
  <2> HIDE DEF v
  <2> QED BY <2>1, Zenon DEF IsAccept, AcceptRun
<1> HIDE DEF end, run, v
<1>5. b = w.buffered
  BY DEF b, BufferedWith, With, Formed
<1> HIDE DEF b
<1>6. ASSUME NEW f, f = [s \in DOMAIN f |-> f[s]] PROVE Without(f, {}) = f
  BY <1>6 DEF Without, Restrict
<1>7. /\ v.buffered = w.buffered /\ v.fragments = w.fragments /\ v.gap = w.gap
      /\ v.seen = w.seen /\ v.next = w.next
  BY <1>1, <1>2, <1>3, <1>4, <1>5, <1>6 DEF Formed, Wrap
<1>8. v.out = w.out
  <2>1. AcceptOut(w, {}) = << >>
    BY <1>1, <1>2 DEF AcceptOut, end
  <2>2. PICK Packets : w.out \in Seq(Packets)
    BY DEF Formed
  <2>3. w.out \o << >> = w.out
    BY <2>2
  <2> QED BY <1>4, <2>1, <2>3
<1>9. v.wrapped = w.wrapped
  <2>1. ~(end > MaxMediaSequence)
    BY <1>1, <1>2
  <2> QED BY <1>4, <2>1 DEF Formed
<1>10. v.delivered = w.delivered /\ v.skips = w.skips
  <2>1. ~(end > MaxMediaSequence)
    BY <1>1, <1>2
  <2> QED BY <1>3, <1>4, <2>1 DEF Formed, Recorded
<1> QED BY <1>4, <1>7, <1>8, <1>9, <1>10, SameWindow DEF Formed, v

(* d goes through run a and then through run c. *)
Joins(a, c, d) ==
  /\ Len(d) = Len(a) + Len(c)
  /\ \A i \in 1..Len(a) : d[i] = a[i]
  /\ \A i \in 1..Len(c) : d[Len(a) + i] = c[i]

(* Forwarding two runs one after the other is forwarding both at once. *)
LEMMA JoinedRuns ==
  ASSUME NEW Packets, NEW out \in Seq(Packets), NEW a \in Seq(Packets),
         NEW c \in Seq(Packets), NEW d \in Seq(Packets), Joins(a, c, d)
  PROVE  (out \o a) \o c = out \o d
<1>1. d = a \o c
  <2> DEFINE e == a \o c
  <2>1. e \in Seq(Packets) /\ Len(e) = Len(a) + Len(c) /\ Len(a) \in Nat /\ Len(c) \in Nat
    OBVIOUS
  <2>2. ASSUME NEW i \in 1..(Len(a) + Len(c)) PROVE d[i] = e[i]
    <3>1. CASE i <= Len(a)
      BY <2>1, <3>1 DEF Joins
    <3>2. CASE i > Len(a)
      <4>1. i - Len(a) \in 1..Len(c) /\ e[i] = c[i - Len(a)] /\ Len(a) + (i - Len(a)) = i
        BY <2>1, <3>2
      <4> HIDE DEF e
      <4> QED BY <4>1 DEF Joins
    <3> QED BY <2>1, <3>1, <3>2
  <2> HIDE DEF e
  <2>3. d = e
    BY <2>1, <2>2 DEF Joins
  <2> QED BY <2>3 DEF e
<1> QED BY <1>1, ConcatAssociative


(* Unless next wraps, accepting R and then a packet that is not held is    *)
(* accepting both at once.                                                 *)
LEMMA AcceptOneMore ==
  ASSUME NEW w, AtRest(w), Formed(w), NEW R \in SUBSET Recoverable(w), AcceptEnd(w, R) <= MaxMediaSequence,
         NEW x, x = Accept(w, Reconstructed(R)),
         NEW s \in Recoverable(x)
  PROVE  /\ R \cup {s} \in SUBSET Recoverable(w) /\ s \notin R
         /\ AcceptEnd(x, {s}) = AcceptEnd(w, R \cup {s})
         /\ Accept(x, Reconstructed({s})) = Accept(w, Reconstructed(R \cup {s}))
<1> DEFINE Q == R \cup {s}
           B == DOMAIN w.buffered
           n == w.next
           m == MaxMediaSequence
           e == AcceptEnd(w, R)
           g == AcceptEnd(w, Q)
<1>1. /\ Sound(w) /\ DOMAIN w = WindowFields
      /\ n \in Nat /\ m \in Nat /\ n <= m /\ B \subseteq n..m /\ w.seen = B
  BY WindowAssumption DEF AtRest, Sound, MediaSequences
<1>2. R \in SUBSET (n..m) /\ R \cap B = {}
  BY <1>1, WindowAssumption DEF Recoverable
<1>3. e \in n..m /\ n..(e - 1) \subseteq B \cup R /\ e \notin B \cup R
  <2>1. /\ e \in n..(m + 1) /\ e \notin B \cup R /\ n..(e - 1) \subseteq B \cup R
    BY <1>1, <1>2, AcceptEndIsFirstMissing
  <2> HIDE DEF e, B
  <2>2. e <= m
    BY DEF e
  <2> QED BY <1>1, <2>1, <2>2
<1>4. IsAccept(x, w, R)
  BY <1>1, AcceptFields
<1>5. DOMAIN x = WindowFields
  BY <1>4 DEF IsAccept
<1> DEFINE b == BufferedWith(w, R)
           c == BufferedWith(x, {s})
           d == BufferedWith(w, Q)
<1>a. /\ DOMAIN b = B \cup R
      /\ \A t \in B \cup R : b[t] = IF t \in R THEN Arrived(t) ELSE w.buffered[t]
  BY DEF b, BufferedWith, With
<1>b. /\ DOMAIN c = DOMAIN x.buffered \cup {s}
      /\ \A t \in DOMAIN x.buffered \cup {s} :
           c[t] = IF t \in {s} THEN Arrived(t) ELSE x.buffered[t]
  BY DEF c, BufferedWith, With
<1>c. /\ DOMAIN d = B \cup Q
      /\ \A t \in B \cup Q : d[t] = IF t \in Q THEN Arrived(t) ELSE w.buffered[t]
  BY DEF d, BufferedWith, With
<1> HIDE DEF e, b, c, d
<1>6. /\ x.next = e
      /\ DOMAIN x.buffered = (B \cup R) \ (n..(e - 1))
      /\ \A t \in DOMAIN x.buffered : x.buffered[t] = b[t]
  <2>1. x.next = Wrap(e)
    BY <1>4 DEF IsAccept, e
  <2>2. x.next = e
    BY <1>1, <1>3, <2>1 DEF Wrap
  <2>3. x.buffered = Without(b, n..(e - 1))
    BY <1>4 DEF IsAccept, AcceptRun, e, b
  <2> QED BY <1>a, <2>2, <2>3 DEF Without, Restrict
<1>7. s \in DOMAIN FecPayload /\ s \in e..m /\ s \notin B \cup R /\ s \in Nat
  <2>1. s \in DOMAIN FecPayload /\ s >= e /\ s \notin DOMAIN x.buffered
    BY <1>6 DEF Recoverable
  <2>2. s \in Nat /\ s <= m
    BY <2>1, WindowAssumption
  <2> QED BY <1>1, <1>3, <1>6, <2>1, <2>2
<1>8. Q \in SUBSET Recoverable(w) /\ Q \in SUBSET (n..m)
  BY <1>1, <1>2, <1>3, <1>7 DEF Recoverable
<1>9. AcceptEnd(x, {s}) = g
  <2>1. (e..(m + 1)) \ (((B \cup R) \ (n..(e - 1))) \cup {s}) = (n..(m + 1)) \ (B \cup Q)
    BY <1>1, <1>3, <1>7
  <2> QED BY <1>6, <2>1 DEF AcceptEnd
<1>10. g \in e..(m + 1) /\ n..(g - 1) \subseteq B \cup Q
  <2>1. g \in n..(m + 1) /\ g \notin B \cup Q /\ n..(g - 1) \subseteq B \cup Q
    BY <1>1, <1>8, AcceptEndIsFirstMissing
  <2> HIDE DEF g
  <2> QED BY <1>1, <1>3, <2>1
<1> DEFINE y == Accept(x, Reconstructed({s}))
           z == Accept(w, Reconstructed(Q))
<1>11. IsAccept(y, x, {s}) /\ IsAccept(z, w, Q)
  BY <1>1, <1>5, AcceptFields
<1> HIDE DEF y, z, g
<1>12. /\ AcceptRun(w, R) = n..(e - 1)
       /\ AcceptRun(x, {s}) = e..(g - 1)
       /\ AcceptRun(w, Q) = n..(g - 1)
       /\ (n..(e - 1)) \cup (e..(g - 1)) = n..(g - 1)
  <2>1. (n..(e - 1)) \cup (e..(g - 1)) = n..(g - 1)
    BY <1>1, <1>3, <1>10
  <2> QED BY <1>6, <1>9, <2>1 DEF AcceptRun, e, g
<1>13. ASSUME NEW t \in B \cup Q, t \notin n..(e - 1)
       PROVE  t \in DOMAIN c /\ c[t] = d[t]
  <2>1. t \in DOMAIN x.buffered \cup {s}
    <3>1. t \in (B \cup R) \cup {s} /\ t \notin n..(e - 1)
      BY <1>13
    <3> HIDE DEF B, n
    <3> QED BY <1>6, <3>1
  <2>2. CASE t = s
    BY <1>b, <1>c, <2>2
  <2>3. CASE t # s
    <3>1. t \in B \cup R /\ (t \in Q <=> t \in R) /\ t \in DOMAIN x.buffered
      BY <2>1, <2>3
    <3>2. c[t] = x.buffered[t] /\ t \in DOMAIN c
      BY <1>b, <2>1, <2>3
    <3>3. x.buffered[t] = b[t]
      BY <1>6, <3>1
    <3>4. b[t] = d[t]
      BY <1>a, <1>c, <3>1
    <3> QED BY <3>2, <3>3, <3>4
  <2> QED BY <2>2, <2>3
<1>14. y.buffered = z.buffered
  <2>1. y.buffered = Without(c, e..(g - 1))
    BY <1>11, <1>12 DEF IsAccept, c
  <2>2. z.buffered = Without(d, n..(g - 1))
    BY <1>11, <1>12 DEF IsAccept, d
  <2>3. DOMAIN c = ((B \cup R) \ (n..(e - 1))) \cup {s}
    BY <1>6, <1>b
  <2>4. DOMAIN d = B \cup Q
    BY <1>c
  <2>5. (((B \cup R) \ (n..(e - 1))) \cup {s}) \ (e..(g - 1)) = (B \cup Q) \ (n..(g - 1))
    BY <1>1, <1>3, <1>7, <1>10
  <2> DEFINE D == (B \cup Q) \ (n..(g - 1))
  <2>6. ASSUME NEW t \in D PROVE c[t] = d[t]
    <3>1. t \in B \cup Q /\ t \notin n..(e - 1)
      BY <1>1, <1>3, <1>10, <2>6
    <3> QED BY <1>13, <3>1
  <2>7. y.buffered = [t \in D |-> c[t]]
    BY <2>1, <2>3, <2>5 DEF Without, Restrict
  <2>8. z.buffered = [t \in D |-> d[t]]
    BY <2>2, <2>4 DEF Without, Restrict
  <2> HIDE DEF D
  <2> QED BY <2>6, <2>7, <2>8
<1>15. y.fragments = z.fragments
  <2>1. y.fragments = Without(Without(w.fragments, R), {s})
    BY <1>4, <1>11 DEF IsAccept
  <2>2. z.fragments = Without(w.fragments, Q)
    BY <1>11 DEF IsAccept
  <2> QED BY <2>1, <2>2 DEF Without, Restrict
<1>16. y.gap = z.gap
  <2>1. y.gap = Without(Without(w.gap, n..(e - 1)), e..(g - 1))
    BY <1>4, <1>11, <1>12 DEF IsAccept
  <2>2. z.gap = Without(w.gap, n..(g - 1))
    BY <1>11, <1>12 DEF IsAccept
  <2> DEFINE first == n..(e - 1)
             then  == e..(g - 1)
             both  == n..(g - 1)
  <2>3. first \cup then = both
    BY <1>12
  <2> HIDE DEF first, then, both
  <2>4. Without(Without(w.gap, first), then) = Without(w.gap, both)
    BY <2>3 DEF Without, Restrict
  <2> QED BY <2>1, <2>2, <2>4 DEF first, then, both
<1>17. y.seen = z.seen
  <2>1. y.seen = (((B \cup R) \ (n..(e - 1))) \cup {s}) \ (e..(g - 1))
    BY <1>1, <1>4, <1>11, <1>12 DEF IsAccept
  <2>2. z.seen = (B \cup Q) \ (n..(g - 1))
    BY <1>1, <1>11, <1>12 DEF IsAccept
  <2> QED BY <1>1, <1>3, <1>7, <1>10, <2>1, <2>2
<1>18. /\ y.next = z.next /\ y.skipped = z.skipped /\ y.requests = z.requests
       /\ y.start = z.start
  BY <1>4, <1>9, <1>11 DEF IsAccept, g
<1>19. ~(e > m)
  BY <1>1, <1>3
<1>20. y.wrapped = z.wrapped /\ (x.wrapped <=> w.wrapped)
  <2>1. x.wrapped = (w.wrapped \/ e > m)
    BY <1>4 DEF IsAccept, e
  <2>2. y.wrapped = (x.wrapped \/ g > m) /\ z.wrapped = (w.wrapped \/ g > m)
    BY <1>9, <1>11 DEF IsAccept, g
  <2> QED BY <1>19, <2>1, <2>2, Zenon
<1>21. ASSUME NEW h, NEW i
       PROVE  Recorded(x, g, Recorded(w, e, h) \cup i) = Recorded(w, g, h \cup i)
  <2>1. CASE w.wrapped \/ g > m
    BY <1>20, <2>1, Zenon DEF Recorded
  <2>2. CASE ~(w.wrapped \/ g > m)
    <3>1. Recorded(w, e, h) = h
      BY <1>19, <2>2, Zenon DEF Recorded
    <3> QED BY <1>20, <2>2, <3>1, Zenon DEF Recorded
  <2> QED BY <2>1, <2>2
<1>22. y.skips = z.skips
  <2>1. x.skips = Recorded(w, e, w.skips)
    BY <1>4 DEF IsAccept, e
  <2>2. y.skips = Recorded(x, g, x.skips) /\ z.skips = Recorded(w, g, w.skips)
    BY <1>9, <1>11 DEF IsAccept, g
  <2>3. Recorded(w, e, w.skips) \cup {} = Recorded(w, e, w.skips) /\ w.skips \cup {} = w.skips
    OBVIOUS
  <2>4. Recorded(x, g, Recorded(w, e, w.skips) \cup {}) = Recorded(w, g, w.skips \cup {})
    BY <1>21
  <2> QED BY <2>1, <2>2, <2>3, <2>4
<1>23. y.delivered = z.delivered
  <2>1. x.delivered = Recorded(w, e, w.delivered \cup (n..(e - 1)))
    BY <1>4, <1>12 DEF IsAccept, e
  <2>2. /\ y.delivered = Recorded(x, g, x.delivered \cup (e..(g - 1)))
        /\ z.delivered = Recorded(w, g, w.delivered \cup (n..(g - 1)))
    BY <1>9, <1>11, <1>12 DEF IsAccept, g
  <2>3. (w.delivered \cup (n..(e - 1))) \cup (e..(g - 1)) = w.delivered \cup (n..(g - 1))
    BY <1>12
  <2> DEFINE h == n..(e - 1)
             i == e..(g - 1)
  <2> HIDE DEF h, i
  <2>4. w.delivered \cup (h \cup i) = (w.delivered \cup h) \cup i
    OBVIOUS
  <2>5. Recorded(x, g, Recorded(w, e, w.delivered \cup h) \cup i)
          = Recorded(w, g, (w.delivered \cup h) \cup i)
    BY <1>21
  <2> QED BY <2>1, <2>2, <2>3, <2>4, <2>5 DEF h, i
<1>24. y.out = z.out
  <2> DEFINE o == AcceptOut(w, R)
             p == AcceptOut(x, {s})
             q == AcceptOut(w, Q)
  <2>a. PICK Packets : w.out \in Seq(Packets)
    BY DEF Formed
  <2> DEFINE All == Packets \cup {q[i] : i \in 1..(g - n)}
  <2>1. x.out = w.out \o o /\ y.out = x.out \o p /\ z.out = w.out \o q
    BY <1>4, <1>11 DEF IsAccept
  <2>2. /\ o = [i \in 1..(e - n) |-> [sequence |-> n + i - 1, payload |-> b[n + i - 1].payload]]
        /\ p = [i \in 1..(g - e) |-> [sequence |-> e + i - 1, payload |-> c[e + i - 1].payload]]
        /\ q = [i \in 1..(g - n) |-> [sequence |-> n + i - 1, payload |-> d[n + i - 1].payload]]
    BY <1>6, <1>9 DEF AcceptOut, e, g, b, c, d
  <2> HIDE DEF o, p, q
  <2>3. e - n \in Nat /\ g - e \in Nat /\ g - n \in Nat /\ g - n = (e - n) + (g - e)
    BY <1>1, <1>3, <1>10
  <2>4. ASSUME NEW i \in 1..(e - n) PROVE q[i] = o[i]
    <3> DEFINE t == n + i - 1
    <3>1. t \in n..(e - 1) /\ t # s /\ i \in 1..(g - n)
      <4>1. i \in Nat /\ i >= 1 /\ i <= e - n /\ e \in Nat /\ g \in Nat /\ e <= g /\ s >= e
        BY <1>1, <1>3, <1>7, <1>10
      <4> QED BY <1>1, <4>1
    <3>2. t \in B \cup R /\ t \in B \cup Q /\ (t \in Q <=> t \in R)
      BY <1>3, <3>1
    <3>3. d[t] = b[t]
      BY <1>a, <1>c, <3>2
    <3> QED BY <2>2, <3>1, <3>3
  <2>5. ASSUME NEW i \in 1..(g - e) PROVE q[(e - n) + i] = p[i]
    <3> DEFINE t == e + i - 1
    <3>1. /\ t \in n..(g - 1) /\ t \notin n..(e - 1)
          /\ (e - n) + i \in 1..(g - n) /\ n + ((e - n) + i) - 1 = t
      <4>1. /\ i \in Nat /\ i >= 1 /\ i <= g - e /\ n \in Nat /\ e \in Nat /\ g \in Nat
            /\ n <= e /\ e <= g
        BY <1>1, <1>3, <1>10
      <4> HIDE DEF n
      <4> QED BY <4>1
    <3>2. c[t] = d[t]
      BY <1>10, <1>13, <3>1
    <3> QED BY <2>2, <3>1, <3>2
  <2>6. q \in Seq(All) /\ Len(q) = g - n
    <3>1. \A i \in 1..(g - n) : q[i] \in All
      OBVIOUS
    <3>2. q = [i \in 1..(g - n) |-> q[i]]
      BY <2>2
    <3> HIDE DEF All
    <3>3. q \in [1..(g - n) -> All]
      BY <3>1, <3>2
    <3> QED BY <2>3, <3>3
  <2>7. o \in Seq(All) /\ Len(o) = e - n
    <3>1. \A i \in 1..(e - n) : o[i] \in All
      <4> SUFFICES ASSUME NEW i \in 1..(e - n) PROVE o[i] \in All
        OBVIOUS
      <4>1. i \in 1..(g - n)
        BY <2>3
      <4> QED BY <2>4, <4>1
    <3>2. o = [i \in 1..(e - n) |-> o[i]]
      BY <2>2
    <3> HIDE DEF All
    <3>3. o \in [1..(e - n) -> All]
      BY <3>1, <3>2
    <3> QED BY <2>3, <3>3
  <2>8. p \in Seq(All) /\ Len(p) = g - e
    <3>1. \A i \in 1..(g - e) : p[i] \in All
      <4> SUFFICES ASSUME NEW i \in 1..(g - e) PROVE p[i] \in All
        OBVIOUS
      <4>1. (e - n) + i \in 1..(g - n)
        BY <2>3
      <4> QED BY <2>5, <4>1
    <3>2. p = [i \in 1..(g - e) |-> p[i]]
      BY <2>2
    <3> HIDE DEF All
    <3>3. p \in [1..(g - e) -> All]
      BY <3>1, <3>2
    <3> QED BY <2>3, <3>3
  <2>9. w.out \in Seq(All)
    <3>1. Packets \subseteq All
      OBVIOUS
    <3> HIDE DEF All
    <3> QED BY <2>a, <3>1, SeqMonotonic
  <2> HIDE DEF All, n, g
  <2>10. Joins(o, p, q)
    BY <2>3, <2>4, <2>5, <2>6, <2>7, <2>8 DEF Joins
  <2> DEFINE out == w.out
  <2>11. out \in Seq(All)
    BY <2>9
  <2> HIDE DEF out
  <2>12. (out \o o) \o p = out \o q
    <3>1. o \in Seq(All) /\ p \in Seq(All) /\ q \in Seq(All)
      BY <2>6, <2>7, <2>8
    <3>2. ASSUME NEW S, NEW t \in Seq(S), NEW u \in Seq(S), NEW v \in Seq(S), NEW r \in Seq(S),
                 Joins(u, v, r)
          PROVE  (t \o u) \o v = t \o r
      BY <3>2, JoinedRuns
    <3> QED BY <2>10, <2>11, <3>1, <3>2
  <2> QED BY <2>1, <2>12 DEF out
<1>25. y = z
  <2>1. y = [field \in WindowFields |-> y[field]] /\ z = [field \in WindowFields |-> z[field]]
    BY <1>11 DEF IsAccept
  <2> QED BY <1>14, <1>15, <1>16, <1>17, <1>18, <1>20, <1>22, <1>23, <1>24, <2>1, SameWindow
<1> QED BY <1>7, <1>8, <1>9, <1>25 DEF y, z, g

(* What appends a run to what was forwarded leaves a sequence. *)
LEMMA OutGrows ==
  ASSUME NEW out, \E Packets : out \in Seq(Packets), NEW n \in Nat, NEW run, DOMAIN run = 1..n,
         run = [i \in 1..n |-> run[i]]
  PROVE  \E Packets : out \o run \in Seq(Packets)
<1>1. PICK Packets : out \in Seq(Packets)
  OBVIOUS
<1> DEFINE All == Packets \cup {run[i] : i \in 1..n}
<1>2. run \in Seq(All)
  <2>1. \A i \in 1..n : run[i] \in All
    OBVIOUS
  <2> HIDE DEF All
  <2>2. run \in [1..n -> All]
    BY <2>1
  <2> QED BY <2>2
<1>3. out \in Seq(All)
  <2>1. Packets \subseteq All
    OBVIOUS
  <2> HIDE DEF All
  <2> QED BY <1>1, <2>1, SeqMonotonic
<1> HIDE DEF All
<1>4. out \o run \in Seq(All)
  BY <1>2, <1>3
<1> QED BY <1>4

(* Once next has wrapped there is no history. *)
LEMMA NoHistory ==
  ASSUME NEW w, NEW end, NEW h, w.wrapped \/ end > MaxMediaSequence
  PROVE  Recorded(w, end, h) = {}
BY Zenon DEF Recorded

(* Accepting what was recovered, draining and expiring form a window. *)
LEMMA AcceptFormed ==
  ASSUME NEW w, Sound(w), Formed(w), NEW R \in SUBSET (w.next..MaxMediaSequence)
  PROVE  Formed(Accept(w, Reconstructed(R)))
<1> DEFINE v == Accept(w, Reconstructed(R))
           end == AcceptEnd(w, R)
<1>1. IsAccept(v, w, R)
  BY AcceptFields DEF Sound
<1>2. end - w.next \in Nat
  <2>1. end \in w.next..(MaxMediaSequence + 1)
    BY AcceptEndIsFirstMissing
  <2>2. w.next \in Nat /\ MaxMediaSequence \in Nat
    BY WindowAssumption DEF Sound, MediaSequences
  <2> HIDE DEF end
  <2> QED BY <2>1, <2>2
<1> HIDE DEF v
<1>3. \E Packets : v.out \in Seq(Packets)
  <2> DEFINE n == end - w.next
             run == AcceptOut(w, R)
             out == w.out
  <2>1. DOMAIN run = 1..n /\ run = [i \in 1..n |-> run[i]]
    BY DEF AcceptOut
  <2>2. v.out = out \o run
    BY <1>1 DEF IsAccept
  <2>3. n \in Nat
    BY <1>2
  <2>4. \E Packets : out \in Seq(Packets)
    BY DEF Formed
  <2> HIDE DEF n, run, out
  <2>5. \E Packets : out \o run \in Seq(Packets)
    BY <2>1, <2>3, <2>4, OutGrows
  <2> QED BY <2>2, <2>5
<1>4. v.wrapped \in BOOLEAN /\ (v.wrapped = TRUE => v.delivered = {} /\ v.skips = {})
  <2>1. /\ v.wrapped = (w.wrapped \/ end > MaxMediaSequence)
        /\ v.delivered = Recorded(w, end, w.delivered \cup AcceptRun(w, R))
        /\ v.skips = Recorded(w, end, w.skips)
    BY <1>1 DEF IsAccept
  <2> QED BY <2>1, NoHistory, Zenon
<1>5. /\ v = [field \in WindowFields |-> v[field]]
      /\ v.buffered = [s \in DOMAIN v.buffered |-> v.buffered[s]]
      /\ v.fragments = [s \in DOMAIN v.fragments |-> v.fragments[s]]
      /\ v.gap = [s \in DOMAIN v.gap |-> v.gap[s]]
  BY <1>1 DEF IsAccept, Without, Restrict
<1> QED BY <1>3, <1>4, <1>5 DEF Formed, v

LEMMA DrainFormed ==
  ASSUME NEW w, Sound(w), Formed(w)
  PROVE  Formed(Drain(w))
<1> DEFINE v == Drain(w)
           end == RunEnd(w)
           run == w.next..(end - 1)
           n == end - w.next
           more == [i \in 1..n |-> [sequence |-> w.next + i - 1,
                                    payload  |-> w.buffered[w.next + i - 1].payload]]
<1>1. DOMAIN w = WindowFields
  BY DEF Sound
<1>2. n \in Nat
  <2>1. end \in w.next..(MaxMediaSequence + 1)
    BY RunEndIsFirstMissing
  <2>2. w.next \in Nat /\ MaxMediaSequence \in Nat
    BY WindowAssumption DEF Sound, MediaSequences
  <2> HIDE DEF end
  <2> QED BY <2>1, <2>2
<1>3. /\ v = [field \in WindowFields |-> v[field]]
      /\ v.buffered = Without(w.buffered, run)
      /\ v.fragments = w.fragments
      /\ v.gap = Without(w.gap, run)
  BY <1>1 DEF Drain, WindowFields
<1>4. /\ v.out = w.out \o more
      /\ v.delivered = Recorded(w, end, w.delivered \cup run)
      /\ v.skips = Recorded(w, end, w.skips)
      /\ v.wrapped = (w.wrapped \/ end > MaxMediaSequence)
  BY <1>1, DrainFields
<1>5. DOMAIN more = 1..n /\ more = [i \in 1..n |-> more[i]]
  OBVIOUS
<1> HIDE DEF v, more, n
<1>6. \E Packets : v.out \in Seq(Packets)
  <2> DEFINE out == w.out
  <2>1. \E Packets : out \in Seq(Packets)
    BY DEF Formed
  <2>2. v.out = out \o more
    BY <1>4
  <2> HIDE DEF out
  <2>3. \E Packets : out \o more \in Seq(Packets)
    BY <1>2, <1>5, <2>1, OutGrows
  <2> QED BY <2>2, <2>3
<1>7. v.wrapped \in BOOLEAN /\ (v.wrapped = TRUE => v.delivered = {} /\ v.skips = {})
  BY <1>4, NoHistory, Zenon
<1>8. /\ v.buffered = [s \in DOMAIN v.buffered |-> v.buffered[s]]
      /\ v.fragments = [s \in DOMAIN v.fragments |-> v.fragments[s]]
      /\ v.gap = [s \in DOMAIN v.gap |-> v.gap[s]]
  BY <1>3 DEF Formed, Without, Restrict
<1> QED BY <1>3, <1>6, <1>7, <1>8 DEF Formed, v

LEMMA ExpireFormed ==
  ASSUME NEW w, DOMAIN w = WindowFields, Formed(w)
  PROVE  Formed(Expire(w))
<1> DEFINE v == Expire(w)
           end == ExpireEnd(w)
           expired == w.next..(end - 1)
<1>1. /\ v = [field \in WindowFields |-> v[field]]
      /\ v.gap = Without(w.gap, expired)
  BY DEF Expire, WindowFields
<1>2. /\ v.buffered = w.buffered
      /\ v.fragments = Without(w.fragments, expired)
      /\ v.out = w.out
      /\ v.delivered = Recorded(w, end, w.delivered)
      /\ v.skips = Recorded(w, end, w.skips \cup expired)
      /\ v.wrapped = (w.wrapped \/ end > MaxMediaSequence)
  BY ExpireFields
<1> HIDE DEF v
<1>3. v.wrapped \in BOOLEAN /\ (v.wrapped = TRUE => v.delivered = {} /\ v.skips = {})
  BY <1>2, NoHistory, Zenon
<1>4. /\ v.buffered = [s \in DOMAIN v.buffered |-> v.buffered[s]]
      /\ v.fragments = [s \in DOMAIN v.fragments |-> v.fragments[s]]
      /\ v.gap = [s \in DOMAIN v.gap |-> v.gap[s]]
  BY <1>1, <1>2 DEF Formed, Without, Restrict
<1> QED BY <1>1, <1>2, <1>3, <1>4 DEF Formed, v

(* So do a tick and a new flow. *)
LEMMA AgedFormed ==
  ASSUME NEW w, DOMAIN w = WindowFields, Formed(w)
  PROVE  Formed(Aged(w))
<1> DEFINE v == Aged(w)
<1>1. /\ v = [field \in WindowFields |-> v[field]]
      /\ v.out = w.out /\ v.delivered = w.delivered /\ v.skips = w.skips
      /\ v.wrapped = w.wrapped
  BY DEF Aged, WindowFields
<1>2. /\ v.buffered = [s \in DOMAIN w.buffered |-> OlderPacket(w.buffered[s])]
      /\ v.fragments = [s \in DOMAIN w.fragments |-> OlderAssembly(w.fragments[s])]
      /\ v.gap = [s \in DOMAIN w.gap |-> Older(w.gap[s], RepairInterval)]
  BY DEF Aged, WindowFields
<1> HIDE DEF v
<1>3. /\ v.buffered = [s \in DOMAIN v.buffered |-> v.buffered[s]]
      /\ v.fragments = [s \in DOMAIN v.fragments |-> v.fragments[s]]
      /\ v.gap = [s \in DOMAIN v.gap |-> v.gap[s]]
  BY <1>2
<1> QED BY <1>1, <1>3 DEF Formed, v

LEMMA EmptyWindowFormed ==
  ASSUME NEW s
  PROVE  Formed(EmptyWindow(s))
<1> DEFINE w == EmptyWindow(s)
<1>1. w = [field \in WindowFields |-> w[field]]
  BY DEF EmptyWindow, WindowFields
<1>2. /\ w.out = << >> /\ w.wrapped = FALSE
      /\ w.buffered = << >> /\ w.fragments = << >> /\ w.gap = << >>
  BY DEF EmptyWindow
<1> HIDE DEF w
<1>3. << >> \in Seq({}) /\ << >> = [t \in DOMAIN << >> |-> << >>[t]]
  OBVIOUS
<1>4. \E Packets : w.out \in Seq(Packets)
  BY <1>2, <1>3
<1> QED BY <1>1, <1>2, <1>3, <1>4 DEF Formed, w
=============================================================================
