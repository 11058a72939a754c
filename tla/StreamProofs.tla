---------------------------- MODULE StreamProofs ----------------------------
(***************************************************************************)
(* Proofs about the server's loop, ReorderWindow, and about the stream     *)
(* that goes through it, Stream, for every value of their constants.       *)
(*                                                                         *)
(* The loop.  The lemmas of WindowProofs say what the stages of a turn do; *)
(* those of the first sections add up the stages to handlers.  The         *)
(* invariants of the loop follow, one for each kind of fact: Inv for the   *)
(* consistency of the maps and the accounting of sequences, TypeInv for    *)
(* the types, RoutesInv for the reply routes, RequestsInv for what the     *)
(* server asks for, DetectorInv for the restart detector.  Each uses those *)
(* before.                                                                 *)
(*                                                                         *)
(* The stream.  Turn says of a window before and after a turn what the     *)
(* stream cares about: what is forwarded is whole and in order, what was   *)
(* held is still held or behind next, what stays pending grows no younger. *)
(* The invariants are again one for each kind of fact: ClientInv for what  *)
(* was cut and is cached, NetworkInv for what is in flight, FlowInv for    *)
(* the window, TimeInv for the ages of what is in flight against the       *)
(* silence of the flow, HandedInv for what the target got, and, without    *)
(* --repair, QuietInv and LossInv for what the server gave up.             *)
(***************************************************************************)
EXTENDS Stream, WindowProofs

-----------------------------------------------------------------------------
(* The handlers keep the window sound. *)

(* A payload at or ahead of next is stored and the window advanced. *)
LEMMA StoreWholeSound ==
  ASSUME NEW w, Sound(w), NEW p \in Packets, p.sequence >= w.next, NEW payload,
         NEW v \in StoreWhole(w, p, payload)
  PROVE  AtRest(v) /\ (Accounted(w) => Accounted(v))
<1> DEFINE P == [s \in {p.sequence} |-> payload]
           Ws == {Accept(w, P)}
<1>1. DOMAIN P \subseteq w.next..MaxMediaSequence
  BY ReorderAssumption, WindowAssumption DEF Sound, MediaSequences
<1>2. v \in Advance(Ws)
  BY DEF StoreWhole
<1> HIDE DEF P
<1>3. AtRest(Accept(w, P)) /\ (Accounted(w) => Accounted(Accept(w, P)))
  BY <1>1, AcceptSound
<1>4. \A u \in Ws : Sound(u) /\ (Accounted(w) => Accounted(u))
  BY <1>3 DEF AtRest
<1> HIDE DEF Ws
<1> QED BY <1>2, <1>4, AdvanceSound

(* A fragment of a sequence that is not buffered joins its assembly. *)
LEMMA StoreFragmentSound ==
  ASSUME NEW w, Sound(w), NEW p \in Packets, p.sequence >= w.next,
         p.sequence \notin DOMAIN w.buffered,
         NEW v \in StoreFragment(w, p)
  PROVE  AtRest(v) /\ (Accounted(w) => Accounted(v))
<1> DEFINE a == WithFragment(w, p)
           F == [s \in {p.sequence} |-> a]
           u == [w EXCEPT !.fragments = With(@, F)]
<1>1. CASE IsComplete(a)
  <2>1. v \in StoreWhole(w, p, IntoPayload(a))
    BY <1>1 DEF StoreFragment
  <2> QED BY <2>1, StoreWholeSound
<1>2. CASE ~IsComplete(a)
  <2>1. v \in Advance({u})
    BY <1>2 DEF StoreFragment
  <2>2. /\ DOMAIN u = WindowFields
        /\ u.next = w.next
        /\ u.buffered = w.buffered
        /\ u.fragments = With(w.fragments, F)
        /\ u.seen = w.seen
        /\ u.gap = w.gap
        /\ u.start = w.start
        /\ u.delivered = w.delivered
        /\ u.skips = w.skips
        /\ u.wrapped = w.wrapped
    BY DEF Sound, WindowFields
  <2>3. DOMAIN F = {p.sequence}
    OBVIOUS
  <2> HIDE DEF u, F
  <2>4. DOMAIN u.fragments = DOMAIN w.fragments \cup {p.sequence}
    BY <2>2, <2>3 DEF With
  <2>5. p.sequence \in w.next..MaxMediaSequence
    BY ReorderAssumption, WindowAssumption DEF Sound, MediaSequences
  <2>6. Sound(u)
    BY <2>2, <2>4, <2>5 DEF Sound
  <2>7. Accounted(w) => Accounted(u)
    BY <2>2 DEF Accounted
  <2>8. \A x \in {u} : Sound(x) /\ (Accounted(w) => Accounted(x))
    BY <2>6, <2>7
  <2> QED BY <2>1, <2>8, AdvanceSound
<1> QED BY <1>1, <1>2

(* So the second half of the loop body keeps a window at rest. *)
LEMMA StoreMediaSound ==
  ASSUME NEW w, AtRest(w), NEW p \in Packets, p.sequence >= w.next,
         NEW v \in StoreMedia(w, p)
  PROVE  AtRest(v) /\ (Accounted(w) => Accounted(v))
<1>1. CASE AlreadyHeld(w, p)
  BY <1>1 DEF StoreMedia
<1>2. CASE ~AlreadyHeld(w, p) /\ p.fragments = 1
  <2>1. v \in StoreWhole(w, p, {p.payload})
    BY <1>2 DEF StoreMedia
  <2> QED BY <2>1, StoreWholeSound DEF AtRest
<1>3. CASE ~AlreadyHeld(w, p) /\ p.fragments # 1
  <2>1. v \in StoreFragment(w, p)
    BY <1>3 DEF StoreMedia
  <2>2. p.sequence \notin DOMAIN w.buffered
    BY <1>3 DEF AlreadyHeld
  <2> QED BY <2>1, <2>2, StoreFragmentSound DEF AtRest
<1> QED BY <1>1, <1>2, <1>3

(* Aging and forgetting the outputs change nothing that Sound speaks of. *)
LEMMA FreshSound ==
  ASSUME NEW w, AtRest(w)
  PROVE  /\ AtRest(Fresh(w)) /\ (Accounted(w) => Accounted(Fresh(w)))
         /\ Fresh(w).next = w.next /\ Pending(Fresh(w)) = Pending(w)
         /\ DOMAIN Fresh(w).gap = DOMAIN w.gap
<1> DEFINE v == Fresh(w)
<1>1. /\ DOMAIN v = WindowFields
      /\ v.next = w.next /\ v.buffered = w.buffered /\ v.fragments = w.fragments
      /\ v.seen = w.seen /\ v.gap = w.gap
      /\ v.start = w.start /\ v.delivered = w.delivered
      /\ v.skips = w.skips /\ v.wrapped = w.wrapped
  BY DEF Fresh, AtRest, Sound, WindowFields
<1> HIDE DEF v
<1>2. AtRest(v)
  BY <1>1 DEF AtRest, Sound
<1>3. Accounted(w) => Accounted(v)
  BY <1>1 DEF Accounted
<1>4. Pending(v) = Pending(w)
  BY <1>1 DEF Pending
<1> QED BY <1>1, <1>2, <1>3, <1>4 DEF v

-----------------------------------------------------------------------------
(* The inductive invariant of the loop. *)

Inv ==
  /\ initialized \in BOOLEAN
  /\ AtRest(window)
  /\ initialized = TRUE => Accounted(window)
  /\ initialized = FALSE => Pending(window) = {} /\ DOMAIN window.gap = {}

(* The loop starts with an empty window and no flow. *)
LEMMA InitInv == Init => Inv
<1> SUFFICES ASSUME Init PROVE Inv
  OBVIOUS
<1>1. 0 \in MediaSequences
  BY WindowAssumption DEF MediaSequences
<1>2. AtRest(EmptyWindow(0))
  BY <1>1, EmptyWindowSound
<1>3. Pending(EmptyWindow(0)) = {} /\ DOMAIN EmptyWindow(0).gap = {}
  BY DEF EmptyWindow, Pending
<1> QED BY <1>2, <1>3 DEF Init, Inv

(* Every turn of the loop and every tick of the clock preserves it. *)
LEMMA NextInv == Inv /\ [Next]_vars => Inv'
<1> SUFFICES ASSUME Inv, [Next]_vars PROVE Inv'
  OBVIOUS
<1> USE DEF Inv
<1>1. ASSUME NEW c \in Connections, NEW p \in Packets, StartFlow(c, p)
      PROVE  Inv'
  <2> DEFINE u == [Fresh(window) EXCEPT !.next = p.sequence, !.start = p.sequence,
                               !.delivered = {}, !.skips = {}, !.wrapped = FALSE]
  <2>1. initialized = FALSE /\ initialized' = TRUE /\ window' \in StoreMedia(u, p)
    BY <1>1 DEF StartFlow
  <2>2. p.sequence \in Nat /\ p.sequence <= MaxMediaSequence /\ p.sequence \in MediaSequences
    BY ReorderAssumption, WindowAssumption DEF MediaSequences
  <2>3. AtRest(Fresh(window)) /\ Pending(Fresh(window)) = {} /\ DOMAIN Fresh(window).gap = {}
    BY <2>1, FreshSound
  <2>4. /\ DOMAIN u = WindowFields
        /\ u.next = p.sequence
        /\ u.buffered = Fresh(window).buffered /\ u.fragments = Fresh(window).fragments
        /\ u.seen = Fresh(window).seen /\ u.gap = Fresh(window).gap
        /\ u.start = p.sequence /\ u.delivered = {} /\ u.skips = {} /\ u.wrapped = FALSE
    BY <2>3 DEF AtRest, Sound, WindowFields
  <2> HIDE DEF u
  <2>5. AtRest(u)
    BY <2>2, <2>3, <2>4 DEF AtRest, Sound, Pending
  <2>6. Accounted(u)
    <3>1. u.delivered \cup u.skips = u.start..(u.next - 1) /\ u.delivered \cap u.skips = {}
      BY <2>2, <2>4
    <3>2. u.start \in Nat /\ u.start <= u.next
      BY <2>2, <2>4
    <3>3. u.wrapped \in BOOLEAN
      BY <2>4
    <3> QED BY <3>1, <3>2, <3>3 DEF Accounted
  <2>7. p.sequence >= u.next
    BY <2>2, <2>4
  <2> QED BY <2>1, <2>5, <2>6, <2>7, StoreMediaSound
<1>2. ASSUME NEW c \in Connections, NEW p \in Packets, ContinueFlow(c, p)
      PROVE  Inv'
  <2>1. /\ initialized = TRUE /\ initialized' = TRUE
        /\ p.sequence >= window.next
        /\ window' \in StoreMedia(Fresh(window), p)
    BY <1>2 DEF ContinueFlow
  <2>2. /\ AtRest(Fresh(window)) /\ Accounted(Fresh(window))
        /\ Fresh(window).next = window.next
    BY <2>1, FreshSound
  <2> QED BY <2>1, <2>2, StoreMediaSound
<1>3. ASSUME NEW c \in Connections, NEW p \in Packets, DropBehind(c, p)
      PROVE  Inv'
  BY <1>3, FreshSound DEF DropBehind
<1>4. ASSUME NEW c \in Connections, NEW p \in Packets, ConfirmRestart(c, p)
      PROVE  Inv'
  <2>1. /\ initialized = TRUE /\ initialized' = TRUE
        /\ window' \in StoreMedia(EmptyWindow(p.sequence), p)
    BY <1>4 DEF ConfirmRestart
  <2>2. p.sequence \in MediaSequences /\ p.sequence >= p.sequence
    BY ReorderAssumption, WindowAssumption DEF MediaSequences
  <2>3. EmptyWindow(p.sequence).next = p.sequence
    BY DEF EmptyWindow
  <2> QED BY <2>1, <2>2, <2>3, EmptyWindowSound, StoreMediaSound
<1>5. ASSUME NEW c \in Connections, ReceiveFec(c)
      PROVE  Inv'
  <2>1. CASE initialized = TRUE
    <3>1. window' \in Advance({Fresh(window)}) /\ initialized' = TRUE
      BY <1>5, <2>1 DEF ReceiveFec
    <3>2. \A w \in {Fresh(window)} : Sound(w) /\ Accounted(w)
      BY <2>1, FreshSound DEF AtRest
    <3> QED BY <3>1, <3>2, AdvanceSound
  <2>2. CASE initialized = FALSE
    <3>1. window' = window /\ initialized' = initialized
      BY <1>5, <2>2 DEF ReceiveFec
    <3> QED BY <2>2, <3>1
  <2> QED BY <2>1, <2>2
<1>6. ASSUME TimeoutAdvance
      PROVE  Inv'
  <2>1. window' \in Advance({Fresh(window)}) /\ initialized = TRUE /\ initialized' = TRUE
    BY <1>6 DEF TimeoutAdvance
  <2>2. \A w \in {Fresh(window)} : Sound(w) /\ Accounted(w)
    BY <2>1, FreshSound DEF AtRest
  <2> QED BY <2>1, <2>2, AdvanceSound
<1>7. ASSUME TimeoutIdle
      PROVE  Inv'
  <2>1. /\ initialized' = FALSE /\ Pending(window) = {}
        /\ window' = [Fresh(window) EXCEPT !.next = 0, !.skipped = << >>, !.gap = << >>]
    BY <1>7 DEF TimeoutIdle, HasPendingState
  <2>2. AtRest(Fresh(window)) /\ Pending(Fresh(window)) = {}
    BY <2>1, FreshSound
  <2>3. /\ DOMAIN window' = WindowFields
        /\ window'.next = 0 /\ window'.gap = << >>
        /\ window'.buffered = Fresh(window).buffered
        /\ window'.fragments = Fresh(window).fragments
        /\ window'.seen = Fresh(window).seen
    BY <2>1, <2>2 DEF AtRest, Sound, WindowFields
  <2>4. AtRest(window)' /\ Pending(window)' = {} /\ DOMAIN window'.gap = {}
    BY <2>2, <2>3, WindowAssumption DEF AtRest, Sound, Pending, MediaSequences
  <2> QED BY <2>1, <2>4
<1>8. ASSUME TimeoutNoFlow
      PROVE  Inv'
  BY <1>8 DEF TimeoutNoFlow
<1>9. ASSUME Tick
      PROVE  Inv'
  BY <1>9, FreshSound, AgedSound DEF Tick
<1>10. ASSUME UNCHANGED vars
       PROVE  Inv'
  BY <1>10 DEF vars
<1> QED
  BY <1>1, <1>2, <1>3, <1>4, <1>5, <1>6, <1>7, <1>8, <1>9, <1>10
  DEF Next, ReceivePacket, Timeout

(* So it always holds. *)
LEMMA InvHolds == Spec => []Inv
BY InitInv, NextInv, PTL DEF Spec

(* Between two turns of reorder_loop the maps keyed by sequence agree. *)
THEOREM WindowStaysConsistent == Spec => []WindowConsistent
<1>1. Inv => WindowConsistent
  BY WindowAssumption DEF Inv, AtRest, Sound, WindowConsistent, Pending, MediaSequences
<1> QED BY <1>1, InvHolds, PTL

(* Within a flow, and until next wraps, every sequence behind next was     *)
(* forwarded or skipped, and none was both.                                *)
THEOREM EverySequenceAccounted == Spec => []Accounting
<1>1. Inv => Accounting
  BY DEF Inv, Accounting, Accounted
<1> QED BY <1>1, InvHolds, PTL

-----------------------------------------------------------------------------
(* Types, stage by stage and handler by handler. *)

(* A window is typed if its three maps are. *)
LEMMA TypedByMaps ==
  ASSUME NEW w, NEW v, WindowTyped(w),
         \A s \in DOMAIN v.buffered :
            v.buffered[s].age = 0 \/ (s \in DOMAIN w.buffered /\ v.buffered[s] = w.buffered[s]),
         \A s \in DOMAIN v.fragments : s \in DOMAIN w.fragments /\ v.fragments[s] = w.fragments[s],
         \A s \in DOMAIN v.gap :
            v.gap[s] = 0 \/ (s \in DOMAIN w.gap /\ v.gap[s] = w.gap[s])
  PROVE  WindowTyped(v)
<1>1. 0 \in 0..AgeBound /\ 0 \in 0..RepairInterval
  BY WindowAssumption
<1>2. \A s \in DOMAIN v.buffered : v.buffered[s].age \in 0..AgeBound
  BY <1>1, Zenon DEF WindowTyped
<1>3. \A s \in DOMAIN v.gap : v.gap[s] \in 0..RepairInterval
  BY <1>1, Zenon DEF WindowTyped
<1>4. \A s \in DOMAIN v.fragments :
        /\ v.fragments[s] \in Assemblies
        /\ Missing(v.fragments[s]) \notin {{}, 0..(v.fragments[s].total - 1)}
  BY Zenon DEF WindowTyped
<1> QED BY <1>2, <1>3, <1>4 DEF WindowTyped

(* Draining removes entries. *)
LEMMA DrainTyped ==
  ASSUME NEW w, DOMAIN w = WindowFields, WindowTyped(w)
  PROVE  WindowTyped(Drain(w))
<1> DEFINE run == w.next..(RunEnd(w) - 1)
           v   == Drain(w)
<1>1. /\ v.buffered = Without(w.buffered, run)
      /\ v.fragments = w.fragments
      /\ v.gap = Without(w.gap, run)
  BY DEF Drain, WindowFields
<1> HIDE DEF v, run
<1>2. \A s \in DOMAIN v.buffered : s \in DOMAIN w.buffered /\ v.buffered[s] = w.buffered[s]
  BY <1>1 DEF Without, Restrict
<1>3. \A s \in DOMAIN v.gap : s \in DOMAIN w.gap /\ v.gap[s] = w.gap[s]
  BY <1>1 DEF Without, Restrict
<1>4. WindowTyped(v)
  BY <1>1, <1>2, <1>3, TypedByMaps
<1> QED BY <1>4 DEF v

(* Accepting payloads adds entries of age 0 to what is buffered. *)
LEMMA AcceptTyped ==
  ASSUME NEW w, DOMAIN w = WindowFields, WindowTyped(w), NEW P
  PROVE  WindowTyped(Accept(w, P))
<1> DEFINE B == [s \in DOMAIN P |-> [payload |-> P[s], age |-> 0]]
           u == [w EXCEPT !.buffered  = With(@, B),
                          !.fragments = Without(@, DOMAIN P),
                          !.seen      = @ \cup DOMAIN P]
<1>1. /\ DOMAIN u = WindowFields
      /\ u.buffered = With(w.buffered, B)
      /\ u.fragments = Without(w.fragments, DOMAIN P)
      /\ u.gap = w.gap
  BY DEF WindowFields
<1>2. \A s \in DOMAIN B : B[s].age = 0
  OBVIOUS
<1>3. Accept(w, P) = Drain(u)
  BY DEF Accept
<1> HIDE DEF u, B
<1>4. \A s \in DOMAIN u.buffered :
        u.buffered[s].age = 0 \/ (s \in DOMAIN w.buffered /\ u.buffered[s] = w.buffered[s])
  BY <1>1, <1>2 DEF With
<1>5. \A s \in DOMAIN u.fragments : s \in DOMAIN w.fragments /\ u.fragments[s] = w.fragments[s]
  BY <1>1 DEF Without, Restrict
<1>6. WindowTyped(u)
  BY <1>1, <1>4, <1>5, TypedByMaps
<1> QED BY <1>1, <1>3, <1>6, DrainTyped

(* Recovery accepts payloads. *)
LEMMA RecoverTyped ==
  ASSUME NEW w, Sound(w), WindowTyped(w), NEW v \in RecoverFecReady(w)
  PROVE  WindowTyped(v)
<1>1. ASSUME NEW x, Sound(x), WindowTyped(x), NEW y \in RecoverPass(x)
      PROVE  WindowTyped(y)
  <2>1. PICK R : y = Accept(x, [s \in R |-> {FecPayload[s]}])
    BY DEF RecoverPass
  <2>2. DOMAIN x = WindowFields
    BY <1>1 DEF Sound
  <2> QED BY <1>1, <2>1, <2>2, AcceptTyped
<1>2. CASE v \in RecoverPass(w)
  BY <1>1, <1>2
<1>3. CASE v \notin RecoverPass(w)
  <2>1. PICK u \in RecoverPass(w) : v \in RecoverPass(u)
    BY <1>3 DEF RecoverFecReady
  <2>2. Sound(u) /\ WindowTyped(u)
    BY <1>1, <2>1, RecoverPassSound DEF AtRest
  <2> QED BY <1>1, <2>1, <2>2
<1> QED BY <1>2, <1>3

(* Asking for repairs sets the time of a request to 0. *)
LEMMA RequestDueRepairsTyped ==
  ASSUME NEW w, DOMAIN w = WindowFields, WindowTyped(w)
  PROVE  WindowTyped(RequestDueRepairs(w))
<1> DEFINE v == RequestDueRepairs(w)
           head == IF HeadRequestDue(w) THEN {w.next} ELSE {}
           A == AssembliesAsked(w)
           G == [s \in head |-> 0]
           Renewed(s) == IF s \in A THEN [w.fragments[s] EXCEPT !.asked = 0] ELSE w.fragments[s]
<1>1. /\ v.buffered = w.buffered
      /\ v.fragments = [s \in DOMAIN w.fragments |-> Renewed(s)]
      /\ v.gap = With(w.gap, G)
  BY DEF RequestDueRepairs, WindowFields
<1>2. \A s \in DOMAIN G : G[s] = 0
  OBVIOUS
<1> HIDE DEF v, G, A
<1>3. ASSUME NEW s \in DOMAIN v.gap PROVE v.gap[s] \in 0..RepairInterval
  <2>1. v.gap[s] = 0 \/ (s \in DOMAIN w.gap /\ v.gap[s] = w.gap[s])
    BY <1>1, <1>2 DEF With
  <2> QED BY <2>1, WindowAssumption DEF WindowTyped
<1>4. ASSUME NEW s \in DOMAIN v.fragments
      PROVE  /\ v.fragments[s] \in Assemblies
             /\ Missing(v.fragments[s]) \notin {{}, 0..(v.fragments[s].total - 1)}
  <2>1. /\ w.fragments[s] \in Assemblies
        /\ Missing(w.fragments[s]) \notin {{}, 0..(w.fragments[s].total - 1)}
    BY <1>1 DEF WindowTyped
  <2>2. v.fragments[s] = Renewed(s)
    BY <1>1
  <2>3. CASE s \in A
    <3>1. v.fragments[s] = [w.fragments[s] EXCEPT !.asked = 0]
      BY <2>2, <2>3
    <3>2. /\ v.fragments[s] \in Assemblies
          /\ v.fragments[s].total = w.fragments[s].total
          /\ v.fragments[s].got = w.fragments[s].got
      <4>1. 0 \in 0..RepairInterval
        BY WindowAssumption
      <4> QED BY <2>1, <3>1, <4>1 DEF Assemblies
    <3> QED BY <2>1, <3>2 DEF Missing
  <2> QED BY <2>1, <2>2, <2>3
<1>5. \A s \in DOMAIN v.buffered : v.buffered[s].age \in 0..AgeBound
  BY <1>1 DEF WindowTyped
<1> QED BY <1>3, <1>4, <1>5 DEF WindowTyped, v

(* Expiring a gap removes entries. *)
LEMMA ExpireTyped ==
  ASSUME NEW w, DOMAIN w = WindowFields, WindowTyped(w)
  PROVE  WindowTyped(Expire(w))
<1> DEFINE expired == w.next..(ExpireEnd(w) - 1)
           v       == Expire(w)
<1>1. /\ v.buffered = w.buffered
      /\ v.fragments = Without(w.fragments, expired)
      /\ v.gap = Without(w.gap, expired)
  BY DEF Expire, WindowFields
<1> HIDE DEF v, expired
<1>2. \A s \in DOMAIN v.fragments : s \in DOMAIN w.fragments /\ v.fragments[s] = w.fragments[s]
  BY <1>1 DEF Without, Restrict
<1>3. \A s \in DOMAIN v.gap : s \in DOMAIN w.gap /\ v.gap[s] = w.gap[s]
  BY <1>1 DEF Without, Restrict
<1>4. WindowTyped(v)
  BY <1>1, <1>2, <1>3, TypedByMaps
<1> QED BY <1>4 DEF v

(* advance_reorder_window as a whole. *)
LEMMA AdvanceTyped ==
  ASSUME NEW Ws, NEW v \in Advance(Ws), \A w \in Ws : Sound(w) /\ WindowTyped(w)
  PROVE  WindowTyped(v)
<1> DEFINE R == UNION {RecoverFecReady(w) : w \in Ws}
<1>1. PICK u \in RepairsAsked(R) : v = Drain(Expire(u))
  BY DEF Advance
<1>2. \A r \in R : Sound(r) /\ WindowTyped(r)
  BY RecoverFecReadySound, RecoverTyped DEF AtRest
<1> HIDE DEF R
<1>3. Sound(u) /\ WindowTyped(u)
  <2>1. \A r \in R : DOMAIN r = WindowFields
    BY <1>2 DEF Sound
  <2> QED BY RequestDueRepairsSound, RequestDueRepairsTyped, <1>1, <1>2, <2>1 DEF RepairsAsked
<1>4. DOMAIN u = WindowFields /\ DOMAIN Expire(u) = WindowFields
  BY <1>3, ExpireSound DEF Sound
<1> QED BY <1>1, <1>3, <1>4, ExpireTyped, DrainTyped

(* The assembly that a new fragment p makes, unless it is complete.        *)
LEMMA WithFragmentTyped ==
  ASSUME NEW w, WindowTyped(w), NEW p \in Packets,
         p.sequence \in DOMAIN w.fragments => w.fragments[p.sequence].total = p.fragments
  PROVE  LET a == WithFragment(w, p)
         IN  /\ a \in Assemblies
             /\ Missing(a) # 0..(a.total - 1)
<1> DEFINE fresh == [total |-> p.fragments, got |-> << >>, first_seen |-> 0,
                     asked |-> RepairInterval]
           held == IF p.sequence \in DOMAIN w.fragments THEN w.fragments[p.sequence] ELSE fresh
           F == [i \in {p.fragment} |-> p.payload]
           a == [held EXCEPT !.got = With(@, F)]
<1>1. /\ p.fragments \in 1..MaxFragments
      /\ p.fragment \in 0..(p.fragments - 1)
      /\ p.fragment \in FragmentIndices
  BY ReorderAssumption, WindowAssumption DEF FragmentIndices
<1>2. << >> \in Fragments
  <2>1. << >> \in [{} -> {q.payload : q \in Packets}]
    OBVIOUS
  <2> QED BY <2>1, Zenon DEF Fragments
<1>3. fresh \in Assemblies /\ fresh.total = p.fragments
  BY <1>1, <1>2, WindowAssumption DEF Assemblies
<1>4. held \in Assemblies /\ held.total = p.fragments
  BY <1>3 DEF WindowTyped
<1> HIDE DEF held, F
<1>5. With(held.got, F) \in Fragments /\ p.fragment \in DOMAIN With(held.got, F)
  <2> DEFINE P == {q.payload : q \in Packets}
  <2>1. PICK D \in SUBSET FragmentIndices : held.got \in [D -> P]
    BY <1>4 DEF Assemblies, Fragments
  <2>2. F \in [{p.fragment} -> P]
    BY DEF F
  <2> HIDE DEF P
  <2>3. With(held.got, F) \in [D \cup {p.fragment} -> P]
    BY <2>1, <2>2 DEF With
  <2>4. D \cup {p.fragment} \in SUBSET FragmentIndices
    BY <1>1, <2>1
  <2>5. p.fragment \in DOMAIN With(held.got, F)
    BY <2>3
  <2> QED BY <2>3, <2>4, <2>5 DEF Fragments, P
<1>6. a \in Assemblies /\ a.total = p.fragments /\ a.got = With(held.got, F)
  BY <1>4, <1>5 DEF Assemblies
<1>7. a = WithFragment(w, p)
  BY DEF WithFragment, held, F
<1>8. p.fragment \in 0..(a.total - 1) /\ p.fragment \notin Missing(a)
  BY <1>1, <1>5, <1>6 DEF Missing
<1> HIDE DEF a
<1> QED BY <1>6, <1>7, <1>8

(* A payload at or ahead of next is stored and the window advanced. *)
LEMMA StoreWholeTyped ==
  ASSUME NEW w, Sound(w), WindowTyped(w), NEW p \in Packets, p.sequence >= w.next,
         NEW payload, NEW v \in StoreWhole(w, p, payload)
  PROVE  WindowTyped(v)
<1> DEFINE P == [s \in {p.sequence} |-> payload]
<1>1. DOMAIN P \subseteq w.next..MaxMediaSequence
  BY ReorderAssumption, WindowAssumption DEF Sound, MediaSequences
<1>2. v \in Advance({Accept(w, P)})
  BY DEF StoreWhole
<1> HIDE DEF P
<1>3. Sound(Accept(w, P))
  BY <1>1, AcceptSound DEF AtRest
<1>4. WindowTyped(Accept(w, P))
  BY AcceptTyped DEF Sound
<1> QED BY <1>2, <1>3, <1>4, AdvanceTyped

(* A fragment that fits the assembly of its sequence joins it. *)
LEMMA StoreFragmentTyped ==
  ASSUME NEW w, Sound(w), WindowTyped(w), NEW p \in Packets, p.sequence >= w.next,
         p.sequence \notin DOMAIN w.buffered,
         p.sequence \in DOMAIN w.fragments => w.fragments[p.sequence].total = p.fragments,
         NEW v \in StoreFragment(w, p)
  PROVE  WindowTyped(v)
<1> DEFINE a == WithFragment(w, p)
           F == [s \in {p.sequence} |-> a]
           u == [w EXCEPT !.fragments = With(@, F)]
<1>1. CASE IsComplete(a)
  <2>1. v \in StoreWhole(w, p, IntoPayload(a))
    BY <1>1 DEF StoreFragment
  <2> QED BY <2>1, StoreWholeTyped
<1>2. CASE ~IsComplete(a)
  <2>1. v \in Advance({u})
    BY <1>2 DEF StoreFragment
  <2>2. /\ DOMAIN u = WindowFields
        /\ u.next = w.next /\ u.buffered = w.buffered /\ u.seen = w.seen /\ u.gap = w.gap
        /\ u.fragments = With(w.fragments, F)
    BY DEF Sound, WindowFields
  <2>3. DOMAIN F = {p.sequence} /\ F[p.sequence] = a
    OBVIOUS
  <2>4. a \in Assemblies /\ Missing(a) \notin {{}, 0..(a.total - 1)}
    BY <1>2, WithFragmentTyped DEF IsComplete
  <2> HIDE DEF u, F, a
  <2>5. DOMAIN u.fragments = DOMAIN w.fragments \cup {p.sequence}
    BY <2>2, <2>3 DEF With
  <2>6. \A s \in DOMAIN u.fragments :
          u.fragments[s] = a \/ (s \in DOMAIN w.fragments /\ u.fragments[s] = w.fragments[s])
    BY <2>2, <2>3 DEF With
  <2>7. WindowTyped(u)
    <3>1. \A s \in DOMAIN u.fragments :
            /\ u.fragments[s] \in Assemblies
            /\ Missing(u.fragments[s]) \notin {{}, 0..(u.fragments[s].total - 1)}
      BY <2>4, <2>6, Zenon DEF WindowTyped
    <3> QED BY <2>2, <3>1 DEF WindowTyped
  <2>8. p.sequence \in w.next..MaxMediaSequence
    BY ReorderAssumption, WindowAssumption DEF Sound, MediaSequences
  <2>9. Sound(u)
    BY <2>2, <2>5, <2>8 DEF Sound
  <2> QED BY <2>1, <2>7, <2>9, AdvanceTyped
<1> QED BY <1>1, <1>2

(* So the second half of the loop body keeps a window typed. *)
LEMMA StoreMediaTyped ==
  ASSUME NEW w, AtRest(w), WindowTyped(w), NEW p \in Packets, p.sequence >= w.next,
         NEW v \in StoreMedia(w, p)
  PROVE  WindowTyped(v)
<1>1. CASE AlreadyHeld(w, p)
  BY <1>1 DEF StoreMedia
<1>2. CASE ~AlreadyHeld(w, p) /\ p.fragments = 1
  <2>1. v \in StoreWhole(w, p, {p.payload})
    BY <1>2 DEF StoreMedia
  <2> QED BY <2>1, StoreWholeTyped DEF AtRest
<1>3. CASE ~AlreadyHeld(w, p) /\ p.fragments # 1
  <2>1. v \in StoreFragment(w, p)
    BY <1>3 DEF StoreMedia
  <2>2. /\ p.sequence \notin DOMAIN w.buffered
        /\ p.sequence \in DOMAIN w.fragments => w.fragments[p.sequence].total = p.fragments
    BY <1>3 DEF AlreadyHeld
  <2> QED BY <2>1, <2>2, StoreFragmentTyped DEF AtRest
<1> QED BY <1>1, <1>2, <1>3

(* Forgetting the outputs leaves the maps. *)
LEMMA FreshTyped ==
  ASSUME NEW w, DOMAIN w = WindowFields, WindowTyped(w)
  PROVE  WindowTyped(Fresh(w))
<1>1. /\ Fresh(w).buffered = w.buffered
      /\ Fresh(w).fragments = w.fragments
      /\ Fresh(w).gap = w.gap
  BY DEF Fresh, WindowFields
<1> QED BY <1>1 DEF WindowTyped

(* Ages saturate at their bounds. *)
LEMMA AgedTyped ==
  ASSUME NEW w, DOMAIN w = WindowFields, WindowTyped(w)
  PROVE  WindowTyped(Aged(w))
<1> DEFINE v == Aged(w)
<1>1. /\ v.buffered = [s \in DOMAIN w.buffered |-> OlderPacket(w.buffered[s])]
      /\ v.fragments = [s \in DOMAIN w.fragments |-> OlderAssembly(w.fragments[s])]
      /\ v.gap = [s \in DOMAIN w.gap |-> Older(w.gap[s], RepairInterval)]
  BY DEF Aged, WindowFields
<1>2. \A bound \in Nat : \A age \in 0..bound : Older(age, bound) \in 0..bound
  BY DEF Older
<1> HIDE DEF v
<1>3. ASSUME NEW s \in DOMAIN v.gap PROVE v.gap[s] \in 0..RepairInterval
  BY <1>1, <1>2, WindowAssumption DEF WindowTyped
<1>4. ASSUME NEW s \in DOMAIN v.fragments
      PROVE  /\ v.fragments[s] \in Assemblies
             /\ Missing(v.fragments[s]) \notin {{}, 0..(v.fragments[s].total - 1)}
  <2> DEFINE a == w.fragments[s]
  <2>1. a \in Assemblies /\ Missing(a) \notin {{}, 0..(a.total - 1)}
    BY <1>1 DEF WindowTyped
  <2>2. v.fragments[s] = OlderAssembly(a)
    BY <1>1
  <2>3. /\ Older(a.first_seen, AgeBound) \in 0..AgeBound
        /\ Older(a.asked, RepairInterval) \in 0..RepairInterval
    BY <1>2, <2>1, WindowAssumption DEF Assemblies
  <2> HIDE DEF a
  <2>4. /\ OlderAssembly(a) \in Assemblies
        /\ OlderAssembly(a).total = a.total
        /\ OlderAssembly(a).got = a.got
    BY <2>1, <2>3 DEF Assemblies, OlderAssembly
  <2> QED BY <2>1, <2>2, <2>4 DEF Missing
<1>5. ASSUME NEW s \in DOMAIN v.buffered PROVE v.buffered[s].age \in 0..AgeBound
  <2>1. w.buffered[s].age \in 0..AgeBound
    BY <1>1 DEF WindowTyped
  <2>2. OlderPacket(w.buffered[s]).age \in 0..AgeBound
    BY <1>2, <2>1, WindowAssumption DEF OlderPacket
  <2> QED BY <1>1, <2>2
<1> QED BY <1>3, <1>4, <1>5 DEF WindowTyped, v

(* Nothing is held where a flow begins. *)
LEMMA EmptyWindowTyped ==
  ASSUME NEW s
  PROVE  WindowTyped(EmptyWindow(s))
BY DEF EmptyWindow, WindowTyped

-----------------------------------------------------------------------------
(* The variables beside the window. *)

LoopTyped ==
  /\ restart_detector.count \in 0..RestartConfirmPackets
  /\ restart_detector.highest_seq \in MediaSequences
  /\ flow_connections \subseteq Connections
  /\ reply_routes \in Seq({RemoteOf[c] : c \in Connections})
  /\ waited \in Nat

TypeInv == WindowTyped(window) /\ LoopTyped

(* The detector counts up to the confirming count and keeps a sequence it  *)
(* has seen.                                                               *)
LEMMA ObservedTyped ==
  ASSUME LoopTyped, NEW s \in MediaSequences
  PROVE  /\ Observed(s).count \in 0..RestartConfirmPackets
         /\ Observed(s).highest_seq \in MediaSequences
<1> DEFINE count == restart_detector.count
           highest == restart_detector.highest_seq
<1>1. /\ count \in Nat /\ count <= RestartConfirmPackets
      /\ highest \in MediaSequences /\ highest \in Nat /\ s \in Nat
      /\ RestartConfirmPackets \in Nat /\ 1 <= RestartConfirmPackets
  BY ReorderAssumption, WindowAssumption DEF LoopTyped, MediaSequences
<1> HIDE DEF count, highest
<1>2. Min({count + 1, RestartConfirmPackets}) \in 0..RestartConfirmPackets
  <2> DEFINE S == {count + 1, RestartConfirmPackets}
  <2>1. S \in SUBSET Nat /\ S # {}
    BY <1>1
  <2>2. Min(S) \in S /\ Min(S) <= RestartConfirmPackets
    BY <2>1, MinOfNaturals
  <2>3. Min(S) \in Nat
    BY <2>1, <2>2
  <2> QED BY <1>1, <2>2, <2>3
<1>3. Max({highest, s}) \in {highest, s}
  <2>1. \E x \in {highest, s} : \A y \in {highest, s} : x >= y
    BY <1>1
  <2> QED BY <2>1 DEF Max
<1>4. CASE restart_detector.count = 0 \/ s >= restart_detector.highest_seq
  <2>1. Observed(s) = [count       |-> Min({count + 1, RestartConfirmPackets}),
                       highest_seq |-> Max({highest, s})]
    BY <1>4 DEF Observed, count, highest
  <2> QED BY <1>1, <1>2, <1>3, <2>1
<1>5. CASE ~(restart_detector.count = 0 \/ s >= restart_detector.highest_seq)
  <2>1. Observed(s) = [count |-> 1, highest_seq |-> s]
    BY <1>5 DEF Observed
  <2> QED BY <1>1, <2>1
<1> QED BY <1>4, <1>5

(* A cleared detector, and a route added or alone, are typed. *)
LEMMA ClearedTyped ==
  /\ ClearDetector.count \in 0..RestartConfirmPackets
  /\ ClearDetector.highest_seq \in MediaSequences
BY ReorderAssumption, WindowAssumption DEF ClearDetector, MediaSequences

(* Routes lead to the remotes of connections. *)
LEMMA RoutesTyped ==
  ASSUME LoopTyped, NEW c \in Connections
  PROVE  /\ <<RemoteOf[c]>> \in Seq({RemoteOf[d] : d \in Connections})
         /\ AddRoute(reply_routes, RemoteOf[c]) \in Seq({RemoteOf[d] : d \in Connections})
<1> DEFINE R == {RemoteOf[d] : d \in Connections}
<1>1. RemoteOf[c] \in R /\ reply_routes \in Seq(R)
  BY DEF LoopTyped
<1> HIDE DEF R
<1>2. <<RemoteOf[c]>> \in Seq(R) /\ Append(reply_routes, RemoteOf[c]) \in Seq(R)
  BY <1>1
<1> QED BY <1>1, <1>2 DEF AddRoute, R

(* The loop starts typed. *)
LEMMA InitTyped == Init => TypeInv
<1> SUFFICES ASSUME Init PROVE TypeInv
  OBVIOUS
<1>1. WindowTyped(window)
  BY EmptyWindowTyped DEF Init
<1>2. LoopTyped
  BY ClearedTyped DEF Init, LoopTyped
<1> QED BY <1>1, <1>2 DEF TypeInv

(* Every turn of the loop and every tick of the clock keeps it typed. *)
LEMMA NextTyped == Inv /\ TypeInv /\ [Next]_vars => TypeInv'
<1> SUFFICES ASSUME Inv, TypeInv, [Next]_vars PROVE TypeInv'
  OBVIOUS
<1>0. /\ AtRest(window) /\ WindowTyped(window) /\ LoopTyped
      /\ AtRest(Fresh(window)) /\ Sound(Fresh(window)) /\ WindowTyped(Fresh(window))
      /\ Fresh(window).next = window.next /\ Pending(Fresh(window)) = Pending(window)
      /\ DOMAIN Fresh(window) = WindowFields
  <2>1. AtRest(window) /\ WindowTyped(window) /\ LoopTyped /\ DOMAIN window = WindowFields
    BY DEF Inv, TypeInv, AtRest, Sound
  <2> QED BY <2>1, FreshSound, FreshTyped DEF AtRest, Sound
<1>1. ASSUME NEW c \in Connections, NEW p \in Packets, StartFlow(c, p)
      PROVE  TypeInv'
  <2> DEFINE u == [Fresh(window) EXCEPT !.next = p.sequence, !.start = p.sequence,
                               !.delivered = {}, !.skips = {}, !.wrapped = FALSE]
  <2>1. window' \in StoreMedia(u, p) /\ Pending(window) = {} /\ DOMAIN window.gap = {}
    BY <1>1 DEF StartFlow, Inv
  <2>2. p.sequence \in Nat /\ p.sequence <= MaxMediaSequence /\ p.sequence \in MediaSequences
    BY ReorderAssumption, WindowAssumption DEF MediaSequences
  <2>3. Pending(Fresh(window)) = {} /\ DOMAIN Fresh(window).gap = {}
    BY <1>0, <2>1, FreshSound
  <2>4. /\ DOMAIN u = WindowFields
        /\ u.next = p.sequence
        /\ u.buffered = Fresh(window).buffered /\ u.fragments = Fresh(window).fragments
        /\ u.seen = Fresh(window).seen /\ u.gap = Fresh(window).gap
    BY <1>0 DEF WindowFields
  <2> HIDE DEF u
  <2>5. AtRest(u)
    BY <1>0, <2>2, <2>3, <2>4 DEF AtRest, Sound, Pending
  <2>6. WindowTyped(u) /\ p.sequence >= u.next
    BY <1>0, <2>2, <2>4 DEF WindowTyped
  <2>7. WindowTyped(window')
    BY <2>1, <2>5, <2>6, StoreMediaTyped
  <2>8. LoopTyped'
    BY <1>0, <1>1, RoutesTyped, ClearedTyped DEF StartFlow, LoopTyped
  <2> QED BY <2>7, <2>8 DEF TypeInv
<1>2. ASSUME NEW c \in Connections, NEW p \in Packets, ContinueFlow(c, p)
      PROVE  TypeInv'
  <2>1. p.sequence >= window.next /\ window' \in StoreMedia(Fresh(window), p)
    BY <1>2 DEF ContinueFlow
  <2>2. WindowTyped(window')
    BY <1>0, <2>1, StoreMediaTyped
  <2>3. LoopTyped'
    BY <1>0, <1>2, RoutesTyped, ClearedTyped DEF ContinueFlow, LoopTyped
  <2> QED BY <2>2, <2>3 DEF TypeInv
<1>3. ASSUME NEW c \in Connections, NEW p \in Packets, DropBehind(c, p)
      PROVE  TypeInv'
  <2>1. WindowTyped(window')
    BY <1>0, <1>3 DEF DropBehind
  <2>2. p.sequence \in MediaSequences
    BY ReorderAssumption
  <2>3. LoopTyped'
    BY <1>0, <1>3, <2>2, ObservedTyped, RoutesTyped, ClearedTyped DEF DropBehind, LoopTyped
  <2> QED BY <2>1, <2>3 DEF TypeInv
<1>4. ASSUME NEW c \in Connections, NEW p \in Packets, ConfirmRestart(c, p)
      PROVE  TypeInv'
  <2>1. window' \in StoreMedia(EmptyWindow(p.sequence), p)
    BY <1>4 DEF ConfirmRestart
  <2>2. p.sequence \in MediaSequences /\ p.sequence >= EmptyWindow(p.sequence).next
    BY ReorderAssumption, WindowAssumption DEF MediaSequences, EmptyWindow
  <2>3. WindowTyped(window')
    BY <2>1, <2>2, EmptyWindowSound, EmptyWindowTyped, StoreMediaTyped
  <2>4. LoopTyped'
    BY <1>0, <1>4, <2>2, ObservedTyped, RoutesTyped DEF ConfirmRestart, LoopTyped
  <2> QED BY <2>3, <2>4 DEF TypeInv
<1>5. ASSUME NEW c \in Connections, ReceiveFec(c)
      PROVE  TypeInv'
  <2>1. WindowTyped(window')
    <3>1. CASE initialized
      <4>1. window' \in Advance({Fresh(window)})
        BY <1>5, <3>1 DEF ReceiveFec
      <4> QED BY <1>0, <4>1, AdvanceTyped
    <3>2. CASE ~initialized
      BY <1>0, <1>5, <3>2 DEF ReceiveFec
    <3> QED BY <3>1, <3>2
  <2>2. LoopTyped'
    BY <1>0, <1>5, RoutesTyped DEF ReceiveFec, LoopTyped
  <2> QED BY <2>1, <2>2 DEF TypeInv
<1>6. ASSUME TimeoutAdvance
      PROVE  TypeInv'
  <2>1. window' \in Advance({Fresh(window)})
    BY <1>6 DEF TimeoutAdvance
  <2>2. WindowTyped(window')
    BY <1>0, <2>1, AdvanceTyped
  <2>3. LoopTyped'
    BY <1>0, <1>6 DEF TimeoutAdvance, LoopTyped
  <2> QED BY <2>2, <2>3 DEF TypeInv
<1>7. ASSUME TimeoutIdle
      PROVE  TypeInv'
  <2>1. window' = [Fresh(window) EXCEPT !.next = 0, !.skipped = << >>, !.gap = << >>]
    BY <1>7 DEF TimeoutIdle
  <2>2. /\ window'.buffered = Fresh(window).buffered
        /\ window'.fragments = Fresh(window).fragments
        /\ window'.gap = << >>
    BY <1>0, <2>1 DEF WindowFields
  <2>3. WindowTyped(window')
    BY <1>0, <2>2 DEF WindowTyped
  <2>4. LoopTyped'
    BY <1>0, <1>7, ClearedTyped DEF TimeoutIdle, LoopTyped
  <2> QED BY <2>3, <2>4 DEF TypeInv
<1>8. ASSUME TimeoutNoFlow
      PROVE  TypeInv'
  BY <1>0, <1>8 DEF TimeoutNoFlow, TypeInv, LoopTyped
<1>9. ASSUME Tick
      PROVE  TypeInv'
  <2>1. WindowTyped(window')
    BY <1>0, <1>9, AgedTyped DEF Tick
  <2>2. LoopTyped'
    BY <1>0, <1>9 DEF Tick, LoopTyped
  <2> QED BY <2>1, <2>2 DEF TypeInv
<1>10. ASSUME UNCHANGED vars
       PROVE  TypeInv'
  BY <1>0, <1>10 DEF vars, TypeInv, LoopTyped
<1> QED
  BY <1>1, <1>2, <1>3, <1>4, <1>5, <1>6, <1>7, <1>8, <1>9, <1>10
  DEF Next, ReceivePacket, Timeout

(* The variables of reorder_loop always have their types: in particular no *)
(* sequence leaves the media range, no assembly stays complete or empty,   *)
(* and the detector's count is bounded.                                    *)
THEOREM TypeCorrect == Spec => []TypeOK
<1>1. Inv /\ TypeInv => TypeOK
  <2> SUFFICES ASSUME Inv, TypeInv PROVE TypeOK
    OBVIOUS
  <2>1. window.next \in MediaSequences /\ initialized \in BOOLEAN
    BY DEF Inv, AtRest, Sound
  <2>2. Pending(window) \cup window.seen \cup DOMAIN window.gap \subseteq MediaSequences
    BY WindowAssumption DEF Inv, AtRest, Sound, Pending, MediaSequences
  <2> QED BY <2>1, <2>2 DEF TypeInv, LoopTyped, TypeOK
<1>2. Spec => []TypeInv
  BY InitTyped, NextTyped, InvHolds, PTL DEF Spec
<1> QED BY <1>1, <1>2, InvHolds, PTL

-----------------------------------------------------------------------------
(* One turn of the loop. *)

(* The age of what is pending is a number. *)
LEMMA PendingAgeIsNat ==
  ASSUME NEW w, WindowTyped(w), NEW s \in Pending(w)
  PROVE  PendingAge(w, s) \in Nat
<1>1. CASE s \in DOMAIN w.buffered
  BY <1>1, WindowAssumption DEF PendingAge, WindowTyped
<1>2. CASE s \notin DOMAIN w.buffered
  <2>1. s \in DOMAIN w.fragments
    BY <1>2 DEF Pending
  <2>2. w.fragments[s].first_seen \in 0..AgeBound
    BY <2>1 DEF WindowTyped, Assemblies
  <2> QED BY <1>2, <2>2, WindowAssumption DEF PendingAge
<1> QED BY <1>1, <1>2

(* Asking for repairs forwards and skips nothing. *)
LEMMA RequestDueRepairsInTurn ==
  ASSUME NEW w, Sound(w), WindowTyped(w), NEW u, Ordered(w, u), Patient(w, u)
  PROVE  Ordered(RequestDueRepairs(w), u) /\ Patient(RequestDueRepairs(w), u)
<1> DEFINE v == RequestDueRepairs(w)
           A == AssembliesAsked(w)
           Renewed(s) == IF s \in A THEN [w.fragments[s] EXCEPT !.asked = 0] ELSE w.fragments[s]
<1>1. /\ v.next = w.next
      /\ v.buffered = w.buffered
      /\ v.fragments = [s \in DOMAIN w.fragments |-> Renewed(s)]
      /\ v.out = w.out
      /\ v.skips = w.skips
      /\ v.wrapped = w.wrapped
  BY DEF RequestDueRepairs, Sound, WindowFields
<1> HIDE DEF v, A
<1>2. ASSUME NEW s \in DOMAIN w.fragments
      PROVE  v.fragments[s].first_seen = w.fragments[s].first_seen
  <2>1. w.fragments[s] \in Assemblies
    BY DEF WindowTyped
  <2>2. [w.fragments[s] EXCEPT !.asked = 0].first_seen = w.fragments[s].first_seen
    BY <2>1 DEF Assemblies
  <2> QED BY <1>1, <2>2
<1>3. DOMAIN v.fragments = DOMAIN w.fragments
  BY <1>1
<1>4. Pending(v) = Pending(w)
  BY <1>1, <1>3 DEF Pending
<1>5. ASSUME NEW t \in Pending(v) PROVE PendingAge(v, t) = PendingAge(w, t)
  BY <1>1, <1>2, <1>3 DEF Pending, PendingAge
<1>6. \A t \in Pending(v) : Overdue(v, t) => Overdue(w, t)
  BY <1>5 DEF Overdue
<1>7. Ordered(v, u)
  BY <1>1 DEF Ordered, OutIsSequence
<1>8. Patient(v, u)
  <2>1. w.wrapped = FALSE =>
          \A t \in Pending(v) : Overdue(v, t) => t \in Pending(u) /\ Overdue(u, t)
    BY <1>4, <1>6 DEF Patient
  <2> QED BY <1>1, <2>1 DEF Patient
<1> QED BY <1>7, <1>8 DEF v

(* A sequence is skipped because something at or behind it is overdue, and *)
(* what is buffered is not skipped.                                        *)
LEMMA ExpireInTurn ==
  ASSUME NEW w, Sound(w), WindowTyped(w), NEW u, Sound(u), Ordered(w, u), Patient(w, u)
  PROVE  Ordered(Expire(w), u) /\ Patient(Expire(w), u)
<1> DEFINE end     == ExpireEnd(w)
           expired == w.next..(end - 1)
           v       == Expire(w)
<1>1. /\ end \in w.next..(MaxMediaSequence + 1)
      /\ \A s \in expired : ~ExpireStopsAt(w, s)
  BY ExpireEndIsFirstStop
<1>2. /\ w.next \in Nat /\ MaxMediaSequence \in Nat /\ end \in Int /\ w.next <= end
      /\ u.next \in Nat
  BY <1>1, WindowAssumption DEF Sound, MediaSequences
<1>3. /\ v.next = Wrap(end)
      /\ v.buffered = w.buffered
      /\ v.fragments = Without(w.fragments, expired)
      /\ v.out = w.out
      /\ v.skips = Recorded(w, end, w.skips \cup expired)
      /\ v.wrapped = (w.wrapped \/ end > MaxMediaSequence)
  BY ExpireFields DEF Sound
<1> HIDE DEF v, end
<1>4. /\ v.wrapped \in BOOLEAN
      /\ v.wrapped = FALSE => w.wrapped = FALSE /\ ~(end > MaxMediaSequence)
  BY <1>2, <1>3, StillUnwrapped DEF Ordered
<1>5. Ordered(v, u)
  <2>1. OutIsSequence(v)
    BY <1>3 DEF Ordered, OutIsSequence
  <2>2. ASSUME v.wrapped = FALSE
        PROVE  u.wrapped = FALSE /\ u.next <= v.next /\ Ascending(v.out, u.next, v.next)
    <3> DEFINE low == u.next
               high == w.next
    <3>1. /\ v.next = end /\ v.out = w.out /\ u.wrapped = FALSE
          /\ low <= high /\ Ascending(w.out, low, high)
      BY <1>3, <1>4, <2>2 DEF Wrap, Ordered
    <3>2. low \in Int /\ high \in Int /\ high <= end
      BY <1>2
    <3> HIDE DEF low, high
    <3>3. Ascending(w.out, low, end)
      BY <1>2, <3>1, <3>2, AscendingBelow
    <3>4. low <= end
      BY <1>2, <3>1, <3>2
    <3> QED BY <3>1, <3>3, <3>4 DEF low
  <2> QED BY <1>4, <2>1, <2>2 DEF Ordered
<1>6. ASSUME v.wrapped = FALSE
      PROVE  /\ \A s \in DOMAIN u.buffered : s >= v.next => s \in DOMAIN v.buffered
             /\ \A t \in Pending(v) : Overdue(v, t) => t \in Pending(u) /\ Overdue(u, t)
             /\ \A s \in v.skips \ u.skips : MaySkip(u, s)
  <2>1. w.wrapped = FALSE /\ v.next = end /\ v.skips = w.skips \cup expired
    BY <1>3, <1>4, <1>6 DEF Wrap, Recorded
  <2>2. /\ \A s \in DOMAIN u.buffered : s >= w.next => s \in DOMAIN w.buffered
        /\ \A t \in Pending(w) : Overdue(w, t) => t \in Pending(u) /\ Overdue(u, t)
        /\ \A s \in w.skips \ u.skips : MaySkip(u, s)
    BY <2>1 DEF Patient
  <2>3. /\ DOMAIN v.fragments = DOMAIN w.fragments \ expired
        /\ \A s \in DOMAIN v.fragments : v.fragments[s] = w.fragments[s]
    BY <1>3 DEF Without, Restrict
  <2>4. ASSUME NEW s \in DOMAIN u.buffered, s >= v.next PROVE s \in DOMAIN v.buffered
    <3>1. s \in Nat
      BY WindowAssumption DEF Sound, MediaSequences
    <3> QED BY <1>2, <1>3, <2>1, <2>2, <2>4, <3>1
  <2>5. ASSUME NEW t \in Pending(v), Overdue(v, t)
        PROVE  t \in Pending(u) /\ Overdue(u, t)
    <3>1. t \in Pending(w) /\ PendingAge(v, t) = PendingAge(w, t)
      BY <1>3, <2>3 DEF Pending, PendingAge
    <3> QED BY <2>2, <2>5, <3>1 DEF Overdue
  <2>6. ASSUME NEW s \in expired PROVE MaySkip(u, s)
    <3>1. ~ExpireStopsAt(w, s) /\ s \in Int /\ s >= w.next
      BY <1>1, <1>2
    <3>2. s \notin DOMAIN w.buffered
      BY <3>1 DEF ExpireStopsAt
    <3>3. s \notin DOMAIN u.buffered
      BY <2>2, <3>1, <3>2
    <3>4. \E t \in Pending(w) : t >= s /\ Overdue(w, t)
      <4>1. CASE s \in DOMAIN w.fragments
        <5>1. s \in Pending(w) /\ PendingAge(w, s) \in Nat
          BY <4>1, PendingAgeIsNat DEF Pending
        <5>2. PendingAge(w, s) = w.fragments[s].first_seen
          BY <3>2 DEF PendingAge
        <5>3. ~(w.fragments[s].first_seen < MaxReorderDelay)
          BY <3>1, <4>1 DEF ExpireStopsAt
        <5>4. Overdue(w, s) /\ s >= s
          BY <3>1, <5>1, <5>2, <5>3, WindowAssumption DEF Overdue
        <5> QED BY <5>1, <5>4
      <4>2. CASE s \notin DOMAIN w.fragments
        <5>1. PICK t \in Pending(w) : t >= s /\ ~(PendingAge(w, t) < MaxReorderDelay)
          BY <3>1, <3>2, <4>2 DEF ExpireStopsAt, Pending
        <5>2. PendingAge(w, t) \in Nat
          BY PendingAgeIsNat
        <5>3. Overdue(w, t)
          BY <5>1, <5>2, WindowAssumption DEF Overdue
        <5> QED BY <5>1, <5>3
      <4> QED BY <4>1, <4>2
    <3> QED BY <2>2, <3>3, <3>4 DEF MaySkip
  <2> QED BY <2>1, <2>2, <2>4, <2>5, <2>6
<1>7. Patient(v, u)
  BY <1>6 DEF Patient
<1> QED BY <1>5, <1>7 DEF v

(* A turn that ends by expiring a gap and draining what is behind it       *)
(* leaves nothing overdue, or has forwarded something.                     *)
LEMMA ExpireThenDrain ==
  ASSUME NEW w, Sound(w), WindowTyped(w), NEW u, Sound(u), Ordered(w, u), Patient(w, u)
  PROVE  NothingOverdue(Drain(Expire(w))) \/ Drain(Expire(w)).out # << >>
<1> DEFINE end     == ExpireEnd(w)
           expired == w.next..(end - 1)
           x       == Expire(w)
           v       == Drain(x)
<1>1. /\ end \in w.next..(MaxMediaSequence + 1)
      /\ \A s \in expired : ~ExpireStopsAt(w, s)
      /\ ExpireStopsAt(w, end)
  BY ExpireEndIsFirstStop, ExpireEndStops
<1>2. w.next \in Nat /\ MaxMediaSequence \in Nat /\ end \in Nat
  BY <1>1, WindowAssumption DEF Sound, MediaSequences
<1>3. /\ x.next = Wrap(end)
      /\ x.buffered = w.buffered
      /\ x.fragments = Without(w.fragments, expired)
  BY ExpireFields DEF Sound
<1>4. Sound(x) /\ Ordered(x, u)
  BY ExpireSound, ExpireInTurn
<1>5. /\ v.next = Wrap(RunEnd(x))
      /\ v.buffered = Without(x.buffered, x.next..(RunEnd(x) - 1))
      /\ v.fragments = x.fragments
  BY <1>4, DrainFields DEF Sound
<1>6. x.next \in DOMAIN x.buffered => v.out # << >>
  BY <1>4, DrainOrdered
<1>7. /\ RunEnd(x) \in x.next..(MaxMediaSequence + 1)
      /\ x.next..(RunEnd(x) - 1) \subseteq DOMAIN x.buffered
      /\ x.next \in Nat /\ x.next <= MaxMediaSequence
  BY <1>2, <1>4, RunEndIsFirstMissing DEF Sound, MediaSequences
<1> HIDE DEF x, v, end
<1>8. CASE x.next \in DOMAIN x.buffered
  BY <1>6, <1>8 DEF v, x
<1>9. CASE x.next \notin DOMAIN x.buffered
  <2>1. RunEnd(x) = x.next
    BY <1>2, <1>7, <1>9
  <2>2. v.next = x.next
    BY <1>2, <1>5, <1>7, <2>1 DEF Wrap
  <2>3. /\ DOMAIN v.buffered = DOMAIN w.buffered
        /\ \A s \in DOMAIN v.buffered : v.buffered[s] = w.buffered[s]
    <3>1. x.next..(RunEnd(x) - 1) = {}
      BY <1>7, <2>1
    <3> QED BY <1>3, <1>5, <3>1 DEF Without, Restrict
  <2>4. /\ DOMAIN v.fragments = DOMAIN w.fragments \ expired
        /\ \A s \in DOMAIN v.fragments : v.fragments[s] = w.fragments[s]
    BY <1>3, <1>5 DEF Without, Restrict
  <2>5. ASSUME NEW t \in Pending(v)
        PROVE  t \in Pending(w) /\ PendingAge(v, t) = PendingAge(w, t)
    BY <2>3, <2>4 DEF Pending, PendingAge
  <2>6. \A s \in Pending(w) : s \in w.next..MaxMediaSequence
    BY DEF Sound, Pending
  <2>7. end \in DOMAIN w.buffered => end = x.next
    BY <1>2, <1>3, <2>6 DEF Wrap, Pending
  <2>8. CASE end \in DOMAIN w.fragments /\ w.fragments[end].first_seen < MaxReorderDelay
    <3>1. end \in DOMAIN v.fragments /\ end = x.next
      BY <1>2, <1>3, <2>4, <2>6, <2>8 DEF Wrap, Pending
    <3> QED BY <2>2, <2>4, <2>8, <3>1 DEF NothingOverdue, v, x
  <2>9. CASE /\ end \notin Pending(w)
             /\ \A s \in Pending(w) : s >= end => PendingAge(w, s) < MaxReorderDelay
    <3>1. ASSUME NEW t \in Pending(v) PROVE t >= end
      <4>1. t \notin expired /\ t \in w.next..MaxMediaSequence
        <5>1. CASE t \in DOMAIN w.buffered
          BY <1>1, <2>5, <2>6, <5>1 DEF ExpireStopsAt
        <5>2. CASE t \notin DOMAIN w.buffered
          BY <2>3, <2>4, <2>5, <2>6, <5>2 DEF Pending
        <5> QED BY <5>1, <5>2
      <4> QED BY <1>2, <4>1
    <3>2. \A t \in Pending(v) : PendingAge(v, t) < MaxReorderDelay
      BY <2>5, <2>9, <3>1
    <3>3. v.next \notin DOMAIN v.fragments
      <4>1. CASE end <= MaxMediaSequence
        <5>1. v.next = end
          BY <1>2, <1>3, <2>2, <4>1 DEF Wrap
        <5> QED BY <2>4, <2>9, <5>1 DEF Pending
      <4>2. CASE end > MaxMediaSequence
        <5>1. ASSUME NEW t \in DOMAIN v.fragments PROVE FALSE
          <6>1. t >= end /\ t \in w.next..MaxMediaSequence
            BY <2>5, <2>6, <3>1 DEF Pending
          <6> QED BY <1>2, <4>2, <6>1
        <5> QED BY <5>1
      <4> QED BY <1>2, <4>1, <4>2
    <3> QED BY <3>2, <3>3 DEF NothingOverdue, v, x
  <2> QED BY <1>1, <1>3, <1>9, <2>7, <2>8, <2>9 DEF ExpireStopsAt
<1> QED BY <1>8, <1>9

(* advance_reorder_window as a whole. *)
LEMMA AdvanceInTurn ==
  ASSUME NEW Ws, NEW v \in Advance(Ws), NEW u, Sound(u),
         \A w \in Ws : Sound(w) /\ WindowTyped(w) /\ Ordered(w, u) /\ Patient(w, u)
  PROVE  /\ Ordered(v, u) /\ Patient(v, u)
         /\ NothingOverdue(v) \/ v.out # << >>
<1> DEFINE R == UNION {RecoverFecReady(w) : w \in Ws}
<1>1. PICK x \in RepairsAsked(R) : v = Drain(Expire(x))
  BY DEF Advance
<1>2. \A r \in R : Sound(r) /\ WindowTyped(r) /\ Ordered(r, u) /\ Patient(r, u)
  BY RecoverFecReadySound, RecoverTyped, RecoverInTurn DEF AtRest
<1>3. \A r \in R : DOMAIN r = WindowFields
  BY <1>2 DEF Sound
<1> HIDE DEF R
<1>4. Sound(x) /\ WindowTyped(x) /\ Ordered(x, u) /\ Patient(x, u)
  <2>1. CASE x \in R
    BY <1>2, <2>1
  <2>2. CASE x \notin R
    <3>1. PICK r \in R : x = RequestDueRepairs(r)
      BY <1>1, <2>2 DEF RepairsAsked
    <3> QED
      BY <1>2, <1>3, <3>1, RequestDueRepairsSound, RequestDueRepairsTyped, RequestDueRepairsInTurn
  <2> QED BY <2>1, <2>2
<1>5. Sound(Expire(x)) /\ Ordered(Expire(x), u) /\ Patient(Expire(x), u)
  BY <1>4, ExpireSound, ExpireInTurn
<1>6. Ordered(v, u) /\ Patient(v, u)
  BY <1>1, <1>5, DrainOrdered, DrainPatient DEF Ordered
<1>7. NothingOverdue(v) \/ v.out # << >>
  BY <1>1, <1>4, ExpireThenDrain
<1> QED BY <1>6, <1>7

(* What a handler starts from is the start of a turn. *)
LEMMA FreshInTurn ==
  ASSUME NEW w, AtRest(w), w.wrapped \in BOOLEAN
  PROVE  /\ Ordered(Fresh(w), w) /\ Patient(Fresh(w), w)
         /\ Fresh(w).skips = w.skips /\ Fresh(w).wrapped = w.wrapped
         /\ Fresh(w).out = << >> /\ Fresh(w).requests = {}
<1> DEFINE v == Fresh(w)
<1>1. /\ v.next = w.next /\ v.buffered = w.buffered /\ v.fragments = w.fragments
      /\ v.skips = w.skips /\ v.wrapped = w.wrapped
      /\ v.out = << >> /\ v.requests = {}
  BY DEF Fresh, AtRest, Sound, WindowFields
<1>2. Sound(v)
  BY FreshSound DEF AtRest
<1> HIDE DEF v
<1>3. Ordered(v, w) /\ Patient(v, w)
  BY <1>1, <1>2, TurnBegins
<1> QED BY <1>1, <1>3 DEF v

(* A new packet or fragment is not overdue. *)
LEMMA StoreWholeInTurn ==
  ASSUME NEW w, Sound(w), WindowTyped(w), NEW u, Sound(u), Ordered(w, u), Patient(w, u),
         NEW p \in Packets, p.sequence >= w.next, NEW payload,
         NEW v \in StoreWhole(w, p, payload)
  PROVE  /\ Ordered(v, u) /\ Patient(v, u)
         /\ NothingOverdue(v) \/ v.out # << >>
<1> DEFINE P == [s \in {p.sequence} |-> payload]
<1>1. DOMAIN P \subseteq w.next..MaxMediaSequence
  BY ReorderAssumption, WindowAssumption DEF Sound, MediaSequences
<1>2. v \in Advance({Accept(w, P)})
  BY DEF StoreWhole
<1> HIDE DEF P
<1>3. Sound(Accept(w, P)) /\ WindowTyped(Accept(w, P))
  BY <1>1, AcceptSound, AcceptTyped DEF AtRest, Sound
<1>4. Ordered(Accept(w, P), u) /\ Patient(Accept(w, P), u)
  BY <1>1, AcceptInTurn
<1> QED BY <1>2, <1>3, <1>4, AdvanceInTurn

(* A fragment that leaves its assembly incomplete joins it. *)
LEMMA JoinAssembly ==
  ASSUME NEW w, Sound(w), WindowTyped(w),
         NEW p \in Packets, p.sequence >= w.next, p.sequence \notin DOMAIN w.buffered,
         p.sequence \in DOMAIN w.fragments => w.fragments[p.sequence].total = p.fragments,
         ~IsComplete(WithFragment(w, p))
  PROVE  LET a == WithFragment(w, p)
             x == [w EXCEPT !.fragments = With(@, [s \in {p.sequence} |-> a])]
         IN  /\ Sound(x) /\ WindowTyped(x)
             /\ x.next = w.next /\ x.buffered = w.buffered /\ x.out = w.out
             /\ x.skips = w.skips /\ x.wrapped = w.wrapped
             /\ DOMAIN x.fragments = DOMAIN w.fragments \cup {p.sequence}
             /\ x.fragments[p.sequence] = a
             /\ \A s \in DOMAIN w.fragments \ {p.sequence} : x.fragments[s] = w.fragments[s]
             /\ a.first_seen = IF p.sequence \in DOMAIN w.fragments
                               THEN w.fragments[p.sequence].first_seen ELSE 0
<1> DEFINE a == WithFragment(w, p)
           F == [s \in {p.sequence} |-> a]
           x == [w EXCEPT !.fragments = With(@, F)]
<1>1. /\ DOMAIN x = WindowFields
      /\ x.next = w.next /\ x.buffered = w.buffered /\ x.seen = w.seen /\ x.gap = w.gap
      /\ x.fragments = With(w.fragments, F)
      /\ x.out = w.out /\ x.skips = w.skips /\ x.wrapped = w.wrapped
  BY DEF Sound, WindowFields
<1>2. DOMAIN F = {p.sequence} /\ F[p.sequence] = a
  OBVIOUS
<1>3. a \in Assemblies /\ Missing(a) \notin {{}, 0..(a.total - 1)}
  BY WithFragmentTyped DEF IsComplete
<1>4. a.first_seen = IF p.sequence \in DOMAIN w.fragments
                     THEN w.fragments[p.sequence].first_seen ELSE 0
  <2>1. p.sequence \in DOMAIN w.fragments => w.fragments[p.sequence] \in Assemblies
    BY DEF WindowTyped
  <2> QED BY <2>1 DEF WithFragment, Assemblies
<1> HIDE DEF x, F, a
<1>5. /\ DOMAIN x.fragments = DOMAIN w.fragments \cup {p.sequence}
      /\ x.fragments[p.sequence] = a
      /\ \A s \in DOMAIN w.fragments \ {p.sequence} : x.fragments[s] = w.fragments[s]
  BY <1>1, <1>2 DEF With
<1>6. WindowTyped(x)
  <2>1. \A s \in DOMAIN x.fragments :
          /\ x.fragments[s] \in Assemblies
          /\ Missing(x.fragments[s]) \notin {{}, 0..(x.fragments[s].total - 1)}
    BY <1>3, <1>5, Zenon DEF WindowTyped
  <2> QED BY <1>1, <2>1 DEF WindowTyped
<1>7. p.sequence \in w.next..MaxMediaSequence
  BY ReorderAssumption, WindowAssumption DEF Sound, MediaSequences
<1>8. Sound(x)
  BY <1>1, <1>5, <1>7 DEF Sound
<1> QED BY <1>1, <1>4, <1>5, <1>6, <1>8 DEF x, F, a

(* Nor is the packet that a fragment completes. *)
LEMMA StoreFragmentInTurn ==
  ASSUME NEW w, Sound(w), WindowTyped(w), NEW u, Sound(u), Ordered(w, u), Patient(w, u),
         NEW p \in Packets, p.sequence >= w.next, p.sequence \notin DOMAIN w.buffered,
         p.sequence \in DOMAIN w.fragments => w.fragments[p.sequence].total = p.fragments,
         NEW v \in StoreFragment(w, p)
  PROVE  /\ Ordered(v, u) /\ Patient(v, u)
         /\ NothingOverdue(v) \/ v.out # << >>
<1> DEFINE a == WithFragment(w, p)
           F == [s \in {p.sequence} |-> a]
           x == [w EXCEPT !.fragments = With(@, F)]
<1>1. CASE IsComplete(a)
  <2>1. v \in StoreWhole(w, p, IntoPayload(a))
    BY <1>1 DEF StoreFragment
  <2> QED BY <2>1, StoreWholeInTurn
<1>2. CASE ~IsComplete(a)
  <2>1. v \in Advance({x})
    BY <1>2 DEF StoreFragment
  <2>2. /\ Sound(x) /\ WindowTyped(x)
        /\ x.next = w.next /\ x.buffered = w.buffered /\ x.out = w.out
        /\ x.skips = w.skips /\ x.wrapped = w.wrapped
        /\ DOMAIN x.fragments = DOMAIN w.fragments \cup {p.sequence}
        /\ x.fragments[p.sequence] = a
        /\ \A s \in DOMAIN w.fragments \ {p.sequence} : x.fragments[s] = w.fragments[s]
        /\ a.first_seen = IF p.sequence \in DOMAIN w.fragments
                          THEN w.fragments[p.sequence].first_seen ELSE 0
    BY <1>2, JoinAssembly
  <2> HIDE DEF x, F, a
  <2>3. Ordered(x, u)
    BY <2>2 DEF Ordered, OutIsSequence
  <2>4. ASSUME NEW t \in Pending(x), Overdue(x, t)
         PROVE  t \in Pending(w) /\ Overdue(w, t)
    <3>1. CASE t = p.sequence
      <4>1. PendingAge(x, t) = a.first_seen
        BY <2>2, <3>1 DEF PendingAge
      <4>2. t \in DOMAIN w.fragments
        BY <2>2, <2>4, <3>1, <4>1, WindowAssumption DEF Overdue
      <4>3. PendingAge(w, t) = a.first_seen
        BY <2>2, <3>1, <4>2 DEF PendingAge
      <4> QED BY <2>4, <4>1, <4>2, <4>3 DEF Overdue, Pending
    <3>2. CASE t # p.sequence
      BY <2>2, <2>4, <3>2 DEF Pending, PendingAge, Overdue
    <3> QED BY <3>1, <3>2
  <2>5. Patient(x, u)
    <3>1. w.wrapped = FALSE =>
            \A t \in Pending(x) : Overdue(x, t) => t \in Pending(u) /\ Overdue(u, t)
      BY <2>4 DEF Patient
    <3> QED BY <2>2, <3>1 DEF Patient
  <2> QED BY <2>1, <2>2, <2>3, <2>5, AdvanceInTurn
<1> QED BY <1>1, <1>2

(* So storing a packet stays within the turn; only one that is held        *)
(* already leaves the window as it is.                                     *)
LEMMA StoreMediaInTurn ==
  ASSUME NEW w, AtRest(w), WindowTyped(w), NEW u, Sound(u), Ordered(w, u), Patient(w, u),
         NEW p \in Packets, p.sequence >= w.next, NEW v \in StoreMedia(w, p)
  PROVE  /\ Ordered(v, u) /\ Patient(v, u)
         /\ NothingOverdue(v) \/ v.out # << >> \/ (v = w /\ AlreadyHeld(w, p))
<1>1. CASE AlreadyHeld(w, p)
  BY <1>1 DEF StoreMedia
<1>2. CASE ~AlreadyHeld(w, p) /\ p.fragments = 1
  <2>1. v \in StoreWhole(w, p, {p.payload})
    BY <1>2 DEF StoreMedia
  <2> QED BY <2>1, StoreWholeInTurn DEF AtRest
<1>3. CASE ~AlreadyHeld(w, p) /\ p.fragments # 1
  <2>1. v \in StoreFragment(w, p)
    BY <1>3 DEF StoreMedia
  <2>2. /\ p.sequence \notin DOMAIN w.buffered
        /\ p.sequence \in DOMAIN w.fragments => w.fragments[p.sequence].total = p.fragments
    BY <1>3 DEF AlreadyHeld
  <2> QED BY <2>1, <2>2, StoreFragmentInTurn DEF AtRest
<1> QED BY <1>1, <1>2, <1>3

-----------------------------------------------------------------------------
(* The repair requests of a turn. *)

(* The requests of a turn are for what misses. *)
LEMMA RequestDueRepairsModest ==
  ASSUME NEW w, Sound(w), Accounted(w), WindowTyped(w)
  PROVE  Modest(RequestDueRepairs(w))
<1> DEFINE v == RequestDueRepairs(w)
           A == AssembliesAsked(w)
           Renewed(s) == IF s \in A THEN [w.fragments[s] EXCEPT !.asked = 0] ELSE w.fragments[s]
           requests == [sequence : IF HeadRequestDue(w) THEN {w.next} ELSE {},
                        missing  : {FragmentIndices}]
                       \cup {[sequence |-> s, missing |-> Missing(w.fragments[s])] : s \in A}
<1>1. /\ v.buffered = w.buffered
      /\ v.fragments = [s \in DOMAIN w.fragments |-> Renewed(s)]
      /\ v.delivered = w.delivered
      /\ v.wrapped = w.wrapped
      /\ v.requests = requests
  BY DEF RequestDueRepairs, Sound, WindowFields
<1>2. Cardinality(requests) <= MaxRepairRequestsPerTick
  <2> DEFINE q == requests
  <2>1. q = requests
    OBVIOUS
  <2> HIDE DEF q
  <2>2. Cardinality(q) <= MaxRepairRequestsPerTick
    BY <2>1, FewRequests
  <2> QED BY <2>1, <2>2
<1>3. A \subseteq DOMAIN w.fragments
  BY DEF AssembliesAsked, AssembliesDue
<1>4. ASSUME NEW r \in requests
      PROVE  \/ r.sequence = w.next /\ w.next \notin Pending(w)
             \/ /\ r.sequence \in DOMAIN w.fragments
                /\ r.missing = Missing(w.fragments[r.sequence])
  <2>1. CASE r \in [sequence : IF HeadRequestDue(w) THEN {w.next} ELSE {},
                     missing  : {FragmentIndices}]
    BY <2>1 DEF HeadRequestDue
  <2>2. CASE r \in {[sequence |-> s, missing |-> Missing(w.fragments[s])] : s \in A}
    BY <1>3, <2>2
  <2> QED BY <2>1, <2>2
<1> HIDE DEF v, A, requests
<1>5. ASSUME NEW s \in DOMAIN w.fragments
      PROVE  Missing(v.fragments[s]) = Missing(w.fragments[s])
  <2>1. w.fragments[s] \in Assemblies
    BY DEF WindowTyped
  <2>2. v.fragments[s].total = w.fragments[s].total /\ v.fragments[s].got = w.fragments[s].got
    BY <1>1, <2>1 DEF Assemblies
  <2> QED BY <2>2 DEF Missing
<1>6. ~w.wrapped => \A s \in w.delivered : s \in Int /\ s < w.next
  <2>1. ~w.wrapped => w.delivered \subseteq w.start..(w.next - 1)
    BY DEF Accounted
  <2> QED BY <2>1, WindowAssumption DEF Sound, MediaSequences
<1>7. w.next \in Int /\ \A s \in DOMAIN w.fragments :
        s \in Int /\ s >= w.next /\ s \notin DOMAIN w.buffered
  BY WindowAssumption DEF Sound, MediaSequences
<1>8. DOMAIN v.fragments = DOMAIN w.fragments
  BY <1>1
<1>9. ASSUME NEW r \in v.requests
      PROVE  /\ r.sequence \notin DOMAIN v.buffered
             /\ ~v.wrapped => r.sequence \notin v.delivered
             /\ r.sequence \in DOMAIN v.fragments =>
                  r.missing = Missing(v.fragments[r.sequence])
  <2>1. CASE r.sequence = w.next /\ w.next \notin Pending(w)
    BY <1>1, <1>6, <1>7, <1>8, <2>1 DEF Pending
  <2>2. CASE /\ r.sequence \in DOMAIN w.fragments
             /\ r.missing = Missing(w.fragments[r.sequence])
    BY <1>1, <1>5, <1>6, <1>7, <1>8, <2>2
  <2> QED BY <1>1, <1>4, <2>1, <2>2
<1>10. Modest(v)
  BY <1>1, <1>2, <1>9 DEF Modest, Requested
<1> QED BY <1>10 DEF v

(* advance_reorder_window asks only for what misses. *)
LEMMA AdvanceModest ==
  ASSUME NEW Ws, NEW v \in Advance(Ws),
         \A w \in Ws : Sound(w) /\ WindowTyped(w) /\ Accounted(w) /\ w.requests = {}
  PROVE  Modest(v)
<1> DEFINE R == UNION {RecoverFecReady(w) : w \in Ws}
<1>1. PICK x \in RepairsAsked(R) : v = Drain(Expire(x))
  BY DEF Advance
<1>2. \A r \in R : Sound(r) /\ WindowTyped(r) /\ Accounted(r) /\ r.requests = {}
  BY RecoverFecReadySound, RecoverTyped, RecoverRequestsNothing DEF AtRest
<1> HIDE DEF R
<1>3. Sound(x) /\ Modest(x)
  <2>1. CASE x \in R
    BY <1>2, <2>1, NothingRequested
  <2>2. CASE x \notin R
    <3>1. PICK r \in R : x = RequestDueRepairs(r)
      BY <1>1, <2>2 DEF RepairsAsked
    <3> QED BY <1>2, <3>1, RequestDueRepairsSound, RequestDueRepairsModest
  <2> QED BY <2>1, <2>2
<1>4. DOMAIN x = WindowFields /\ Sound(Expire(x))
  BY <1>3, ExpireSound DEF Sound
<1> QED BY <1>1, <1>3, <1>4, ExpireModest, DrainModest

(* Nor does storing a packet ask for anything else. *)
LEMMA StoreWholeModest ==
  ASSUME NEW w, Sound(w), WindowTyped(w), Accounted(w), w.requests = {},
         NEW p \in Packets, p.sequence >= w.next, NEW payload,
         NEW v \in StoreWhole(w, p, payload)
  PROVE  Modest(v)
<1> DEFINE P == [s \in {p.sequence} |-> payload]
<1>1. DOMAIN P \subseteq w.next..MaxMediaSequence
  BY ReorderAssumption, WindowAssumption DEF Sound, MediaSequences
<1>2. v \in Advance({Accept(w, P)})
  BY DEF StoreWhole
<1> HIDE DEF P
<1>3. Sound(Accept(w, P)) /\ WindowTyped(Accept(w, P)) /\ Accounted(Accept(w, P))
  BY <1>1, AcceptSound, AcceptTyped DEF AtRest, Sound
<1>4. Accept(w, P).requests = {}
  BY AcceptRequestsNothing DEF Sound
<1> QED BY <1>2, <1>3, <1>4, AdvanceModest

(* Storing a fragment leads to requests for what is still missing. *)
LEMMA StoreFragmentModest ==
  ASSUME NEW w, Sound(w), WindowTyped(w), Accounted(w), w.requests = {},
         NEW p \in Packets, p.sequence >= w.next, p.sequence \notin DOMAIN w.buffered,
         p.sequence \in DOMAIN w.fragments => w.fragments[p.sequence].total = p.fragments,
         NEW v \in StoreFragment(w, p)
  PROVE  Modest(v)
<1> DEFINE a == WithFragment(w, p)
           F == [s \in {p.sequence} |-> a]
           x == [w EXCEPT !.fragments = With(@, F)]
<1>1. CASE IsComplete(a)
  <2>1. v \in StoreWhole(w, p, IntoPayload(a))
    BY <1>1 DEF StoreFragment
  <2> QED BY <2>1, StoreWholeModest
<1>2. CASE ~IsComplete(a)
  <2>1. v \in Advance({x})
    BY <1>2 DEF StoreFragment
  <2>2. Sound(x) /\ WindowTyped(x)
    BY <1>2, JoinAssembly
  <2>3. /\ x.next = w.next /\ x.start = w.start /\ x.delivered = w.delivered
        /\ x.skips = w.skips /\ x.wrapped = w.wrapped /\ x.requests = w.requests
    BY DEF Sound, WindowFields
  <2> HIDE DEF x
  <2>4. Accounted(x)
    BY <2>3 DEF Accounted
  <2> QED BY <2>1, <2>2, <2>3, <2>4, AdvanceModest
<1> QED BY <1>1, <1>2

(* So does storing any packet. *)
LEMMA StoreMediaModest ==
  ASSUME NEW w, AtRest(w), WindowTyped(w), Accounted(w), w.requests = {},
         NEW p \in Packets, p.sequence >= w.next, NEW v \in StoreMedia(w, p)
  PROVE  Modest(v)
<1>1. CASE AlreadyHeld(w, p)
  BY <1>1, NothingRequested DEF StoreMedia
<1>2. CASE ~AlreadyHeld(w, p) /\ p.fragments = 1
  <2>1. v \in StoreWhole(w, p, {p.payload})
    BY <1>2 DEF StoreMedia
  <2> QED BY <2>1, StoreWholeModest DEF AtRest
<1>3. CASE ~AlreadyHeld(w, p) /\ p.fragments # 1
  <2>1. v \in StoreFragment(w, p)
    BY <1>3 DEF StoreMedia
  <2>2. /\ p.sequence \notin DOMAIN w.buffered
        /\ p.sequence \in DOMAIN w.fragments => w.fragments[p.sequence].total = p.fragments
    BY <1>3 DEF AlreadyHeld
  <2> QED BY <2>1, <2>2, StoreFragmentModest DEF AtRest
<1> QED BY <1>1, <1>2, <1>3

-----------------------------------------------------------------------------
(* The list of skipped sequences. *)

(* Storing a payload keeps the list. *)
LEMMA StoreWholeLatest ==
  ASSUME NEW w, Sound(w), Accounted(w), ListLatest(w),
         NEW p \in Packets, p.sequence >= w.next, NEW payload,
         NEW v \in StoreWhole(w, p, payload)
  PROVE  ListLatest(v)
<1> DEFINE P == [s \in {p.sequence} |-> payload]
<1>1. DOMAIN P \subseteq w.next..MaxMediaSequence
  BY ReorderAssumption, WindowAssumption DEF Sound, MediaSequences
<1>2. v \in Advance({Accept(w, P)})
  BY DEF StoreWhole
<1> HIDE DEF P
<1>3. Sound(Accept(w, P)) /\ Accounted(Accept(w, P))
  BY <1>1, AcceptSound DEF AtRest, Sound
<1>4. ListLatest(Accept(w, P))
  BY <1>1, AcceptLatest DEF Accounted
<1> QED BY <1>2, <1>3, <1>4, AdvanceLatest

(* Storing a fragment does. *)
LEMMA StoreFragmentLatest ==
  ASSUME NEW w, Sound(w), WindowTyped(w), Accounted(w), ListLatest(w),
         NEW p \in Packets, p.sequence >= w.next, p.sequence \notin DOMAIN w.buffered,
         p.sequence \in DOMAIN w.fragments => w.fragments[p.sequence].total = p.fragments,
         NEW v \in StoreFragment(w, p)
  PROVE  ListLatest(v)
<1> DEFINE a == WithFragment(w, p)
           F == [s \in {p.sequence} |-> a]
           x == [w EXCEPT !.fragments = With(@, F)]
<1>1. CASE IsComplete(a)
  <2>1. v \in StoreWhole(w, p, IntoPayload(a))
    BY <1>1 DEF StoreFragment
  <2> QED BY <2>1, StoreWholeLatest
<1>2. CASE ~IsComplete(a)
  <2>1. v \in Advance({x})
    BY <1>2 DEF StoreFragment
  <2>2. Sound(x)
    BY <1>2, JoinAssembly
  <2>3. /\ x.next = w.next /\ x.start = w.start /\ x.delivered = w.delivered
        /\ x.skips = w.skips /\ x.wrapped = w.wrapped /\ x.skipped = w.skipped
    BY DEF Sound, WindowFields
  <2> HIDE DEF x
  <2>4. Accounted(x) /\ ListLatest(x)
    BY <2>3 DEF Accounted, ListLatest
  <2> QED BY <2>1, <2>2, <2>4, AdvanceLatest
<1> QED BY <1>1, <1>2

(* So does storing any packet. *)
LEMMA StoreMediaLatest ==
  ASSUME NEW w, Sound(w), WindowTyped(w), Accounted(w), ListLatest(w),
         NEW p \in Packets, p.sequence >= w.next, NEW v \in StoreMedia(w, p)
  PROVE  ListLatest(v)
<1>1. CASE AlreadyHeld(w, p)
  BY <1>1 DEF StoreMedia
<1>2. CASE ~AlreadyHeld(w, p) /\ p.fragments = 1
  <2>1. v \in StoreWhole(w, p, {p.payload})
    BY <1>2 DEF StoreMedia
  <2> QED BY <2>1, StoreWholeLatest
<1>3. CASE ~AlreadyHeld(w, p) /\ p.fragments # 1
  <2>1. v \in StoreFragment(w, p)
    BY <1>3 DEF StoreMedia
  <2>2. /\ p.sequence \notin DOMAIN w.buffered
        /\ p.sequence \in DOMAIN w.fragments => w.fragments[p.sequence].total = p.fragments
    BY <1>3 DEF AlreadyHeld
  <2> QED BY <2>1, <2>2, StoreFragmentLatest
<1> QED BY <1>1, <1>2, <1>3

(* An empty list is right for a flow that skipped nothing. *)
LEMMA NothingSkipped ==
  ASSUME NEW w, w.skipped = << >>, w.skips = {}
  PROVE  ListLatest(w)
<1>1. Len(w.skipped) = 0 /\ w.skipped \in Seq(Nat)
  OBVIOUS
<1>2. IsFiniteSet(w.skips) /\ Cardinality(w.skips) = 0
  BY FS_EmptySet
<1>3. SkippedTrackLimit \in Nat
  BY WindowAssumption
<1>4. Latest(w.skipped, w.skips)
  BY <1>1, <1>2, <1>3 DEF Latest
<1> QED BY <1>4 DEF ListLatest

(* During a flow the list holds its latest skips; between two it is empty. *)
SkipsInv ==
  /\ initialized = TRUE => ListLatest(window)
  /\ initialized = FALSE => window.skipped = << >>

(* The loop starts with an empty list. *)
LEMMA InitSkips == Init => SkipsInv
  BY DEF Init, SkipsInv, EmptyWindow

(* A flow starts with an empty list, and every step of it adds what it     *)
(* skips.                                                                  *)
LEMMA NextSkips == Inv /\ TypeInv /\ SkipsInv /\ [Next]_vars => SkipsInv'
<1> SUFFICES ASSUME Inv, TypeInv, SkipsInv, [Next]_vars PROVE SkipsInv'
  OBVIOUS
<1> DEFINE w == Fresh(window)
<1>1. /\ AtRest(window) /\ WindowTyped(window) /\ DOMAIN window = WindowFields
      /\ initialized \in BOOLEAN
      /\ initialized = TRUE => Accounted(window) /\ ListLatest(window)
      /\ initialized = FALSE =>
           Pending(window) = {} /\ DOMAIN window.gap = {} /\ window.skipped = << >>
  BY DEF Inv, TypeInv, SkipsInv, AtRest, Sound
<1>2. /\ w.skipped = window.skipped /\ w.skips = window.skips /\ w.wrapped = window.wrapped
  BY <1>1 DEF Fresh, WindowFields
<1>3. /\ AtRest(w) /\ Sound(w) /\ WindowTyped(w) /\ DOMAIN w = WindowFields
      /\ w.next = window.next /\ Pending(w) = Pending(window) /\ DOMAIN w.gap = DOMAIN window.gap
      /\ initialized = TRUE => Accounted(w) /\ ListLatest(w)
  <2>1. initialized = TRUE => ListLatest(w)
    BY <1>1, <1>2 DEF ListLatest
  <2> QED BY <1>1, <2>1, FreshSound, FreshTyped DEF AtRest, Sound
<1>4. ASSUME initialized = TRUE, initialized' = TRUE, window' \in Advance({w}) PROVE SkipsInv'
  <2> HIDE DEF w
  <2>1. ListLatest(window')
    BY <1>3, <1>4, AdvanceLatest
  <2> QED BY <1>4, <2>1 DEF SkipsInv
<1>5. ASSUME NEW c \in Connections, NEW p \in Packets, StartFlow(c, p) PROVE SkipsInv'
  <2> DEFINE u == [w EXCEPT !.next = p.sequence, !.start = p.sequence,
                            !.delivered = {}, !.skips = {}, !.wrapped = FALSE]
  <2>1. window' \in StoreMedia(u, p) /\ initialized' = TRUE /\ initialized = FALSE
    BY <1>1, <1>5 DEF StartFlow
  <2>2. p.sequence \in Nat /\ p.sequence <= MaxMediaSequence /\ p.sequence \in MediaSequences
    BY ReorderAssumption, WindowAssumption DEF MediaSequences
  <2>3. Pending(w) = {} /\ DOMAIN w.gap = {} /\ w.skipped = << >>
    BY <1>1, <1>2, <1>3, <2>1
  <2> HIDE DEF w
  <2>4. /\ DOMAIN u = WindowFields
        /\ u.next = p.sequence /\ u.start = p.sequence /\ u.wrapped = FALSE
        /\ u.delivered = {} /\ u.skips = {} /\ u.skipped = w.skipped
        /\ u.buffered = w.buffered /\ u.fragments = w.fragments
        /\ u.seen = w.seen /\ u.gap = w.gap
    BY <1>3 DEF WindowFields
  <2> HIDE DEF u
  <2>5. Sound(u)
    BY <1>3, <2>2, <2>3, <2>4 DEF Sound, Pending
  <2>6. WindowTyped(u) /\ p.sequence >= u.next
    BY <1>3, <2>2, <2>4 DEF WindowTyped
  <2>7. Accounted(u)
    <3>1. u.delivered \cup u.skips = u.start..(u.next - 1) /\ u.delivered \cap u.skips = {}
      BY <2>2, <2>4
    <3>2. u.start \in Nat /\ u.start <= u.next
      BY <2>2, <2>4
    <3> QED BY <2>4, <3>1, <3>2 DEF Accounted
  <2>8. ListLatest(u)
    BY <2>3, <2>4, NothingSkipped
  <2>9. ListLatest(window')
    BY <2>1, <2>5, <2>6, <2>7, <2>8, StoreMediaLatest
  <2> QED BY <2>1, <2>9 DEF SkipsInv
<1>6. ASSUME NEW c \in Connections, NEW p \in Packets, ContinueFlow(c, p)
      PROVE  SkipsInv'
  <2>1. /\ initialized = TRUE /\ initialized' = TRUE
        /\ p.sequence >= w.next /\ window' \in StoreMedia(w, p)
    BY <1>1, <1>3, <1>6 DEF ContinueFlow
  <2> HIDE DEF w
  <2>2. ListLatest(window')
    BY <1>3, <2>1, StoreMediaLatest
  <2> QED BY <2>1, <2>2 DEF SkipsInv
<1>7. ASSUME NEW c \in Connections, NEW p \in Packets, ConfirmRestart(c, p)
      PROVE  SkipsInv'
  <2> DEFINE u == EmptyWindow(p.sequence)
  <2>1. window' \in StoreMedia(u, p) /\ initialized' = TRUE
    BY <1>1, <1>7 DEF ConfirmRestart
  <2>2. p.sequence \in MediaSequences /\ p.sequence >= u.next
    BY ReorderAssumption, WindowAssumption DEF MediaSequences, EmptyWindow
  <2>3. u.skipped = << >> /\ u.skips = {}
    BY DEF EmptyWindow
  <2>4. Sound(u) /\ WindowTyped(u) /\ Accounted(u)
    BY <2>2, EmptyWindowSound, EmptyWindowTyped DEF AtRest
  <2> HIDE DEF u
  <2>5. ListLatest(window')
    BY <2>1, <2>2, <2>3, <2>4, NothingSkipped, StoreMediaLatest
  <2> QED BY <2>1, <2>5 DEF SkipsInv
<1>8. ASSUME window' = w, initialized' = initialized PROVE SkipsInv'
  BY <1>1, <1>2, <1>3, <1>8 DEF SkipsInv
<1>9. ASSUME TimeoutIdle PROVE SkipsInv'
  <2>1. /\ window' = [w EXCEPT !.next = 0, !.skipped = << >>, !.gap = << >>]
        /\ initialized' = FALSE
    BY <1>9 DEF TimeoutIdle
  <2> HIDE DEF w
  <2>2. window'.skipped = << >>
    BY <1>3, <2>1 DEF WindowFields
  <2> QED BY <2>1, <2>2 DEF SkipsInv
<1>10. ASSUME Tick PROVE SkipsInv'
  <2>1. window' = Aged(w) /\ initialized' = initialized
    BY <1>10 DEF Tick
  <2> HIDE DEF w
  <2>2. /\ window'.skipped = w.skipped /\ window'.skips = w.skips
        /\ window'.wrapped = w.wrapped
    BY <1>3, <2>1 DEF Aged, WindowFields
  <2> QED BY <1>1, <1>2, <1>3, <2>1, <2>2 DEF SkipsInv, ListLatest
<1>11. window' = window /\ initialized' = initialized => SkipsInv'
  BY DEF SkipsInv
<1> HIDE DEF w
<1>12. CASE \E c \in Connections, p \in Packets : ReceivePacket(c, p)
  BY <1>1, <1>5, <1>6, <1>7, <1>8, <1>12 DEF ReceivePacket, DropBehind, w
<1>13. CASE \E c \in Connections : ReceiveFec(c)
  BY <1>1, <1>4, <1>11, <1>13 DEF ReceiveFec, w
<1>14. CASE Timeout
  BY <1>1, <1>4, <1>9, <1>11, <1>14 DEF Timeout, TimeoutAdvance, TimeoutNoFlow, w
<1> QED
  BY <1>10, <1>11, <1>12, <1>13, <1>14 DEF Next, vars

-----------------------------------------------------------------------------
(* Restarts. *)

(* So does storing a packet of a sequence up to b. *)
LEMMA StoreMediaWithin ==
  ASSUME DOMAIN FecPayload = {}, NEW b \in Nat,
         NEW w, AtRest(w), WindowTyped(w), Within(w, b),
         NEW p \in Packets, p.sequence >= w.next, p.sequence <= b, NEW v \in StoreMedia(w, p)
  PROVE  Within(v, b)
<1>0. Sound(w)
  BY DEF AtRest
<1>1. CASE AlreadyHeld(w, p)
  BY <1>1 DEF StoreMedia
<1>2. ASSUME NEW payload, v \in StoreWhole(w, p, payload)
      PROVE  Within(v, b)
  <2> DEFINE P == [s \in {p.sequence} |-> payload]
  <2>1. DOMAIN P \subseteq w.next..MaxMediaSequence /\ \A s \in DOMAIN P : s <= b
    BY <1>0, ReorderAssumption, WindowAssumption DEF Sound, MediaSequences
  <2>2. v \in Advance({Accept(w, P)})
    BY <1>2 DEF StoreWhole
  <2> HIDE DEF P
  <2>3. Sound(Accept(w, P)) /\ Within(Accept(w, P), b)
    BY <1>0, <2>1, AcceptSound, AcceptWithin DEF AtRest
  <2> QED BY <2>2, <2>3, AdvanceWithin
<1>3. CASE ~AlreadyHeld(w, p) /\ p.fragments = 1
  <2>1. v \in StoreWhole(w, p, {p.payload})
    BY <1>3 DEF StoreMedia
  <2> QED BY <1>2, <2>1
<1>4. CASE ~AlreadyHeld(w, p) /\ p.fragments # 1
  <2> DEFINE a == WithFragment(w, p)
             x == [w EXCEPT !.fragments = With(@, [s \in {p.sequence} |-> a])]
  <2>1. v \in StoreFragment(w, p)
    BY <1>4 DEF StoreMedia
  <2>2. /\ p.sequence \notin DOMAIN w.buffered
        /\ p.sequence \in DOMAIN w.fragments => w.fragments[p.sequence].total = p.fragments
    BY <1>4 DEF AlreadyHeld
  <2>3. CASE IsComplete(a)
    <3>1. v \in StoreWhole(w, p, IntoPayload(a))
      BY <2>1, <2>3 DEF StoreFragment
    <3> QED BY <1>2, <3>1
  <2>4. CASE ~IsComplete(a)
    <3>1. v \in Advance({x})
      BY <2>1, <2>4 DEF StoreFragment
    <3>2. /\ Sound(x) /\ x.next = w.next /\ x.buffered = w.buffered
          /\ DOMAIN x.fragments = DOMAIN w.fragments \cup {p.sequence}
      BY <1>0, <2>2, <2>4, JoinAssembly
    <3> HIDE DEF x, a
    <3>3. Within(x, b)
      BY <3>2 DEF Within, Pending
    <3> QED BY <3>1, <3>2, <3>3, AdvanceWithin
  <2> QED BY <2>3, <2>4
<1> QED BY <1>1, <1>3, <1>4

(* A count below its limit m takes the step, and otherwise stays at m. *)
LEMMA SaturatingStep ==
  ASSUME NEW n \in Nat, NEW m \in Nat
  PROVE  Min({n + 1, m}) = IF n + 1 <= m THEN n + 1 ELSE m
<1> DEFINE S == {n + 1, m}
<1>1. S \in SUBSET Nat /\ S # {}
  OBVIOUS
<1>2. Min(S) \in S /\ \A y \in S : Min(S) <= y
  BY <1>1, MinOfNaturals
<1> QED BY <1>2

(* What the detector makes of one more far-behind packet: it counts on, or *)
(* starts over at a sequence below the highest it has seen.                *)
LEMMA ObservedCounts ==
  ASSUME LoopTyped, NEW s \in MediaSequences
  PROVE  /\ Observed(s).highest_seq >= s
         /\ \/ Observed(s).count = Min({restart_detector.count + 1, RestartConfirmPackets})
               /\ (restart_detector.count = 0 \/ s >= restart_detector.highest_seq)
            \/ Observed(s).count = 1 /\ s < restart_detector.highest_seq
<1> DEFINE count == restart_detector.count
           highest == restart_detector.highest_seq
<1>1. highest \in Nat /\ s \in Nat
  BY WindowAssumption DEF LoopTyped, MediaSequences
<1> HIDE DEF highest
<1>2. Max({highest, s}) \in {highest, s} /\ Max({highest, s}) >= s
  <2>1. \E x \in {highest, s} : \A y \in {highest, s} : x >= y
    BY <1>1
  <2> QED BY <2>1 DEF Max
<1>3. CASE count = 0 \/ s >= highest
  <2>1. Observed(s) = [count       |-> Min({count + 1, RestartConfirmPackets}),
                       highest_seq |-> Max({highest, s})]
    BY <1>3 DEF Observed, highest
  <2> QED BY <1>2, <1>3, <2>1 DEF highest
<1>4. CASE ~(count = 0 \/ s >= highest)
  <2>1. Observed(s) = [count |-> 1, highest_seq |-> s]
    BY <1>4 DEF Observed, highest
  <2> QED BY <1>1, <1>4, <2>1 DEF highest
<1> QED BY <1>3, <1>4

(* The detector never counts more than the evidence, except right after a  *)
(* restart, whose packets it has counted and which evidence forgets.  Then *)
(* the window is no further than the highest sequence the detector has     *)
(* seen: a packet far behind next is below that, and the count starts over.*)
DetectorInv ==
  /\ evidence \in Nat
  /\ initialized = TRUE =>
       restart_detector.count <= evidence \/ Within(window, restart_detector.highest_seq)

(* So each far-behind packet it counts is one of the evidence. *)
LEMMA FarBehindIsEvidence ==
  ASSUME LoopTyped, DetectorInv, initialized = TRUE, Sound(window),
         NEW s \in MediaSequences, FarBehind(s)
  PROVE  Observed(s).count <= Min({evidence + 1, RestartConfirmPackets})
<1> DEFINE count == restart_detector.count
           highest == restart_detector.highest_seq
           next == window.next
<1>1. /\ count \in Nat /\ highest \in Nat /\ s \in Nat /\ next \in Nat /\ evidence \in Nat
      /\ RestartConfirmPackets \in Nat /\ RestartConfirmPackets >= 1
      /\ RestartBackwardGap \in Nat /\ RestartBackwardGap >= 2
  BY ReorderAssumption, WindowAssumption DEF LoopTyped, MediaSequences, Sound, DetectorInv
<1>2. count <= evidence \/ next <= highest + 1
  BY DEF DetectorInv, Within
<1>3. next - s >= RestartBackwardGap
  BY DEF FarBehind
<1>4. \/ Observed(s).count = Min({count + 1, RestartConfirmPackets})
         /\ (count = 0 \/ s >= highest)
      \/ Observed(s).count = 1 /\ s < highest
  BY ObservedCounts
<1> HIDE DEF count, highest, next
<1>5. /\ Min({count + 1, RestartConfirmPackets})
           = IF count + 1 <= RestartConfirmPackets THEN count + 1 ELSE RestartConfirmPackets
      /\ Min({evidence + 1, RestartConfirmPackets})
           = IF evidence + 1 <= RestartConfirmPackets THEN evidence + 1 ELSE RestartConfirmPackets
  BY <1>1, SaturatingStep
<1> QED BY <1>1, <1>2, <1>3, <1>4, <1>5

-----------------------------------------------------------------------------
(* The steps of the loop. *)

(* Responses reach the flow, no remote is listed twice, and connections    *)
(* belong to a flow exactly while there is one.                            *)
RoutesInv ==
  /\ RoutesCoverFlow
  /\ initialized = TRUE => flow_connections # {}
  /\ initialized = FALSE => flow_connections = {}

(* Every connection of the flow has a route. *)
Covered(connections, routes) == \A c \in connections : Contains(routes, RemoteOf[c])

Distinct(routes) == \A i, j \in DOMAIN routes : routes[i] = routes[j] => i = j

(* set_reply_routes adds a remote once and removes none. *)
LEMMA AddRouteCovers ==
  ASSUME NEW R, NEW routes \in Seq(R), Distinct(routes), NEW remote
  PROVE  /\ Distinct(AddRoute(routes, remote))
         /\ Contains(AddRoute(routes, remote), remote)
         /\ \A r : Contains(routes, r) => Contains(AddRoute(routes, remote), r)
<1>1. CASE Contains(routes, remote)
  BY <1>1 DEF AddRoute
<1>2. CASE ~Contains(routes, remote)
  <2> DEFINE longer == Append(routes, remote)
             n == Len(routes)
  <2>1. AddRoute(routes, remote) = longer
    BY <1>2 DEF AddRoute
  <2>2. n \in Nat /\ DOMAIN routes = 1..n
    OBVIOUS
  <2>3. /\ DOMAIN longer = 1..(n + 1) /\ Len(longer) = n + 1
        /\ longer[n + 1] = remote
        /\ \A i \in 1..n : longer[i] = routes[i]
    OBVIOUS
  <2>4. \A i \in 1..n : routes[i] # remote
    BY <1>2 DEF Contains
  <2>5. \A i, j \in 1..n : routes[i] = routes[j] => i = j
    BY <2>2 DEF Distinct
  <2> HIDE DEF longer
  <2>6. Distinct(longer)
    <3> SUFFICES ASSUME NEW i \in 1..(n + 1), NEW j \in 1..(n + 1), longer[i] = longer[j]
                 PROVE  i = j
      BY <2>3 DEF Distinct
    <3>1. (i \in 1..n \/ i = n + 1) /\ (j \in 1..n \/ j = n + 1)
      BY <2>2
    <3> QED BY <2>3, <2>4, <2>5, <3>1
  <2>7. Contains(longer, remote)
    <3>1. n + 1 \in 1..Len(longer)
      BY <2>2, <2>3
    <3> QED BY <2>3, <3>1 DEF Contains
  <2>8. ASSUME NEW r, Contains(routes, r) PROVE Contains(longer, r)
    <3>1. PICK i \in 1..n : routes[i] = r
      BY <2>8 DEF Contains
    <3>2. i \in 1..Len(longer) /\ longer[i] = r
      BY <2>2, <2>3, <3>1
    <3> QED BY <3>2 DEF Contains
  <2> QED BY <2>1, <2>6, <2>7, <2>8
<1> QED BY <1>1, <1>2

(* A single route. *)
LEMMA OnlyRoute ==
  ASSUME NEW remote
  PROVE  Distinct(<<remote>>) /\ Contains(<<remote>>, remote)
<1>1. Distinct(<<remote>>)
  BY DEF Distinct
<1>2. Len(<<remote>>) = 1 /\ <<remote>>[1] = remote
  OBVIOUS
<1> QED BY <1>1, <1>2 DEF Contains

(* The routes of the loop cover the flow initially and after every step.   *)
LEMMA InitRoutes == Init => RoutesInv
BY DEF Init, RoutesInv, RoutesCoverFlow

(* A restart begins with the route of the connection that confirmed it;   *)
(* every other packet only adds its own.                                  *)
LEMMA NextRoutes == Inv /\ TypeInv /\ RoutesInv /\ [Next]_vars => RoutesInv'
<1> SUFFICES ASSUME Inv, TypeInv, RoutesInv, [Next]_vars PROVE RoutesInv'
  OBVIOUS
<1> DEFINE R == {RemoteOf[c] : c \in Connections}
<1>1. reply_routes \in Seq(R) /\ Distinct(reply_routes)
  BY DEF TypeInv, LoopTyped, RoutesInv, RoutesCoverFlow, Distinct
<1>2. \A c \in flow_connections : Contains(reply_routes, RemoteOf[c])
  BY DEF RoutesInv, RoutesCoverFlow
<1> HIDE DEF R
<1>3. ASSUME NEW c \in Connections
      PROVE  /\ Distinct(AddRoute(reply_routes, RemoteOf[c]))
             /\ Contains(AddRoute(reply_routes, RemoteOf[c]), RemoteOf[c])
             /\ \A d \in flow_connections :
                  Contains(AddRoute(reply_routes, RemoteOf[c]), RemoteOf[d])
  BY <1>1, <1>2, AddRouteCovers
<1>4. /\ initialized \in BOOLEAN
      /\ initialized = TRUE => flow_connections # {}
      /\ initialized = FALSE => flow_connections = {}
  BY DEF RoutesInv, Inv
<1>5. ASSUME Distinct(reply_routes'),
             \A c \in flow_connections' : Contains(reply_routes', RemoteOf[c]),
             initialized' = TRUE => flow_connections' # {},
             initialized' = FALSE => flow_connections' = {}
      PROVE  RoutesInv'
  BY <1>5 DEF RoutesInv, RoutesCoverFlow, Distinct
<1>6. ASSUME NEW c \in Connections, NEW p \in Packets, StartFlow(c, p)
      PROVE  RoutesInv'
  <2>1. /\ reply_routes' = <<RemoteOf[c]>> /\ flow_connections' = {c} /\ initialized' = TRUE
    BY <1>4, <1>6 DEF StartFlow
  <2> QED BY <1>5, <2>1, OnlyRoute
<1>7. ASSUME NEW c \in Connections, NEW p \in Packets, ContinueFlow(c, p)
      PROVE  RoutesInv'
  <2>1. /\ reply_routes' = AddRoute(reply_routes, RemoteOf[c])
        /\ flow_connections' = flow_connections \cup {c} /\ initialized' = TRUE
    BY <1>7 DEF ContinueFlow
  <2> QED BY <1>3, <1>5, <2>1
<1>8. ASSUME NEW c \in Connections, NEW p \in Packets, DropBehind(c, p)
      PROVE  RoutesInv'
  <2>1. /\ reply_routes' = AddRoute(reply_routes, RemoteOf[c])
        /\ flow_connections' = flow_connections /\ initialized' = initialized
    BY <1>8 DEF DropBehind
  <2> QED BY <1>3, <1>4, <1>5, <2>1
<1>9. ASSUME NEW c \in Connections, NEW p \in Packets, ConfirmRestart(c, p)
      PROVE  RoutesInv'
  <2>1. /\ reply_routes' = <<RemoteOf[c]>> /\ flow_connections' = {c} /\ initialized' = TRUE
    BY <1>9 DEF ConfirmRestart
  <2> QED BY <1>5, <2>1, OnlyRoute
<1>10. ASSUME NEW c \in Connections, ReceiveFec(c)
       PROVE  RoutesInv'
  <2>1. /\ \/ reply_routes' = AddRoute(reply_routes, RemoteOf[c])
           \/ reply_routes' = reply_routes
        /\ flow_connections' = flow_connections /\ initialized' = initialized
    BY <1>10 DEF ReceiveFec
  <2> QED BY <1>1, <1>2, <1>3, <1>4, <1>5, <2>1
<1>11. ASSUME TimeoutIdle
       PROVE  RoutesInv'
  <2>1. reply_routes' = reply_routes /\ flow_connections' = {} /\ initialized' = FALSE
    BY <1>11 DEF TimeoutIdle
  <2> QED BY <1>1, <1>5, <2>1
<1>12. ASSUME TimeoutAdvance \/ TimeoutNoFlow \/ Tick \/ UNCHANGED vars
       PROVE  RoutesInv'
  <2>1. /\ reply_routes' = reply_routes /\ flow_connections' = flow_connections
        /\ initialized' = initialized
    BY <1>12 DEF TimeoutAdvance, TimeoutNoFlow, Tick, vars
  <2> QED BY <1>1, <1>2, <1>4, <1>5, <2>1
<1> QED
  BY <1>6, <1>7, <1>8, <1>9, <1>10, <1>11, <1>12 DEF Next, ReceivePacket, Timeout

(* The routes always cover the flow. *)
LEMMA RoutesHold == Spec => []RoutesInv
<1>1. Spec => []Inv
  BY InvHolds
<1>2. Spec => []TypeInv
  BY InitTyped, NextTyped, InvHolds, PTL DEF Spec
<1> QED BY <1>1, <1>2, InitRoutes, NextRoutes, PTL DEF Spec

(* What a step within a flow may do to the window. *)
Proper(v, u) ==
  /\ Ordered(v, u)
  /\ v.wrapped = FALSE => \A s \in v.skips \ u.skips : MaySkip(u, s)

(* Every step within a flow, until next wraps, is proper. *)
LEMMA FlowStepProper ==
  ASSUME Inv, TypeInv, RoutesInv, Next, initialized = TRUE, initialized' = TRUE,
         flow_connections \subseteq flow_connections'
  PROVE  Proper(window', window)
<1> DEFINE w == Fresh(window)
<1>1. /\ AtRest(window) /\ WindowTyped(window) /\ window.wrapped \in BOOLEAN
      /\ DOMAIN window = WindowFields /\ Sound(window)
  BY DEF Inv, TypeInv, AtRest, Sound, Accounted
<1>2. /\ AtRest(w) /\ Sound(w) /\ WindowTyped(w) /\ w.next = window.next
      /\ Ordered(w, window) /\ Patient(w, window)
      /\ w.skips = window.skips
  BY <1>1, FreshSound, FreshTyped, FreshInTurn DEF AtRest
<1>3. ASSUME NEW v, Ordered(v, window), Patient(v, window)
      PROVE  Proper(v, window)
  BY <1>3 DEF Proper, Patient
<1>4. window' = w => Proper(window', window)
  BY <1>2, <1>3
<1>5. ASSUME window' \in Advance({w})
      PROVE  Proper(window', window)
  <2>1. Ordered(window', window) /\ Patient(window', window)
    BY <1>1, <1>2, <1>5, AdvanceInTurn
  <2> QED BY <1>3, <2>1
<1>6. ASSUME NEW c \in Connections, NEW p \in Packets, ContinueFlow(c, p)
      PROVE  Proper(window', window)
  <2>1. p.sequence >= w.next /\ window' \in StoreMedia(w, p)
    BY <1>2, <1>6 DEF ContinueFlow
  <2> HIDE DEF w
  <2>2. Ordered(window', window) /\ Patient(window', window)
    BY <1>1, <1>2, <2>1, StoreMediaInTurn
  <2> QED BY <1>3, <2>2
<1>7. ASSUME NEW c \in Connections, NEW p \in Packets, ConfirmRestart(c, p)
      PROVE  FALSE
  BY <1>7 DEF ConfirmRestart, Confirms, RoutesInv
<1>8. ASSUME Tick
      PROVE  Proper(window', window)
  <2>1. window' = Aged(w)
    BY <1>8 DEF Tick
  <2>2. DOMAIN w = WindowFields
    BY <1>2 DEF Sound
  <2> HIDE DEF w
  <2>3. /\ window'.next = w.next /\ window'.out = w.out /\ window'.skips = w.skips
        /\ window'.wrapped = w.wrapped
    BY <2>1, <2>2 DEF Aged, WindowFields
  <2> QED BY <1>2, <2>3 DEF Proper, Ordered, OutIsSequence
<1> QED
  BY <1>4, <1>5, <1>6, <1>7, <1>8
  DEF Next, ReceivePacket, Timeout, StartFlow, DropBehind, ReceiveFec, TimeoutAdvance,
      TimeoutIdle, TimeoutNoFlow

(* Where a flow begins nothing is held, so its first packet is stored and  *)
(* the window advanced.                                                    *)
LEMMA FirstPacketAdvances ==
  ASSUME NEW w, AtRest(w), WindowTyped(w), w.wrapped \in BOOLEAN, w.out = << >>,
         Pending(w) = {}, NEW p \in Packets, p.sequence >= w.next, NEW v \in StoreMedia(w, p)
  PROVE  NothingOverdue(v) \/ v.out # << >>
<1>1. Sound(w) /\ Ordered(w, w) /\ Patient(w, w)
  BY TurnBegins DEF AtRest
<1>2. ~AlreadyHeld(w, p)
  BY <1>1 DEF Sound, Pending, AlreadyHeld
<1> QED BY <1>1, <1>2, StoreMediaInTurn

(* A turn of the timer, or one that moves next, leaves nothing overdue or  *)
(* forwards something.                                                     *)
LEMMA StepLeavesNothingOverdue ==
  ASSUME Inv, TypeInv, Next,
         TimeoutAdvance \/ (initialized' = TRUE /\ window'.next # window.next)
  PROVE  NothingOverdue(window') \/ window'.out # << >>
<1> DEFINE w == Fresh(window)
           Goal == NothingOverdue(window') \/ window'.out # << >>
<1>1. /\ AtRest(window) /\ WindowTyped(window) /\ DOMAIN window = WindowFields
      /\ initialized \in BOOLEAN
      /\ initialized = TRUE => window.wrapped \in BOOLEAN
      /\ initialized = FALSE => Pending(window) = {} /\ DOMAIN window.gap = {}
  BY DEF Inv, TypeInv, AtRest, Sound, Accounted
<1>2. /\ AtRest(w) /\ Sound(w) /\ WindowTyped(w) /\ DOMAIN w = WindowFields
      /\ w.next = window.next /\ Pending(w) = Pending(window) /\ DOMAIN w.gap = DOMAIN window.gap
      /\ w.out = << >>
  <2>1. w.out = << >>
    BY <1>1 DEF Fresh, WindowFields
  <2> QED BY <1>1, <2>1, FreshSound, FreshTyped DEF AtRest, Sound
<1>3. initialized = TRUE => Ordered(w, window) /\ Patient(w, window) /\ Sound(window)
  BY <1>1, FreshInTurn DEF AtRest
<1>4. ASSUME initialized = TRUE, window' \in Advance({w}) PROVE Goal
  <2> HIDE DEF w
  <2> QED BY <1>2, <1>3, <1>4, AdvanceInTurn
<1>5. ASSUME NEW c \in Connections, NEW p \in Packets, StartFlow(c, p) PROVE Goal
  <2> DEFINE u == [w EXCEPT !.next = p.sequence, !.start = p.sequence,
                            !.delivered = {}, !.skips = {}, !.wrapped = FALSE]
  <2>1. window' \in StoreMedia(u, p) /\ Pending(w) = {} /\ DOMAIN w.gap = {}
    BY <1>1, <1>2, <1>5 DEF StartFlow
  <2>2. p.sequence \in Nat /\ p.sequence <= MaxMediaSequence /\ p.sequence \in MediaSequences
    BY ReorderAssumption, WindowAssumption DEF MediaSequences
  <2> HIDE DEF w
  <2>3. /\ DOMAIN u = WindowFields
        /\ u.next = p.sequence /\ u.wrapped = FALSE
        /\ u.buffered = w.buffered /\ u.fragments = w.fragments
        /\ u.seen = w.seen /\ u.gap = w.gap /\ u.out = w.out
    BY <1>2 DEF WindowFields
  <2> HIDE DEF u
  <2>4. AtRest(u) /\ Pending(u) = {}
    BY <1>2, <2>1, <2>2, <2>3 DEF AtRest, Sound, Pending
  <2>5. WindowTyped(u) /\ p.sequence >= u.next
    BY <1>2, <2>2, <2>3 DEF WindowTyped
  <2>6. u.wrapped \in BOOLEAN /\ u.out = << >>
    BY <1>2, <2>3
  <2> QED BY <2>1, <2>4, <2>5, <2>6, FirstPacketAdvances
<1>6. ASSUME NEW c \in Connections, NEW p \in Packets, ContinueFlow(c, p),
             window'.next # window.next
      PROVE  Goal
  <2>1. initialized = TRUE /\ p.sequence >= w.next /\ window' \in StoreMedia(w, p)
    BY <1>2, <1>6 DEF ContinueFlow
  <2> HIDE DEF w
  <2>2. window' # w
    BY <1>2, <1>6
  <2> QED BY <1>2, <1>3, <2>1, <2>2, StoreMediaInTurn
<1>7. ASSUME NEW c \in Connections, NEW p \in Packets, ConfirmRestart(c, p) PROVE Goal
  <2> DEFINE u == EmptyWindow(p.sequence)
  <2>1. window' \in StoreMedia(u, p)
    BY <1>7 DEF ConfirmRestart
  <2>2. p.sequence \in MediaSequences /\ p.sequence >= u.next
    BY ReorderAssumption, WindowAssumption DEF MediaSequences, EmptyWindow
  <2>3. u.wrapped \in BOOLEAN /\ u.out = << >> /\ Pending(u) = {}
    BY DEF EmptyWindow, Pending
  <2>4. AtRest(u) /\ WindowTyped(u)
    BY <2>2, EmptyWindowSound, EmptyWindowTyped
  <2> HIDE DEF u
  <2> QED BY <2>1, <2>2, <2>3, <2>4, FirstPacketAdvances
<1>8. ASSUME window' = w \/ window' = window, window'.next # window.next PROVE FALSE
  BY <1>2, <1>8
<1>9. ASSUME Tick, window'.next # window.next PROVE FALSE
  <2>1. window'.next = w.next
    BY <1>2, <1>9, AgedSound DEF Tick
  <2> QED BY <1>2, <1>9, <2>1
<1>10. TimeoutAdvance => Goal
  BY <1>4 DEF TimeoutAdvance
<1> HIDE DEF Goal
<1>11. ASSUME initialized' = TRUE, window'.next # window.next PROVE Goal
  BY <1>1, <1>4, <1>5, <1>6, <1>7, <1>8, <1>9, <1>10, <1>11
  DEF Next, ReceivePacket, Timeout, DropBehind, ReceiveFec, TimeoutIdle, TimeoutNoFlow
<1> QED BY <1>10, <1>11 DEF Goal

(* The loop starts asking for nothing, and every step asks only for what   *)
(* misses.                                                                 *)
RequestsInv == Modest(window)

(* The loop starts asking for nothing. *)
LEMMA InitModest == Init => RequestsInv
<1>1. EmptyWindow(0).requests = {}
  BY DEF EmptyWindow
<1> QED BY <1>1, NothingRequested DEF Init, RequestsInv

(* The turns that advance the window ask for what misses, the others for  *)
(* nothing.                                                               *)
LEMMA NextModest == Inv /\ TypeInv /\ RequestsInv /\ [Next]_vars => RequestsInv'
<1> SUFFICES ASSUME Inv, TypeInv, Modest(window), [Next]_vars PROVE Modest(window')
  BY DEF RequestsInv
<1> DEFINE w == Fresh(window)
<1>1. /\ AtRest(window) /\ WindowTyped(window) /\ DOMAIN window = WindowFields
      /\ initialized \in BOOLEAN
      /\ initialized = TRUE => Accounted(window)
      /\ initialized = FALSE => Pending(window) = {} /\ DOMAIN window.gap = {}
  BY DEF Inv, TypeInv, AtRest, Sound
<1>2. /\ AtRest(w) /\ Sound(w) /\ WindowTyped(w) /\ DOMAIN w = WindowFields
      /\ w.next = window.next /\ Pending(w) = Pending(window) /\ DOMAIN w.gap = DOMAIN window.gap
      /\ w.requests = {}
      /\ initialized = TRUE => Accounted(w)
  <2>1. w.requests = {}
    BY <1>1 DEF Fresh, WindowFields
  <2> QED BY <1>1, <2>1, FreshSound, FreshTyped DEF AtRest, Sound
<1>3. ASSUME initialized = TRUE, window' \in Advance({w}) PROVE Modest(window')
  <2> HIDE DEF w
  <2> QED BY <1>2, <1>3, AdvanceModest
<1>4. ASSUME NEW c \in Connections, NEW p \in Packets, StartFlow(c, p) PROVE Modest(window')
  <2> DEFINE u == [w EXCEPT !.next = p.sequence, !.start = p.sequence,
                            !.delivered = {}, !.skips = {}, !.wrapped = FALSE]
  <2>1. window' \in StoreMedia(u, p) /\ Pending(w) = {} /\ DOMAIN w.gap = {}
    BY <1>1, <1>2, <1>4 DEF StartFlow
  <2>2. p.sequence \in Nat /\ p.sequence <= MaxMediaSequence /\ p.sequence \in MediaSequences
    BY ReorderAssumption, WindowAssumption DEF MediaSequences
  <2> HIDE DEF w
  <2>3. /\ DOMAIN u = WindowFields
        /\ u.next = p.sequence /\ u.start = p.sequence /\ u.wrapped = FALSE
        /\ u.delivered = {} /\ u.skips = {}
        /\ u.buffered = w.buffered /\ u.fragments = w.fragments
        /\ u.seen = w.seen /\ u.gap = w.gap /\ u.requests = w.requests
    BY <1>2 DEF WindowFields
  <2> HIDE DEF u
  <2>4. AtRest(u)
    BY <1>2, <2>1, <2>2, <2>3 DEF AtRest, Sound, Pending
  <2>5. WindowTyped(u) /\ p.sequence >= u.next
    BY <1>2, <2>2, <2>3 DEF WindowTyped
  <2>6. Accounted(u)
    <3>1. u.delivered \cup u.skips = u.start..(u.next - 1) /\ u.delivered \cap u.skips = {}
      BY <2>2, <2>3
    <3>2. u.start \in Nat /\ u.start <= u.next
      BY <2>2, <2>3
    <3> QED BY <2>3, <3>1, <3>2 DEF Accounted
  <2> QED BY <1>2, <2>1, <2>3, <2>4, <2>5, <2>6, StoreMediaModest
<1>5. ASSUME NEW c \in Connections, NEW p \in Packets, ContinueFlow(c, p)
      PROVE  Modest(window')
  <2>1. initialized = TRUE /\ p.sequence >= w.next /\ window' \in StoreMedia(w, p)
    BY <1>2, <1>5 DEF ContinueFlow
  <2> HIDE DEF w
  <2> QED BY <1>2, <2>1, StoreMediaModest
<1>6. ASSUME NEW c \in Connections, NEW p \in Packets, ConfirmRestart(c, p)
      PROVE  Modest(window')
  <2> DEFINE u == EmptyWindow(p.sequence)
  <2>1. window' \in StoreMedia(u, p)
    BY <1>6 DEF ConfirmRestart
  <2>2. p.sequence \in MediaSequences /\ p.sequence >= u.next
    BY ReorderAssumption, WindowAssumption DEF MediaSequences, EmptyWindow
  <2>3. u.requests = {}
    BY DEF EmptyWindow
  <2>4. AtRest(u) /\ WindowTyped(u) /\ Accounted(u)
    BY <2>2, EmptyWindowSound, EmptyWindowTyped
  <2> HIDE DEF u
  <2> QED BY <2>1, <2>2, <2>3, <2>4, StoreMediaModest
<1>7. ASSUME window' = w PROVE Modest(window')
  BY <1>2, <1>7, NothingRequested
<1>8. ASSUME TimeoutIdle PROVE Modest(window')
  <2>1. window' = [w EXCEPT !.next = 0, !.skipped = << >>, !.gap = << >>]
    BY <1>8 DEF TimeoutIdle
  <2> HIDE DEF w
  <2>2. window'.requests = {}
    BY <1>2, <2>1 DEF WindowFields
  <2> QED BY <2>2, NothingRequested
<1>9. ASSUME Tick PROVE Modest(window')
  <2>1. window' = Aged(w)
    BY <1>9 DEF Tick
  <2> HIDE DEF w
  <2>2. window'.requests = {}
    BY <1>2, <2>1 DEF Aged, WindowFields
  <2> QED BY <2>2, NothingRequested
<1> HIDE DEF w
<1>10. window' = window => Modest(window')
  OBVIOUS
<1> QED
  BY <1>1, <1>3, <1>4, <1>5, <1>6, <1>7, <1>8, <1>9, <1>10
  DEF Next, ReceivePacket, Timeout, DropBehind, ReceiveFec, TimeoutAdvance, TimeoutNoFlow, vars, w

(* The detector starts even with the evidence. *)
LEMMA InitDetector == Init => DetectorInv
BY DEF Init, DetectorInv

(* Without parity frames, every step keeps the detector within the         *)
(* evidence or the window within what the detector has seen.               *)
LEMMA NextDetector ==
  ASSUME DOMAIN FecPayload = {}, Inv, TypeInv, DetectorInv, [Next]_vars
  PROVE  DetectorInv'
<1> DEFINE w == Fresh(window)
           highest == restart_detector.highest_seq
<1>1. /\ AtRest(window) /\ Sound(window) /\ WindowTyped(window) /\ LoopTyped
      /\ DOMAIN window = WindowFields
      /\ highest \in Nat /\ evidence \in Nat
      /\ initialized \in BOOLEAN
  BY WindowAssumption
  DEF Inv, TypeInv, AtRest, Sound, LoopTyped, MediaSequences, DetectorInv
<1>2. /\ AtRest(w) /\ Sound(w) /\ WindowTyped(w) /\ DOMAIN w = WindowFields
      /\ w.next = window.next /\ Pending(w) = Pending(window)
  BY <1>1, FreshSound, FreshTyped DEF AtRest, Sound
<1>3. ASSUME initialized' = TRUE => initialized = TRUE,
             restart_detector' = restart_detector, evidence' = evidence,
             Within(window, highest) => Within(window', highest)
      PROVE  DetectorInv'
  BY <1>3 DEF DetectorInv
<1>4. ASSUME restart_detector' = ClearDetector, evidence' \in Nat
      PROVE  DetectorInv'
  BY <1>4 DEF DetectorInv, ClearDetector
<1>5. Within(window, highest) => Within(w, highest)
  BY <1>2 DEF Within
<1>6. ASSUME NEW c \in Connections, NEW p \in Packets, DropBehind(c, p)
      PROVE  DetectorInv'
  <2>1. /\ initialized = TRUE /\ p.sequence \in MediaSequences
        /\ p.sequence \in Nat /\ window.next \in Nat
        /\ RestartConfirmPackets \in Nat
    BY <1>1, <1>6, ReorderAssumption, WindowAssumption DEF DropBehind, MediaSequences, Sound
  <2>2. CASE c \in flow_connections
    <3>1. /\ restart_detector' = restart_detector /\ evidence' = evidence /\ window' = w
          /\ initialized' = initialized
      BY <1>6, <2>2 DEF DropBehind
    <3> QED BY <1>3, <1>5, <3>1
  <2>3. CASE c \notin flow_connections /\ FarBehind(p.sequence)
    <3>1. /\ restart_detector' = Observed(p.sequence)
          /\ evidence' = Min({evidence + 1, RestartConfirmPackets})
      BY <1>6, <2>3 DEF DropBehind
    <3>2. Observed(p.sequence).count <= Min({evidence + 1, RestartConfirmPackets})
      BY <1>1, <2>1, <2>3, FarBehindIsEvidence
    <3>3. evidence' \in Nat
      BY <1>1, <2>1, <3>1, SaturatingStep
    <3> QED BY <3>1, <3>2, <3>3 DEF DetectorInv
  <2>4. CASE c \notin flow_connections /\ ~FarBehind(p.sequence)
    <3>1. restart_detector' = ClearDetector /\ evidence' = evidence
      BY <1>6, <2>4 DEF DropBehind
    <3> QED BY <1>1, <1>4, <3>1
  <2> QED BY <2>2, <2>3, <2>4
<1>7. ASSUME NEW c \in Connections, NEW p \in Packets, ConfirmRestart(c, p)
      PROVE  DetectorInv'
  <2> DEFINE u == EmptyWindow(p.sequence)
             b == Observed(p.sequence).highest_seq
  <2>1. /\ window' \in StoreMedia(u, p) /\ restart_detector' = Observed(p.sequence)
        /\ evidence' = 0
    BY <1>7 DEF ConfirmRestart
  <2>2. /\ p.sequence \in MediaSequences /\ p.sequence \in Nat
        /\ b \in Nat /\ b >= p.sequence
    BY <1>1, ReorderAssumption, WindowAssumption, ObservedTyped, ObservedCounts
    DEF MediaSequences
  <2>3. u.next = p.sequence /\ Pending(u) = {}
    BY DEF EmptyWindow, Pending
  <2>4. AtRest(u) /\ WindowTyped(u)
    BY <2>2, EmptyWindowSound, EmptyWindowTyped
  <2> HIDE DEF u, b
  <2>5. Within(u, b)
    BY <2>2, <2>3 DEF Within
  <2>6. Within(window', b)
    BY <2>1, <2>2, <2>3, <2>4, <2>5, StoreMediaWithin
  <2> QED BY <2>1, <2>6 DEF DetectorInv, b
<1>8. ASSUME TimeoutAdvance
      PROVE  DetectorInv'
  <2>1. /\ window' \in Advance({w}) /\ restart_detector' = restart_detector
        /\ evidence' = evidence /\ initialized' = initialized
    BY <1>8 DEF TimeoutAdvance
  <2> HIDE DEF w, highest
  <2>2. ASSUME Within(window, highest) PROVE Within(window', highest)
    <3>1. Within(w, highest)
      BY <1>5, <2>2
    <3> QED BY <1>1, <1>2, <2>1, <3>1, AdvanceWithin
  <2> QED BY <1>3, <2>1, <2>2
<1>9. ASSUME Tick
      PROVE  DetectorInv'
  <2>1. /\ window' = Aged(w) /\ restart_detector' = restart_detector
        /\ evidence' = evidence /\ initialized' = initialized
    BY <1>9 DEF Tick
  <2> HIDE DEF w, highest
  <2>2. window'.next = w.next /\ Pending(window') = Pending(w)
    BY <1>2, <2>1, AgedSound
  <2> QED BY <1>3, <1>5, <2>1, <2>2 DEF Within
<1>10. ASSUME NEW c \in Connections, NEW p \in Packets, StartFlow(c, p) \/ ContinueFlow(c, p)
       PROVE  DetectorInv'
  BY <1>4, <1>10 DEF StartFlow, ContinueFlow
<1>11. ASSUME TimeoutIdle \/ TimeoutNoFlow \/ UNCHANGED vars
       PROVE  DetectorInv'
  BY <1>1, <1>3, <1>11 DEF TimeoutIdle, TimeoutNoFlow, vars, DetectorInv
<1>12. \A c \in Connections : ~ReceiveFec(c)
  BY DEF ReceiveFec
<1> QED
  BY <1>6, <1>7, <1>8, <1>9, <1>10, <1>11, <1>12 DEF Next, ReceivePacket, Timeout

-----------------------------------------------------------------------------
(* The theorems about steps and routes. *)

(* Responses can reach every client that carried the current flow, and no  *)
(* remote is listed twice.                                                 *)
THEOREM RoutesAlwaysCover == Spec => []RoutesCoverFlow
<1>1. RoutesInv => RoutesCoverFlow
  BY DEF RoutesInv
<1> QED BY <1>1, RoutesHold, PTL

(* Whatever duplicates and late packets arrive, within a flow and until    *)
(* next wraps the loop forwards sequences in ascending order, and none     *)
(* that it has forwarded or skipped.                                       *)
THEOREM LoopForwardsInOrder == Spec => ForwardsInOrder
<1> DEFINE A == SameFlow =>
                  \A i \in DOMAIN window'.out :
                    /\ window'.out[i].sequence \notin window.delivered \cup window.skips
                    /\ \A j \in 1..(i - 1) : window'.out[j].sequence < window'.out[i].sequence
<1>1. Inv /\ TypeInv /\ RoutesInv /\ [Next]_vars => [A]_vars
  <2> SUFFICES ASSUME Inv, TypeInv, RoutesInv, Next, SameFlow
               PROVE  \A i \in DOMAIN window'.out :
                        /\ window'.out[i].sequence \notin window.delivered \cup window.skips
                        /\ \A j \in 1..(i - 1) :
                             window'.out[j].sequence < window'.out[i].sequence
    OBVIOUS
  <2>1. initialized = TRUE /\ initialized' = TRUE /\ flow_connections \subseteq flow_connections'
    <3>1. Inv'
      BY NextInv
    <3> QED BY <3>1 DEF SameFlow, Inv
  <2>2. Ordered(window', window)
    BY <2>1, FlowStepProper DEF Proper
  <2>3. window'.wrapped = FALSE
    BY <2>2 DEF Ordered, SameFlow
  <2>4. window.wrapped = FALSE /\ Ascending(window'.out, window.next, window'.next)
    BY <2>2, <2>3 DEF Ordered
  <2>5. DOMAIN window'.out = 1..Len(window'.out)
    BY <2>2 DEF Ordered, OutIsSequence
  <2>6. /\ window.delivered \cup window.skips = window.start..(window.next - 1)
        /\ window.next \in Nat
    BY <2>1, <2>4, WindowAssumption DEF Inv, Accounted, AtRest, Sound, MediaSequences
  <2>7. ASSUME NEW i \in DOMAIN window'.out
        PROVE  window'.out[i].sequence \notin window.delivered \cup window.skips
    <3>1. window'.out[i].sequence \in window.next..(window'.next - 1)
      BY <2>4, <2>5 DEF Ascending
    <3> QED BY <2>6, <3>1
  <2> QED BY <2>4, <2>5, <2>7 DEF Ascending
<1>2. Spec => []TypeInv
  BY InitTyped, NextTyped, InvHolds, PTL DEF Spec
<1> QED BY <1>1, <1>2, InvHolds, RoutesHold, PTL DEF Spec, ForwardsInOrder

(* Within a flow and until next wraps, a sequence is given up only if      *)
(* something at or behind it waited for MaxReorderDelay, and never one     *)
(* that is held complete.                                                  *)
THEOREM LoopNeverSkipsEarly == Spec => NoEarlySkip
<1> DEFINE A == SameFlow =>
                  \A s \in window'.skips \ window.skips :
                    /\ s \notin DOMAIN window.buffered
                    /\ \E t \in Pending(window) :
                         t >= s /\ PendingAge(window, t) >= MaxReorderDelay
<1>1. Inv /\ TypeInv /\ RoutesInv /\ [Next]_vars => [A]_vars
  <2> SUFFICES ASSUME Inv, TypeInv, RoutesInv, Next, SameFlow
               PROVE  \A s \in window'.skips \ window.skips : MaySkip(window, s)
    BY DEF MaySkip, Overdue
  <2>1. initialized = TRUE /\ initialized' = TRUE /\ flow_connections \subseteq flow_connections'
    <3>1. Inv'
      BY NextInv
    <3> QED BY <3>1 DEF SameFlow, Inv
  <2>2. Proper(window', window)
    BY <2>1, FlowStepProper
  <2>3. window'.wrapped = FALSE
    BY <2>2 DEF Proper, Ordered, SameFlow
  <2> QED BY <2>2, <2>3 DEF Proper
<1>2. Spec => []TypeInv
  BY InitTyped, NextTyped, InvHolds, PTL DEF Spec
<1> QED BY <1>1, <1>2, InvHolds, RoutesHold, PTL DEF Spec, NoEarlySkip

(* When the timer fires, and whenever next moves, either nothing that has  *)
(* waited MaxReorderDelay stays blocked behind a head that is not itself a *)
(* younger incomplete assembly, or the turn forwarded something.           *)
THEOREM LoopExpiresOverdueGaps == Spec => OverdueGapExpires
<1> DEFINE A == TimeoutAdvance \/ (initialized' /\ window'.next # window.next)
                  => NothingOverdue(window') \/ window'.out # << >>
<1>1. Inv /\ TypeInv /\ [Next]_vars => [A]_vars
  <2> SUFFICES ASSUME Inv, TypeInv, Next,
                      TimeoutAdvance \/ (initialized' /\ window'.next # window.next)
               PROVE  NothingOverdue(window') \/ window'.out # << >>
    OBVIOUS
  <2>1. initialized' \in BOOLEAN
    <3>1. Inv'
      BY NextInv
    <3> QED BY <3>1 DEF Inv
  <2> QED BY <2>1, StepLeavesNothingOverdue
<1>2. Spec => []TypeInv
  BY InitTyped, NextTyped, InvHolds, PTL DEF Spec
<1> QED BY <1>1, <1>2, InvHolds, PTL DEF Spec, OverdueGapExpires

(* The server asks only for what it misses: never for a sequence it holds  *)
(* or has forwarded, for an assembly exactly the fragments not received,   *)
(* and for at most MaxRepairRequestsPerTick sequences in one turn.         *)
THEOREM LoopRequestsOnlyMissing == Spec => []RequestsOnlyMissing
<1>1. RequestsInv => RequestsOnlyMissing
  BY DEF RequestsInv, Modest, Requested, RequestsOnlyMissing
<1>2. Spec => []TypeInv
  BY InitTyped, NextTyped, InvHolds, PTL DEF Spec
<1>3. Spec => []RequestsInv
  BY <1>2, InitModest, NextModest, InvHolds, PTL DEF Spec
<1> QED BY <1>1, <1>3, PTL

(* A late packet is told from a duplicate by the list of recently skipped  *)
(* sequences: the list holds skipped sequences of this flow, the latest    *)
(* SkippedTrackLimit of them.                                              *)
THEOREM SkipsAreRemembered == Spec => []SkipListIsRecent
<1>1. SkipsInv /\ Inv => SkipListIsRecent
  <2> SUFFICES ASSUME SkipsInv, Inv, initialized, ~window.wrapped PROVE
        /\ Range(window.skipped) \subseteq window.skips
        /\ Len(window.skipped) = Min({Cardinality(window.skips), SkippedTrackLimit})
        /\ \A s \in Range(window.skipped), t \in window.skips \ Range(window.skipped) : t < s
    BY DEF SkipListIsRecent
  <2>1. initialized = TRUE /\ window.wrapped = FALSE
    BY Zenon DEF Inv, Accounted
  <2> DEFINE l == window.skipped
             S == window.skips
  <2>2. Latest(l, S)
    BY <2>1 DEF SkipsInv, ListLatest
  <2> HIDE DEF l, S
  <2>3. Len(l) \in Nat /\ DOMAIN l = 1..Len(l) /\ Range(l) = {l[i] : i \in 1..Len(l)}
    BY <2>2 DEF Latest, Range
  <2>4. Cardinality(S) \in Nat /\ SkippedTrackLimit \in Nat
    BY <2>2, FS_CardinalityType, WindowAssumption DEF Latest
  <2>5. Len(l) = Min({Cardinality(S), SkippedTrackLimit})
    <3>1. /\ Len(l) \in {Cardinality(S), SkippedTrackLimit}
          /\ Len(l) <= Cardinality(S) /\ Len(l) <= SkippedTrackLimit
      <4>1. /\ Len(l) = Cardinality(S) \/ (Len(l) = SkippedTrackLimit /\ Len(l) <= Cardinality(S))
            /\ Len(l) <= SkippedTrackLimit
        BY <2>2 DEF Latest
      <4>2. Len(l) <= Cardinality(S)
        BY <2>4, <4>1
      <4>3. Len(l) = Cardinality(S) \/ Len(l) = SkippedTrackLimit
        BY <4>1, Zenon
      <4> QED BY <4>1, <4>2, <4>3, Zenon
    <3>2. {Cardinality(S), SkippedTrackLimit} \subseteq Nat
      BY <2>4
    <3>3. \A x \in {Cardinality(S), SkippedTrackLimit} : Len(l) <= x
      BY <3>1
    <3> QED BY <3>1, <3>2, <3>3, MinOfNaturals
  <2>6. Range(l) \subseteq S
    BY <2>2, <2>3 DEF Latest
  <2>7. ASSUME NEW s \in Range(l), NEW t \in S \ Range(l) PROVE t < s
    <3>1. PICK i \in 1..Len(l) : s = l[i]
      BY <2>3
    <3>2. t \in S /\ \A k \in 1..Len(l) : l[k] # t
      BY <2>3
    <3>3. \A x \in S : (\A k \in 1..Len(l) : l[k] # x) => \A k \in 1..Len(l) : x < l[k]
      BY <2>2 DEF Latest
    <3>4. \A k \in 1..Len(l) : t < l[k]
      BY <3>2, <3>3
    <3> QED BY <3>1, <3>4
  <2> QED BY <2>5, <2>6, <2>7 DEF l, S
<1>2. Spec => []TypeInv
  BY InitTyped, NextTyped, InvHolds, PTL DEF Spec
<1>3. Spec => []SkipsInv
  BY <1>2, InitSkips, NextSkips, InvHolds, PTL DEF Spec
<1> QED BY <1>1, <1>3, InvHolds, PTL

(* Without parity frames, a new flow replaces the one in progress only     *)
(* after RestartConfirmPackets far-behind packets from connections outside *)
(* it, with no packet that fits the flow in between.                       *)
THEOREM RestartsAreConfirmed ==
  ASSUME DOMAIN FecPayload = {}
  PROVE  Spec => RestartIsConfirmed
<1> DEFINE A == \A c \in Connections, p \in Packets :
                  ConfirmRestart(c, p) => evidence + 1 >= RestartConfirmPackets
<1>1. Inv /\ TypeInv /\ DetectorInv /\ [Next]_vars => [A]_vars
  <2> SUFFICES ASSUME Inv, TypeInv, DetectorInv,
                      NEW c \in Connections, NEW p \in Packets, ConfirmRestart(c, p)
               PROVE  evidence + 1 >= RestartConfirmPackets
    OBVIOUS
  <2>1. /\ LoopTyped /\ Sound(window) /\ initialized = TRUE /\ evidence \in Nat
        /\ p.sequence \in MediaSequences /\ RestartConfirmPackets \in Nat
    BY ReorderAssumption DEF Inv, TypeInv, AtRest, DetectorInv, ConfirmRestart
  <2>2. FarBehind(p.sequence) /\ Observed(p.sequence).count >= RestartConfirmPackets
    BY DEF ConfirmRestart, Confirms
  <2>3. Observed(p.sequence).count <= Min({evidence + 1, RestartConfirmPackets})
    BY <2>1, <2>2, FarBehindIsEvidence
  <2>4. Observed(p.sequence).count \in Nat
    BY <2>1, ObservedTyped
  <2> QED BY <2>1, <2>2, <2>3, <2>4, SaturatingStep
<1>2. Inv /\ TypeInv /\ DetectorInv /\ [Next]_vars => DetectorInv'
  BY NextDetector
<1>3. Spec => []TypeInv
  BY InitTyped, NextTyped, InvHolds, PTL DEF Spec
<1>4. Spec => []DetectorInv
  BY <1>2, <1>3, InitDetector, InvHolds, PTL DEF Spec
<1> QED BY <1>1, <1>3, <1>4, InvHolds, PTL DEF Spec, RestartIsConfirmed

-----------------------------------------------------------------------------
(* What a turn does to the packets of a stream. *)

(* The same fragments of the same assembly, whatever was asked for. *)
SameAssembly(a, b) == a.total = b.total /\ a.got = b.got /\ a.first_seen = b.first_seen

(* What the stages of a turn leave of a window u whose turn forwarded      *)
(* nothing yet, when nothing is recovered and nothing pending is beyond b: *)
(* the window v holds what u held at or ahead of its next, and the turn    *)
(* forwarded payloads that u had buffered.                                 *)
Carries(v, u, b) ==
  /\ v.wrapped = FALSE /\ v.start = u.start
  /\ v.next >= u.next /\ Within(v, b)
  /\ \A s \in DOMAIN v.buffered : s \in DOMAIN u.buffered /\ v.buffered[s] = u.buffered[s]
  /\ \A s \in DOMAIN v.fragments :
       s \in DOMAIN u.fragments /\ SameAssembly(v.fragments[s], u.fragments[s])
  /\ \A s \in DOMAIN u.buffered : s >= v.next => s \in DOMAIN v.buffered
  /\ \A s \in DOMAIN u.fragments : s >= v.next => s \in DOMAIN v.fragments
  /\ OutIsSequence(v)
  /\ \A i \in 1..Len(v.out) :
       /\ v.out[i].sequence \in DOMAIN u.buffered
       /\ v.out[i].payload = u.buffered[v.out[i].sequence].payload
  /\ \A d \in v.delivered : d \in u.delivered \/ \E i \in 1..Len(v.out) : v.out[i].sequence = d
  /\ \A s \in v.skips : s \in u.skips \/ s >= u.next

(* The sequence o is a followed by the run c of n elements. *)
Continues(o, a, n, c) ==
  /\ Len(a) \in Nat /\ Len(o) = Len(a) + n
  /\ \A i \in 1..Len(a) : o[i] = a[i]
  /\ \A i \in 1..n : o[Len(a) + i] = c[i]
  /\ \A i \in 1..Len(o) : i \in 1..Len(a) \/ \E j \in 1..n : i = Len(a) + j

(* What is forwarded after a is in its place behind a. *)
LEMMA Appended ==
  ASSUME NEW S, NEW a \in Seq(S), NEW n \in Nat, NEW T, NEW c \in [1..n -> T]
  PROVE  a \o c \in Seq(S \cup T) /\ Continues(a \o c, a, n, c)
<1> DEFINE m == Len(a)
           o == a \o c
<1>1. a \in Seq(S \cup T) /\ m \in Nat
  OBVIOUS
<1>2. c \in Seq(S \cup T) /\ Len(c) = n
  OBVIOUS
<1>3. o \in Seq(S \cup T) /\ Len(o) = m + n
  BY <1>1, <1>2
<1>4. \A i \in 1..m : o[i] = a[i]
  BY <1>1, <1>2
<1>5. \A i \in 1..n : o[m + i] = c[i]
  BY <1>1, <1>2
<1> HIDE DEF m, o
<1>6. ASSUME NEW i \in 1..(m + n), i \notin 1..m PROVE \E j \in 1..n : i = m + j
  <2>1. i - m \in 1..n /\ i = m + (i - m)
    BY <1>1, <1>6
  <2> QED BY <2>1
<1>7. \A i \in 1..Len(o) : i \in 1..m \/ \E j \in 1..n : i = m + j
  BY <1>3, <1>6
<1> QED BY <1>1, <1>3, <1>4, <1>5, <1>7 DEF Continues, m, o

(* Draining forwards what is buffered. *)
LEMMA DrainCarries ==
  ASSUME NEW b \in Nat, b < MaxMediaSequence, NEW u, Sound(u),
         NEW w, Sound(w), Carries(w, u, b)
  PROVE  Carries(Drain(w), u, b)
<1> DEFINE end == RunEnd(w)
           run == w.next..(end - 1)
           v   == Drain(w)
           n   == end - w.next
           sent == [i \in 1..n |-> [sequence |-> w.next + i - 1,
                                    payload  |-> w.buffered[w.next + i - 1].payload]]
<1>1. /\ end \in w.next..(MaxMediaSequence + 1) /\ run \subseteq DOMAIN w.buffered
      /\ w.next \in Nat /\ MaxMediaSequence \in Nat
      /\ w.next <= b + 1 /\ \A s \in DOMAIN w.buffered : s <= b
  BY RunEndIsFirstMissing, WindowAssumption DEF Sound, MediaSequences, Carries, Within, Pending
<1>2. /\ v.next = Wrap(end)
      /\ v.buffered = Without(w.buffered, run)
      /\ v.fragments = w.fragments
      /\ v.out = w.out \o sent
      /\ v.delivered = Recorded(w, end, w.delivered \cup run)
      /\ v.skips = Recorded(w, end, w.skips)
      /\ v.wrapped = (w.wrapped \/ end > MaxMediaSequence)
      /\ v.start = w.start
  <2>1. v.start = w.start
    BY DEF Drain, Sound, WindowFields
  <2> QED BY <2>1, DrainFields DEF Sound
<1>3. Within(v, b)
  BY DrainWithin DEF Carries
<1> DEFINE m == w.next
           B == w.buffered
<1> HIDE DEF v, end, sent
<1>4. end <= b + 1
  <2>1. CASE end = w.next
    BY <1>1, <2>1
  <2>2. CASE end # w.next
    <3>1. end - 1 \in run
      BY <1>1, <2>2
    <3> QED BY <1>1, <3>1
  <2> QED BY <2>1, <2>2
<1>5. ~(end > MaxMediaSequence) /\ v.next = end /\ v.next >= w.next
  BY <1>1, <1>2, <1>4 DEF Wrap
<1>6. w.wrapped = FALSE
  BY DEF Carries
<1>7. v.wrapped = FALSE /\ v.delivered = w.delivered \cup run /\ v.skips = w.skips
  BY <1>2, <1>5, <1>6, Zenon DEF Recorded
<1>8. /\ DOMAIN v.buffered = DOMAIN w.buffered \ run
      /\ \A s \in DOMAIN v.buffered : v.buffered[s] = w.buffered[s]
  BY <1>2 DEF Without, Restrict
<1>9. /\ n \in Nat /\ DOMAIN sent = 1..n
      /\ \A i \in 1..n : /\ sent[i].sequence = m + i - 1
                         /\ sent[i].payload = B[m + i - 1].payload
                         /\ m + i - 1 \in run
  BY <1>1 DEF sent
<1>10. PICK S : w.out \in Seq(S)
  BY DEF Carries, OutIsSequence
<1>11. sent \in [1..n -> {sent[i] : i \in 1..n}]
  BY <1>9 DEF sent
<1>12. /\ v.out \in Seq(S \cup {sent[i] : i \in 1..n}) /\ Len(w.out) \in Nat
       /\ Len(v.out) = Len(w.out) + n
       /\ \A i \in 1..Len(w.out) : v.out[i] = w.out[i]
       /\ \A i \in 1..n : v.out[Len(w.out) + i] = sent[i]
       /\ \A i \in 1..Len(v.out) :
            i \in 1..Len(w.out) \/ \E j \in 1..n : i = Len(w.out) + j
  <2> DEFINE T == {sent[i] : i \in 1..n}
             a == w.out
  <2>1. a \in Seq(S) /\ sent \in [1..n -> T] /\ n \in Nat /\ v.out = a \o sent
    BY <1>2, <1>9, <1>10, <1>11
  <2> HIDE DEF n, T, a
  <2>2. a \o sent \in Seq(S \cup T) /\ Continues(a \o sent, a, n, sent)
    BY <2>1, Appended
  <2> QED BY <2>1, <2>2 DEF Continues, a, T
<1>13. OutIsSequence(v)
  BY <1>12 DEF OutIsSequence
<1>14. ASSUME NEW i \in 1..Len(v.out)
       PROVE  /\ v.out[i].sequence \in DOMAIN u.buffered
              /\ v.out[i].payload = u.buffered[v.out[i].sequence].payload
  <2>1. CASE i \in 1..Len(w.out)
    BY <1>12, <2>1 DEF Carries
  <2>2. CASE i \notin 1..Len(w.out)
    <3>1. PICK j \in 1..n : i = Len(w.out) + j
      BY <1>12, <2>2
    <3>2. v.out[i].sequence = m + j - 1 /\ v.out[i].payload = B[m + j - 1].payload
      BY <1>9, <1>12, <3>1
    <3>3. m + j - 1 \in DOMAIN B
      BY <1>1, <1>9
    <3> QED BY <3>2, <3>3 DEF Carries
  <2> QED BY <2>1, <2>2
<1>15. ASSUME NEW d \in v.delivered
       PROVE  d \in u.delivered \/ \E i \in 1..Len(v.out) : v.out[i].sequence = d
  <2>1. CASE d \in w.delivered
    <3>1. \A i \in 1..Len(w.out) : i \in 1..Len(v.out) /\ v.out[i] = w.out[i]
      BY <1>9, <1>12
    <3> QED BY <2>1, <3>1 DEF Carries
  <2>2. CASE d \in run
    <3>1. d - m + 1 \in 1..n /\ m + (d - m + 1) - 1 = d
      BY <1>1, <2>2
    <3>2. PICK i \in 1..n : m + i - 1 = d
      BY <3>1
    <3>3. Len(w.out) + i \in 1..Len(v.out) /\ v.out[Len(w.out) + i].sequence = d
      <4>1. Len(w.out) + i \in 1..Len(v.out)
        BY <1>9, <1>12, <3>2
      <4>2. v.out[Len(w.out) + i] = sent[i] /\ sent[i].sequence = m + i - 1
        BY <1>9, <1>12, <3>2
      <4> QED BY <3>2, <4>1, <4>2
    <3> QED BY <3>3
  <2> QED BY <1>7, <2>1, <2>2
<1>16. ASSUME NEW s \in DOMAIN u.buffered, s >= v.next
       PROVE  s \in DOMAIN v.buffered
  <2>1. s >= w.next /\ s \notin run
    <3>1. s \in Nat
      BY WindowAssumption DEF Sound, MediaSequences
    <3> QED BY <1>1, <1>5, <1>16, <3>1
  <2>2. s \in DOMAIN w.buffered
    BY <2>1 DEF Carries
  <2> QED BY <1>8, <2>1, <2>2
<1>17. \A s \in DOMAIN u.fragments : s >= v.next => s \in DOMAIN v.fragments
  <2>1. DOMAIN u.fragments \subseteq Nat
    BY WindowAssumption DEF Sound, MediaSequences
  <2> QED BY <1>1, <1>2, <1>5, <2>1 DEF Carries
<1>18. v.next >= u.next
  <2>1. u.next \in Nat /\ v.next \in Nat
    BY <1>1, <1>5, WindowAssumption DEF Sound, MediaSequences
  <2> QED BY <1>1, <1>5, <2>1 DEF Carries
<1>19. \A s \in DOMAIN v.buffered : s \in DOMAIN u.buffered /\ v.buffered[s] = u.buffered[s]
  BY <1>8 DEF Carries
<1> QED BY <1>2, <1>3, <1>7, <1>13, <1>14, <1>15, <1>16, <1>17, <1>18, <1>19 DEF Carries, v

(* Asking for repairs forwards, skips and drops nothing. *)
LEMMA RequestsCarry ==
  ASSUME NEW b \in Nat, NEW u, NEW w, Sound(w), WindowTyped(w), Carries(w, u, b)
  PROVE  Carries(RequestDueRepairs(w), u, b)
<1> DEFINE v == RequestDueRepairs(w)
           A == AssembliesAsked(w)
           Renewed(s) == IF s \in A THEN [w.fragments[s] EXCEPT !.asked = 0] ELSE w.fragments[s]
<1>1. /\ v.next = w.next
      /\ v.buffered = w.buffered
      /\ v.fragments = [s \in DOMAIN w.fragments |-> Renewed(s)]
      /\ v.out = w.out
      /\ v.start = w.start
      /\ v.delivered = w.delivered
      /\ v.skips = w.skips
      /\ v.wrapped = w.wrapped
  BY DEF RequestDueRepairs, Sound, WindowFields
<1> HIDE DEF v, A
<1>2. ASSUME NEW s \in DOMAIN w.fragments
      PROVE  SameAssembly(v.fragments[s], w.fragments[s])
  <2>1. w.fragments[s] \in Assemblies
    BY DEF WindowTyped
  <2>2. SameAssembly([w.fragments[s] EXCEPT !.asked = 0], w.fragments[s])
    BY <2>1 DEF Assemblies, SameAssembly
  <2>3. SameAssembly(w.fragments[s], w.fragments[s])
    BY DEF SameAssembly
  <2> QED BY <1>1, <2>2, <2>3
<1>3. DOMAIN v.fragments = DOMAIN w.fragments
  BY <1>1
<1>4. Within(v, b) /\ OutIsSequence(v)
  BY <1>1, <1>3 DEF Carries, Within, Pending, OutIsSequence
<1>5. \A s \in DOMAIN v.fragments :
        s \in DOMAIN u.fragments /\ SameAssembly(v.fragments[s], u.fragments[s])
  BY <1>2, <1>3 DEF Carries, SameAssembly
<1>6. /\ \A i \in 1..Len(v.out) :
           /\ v.out[i].sequence \in DOMAIN u.buffered
           /\ v.out[i].payload = u.buffered[v.out[i].sequence].payload
      /\ \A d \in v.delivered : d \in u.delivered \/ \E i \in 1..Len(v.out) : v.out[i].sequence = d
      /\ \A s \in v.skips : s \in u.skips \/ s >= u.next
  BY <1>1 DEF Carries
<1>7. /\ \A s \in DOMAIN v.buffered : s \in DOMAIN u.buffered /\ v.buffered[s] = u.buffered[s]
      /\ \A s \in DOMAIN u.buffered : s >= v.next => s \in DOMAIN v.buffered
      /\ \A s \in DOMAIN u.fragments : s >= v.next => s \in DOMAIN v.fragments
      /\ v.wrapped = FALSE /\ v.start = u.start /\ v.next >= u.next
  BY <1>1, <1>3 DEF Carries
<1> QED BY <1>4, <1>5, <1>6, <1>7 DEF Carries, v

(* An expiry drops only what it passes. *)
LEMMA ExpireCarries ==
  ASSUME NEW b \in Nat, b < MaxMediaSequence, NEW u, Sound(u),
         NEW w, Sound(w), Carries(w, u, b)
  PROVE  Carries(Expire(w), u, b)
<1> DEFINE end     == ExpireEnd(w)
           expired == w.next..(end - 1)
           v       == Expire(w)
<1>1. /\ end \in w.next..(MaxMediaSequence + 1)
      /\ \A s \in expired : ~ExpireStopsAt(w, s)
      /\ w.next \in Nat /\ u.next \in Nat /\ MaxMediaSequence \in Nat
      /\ w.next <= b + 1 /\ \A s \in Pending(w) : s <= b
      /\ DOMAIN u.buffered \subseteq Nat /\ DOMAIN u.fragments \subseteq Nat
  BY ExpireEndIsFirstStop, WindowAssumption DEF Sound, MediaSequences, Carries, Within
<1>2. /\ v.next = Wrap(end)
      /\ v.buffered = w.buffered
      /\ v.fragments = Without(w.fragments, expired)
      /\ v.out = w.out
      /\ v.delivered = Recorded(w, end, w.delivered)
      /\ v.skips = Recorded(w, end, w.skips \cup expired)
      /\ v.wrapped = (w.wrapped \/ end > MaxMediaSequence)
      /\ v.start = w.start
  <2>1. v.start = w.start
    BY DEF Expire, Sound, WindowFields
  <2> QED BY <2>1, ExpireFields DEF Sound
<1>3. Within(v, b)
  BY ExpireWithin DEF Carries
<1> HIDE DEF v, end
<1>4. end <= b + 1
  <2>1. CASE end = w.next
    BY <1>1, <2>1
  <2>2. CASE end # w.next
    <3>1. end - 1 \in expired
      BY <1>1, <2>2
    <3>2. ~ExpireStopsAt(w, end - 1)
      BY <1>1, <3>1
    <3>3. PICK t \in Pending(w) : t >= end - 1
      <4>1. CASE end - 1 \in Pending(w)
        <5>1. end - 1 >= end - 1
          BY <1>1
        <5> QED BY <4>1, <5>1
      <4>2. CASE end - 1 \notin Pending(w)
        BY <3>2, <4>2 DEF ExpireStopsAt
      <4> QED BY <4>1, <4>2
    <3>4. t \in Nat
      BY WindowAssumption DEF Sound, Pending, MediaSequences
    <3> QED BY <1>1, <3>3, <3>4
  <2> QED BY <2>1, <2>2
<1>5. ~(end > MaxMediaSequence) /\ v.next = end /\ v.next >= w.next /\ v.next >= u.next
  BY <1>1, <1>2, <1>4 DEF Wrap, Carries
<1>6. w.wrapped = FALSE
  BY DEF Carries
<1>7. v.wrapped = FALSE /\ v.delivered = w.delivered /\ v.skips = w.skips \cup expired
  BY <1>2, <1>5, <1>6, Zenon DEF Recorded
<1>8. /\ DOMAIN v.fragments = DOMAIN w.fragments \ expired
      /\ \A s \in DOMAIN v.fragments : v.fragments[s] = w.fragments[s]
  BY <1>2 DEF Without, Restrict
<1>9. \A s \in DOMAIN u.fragments : s >= v.next => s \in DOMAIN v.fragments
  <2> SUFFICES ASSUME NEW s \in DOMAIN u.fragments, s >= v.next
               PROVE  s \in DOMAIN v.fragments
    OBVIOUS
  <2>1. s \in Nat /\ s >= w.next /\ s \notin expired
    BY <1>1, <1>5
  <2>2. s \in DOMAIN w.fragments
    BY <2>1 DEF Carries
  <2> QED BY <1>8, <2>1, <2>2
<1>10. \A s \in DOMAIN u.buffered : s >= v.next => s \in DOMAIN v.buffered
  BY <1>1, <1>2, <1>5 DEF Carries
<1>11. \A s \in v.skips : s \in u.skips \/ s >= u.next
  <2>1. \A s \in expired : s >= u.next
    BY <1>1 DEF Carries
  <2> QED BY <1>7, <2>1 DEF Carries
<1>12. \A s \in DOMAIN v.fragments :
         s \in DOMAIN u.fragments /\ SameAssembly(v.fragments[s], u.fragments[s])
  BY <1>8 DEF Carries
<1>13. OutIsSequence(v)
  BY <1>2 DEF Carries, OutIsSequence
<1>14. /\ \A i \in 1..Len(v.out) :
            /\ v.out[i].sequence \in DOMAIN u.buffered
            /\ v.out[i].payload = u.buffered[v.out[i].sequence].payload
       /\ \A d \in v.delivered :
            d \in u.delivered \/ \E i \in 1..Len(v.out) : v.out[i].sequence = d
  BY <1>2, <1>7 DEF Carries
<1>15. /\ \A s \in DOMAIN v.buffered : s \in DOMAIN u.buffered /\ v.buffered[s] = u.buffered[s]
       /\ v.start = u.start
  BY <1>2 DEF Carries
<1> QED
  BY <1>3, <1>5, <1>7, <1>9, <1>10, <1>11, <1>12, <1>13, <1>14, <1>15 DEF Carries, v

(* When no parity frame can recover anything, a pass of the recovery only  *)
(* drains.                                                                 *)
LEMMA PassCarries ==
  ASSUME DOMAIN FecPayload = {}, NEW b \in Nat, b < MaxMediaSequence, NEW u, Sound(u),
         NEW w, Sound(w), WindowTyped(w), Carries(w, u, b), NEW v \in RecoverPass(w)
  PROVE  Sound(v) /\ WindowTyped(v) /\ Carries(v, u, b)
<1>1. PICK S \in SUBSET Recoverable(w) : v = Accept(w, [s \in S |-> {FecPayload[s]}])
  BY DEF RecoverPass
<1> DEFINE P == [s \in S |-> {FecPayload[s]}]
           B == [s \in DOMAIN P |-> [payload |-> P[s], age |-> 0]]
           x == [w EXCEPT !.buffered  = With(@, B),
                          !.fragments = Without(@, DOMAIN P),
                          !.seen      = @ \cup DOMAIN P]
<1>2. DOMAIN P = {}
  BY DEF Recoverable
<1>3. DOMAIN B = {} /\ v = Drain(x)
  BY <1>1, <1>2 DEF Accept
<1>4. AtRest(v) /\ WindowTyped(v)
  <2>1. v = Accept(w, P)
    BY <1>1
  <2> HIDE DEF P
  <2>2. DOMAIN P \subseteq w.next..MaxMediaSequence /\ DOMAIN w = WindowFields
    BY <1>2 DEF Sound
  <2> QED BY <2>1, <2>2, AcceptSound, AcceptTyped
<1>5. /\ DOMAIN x = WindowFields
      /\ x.next = w.next
      /\ x.buffered = With(w.buffered, B)
      /\ x.fragments = Without(w.fragments, DOMAIN P)
      /\ x.seen = w.seen \cup DOMAIN P
      /\ x.gap = w.gap /\ x.out = w.out /\ x.start = w.start
      /\ x.delivered = w.delivered /\ x.skips = w.skips /\ x.wrapped = w.wrapped
  BY DEF Sound, WindowFields
<1> HIDE DEF x, B, P
<1>6. /\ DOMAIN x.buffered = DOMAIN w.buffered
      /\ \A s \in DOMAIN x.buffered : x.buffered[s] = w.buffered[s]
      /\ DOMAIN x.fragments = DOMAIN w.fragments
      /\ \A s \in DOMAIN x.fragments : x.fragments[s] = w.fragments[s]
  BY <1>2, <1>3, <1>5 DEF With, Without, Restrict
<1>7. Sound(x)
  BY <1>2, <1>5, <1>6 DEF Sound
<1>8. Within(x, b) /\ OutIsSequence(x)
  BY <1>5, <1>6 DEF Carries, Within, Pending, OutIsSequence
<1>9. Carries(x, u, b)
  BY <1>5, <1>6, <1>8 DEF Carries
<1> QED BY <1>3, <1>4, <1>7, <1>9, DrainCarries DEF AtRest

(* So advance_reorder_window carries the window over. *)
LEMMA AdvanceCarries ==
  ASSUME DOMAIN FecPayload = {}, NEW b \in Nat, b < MaxMediaSequence, NEW u, Sound(u),
         NEW w, Sound(w), WindowTyped(w), Carries(w, u, b), NEW v \in Advance({w})
  PROVE  Carries(v, u, b)
<1> DEFINE R == RecoverFecReady(w)
<1>1. PICK x \in RepairsAsked(R) : v = Drain(Expire(x))
  BY DEF Advance
<1>2. ASSUME NEW r \in R
      PROVE  Sound(r) /\ WindowTyped(r) /\ Carries(r, u, b)
  <2>1. CASE r \in RecoverPass(w)
    BY <2>1, PassCarries
  <2>2. CASE r \notin RecoverPass(w)
    <3>1. PICK y \in RecoverPass(w) : r \in RecoverPass(y)
      BY <2>2 DEF RecoverFecReady
    <3>2. Sound(y) /\ WindowTyped(y) /\ Carries(y, u, b)
      BY PassCarries
    <3> QED BY <3>1, <3>2, PassCarries
  <2> QED BY <2>1, <2>2
<1> HIDE DEF R
<1>3. Sound(x) /\ Carries(x, u, b)
  <2>1. CASE x \in R
    BY <1>2, <2>1
  <2>2. CASE x \notin R
    <3>1. PICK r \in R : x = RequestDueRepairs(r)
      BY <1>1, <2>2 DEF RepairsAsked
    <3> QED BY <1>2, <3>1, RequestDueRepairsSound, RequestsCarry
  <2> QED BY <2>1, <2>2
<1>4. Sound(Expire(x)) /\ Carries(Expire(x), u, b)
  BY <1>3, ExpireSound, ExpireCarries
<1> QED BY <1>1, <1>4, DrainCarries

(* A turn starts with the window as it is. *)
LEMMA CarriesItself ==
  ASSUME NEW b \in Nat, NEW u, Sound(u), Within(u, b), u.wrapped = FALSE, u.out = << >>
  PROVE  Carries(u, u, b)
<1>1. u.next >= u.next
  BY WindowAssumption DEF Sound, MediaSequences
<1>2. u.out \in Seq({}) /\ Len(u.out) = 0 /\ \A i \in 1..0 : FALSE
  OBVIOUS
<1>3. OutIsSequence(u) /\ \A i \in 1..Len(u.out) : FALSE
  BY <1>2 DEF OutIsSequence
<1>4. \A s \in DOMAIN u.fragments : SameAssembly(u.fragments[s], u.fragments[s])
  BY DEF SameAssembly
<1> QED BY <1>1, <1>3, <1>4 DEF Carries

(* A fragment is held in its assembly, or the whole packet waits.          *)
Holds(w, n, i, k) ==
  \/ n \in DOMAIN w.buffered
  \/ k # 1 /\ n \in DOMAIN w.fragments /\ i \in DOMAIN w.fragments[n].got

(* What waits in the window is of one packet each, and of a cut that its   *)
(* packet was sent in: K[s + 1] for sequence s.                            *)
OfOnePacket(w, K) ==
  /\ \A s \in DOMAIN w.buffered : w.buffered[s].payload = {s}
  /\ \A s \in DOMAIN w.fragments :
       /\ w.fragments[s].total \in K[s + 1] \ {1}
       /\ \A i \in DOMAIN w.fragments[s].got : w.fragments[s].got[i] = s

(* A turn of the loop made v from w, within one flow and one lap. *)
Turn(v, w, K, b) ==
  /\ Ordered(v, w) /\ Patient(v, w)
  /\ v.wrapped = FALSE /\ v.start = w.start
  /\ Within(v, b) /\ OfOnePacket(v, K)
  /\ \A i \in 1..Len(v.out) : v.out[i].payload = {v.out[i].sequence}
  /\ \A d \in v.delivered : d \in w.delivered \/ \E i \in 1..Len(v.out) : v.out[i].sequence = d
  /\ \A s \in v.skips : s \in w.skips \/ s >= w.next
  /\ \A t \in Pending(v) :
       \/ PendingAge(v, t) = 0
       \/ t \in Pending(w) /\ PendingAge(v, t) = PendingAge(w, t)
  /\ \A n, i, k : n >= v.next /\ Holds(w, n, i, k) => Holds(v, n, i, k)

(* All the fragments of a cut of packet n are among the arrivals in A. *)
WholeIn(n, K, A) == \E k \in K[n + 1] : \A i \in 0..(k - 1) : <<n, i, k>> \in A

(* What waits in the window is among the arrivals, fragment by fragment. *)
HasArrived(w, K, A) ==
  /\ \A s \in DOMAIN w.buffered : WholeIn(s, K, A)
  /\ \A s \in DOMAIN w.fragments : \A i \in DOMAIN w.fragments[s].got :
       <<s, i, w.fragments[s].total>> \in A

OutArrived(v, K, A) == \A i \in 1..Len(v.out) : WholeIn(v.out[i].sequence, K, A)

(* What v holds and forwards was in w, but for the arrivals in E. *)
Brings(v, w, K, E) ==
  \A A : E \subseteq A /\ HasArrived(w, K, A) => HasArrived(v, K, A) /\ OutArrived(v, K, A)

(* The packet of p waits whole, with its payload. *)
StoredWhole(x, w, p) ==
  /\ p.fragments # 1 => IsComplete(WithFragment(w, p))
  /\ DOMAIN x.buffered = DOMAIN w.buffered \cup {p.sequence}
  /\ \A s \in DOMAIN w.buffered \ {p.sequence} : x.buffered[s] = w.buffered[s]
  /\ x.buffered[p.sequence].age = 0
  /\ x.buffered[p.sequence].payload =
       IF p.fragments = 1 THEN {p.payload} ELSE IntoPayload(WithFragment(w, p))
  /\ DOMAIN x.fragments = DOMAIN w.fragments \ {p.sequence}
  /\ \A s \in DOMAIN x.fragments : x.fragments[s] = w.fragments[s]

(* The fragment of p joins its assembly. *)
StoredFragment(x, w, p) ==
  /\ p.fragments # 1
  /\ x.buffered = w.buffered
  /\ DOMAIN x.fragments = DOMAIN w.fragments \cup {p.sequence}
  /\ x.fragments[p.sequence] = WithFragment(w, p)
  /\ x.fragments[p.sequence].first_seen =
       IF p.sequence \in DOMAIN w.fragments THEN w.fragments[p.sequence].first_seen ELSE 0
  /\ \A s \in DOMAIN w.fragments \ {p.sequence} : x.fragments[s] = w.fragments[s]

(* The window that advances once packet p is stored in w: the packet       *)
(* whole, or in the assembly of its fragments.                             *)
Stored(x, w, p) ==
  /\ Sound(x)
  /\ x.next = w.next /\ x.start = w.start /\ x.delivered = w.delivered
  /\ x.skips = w.skips /\ x.wrapped = w.wrapped /\ x.out = w.out
  /\ StoredWhole(x, w, p) \/ StoredFragment(x, w, p)

(* The window with the fragment of p in its assembly, which is incomplete. *)
Joined(w, p) ==
  [w EXCEPT !.fragments = With(@, [s \in {p.sequence} |-> WithFragment(w, p)])]

(* Nothing but that assembly changes. *)
LEMMA JoinedAssembly ==
  ASSUME NEW w, Sound(w), WindowTyped(w),
         NEW p \in Packets, p.sequence >= w.next, p.sequence \notin DOMAIN w.buffered,
         p.sequence \in DOMAIN w.fragments => w.fragments[p.sequence].total = p.fragments,
         ~IsComplete(WithFragment(w, p)),
         NEW x, x = Joined(w, p), NEW a, a = WithFragment(w, p)
  PROVE  /\ Sound(x) /\ WindowTyped(x)
         /\ x.next = w.next /\ x.buffered = w.buffered /\ x.out = w.out
         /\ x.skips = w.skips /\ x.wrapped = w.wrapped
         /\ x.start = w.start /\ x.delivered = w.delivered
         /\ DOMAIN x.fragments = DOMAIN w.fragments \cup {p.sequence}
         /\ x.fragments[p.sequence] = a
         /\ \A s \in DOMAIN w.fragments \ {p.sequence} : x.fragments[s] = w.fragments[s]
         /\ a.first_seen = IF p.sequence \in DOMAIN w.fragments
                           THEN w.fragments[p.sequence].first_seen ELSE 0
<1> DEFINE c == WithFragment(w, p)
           F == [s \in {p.sequence} |-> c]
           y == [w EXCEPT !.fragments = With(@, F)]
<1>1. /\ Sound(y) /\ WindowTyped(y)
      /\ y.next = w.next /\ y.buffered = w.buffered /\ y.out = w.out
      /\ y.skips = w.skips /\ y.wrapped = w.wrapped
      /\ DOMAIN y.fragments = DOMAIN w.fragments \cup {p.sequence}
      /\ y.fragments[p.sequence] = c
      /\ \A s \in DOMAIN w.fragments \ {p.sequence} : y.fragments[s] = w.fragments[s]
      /\ c.first_seen = IF p.sequence \in DOMAIN w.fragments
                        THEN w.fragments[p.sequence].first_seen ELSE 0
  BY JoinAssembly, ZenonT(30)
<1>2. y.start = w.start /\ y.delivered = w.delivered
  BY DEF Sound, WindowFields
<1>3. x = y /\ a = c
  BY DEF Joined
<1> HIDE DEF c, F, y
<1> QED BY <1>1, <1>2, <1>3

(* Storing a packet that was not held stores it and advances. *)
LEMMA StoreMediaCarries ==
  ASSUME DOMAIN FecPayload = {}, NEW b \in Nat, b < MaxMediaSequence,
         NEW w, AtRest(w), WindowTyped(w), w.wrapped = FALSE, w.out = << >>, Within(w, b),
         NEW p \in Packets, p.sequence >= w.next, p.sequence <= b,
         ~AlreadyHeld(w, p), NEW v \in StoreMedia(w, p)
  PROVE  \E x : Stored(x, w, p) /\ Carries(v, x, b)
<1> DEFINE a == WithFragment(w, p)
<1>1. Sound(w) /\ p.sequence \in w.next..MaxMediaSequence
  BY ReorderAssumption, WindowAssumption DEF AtRest, Sound, MediaSequences
<1>2. ASSUME NEW payload, v \in StoreWhole(w, p, payload),
             payload = IF p.fragments = 1 THEN {p.payload} ELSE IntoPayload(a),
             p.fragments # 1 => IsComplete(a)
      PROVE  \E x : Stored(x, w, p) /\ Carries(v, x, b)
  <2> DEFINE P == [s \in {p.sequence} |-> payload]
             B == [s \in DOMAIN P |-> [payload |-> P[s], age |-> 0]]
             x == [w EXCEPT !.buffered  = With(@, B),
                            !.fragments = Without(@, DOMAIN P),
                            !.seen      = @ \cup DOMAIN P]
             y == Accept(w, P)
  <2>1. /\ DOMAIN P = {p.sequence} /\ DOMAIN B = {p.sequence}
        /\ B[p.sequence] = [payload |-> payload, age |-> 0]
        /\ y = Drain(x) /\ v \in Advance({y})
    BY <1>2 DEF Accept, StoreWhole
  <2>2. /\ DOMAIN x = WindowFields
        /\ x.next = w.next
        /\ x.buffered = With(w.buffered, B)
        /\ x.fragments = Without(w.fragments, DOMAIN P)
        /\ x.seen = w.seen \cup DOMAIN P
        /\ x.gap = w.gap /\ x.out = w.out /\ x.start = w.start
        /\ x.delivered = w.delivered /\ x.skips = w.skips /\ x.wrapped = w.wrapped
    BY <1>1 DEF Sound, WindowFields
  <2>3. Sound(y) /\ WindowTyped(y)
    <3> HIDE DEF P, x
    <3> QED BY <1>1, <2>1, AcceptSound, AcceptTyped DEF AtRest, Sound
  <2> HIDE DEF x, B, P, y
  <2>4. /\ DOMAIN x.buffered = DOMAIN w.buffered \cup {p.sequence}
        /\ \A s \in DOMAIN w.buffered \ {p.sequence} : x.buffered[s] = w.buffered[s]
        /\ x.buffered[p.sequence] = [payload |-> payload, age |-> 0]
        /\ DOMAIN x.fragments = DOMAIN w.fragments \ {p.sequence}
        /\ \A s \in DOMAIN x.fragments : x.fragments[s] = w.fragments[s]
    BY <2>1, <2>2 DEF With, Without, Restrict
  <2>5. Sound(x)
    BY <1>1, <2>1, <2>2, <2>4 DEF Sound
  <2>6. Within(x, b)
    BY <2>2, <2>4 DEF Within, Pending
  <2>7. Stored(x, w, p)
    BY <1>2, <2>2, <2>4, <2>5 DEF Stored, StoredWhole
  <2>8. Carries(y, x, b)
    BY <2>1, <2>2, <2>5, <2>6, CarriesItself, DrainCarries
  <2> QED BY <2>1, <2>3, <2>5, <2>7, <2>8, AdvanceCarries
<1>3. CASE p.fragments = 1
  <2>1. v \in StoreWhole(w, p, {p.payload})
    BY <1>3 DEF StoreMedia
  <2> QED BY <1>2, <1>3, <2>1
<1>4. CASE p.fragments # 1 /\ IsComplete(a)
  <2>1. v \in StoreWhole(w, p, IntoPayload(a))
    BY <1>4 DEF StoreMedia, StoreFragment
  <2> QED BY <1>2, <1>4, <2>1
<1>5. CASE p.fragments # 1 /\ ~IsComplete(a)
  <2> DEFINE x == Joined(w, p)
  <2>1. v \in Advance({x})
    BY <1>5 DEF StoreMedia, StoreFragment, Joined
  <2>2. /\ p.sequence \notin DOMAIN w.buffered
        /\ p.sequence \in DOMAIN w.fragments => w.fragments[p.sequence].total = p.fragments
        /\ ~IsComplete(WithFragment(w, p)) /\ Sound(w)
    BY <1>1, <1>5 DEF AlreadyHeld
  <2>3. /\ Sound(x) /\ WindowTyped(x)
        /\ x.next = w.next /\ x.buffered = w.buffered /\ x.out = w.out
        /\ x.skips = w.skips /\ x.wrapped = w.wrapped
        /\ x.start = w.start /\ x.delivered = w.delivered
        /\ DOMAIN x.fragments = DOMAIN w.fragments \cup {p.sequence}
        /\ x.fragments[p.sequence] = a
        /\ \A s \in DOMAIN w.fragments \ {p.sequence} : x.fragments[s] = w.fragments[s]
        /\ a.first_seen = IF p.sequence \in DOMAIN w.fragments
                          THEN w.fragments[p.sequence].first_seen ELSE 0
    BY <2>2, JoinedAssembly
  <2> HIDE DEF x, a
  <2>5. Stored(x, w, p)
    BY <1>5, <2>3 DEF Stored, StoredFragment, a
  <2>6. Within(x, b)
    BY <2>3 DEF Within, Pending
  <2>7. Carries(x, x, b)
    BY <2>3, <2>6, CarriesItself
  <2> QED BY <2>1, <2>3, <2>5, <2>7, AdvanceCarries
<1> QED BY <1>3, <1>4, <1>5

(* What a packet p of a cut in K adds to w is of that packet. *)
LEMMA StoredOfOnePacket ==
  ASSUME NEW K, NEW w, WindowTyped(w), OfOnePacket(w, K), NEW p \in Packets,
         p.payload = p.sequence, p.fragments \in K[p.sequence + 1],
         NEW x, Stored(x, w, p)
  PROVE  OfOnePacket(x, K)
<1> DEFINE q == p.sequence
           a == WithFragment(w, p)
<1>1. /\ \A i \in DOMAIN a.got : a.got[i] = q
      /\ p.fragment \in DOMAIN a.got
      /\ p.fragments # 1 => a.total \in K[q + 1] \ {1}
  <2>1. q \in DOMAIN w.fragments => w.fragments[q] \in Assemblies
    BY DEF WindowTyped
  <2> DEFINE fresh == [total |-> p.fragments, got |-> << >>,
                       first_seen |-> 0, asked |-> RepairInterval]
             held == IF q \in DOMAIN w.fragments THEN w.fragments[q] ELSE fresh
             G == [i \in {p.fragment} |-> p.payload]
  <2>2. a = [held EXCEPT !.got = With(@, G)]
    BY DEF WithFragment
  <2>3. /\ DOMAIN held = {"total", "got", "first_seen", "asked"}
        /\ \A i \in DOMAIN held.got : held.got[i] = q
        /\ p.fragments # 1 => held.total \in K[q + 1] \ {1}
    BY <2>1 DEF Assemblies, OfOnePacket
  <2>4. DOMAIN G = {p.fragment} /\ G[p.fragment] = q
    OBVIOUS
  <2> HIDE DEF held, G, a
  <2>5. a.total = held.total /\ a.got = With(held.got, G)
    BY <2>2, <2>3
  <2>6. /\ DOMAIN a.got = DOMAIN held.got \cup {p.fragment}
        /\ \A i \in DOMAIN a.got : a.got[i] = q
    BY <2>3, <2>4, <2>5 DEF With
  <2> QED BY <2>3, <2>5, <2>6
<1>2. IntoPayload(a) = {q}
  BY <1>1 DEF IntoPayload
<1> HIDE DEF a
<1>3. CASE StoredWhole(x, w, p)
  <2>1. x.buffered[q].payload = {q}
    BY <1>2, <1>3 DEF StoredWhole, a
  <2>2. \A s \in DOMAIN x.buffered : x.buffered[s].payload = {s}
    BY <1>3, <2>1 DEF StoredWhole, OfOnePacket
  <2>3. \A s \in DOMAIN x.fragments : s \in DOMAIN w.fragments /\ x.fragments[s] = w.fragments[s]
    BY <1>3 DEF StoredWhole
  <2> QED BY <2>2, <2>3 DEF OfOnePacket
<1>4. CASE StoredFragment(x, w, p)
  <2>1. /\ x.buffered = w.buffered
        /\ DOMAIN x.fragments = DOMAIN w.fragments \cup {q}
        /\ x.fragments[q] = a
        /\ a.total \in K[q + 1] \ {1}
        /\ \A s \in DOMAIN w.fragments \ {q} : x.fragments[s] = w.fragments[s]
    BY <1>1, <1>4 DEF StoredFragment, a
  <2>2. \A s \in DOMAIN x.fragments : s = q \/ s \in DOMAIN w.fragments \ {q}
    BY <2>1
  <2>3. \A s \in DOMAIN x.fragments :
          /\ x.fragments[s].total \in K[s + 1] \ {1}
          /\ \A i \in DOMAIN x.fragments[s].got : x.fragments[s].got[i] = s
    BY <1>1, <2>1, <2>2 DEF OfOnePacket
  <2> QED BY <2>1, <2>3 DEF OfOnePacket
<1> QED BY <1>3, <1>4 DEF Stored

(* What a packet p of a cut in K adds to w has arrived with p. *)
LEMMA StoredArrived ==
  ASSUME NEW K, NEW w, WindowTyped(w), OfOnePacket(w, K), NEW p \in Packets,
         p.fragments \in K[p.sequence + 1],
         \A j, k \in K[p.sequence + 1] \ {1} : j = k,
         NEW x, Stored(x, w, p), NEW A, HasArrived(w, K, A),
         <<p.sequence, p.fragment, p.fragments>> \in A
  PROVE  HasArrived(x, K, A)
<1> DEFINE q == p.sequence
           a == WithFragment(w, p)
<1>1. ASSUME p.fragments # 1
      PROVE  a.total = p.fragments /\ \A i \in DOMAIN a.got : <<q, i, a.total>> \in A
  <2>1. q \in DOMAIN w.fragments => w.fragments[q] \in Assemblies
    BY DEF WindowTyped
  <2> DEFINE fresh == [total |-> p.fragments, got |-> << >>,
                       first_seen |-> 0, asked |-> RepairInterval]
             held == IF q \in DOMAIN w.fragments THEN w.fragments[q] ELSE fresh
             G == [i \in {p.fragment} |-> p.payload]
  <2>2. a = [held EXCEPT !.got = With(@, G)]
    BY DEF WithFragment
  <2>3. /\ DOMAIN held = {"total", "got", "first_seen", "asked"}
        /\ held.total = p.fragments
        /\ \A i \in DOMAIN held.got : <<q, i, held.total>> \in A
    BY <1>1, <2>1 DEF Assemblies, OfOnePacket, HasArrived
  <2>4. DOMAIN G = {p.fragment}
    OBVIOUS
  <2> HIDE DEF held, G, a
  <2>5. a.total = held.total /\ a.got = With(held.got, G)
    BY <2>2, <2>3
  <2>6. DOMAIN a.got = DOMAIN held.got \cup {p.fragment}
    BY <2>4, <2>5 DEF With
  <2> QED BY <2>3, <2>5, <2>6
<1> HIDE DEF a
<1>2. CASE StoredWhole(x, w, p)
  <2>1. p.fragments \in Nat /\ p.fragment \in 0..(p.fragments - 1)
    BY ReorderAssumption
  <2>2. \A i \in 0..(p.fragments - 1) : <<q, i, p.fragments>> \in A
    <3>1. CASE p.fragments = 1
      BY <2>1, <3>1
    <3>2. CASE p.fragments # 1
      <4>1. Missing(a) = {}
        BY <1>2, <3>2 DEF StoredWhole, IsComplete, a
      <4> QED BY <1>1, <3>2, <4>1 DEF Missing
    <3> QED BY <3>1, <3>2
  <2>3. WholeIn(q, K, A)
    BY <2>2 DEF WholeIn
  <2> QED BY <1>2, <2>3 DEF StoredWhole, HasArrived
<1>3. CASE StoredFragment(x, w, p)
  <2>1. /\ p.fragments # 1 /\ x.buffered = w.buffered /\ x.fragments[q] = a
        /\ \A s \in DOMAIN x.fragments : s = q \/ s \in DOMAIN w.fragments \ {q}
        /\ \A s \in DOMAIN w.fragments \ {q} : x.fragments[s] = w.fragments[s]
    BY <1>3 DEF StoredFragment, a
  <2> QED BY <1>1, <2>1 DEF HasArrived
<1> QED BY <1>2, <1>3 DEF Stored

(* A packet just stored is young, and the others are as old as they were. *)
LEMMA StoredAges ==
  ASSUME NEW w, Sound(w), NEW p \in Packets, NEW x, Stored(x, w, p), NEW t \in Pending(x)
  PROVE  \/ PendingAge(x, t) = 0
         \/ t \in Pending(w) /\ PendingAge(x, t) = PendingAge(w, t)
<1>1. CASE StoredWhole(x, w, p)
  <2>1. CASE t = p.sequence
    BY <1>1, <2>1 DEF StoredWhole, PendingAge
  <2>2. CASE t # p.sequence
    BY <1>1, <2>2 DEF StoredWhole, PendingAge, Pending
  <2> QED BY <2>1, <2>2
<1>2. CASE StoredFragment(x, w, p)
  <2>1. CASE t = p.sequence
    <3>1. CASE t \in DOMAIN w.buffered
      BY <1>2, <3>1 DEF StoredFragment, PendingAge, Pending
    <3>2. CASE t \notin DOMAIN w.buffered
      BY <1>2, <2>1, <3>2 DEF StoredFragment, PendingAge, Pending
    <3> QED BY <3>1, <3>2
  <2>2. CASE t # p.sequence
    BY <1>2, <2>2 DEF StoredFragment, PendingAge, Pending
  <2> QED BY <2>1, <2>2
<1> QED BY <1>1, <1>2 DEF Stored

(* What was held still is, and so is p. *)
LEMMA StoredHolds ==
  ASSUME NEW w, WindowTyped(w), NEW p \in Packets, NEW x, Stored(x, w, p)
  PROVE  /\ \A n, i, k : Holds(w, n, i, k) => Holds(x, n, i, k)
         /\ Holds(x, p.sequence, p.fragment, p.fragments)
<1> DEFINE q == p.sequence
           a == WithFragment(w, p)
<1>1. /\ p.fragment \in DOMAIN a.got
      /\ q \in DOMAIN w.fragments => DOMAIN w.fragments[q].got \subseteq DOMAIN a.got
  <2>1. q \in DOMAIN w.fragments => w.fragments[q] \in Assemblies
    BY DEF WindowTyped
  <2> DEFINE fresh == [total |-> p.fragments, got |-> << >>,
                       first_seen |-> 0, asked |-> RepairInterval]
             held == IF q \in DOMAIN w.fragments THEN w.fragments[q] ELSE fresh
             G == [i \in {p.fragment} |-> p.payload]
  <2>2. a = [held EXCEPT !.got = With(@, G)]
    BY DEF WithFragment
  <2>3. DOMAIN held = {"total", "got", "first_seen", "asked"}
    BY <2>1 DEF Assemblies
  <2>4. DOMAIN G = {p.fragment}
    OBVIOUS
  <2>5. q \in DOMAIN w.fragments => held = w.fragments[q]
    OBVIOUS
  <2> HIDE DEF held, G, a
  <2>6. DOMAIN a.got = DOMAIN held.got \cup {p.fragment}
    BY <2>2, <2>3, <2>4 DEF With
  <2> QED BY <2>5, <2>6
<1> HIDE DEF a
<1>2. CASE StoredWhole(x, w, p)
  <2>1. /\ DOMAIN x.buffered = DOMAIN w.buffered \cup {q}
        /\ \A s \in DOMAIN w.fragments : s = q \/ (s \in DOMAIN x.fragments /\ x.fragments[s] = w.fragments[s])
    BY <1>2 DEF StoredWhole
  <2> QED BY <2>1 DEF Holds
<1>3. CASE StoredFragment(x, w, p)
  <2>1. /\ p.fragments # 1 /\ x.buffered = w.buffered
        /\ DOMAIN x.fragments = DOMAIN w.fragments \cup {q} /\ x.fragments[q] = a
        /\ \A s \in DOMAIN w.fragments \ {q} : x.fragments[s] = w.fragments[s]
    BY <1>3 DEF StoredFragment, a
  <2>2. \A s \in DOMAIN w.fragments :
          s \in DOMAIN x.fragments /\ DOMAIN w.fragments[s].got \subseteq DOMAIN x.fragments[s].got
    BY <1>1, <2>1
  <2>3. \A n, i, k : Holds(w, n, i, k) => Holds(x, n, i, k)
    BY <2>1, <2>2 DEF Holds
  <2> QED BY <1>1, <2>1, <2>3 DEF Holds
<1> QED BY <1>2, <1>3 DEF Stored

(* What is carried over keeps its packet, its age and its fragments, and   *)
(* what is forwarded is of one packet.                                     *)
LEMMA CarriesPackets ==
  ASSUME NEW K, NEW b, NEW x, Sound(x), OfOnePacket(x, K), NEW v, Carries(v, x, b)
  PROVE  /\ OfOnePacket(v, K)
         /\ \A i \in 1..Len(v.out) : v.out[i].payload = {v.out[i].sequence}
         /\ \A t \in Pending(v) : t \in Pending(x) /\ PendingAge(v, t) = PendingAge(x, t)
         /\ \A n, i, k : n >= v.next /\ Holds(x, n, i, k) => Holds(v, n, i, k)
         /\ Brings(v, x, K, {})
<1>1. /\ \A s \in DOMAIN v.buffered : s \in DOMAIN x.buffered /\ v.buffered[s] = x.buffered[s]
      /\ \A s \in DOMAIN v.fragments :
           /\ s \in DOMAIN x.fragments /\ v.fragments[s].total = x.fragments[s].total
           /\ v.fragments[s].got = x.fragments[s].got
           /\ v.fragments[s].first_seen = x.fragments[s].first_seen
      /\ \A s \in DOMAIN x.buffered : s >= v.next => s \in DOMAIN v.buffered
      /\ \A s \in DOMAIN x.fragments : s >= v.next => s \in DOMAIN v.fragments
  BY DEF Carries, SameAssembly
<1>2. OfOnePacket(v, K)
  BY <1>1 DEF OfOnePacket
<1>3. \A i \in 1..Len(v.out) : v.out[i].payload = {v.out[i].sequence}
  BY DEF Carries, OfOnePacket
<1>4. DOMAIN x.buffered \cap DOMAIN x.fragments = {}
  BY DEF Sound
<1>5. \A t \in Pending(v) : t \in Pending(x) /\ PendingAge(v, t) = PendingAge(x, t)
  BY <1>1, <1>4 DEF Pending, PendingAge
<1>6. \A n, i, k : n >= v.next /\ Holds(x, n, i, k) => Holds(v, n, i, k)
  BY <1>1 DEF Holds
<1>7. Brings(v, x, K, {})
  <2> SUFFICES ASSUME NEW A, HasArrived(x, K, A)
               PROVE  HasArrived(v, K, A) /\ OutArrived(v, K, A)
    BY DEF Brings
  <2>1. HasArrived(v, K, A)
    BY <1>1 DEF HasArrived
  <2>2. OutArrived(v, K, A)
    BY DEF Carries, HasArrived, OutArrived
  <2> QED BY <2>1, <2>2
<1> QED BY <1>2, <1>3, <1>5, <1>6, <1>7

(* A turn may leave the window as it is. *)
LEMMA TurnItself ==
  ASSUME NEW K, NEW b \in Nat, NEW w, Sound(w), w.wrapped = FALSE, w.out = << >>,
         Within(w, b), OfOnePacket(w, K)
  PROVE  Turn(w, w, K, b) /\ \A E : Brings(w, w, K, E)
<1>1. Ordered(w, w) /\ Patient(w, w)
  BY TurnBegins
<1>2. Carries(w, w, b)
  BY CarriesItself
<1>3. \A i \in 1..Len(w.out) : w.out[i].payload = {w.out[i].sequence}
  BY <1>2, CarriesPackets
<1>4. \A s \in w.skips : s \in w.skips \/ s >= w.next
  OBVIOUS
<1>5. \A E : Brings(w, w, K, E)
  BY DEF Brings, OutArrived
<1> QED BY <1>1, <1>3, <1>4, <1>5 DEF Turn

(* A turn that advances the window. *)
LEMMA AdvanceTurn ==
  ASSUME DOMAIN FecPayload = {}, NEW K, NEW b \in Nat, b < MaxMediaSequence,
         NEW w, Sound(w), WindowTyped(w), w.wrapped = FALSE, w.out = << >>,
         Within(w, b), OfOnePacket(w, K), NEW v \in Advance({w})
  PROVE  Turn(v, w, K, b) /\ Brings(v, w, K, {})
<1>1. Ordered(w, w) /\ Patient(w, w)
  BY TurnBegins
<1>2. Ordered(v, w) /\ Patient(v, w)
  BY <1>1, AdvanceInTurn
<1>3. Carries(v, w, b)
  BY CarriesItself, AdvanceCarries
<1>4. /\ OfOnePacket(v, K)
      /\ \A i \in 1..Len(v.out) : v.out[i].payload = {v.out[i].sequence}
      /\ \A t \in Pending(v) : t \in Pending(w) /\ PendingAge(v, t) = PendingAge(w, t)
      /\ \A n, i, k : n >= v.next /\ Holds(w, n, i, k) => Holds(v, n, i, k)
      /\ Brings(v, w, K, {})
  BY <1>3, CarriesPackets
<1>5. /\ v.wrapped = FALSE /\ v.start = w.start /\ Within(v, b)
      /\ \A d \in v.delivered :
           d \in w.delivered \/ \E i \in 1..Len(v.out) : v.out[i].sequence = d
      /\ \A s \in v.skips : s \in w.skips \/ s >= w.next
  BY <1>3 DEF Carries
<1> QED BY <1>2, <1>4, <1>5 DEF Turn

(* A turn that stores a packet p of a cut in K, each packet being cut into *)
(* one number of fragments at most: afterwards p is held or behind next.   *)
LEMMA StoreMediaTurn ==
  ASSUME DOMAIN FecPayload = {}, NEW K, NEW b \in Nat, b < MaxMediaSequence,
         NEW w, AtRest(w), WindowTyped(w), w.wrapped = FALSE, w.out = << >>,
         Within(w, b), OfOnePacket(w, K),
         NEW p \in Packets, p.sequence >= w.next, p.sequence <= b,
         p.payload = p.sequence, p.fragments \in K[p.sequence + 1],
         \A j, k \in K[p.sequence + 1] \ {1} : j = k,
         NEW v \in StoreMedia(w, p)
  PROVE  /\ Turn(v, w, K, b)
         /\ Brings(v, w, K, {<<p.sequence, p.fragment, p.fragments>>})
         /\ p.sequence >= v.next => Holds(v, p.sequence, p.fragment, p.fragments)
<1>0. Sound(w)
  BY DEF AtRest
<1>1. CASE AlreadyHeld(w, p)
  <2>1. v = w
    BY <1>1 DEF StoreMedia
  <2>2. Holds(w, p.sequence, p.fragment, p.fragments)
    <3>1. CASE p.sequence \in w.seen \cup DOMAIN w.buffered
      BY <1>0, <3>1 DEF Holds, Sound
    <3>2. CASE p.sequence \notin w.seen \cup DOMAIN w.buffered
      <4>1. /\ p.fragments # 1 /\ p.sequence \in DOMAIN w.fragments
            /\ \/ w.fragments[p.sequence].total # p.fragments
               \/ p.fragment \in DOMAIN w.fragments[p.sequence].got
        BY <1>1, <3>2 DEF AlreadyHeld
      <4>2. w.fragments[p.sequence].total = p.fragments
        BY <4>1 DEF OfOnePacket
      <4> QED BY <4>1, <4>2 DEF Holds
    <3> QED BY <3>1, <3>2
  <2> QED BY <1>0, <2>1, <2>2, TurnItself
<1>2. CASE ~AlreadyHeld(w, p)
  <2>1. PICK x : Stored(x, w, p) /\ Carries(v, x, b)
    BY <1>2, StoreMediaCarries
  <2>2. Ordered(v, w) /\ Patient(v, w)
    <3>1. Ordered(w, w) /\ Patient(w, w)
      BY <1>0, TurnBegins
    <3> QED BY <1>0, <3>1, StoreMediaInTurn
  <2>3. OfOnePacket(x, K) /\ Sound(x)
    BY <2>1, StoredOfOnePacket DEF Stored
  <2>4. /\ OfOnePacket(v, K)
        /\ \A i \in 1..Len(v.out) : v.out[i].payload = {v.out[i].sequence}
        /\ \A t \in Pending(v) : t \in Pending(x) /\ PendingAge(v, t) = PendingAge(x, t)
        /\ \A n, i, k : n >= v.next /\ Holds(x, n, i, k) => Holds(v, n, i, k)
        /\ Brings(v, x, K, {})
    BY <2>1, <2>3, CarriesPackets
  <2>5. /\ x.next = w.next /\ x.start = w.start /\ x.delivered = w.delivered
        /\ x.skips = w.skips
    BY <2>1 DEF Stored
  <2>6. /\ v.wrapped = FALSE /\ v.start = w.start /\ Within(v, b)
        /\ \A d \in v.delivered :
             d \in w.delivered \/ \E i \in 1..Len(v.out) : v.out[i].sequence = d
        /\ \A s \in v.skips : s \in w.skips \/ s >= w.next
    BY <2>1, <2>5 DEF Carries
  <2>7. \A t \in Pending(x) : \/ PendingAge(x, t) = 0
                              \/ t \in Pending(w) /\ PendingAge(x, t) = PendingAge(w, t)
    BY <1>0, <2>1, StoredAges
  <2>8. /\ \A n, i, k : Holds(w, n, i, k) => Holds(x, n, i, k)
        /\ Holds(x, p.sequence, p.fragment, p.fragments)
    BY <2>1, StoredHolds
  <2>9. \A t \in Pending(v) : \/ PendingAge(v, t) = 0
                              \/ t \in Pending(w) /\ PendingAge(v, t) = PendingAge(w, t)
    BY <2>4, <2>7
  <2>10. /\ \A n, i, k : n >= v.next /\ Holds(w, n, i, k) => Holds(v, n, i, k)
         /\ p.sequence >= v.next => Holds(v, p.sequence, p.fragment, p.fragments)
    BY <2>4, <2>8
  <2>11. Turn(v, w, K, b)
    BY <2>2, <2>4, <2>6, <2>9, <2>10 DEF Turn
  <2>12. Brings(v, w, K, {<<p.sequence, p.fragment, p.fragments>>})
    <3> SUFFICES ASSUME NEW A, <<p.sequence, p.fragment, p.fragments>> \in A,
                        HasArrived(w, K, A)
                 PROVE  HasArrived(v, K, A) /\ OutArrived(v, K, A)
      BY DEF Brings
    <3>1. HasArrived(x, K, A)
      BY <2>1, StoredArrived
    <3> QED BY <2>4, <3>1 DEF Brings
  <2> QED BY <2>10, <2>11, <2>12
<1> QED BY <1>1, <1>2

(* Time changes nothing but ages. *)
LEMMA AgedHolds ==
  ASSUME NEW K, NEW w, Sound(w), WindowTyped(w), OfOnePacket(w, K)
  PROVE  /\ OfOnePacket(Aged(w), K)
         /\ \A n, i, k : Holds(w, n, i, k) => Holds(Aged(w), n, i, k)
         /\ \A t \in Pending(Aged(w)) :
              t \in Pending(w) /\ PendingAge(Aged(w), t) <= PendingAge(w, t) + 1
         /\ Aged(w).wrapped = w.wrapped /\ Aged(w).start = w.start
         /\ Aged(w).delivered = w.delivered /\ Aged(w).skips = w.skips /\ Aged(w).out = w.out
         /\ Aged(w).requests = w.requests
         /\ \A A : HasArrived(w, K, A) => HasArrived(Aged(w), K, A)
<1> DEFINE v == Aged(w)
<1>1. /\ v.buffered = [s \in DOMAIN w.buffered |-> OlderPacket(w.buffered[s])]
      /\ v.fragments = [s \in DOMAIN w.fragments |-> OlderAssembly(w.fragments[s])]
      /\ v.wrapped = w.wrapped /\ v.start = w.start
      /\ v.delivered = w.delivered /\ v.skips = w.skips /\ v.out = w.out
      /\ v.requests = w.requests
  BY DEF Aged, Sound, WindowFields
<1> HIDE DEF v
<1>2. ASSUME NEW age \in Nat, NEW bound PROVE Older(age, bound) <= age + 1
  BY DEF Older
<1>3. ASSUME NEW s \in DOMAIN w.buffered
      PROVE  /\ v.buffered[s].payload = w.buffered[s].payload
             /\ v.buffered[s].age <= w.buffered[s].age + 1
  <2>1. w.buffered[s].age \in Nat
    BY WindowAssumption DEF WindowTyped
  <2>2. v.buffered[s].age = Older(w.buffered[s].age, AgeBound)
    BY <1>1 DEF OlderPacket
  <2> QED BY <1>1, <1>2, <2>1, <2>2 DEF OlderPacket
<1>4. ASSUME NEW s \in DOMAIN w.fragments
      PROVE  /\ v.fragments[s].total = w.fragments[s].total
             /\ v.fragments[s].got = w.fragments[s].got
             /\ v.fragments[s].first_seen <= w.fragments[s].first_seen + 1
  <2>1. w.fragments[s] \in Assemblies /\ w.fragments[s].first_seen \in Nat
    BY WindowAssumption DEF WindowTyped, Assemblies
  <2>2. /\ v.fragments[s].total = w.fragments[s].total
        /\ v.fragments[s].got = w.fragments[s].got
        /\ v.fragments[s].first_seen = Older(w.fragments[s].first_seen, AgeBound)
    BY <1>1, <2>1 DEF OlderAssembly, Assemblies
  <2> QED BY <1>2, <2>1, <2>2
<1>5. DOMAIN v.buffered = DOMAIN w.buffered /\ DOMAIN v.fragments = DOMAIN w.fragments
  BY <1>1
<1>6. OfOnePacket(v, K)
  BY <1>3, <1>4, <1>5 DEF OfOnePacket
<1>7. \A n, i, k : Holds(w, n, i, k) => Holds(v, n, i, k)
  BY <1>4, <1>5 DEF Holds
<1>8. \A t \in Pending(v) : t \in Pending(w) /\ PendingAge(v, t) <= PendingAge(w, t) + 1
  BY <1>3, <1>4, <1>5 DEF Pending, PendingAge
<1>9. \A A : HasArrived(w, K, A) => HasArrived(v, K, A)
  BY <1>4, <1>5 DEF HasArrived
<1> QED BY <1>1, <1>6, <1>7, <1>8, <1>9 DEF v

-----------------------------------------------------------------------------
(* The streams that the theorems are about. *)

(* The theorems about the stream are about the first lap of sequences, and *)
(* about networks in which no frame is overtaken by RestartBackwardGap     *)
(* packets: one that is looks like the first of another stream.            *)
Bounded ==
  /\ Len(cuts) <= MaxMediaSequence
  /\ \A f \in network : Len(cuts) - Parsed(f.datagram).payload < RestartBackwardGap

-----------------------------------------------------------------------------
(* Frames. *)

(* Packets numbered within the first lap are their own sequence. *)
LEMMA FirstLap ==
  ASSUME NEW n \in MediaSequences
  PROVE  SequenceOf(n) = n
<1>1. n \in Nat /\ n <= MaxMediaSequence /\ MaxMediaSequence \in Nat
  BY WindowAssumption DEF MediaSequences
<1> QED BY <1>1 DEF SequenceOf

(* What the server reads from a fragment of packet n. *)
Media(n, i, k) == [sequence |-> n, fragment |-> i, fragments |-> k, payload |-> n]

(* The header and the payload of a frame survive the wire. *)
LEMMA FrameSurvives ==
  ASSUME NEW n \in MediaSequences, NEW k \in 1..MaxFragments, NEW i \in 0..(k - 1)
  PROVE  Parsed(FrameOf(n, i, k)) = Media(n, i, k)
<1> DEFINE h == [sequence |-> n, fragment |-> i, fragments |-> k]
           S == MaxMediaSequence + 2
           F == MaxFragments + 1
           word == n + S * (i + F * k)
<1>1. /\ n \in 0..(S - 1) /\ i \in 0..(F - 1) /\ k \in Nat
      /\ S \in Nat \ {0} /\ F \in Nat \ {0} /\ i < k
  BY WindowAssumption DEF MediaSequences
<1>2. W!Unpack(W!Pack(h)) =
        [sequence |-> word % S, fragment |-> (word \div S) % F, fragments |-> word \div (S * F)]
  BY DEF W!Unpack, W!Pack, W!FragmentValues
<1> HIDE DEF S, F
<1>3. word % S = n /\ (word \div S) % F = i /\ word \div (S * F) = k
  BY <1>1, ThreeDigits, ZenonT(30)
<1>4. W!Unpack(W!Pack(h)) = h
  BY <1>2, <1>3
<1>5. FrameOf(n, i, k) = [word |-> W!Pack(h), body |-> n]
  BY FirstLap DEF FrameOf, W!EncodePacket
<1>6. h.fragment < h.fragments
  BY <1>1
<1>7. W!DecodePacket(FrameOf(n, i, k)) = [header |-> h, body |-> n]
  <2> HIDE DEF h
  <2> QED BY <1>4, <1>5, <1>6 DEF W!DecodePacket
<1> QED BY <1>7 DEF Parsed, Media

(* A fragment of a packet that was sent. *)
Cut(n, i, k) == n \in 0..(Len(cuts) - 1) /\ k \in cuts[n + 1] /\ i \in 0..(k - 1)

(* Each packet was cut into one number of fragments, was sent whole, or    *)
(* both; the cache holds packets in a cut that was sent.                   *)
ClientInv ==
  /\ cuts \in Seq(SUBSET Nat)
  /\ Len(cuts) <= Len(Strategies)
  /\ \A n \in 0..(Len(cuts) - 1) :
       \E k \in {1} \cup FragmentCounts : cuts[n + 1] \in {{1}, {k}, {1, k}}
  /\ \A s \in DOMAIN cached.held :
       /\ s \in 0..(Len(cuts) - 1)
       /\ DOMAIN cached.held[s] = {"fragments", "age"}
       /\ cached.held[s].fragments \in cuts[s + 1]

(* What travels: frames of packets that were sent, not for too long. *)
NetworkInv ==
  /\ \A f \in network :
       /\ \E n, i, k : Cut(n, i, k) /\ f.datagram = FrameOf(n, i, k)
       /\ f \in [path : Paths, datagram : {f.datagram}, repair : BOOLEAN, age : 0..Latency]
  /\ \A a \in asked : a \in [path : {a.path}, request : {a.request}, age : 0..RequestLatency]

(* The counts that a packet was cut into. *)
LEMMA CutCounts ==
  ASSUME ClientInv, NEW n \in 0..(Len(cuts) - 1)
  PROVE  /\ cuts[n + 1] \subseteq {1} \cup FragmentCounts /\ cuts[n + 1] # {}
         /\ cuts[n + 1] \subseteq 1..MaxFragments
         /\ \A j, k \in cuts[n + 1] \ {1} : j = k
         /\ n \in 0..(Len(Strategies) - 1)
<1>1. PICK k \in {1} \cup FragmentCounts : cuts[n + 1] \in {{1}, {k}, {1, k}}
  BY DEF ClientInv
<1>2. {1} \cup FragmentCounts \subseteq 1..MaxFragments
  BY StreamAssumption, WindowAssumption
<1>3. cuts[n + 1] \subseteq {1} \cup FragmentCounts /\ cuts[n + 1] # {}
  BY <1>1
<1>4. \A i, j \in cuts[n + 1] \ {1} : i = j
  BY <1>1
<1>5. n \in 0..(Len(Strategies) - 1)
  BY StreamAssumption DEF ClientInv
<1> QED BY <1>2, <1>3, <1>4, <1>5

(* So every frame in flight is a packet that the loop may receive. *)
LEMMA CutArrives ==
  ASSUME ClientInv, Len(cuts) <= MaxMediaSequence, NEW n, NEW i, NEW k, Cut(n, i, k)
  PROVE  /\ Parsed(FrameOf(n, i, k)) = Media(n, i, k)
         /\ Media(n, i, k) \in Packets
         /\ n \in Nat /\ k \in 1..MaxFragments /\ i \in 0..(k - 1)
<1>1. n \in 0..(Len(cuts) - 1) /\ k \in cuts[n + 1] /\ i \in 0..(k - 1)
  BY DEF Cut
<1>2. /\ k \in {1} \cup FragmentCounts /\ k \in 1..MaxFragments
      /\ n \in 0..(Len(Strategies) - 1)
  BY <1>1, CutCounts
<1>3. n \in MediaSequences
  BY <1>1, WindowAssumption DEF ClientInv, MediaSequences
<1>4. Parsed(FrameOf(n, i, k)) = Media(n, i, k)
  BY <1>1, <1>2, <1>3, FrameSurvives
<1>5. Parsed(FrameOf(n, i, k)) \in Packets
  BY <1>1, <1>2, NetworkAssumption
<1> QED BY <1>1, <1>2, <1>4, <1>5

(* The packet that a frame in flight carries. *)
PacketOf(f) == Parsed(f.datagram).payload

(* A frame in flight is a fragment of one packet, which the server reads. *)
LEMMA FlightOfPacket ==
  ASSUME ClientInv, NetworkInv, Len(cuts) <= MaxMediaSequence, NEW f \in network
  PROVE  \E n, i, k : /\ Cut(n, i, k) /\ f.datagram = FrameOf(n, i, k)
                      /\ Parsed(f.datagram) = Media(n, i, k)
                      /\ Media(n, i, k) \in Packets
                      /\ PacketOf(f) = n /\ n \in 0..(Len(cuts) - 1)
<1>1. PICK n, i, k : Cut(n, i, k) /\ f.datagram = FrameOf(n, i, k)
  BY DEF NetworkInv
<1>2. Parsed(f.datagram) = Media(n, i, k) /\ Media(n, i, k) \in Packets
  BY <1>1, CutArrives
<1>3. PacketOf(f) = n
  BY <1>2 DEF PacketOf, Media
<1> QED BY <1>1, <1>2, <1>3 DEF Cut

(* Only the body of a frame tells packets apart. *)
LEMMA FramesApart ==
  ASSUME NEW n, NEW i, NEW k, NEW m, NEW j, NEW l, FrameOf(n, i, k) = FrameOf(m, j, l)
  PROVE  n = m
<1>1. FrameOf(n, i, k).body = n /\ FrameOf(m, j, l).body = m
  BY DEF FrameOf, W!EncodePacket
<1> QED BY <1>1

-----------------------------------------------------------------------------
(* The client. *)

(* Dropping the front of the cache leaves entries of it. *)
LEMMA DropFrontKeeps ==
  ASSUME NEW q, NEW k
  PROVE  \A s \in DOMAIN Cache!DropFront(q, k).held :
           s \in DOMAIN q.held /\ Cache!DropFront(q, k).held[s] = q.held[s]
BY DEF Cache!DropFront, Cache!Without, Cache!Restrict

(* What is left after old packets have gone was there. *)
LEMMA HeldKeeps ==
  \A s \in DOMAIN Cache!Held.held : s \in DOMAIN cached.held /\ Cache!Held.held[s] = cached.held[s]
BY DropFrontKeeps DEF Cache!Held, Cache!Expired

(* A packet is stored: the others were there. *)
LEMMA InsertedKeeps ==
  ASSUME NEW s, NEW n
  PROVE  \A t \in DOMAIN Cache!Inserted(s, n).held :
           \/ t = s /\ Cache!Inserted(s, n).held[t] = [fragments |-> n, age |-> 0]
           \/ t \in DOMAIN cached.held /\ Cache!Inserted(s, n).held[t] = cached.held[t]
<1> DEFINE e == Cache!Expired(cached, Ttl)
           p == Cache!Put(e, s, [fragments |-> n, age |-> 0])
           v == Cache!Inserted(s, n)
<1>1. \A t \in DOMAIN e.held : t \in DOMAIN cached.held /\ e.held[t] = cached.held[t]
  BY DropFrontKeeps DEF Cache!Expired
<1>2. v = Cache!Limited(p, MaxPackets)
  BY DEF Cache!Inserted
<1> HIDE DEF e
<1>3. \A t \in DOMAIN p.held :
        \/ t = s /\ p.held[t] = [fragments |-> n, age |-> 0]
        \/ t \in DOMAIN e.held /\ p.held[t] = e.held[t]
  BY DEF Cache!Put
<1> HIDE DEF p, v
<1>4. \A t \in DOMAIN v.held : t \in DOMAIN p.held /\ v.held[t] = p.held[t]
  BY <1>2, DropFrontKeeps DEF Cache!Limited
<1> QED BY <1>1, <1>3, <1>4 DEF v

(* A packet is cut in one of the ways of ClientInv, and what goes out are  *)
(* fragments of those cuts.                                                *)
Emits(K, F) ==
  /\ Emit(K, F)
  /\ \E k \in {1} \cup FragmentCounts : K \in {{1}, {k}, {1, k}}
  /\ \A f \in F : \E c \in Paths : \E i, k :
       k \in K /\ i \in 0..(k - 1) /\ f = Flight(c, Len(cuts), i, k, FALSE)

(* Each way of sending a packet sends fragments of it in one cut or two. *)
LEMMA SendEmits ==
  ASSUME Send
  PROVE  Len(cuts) < Len(Strategies) /\ \E K, F : Emits(K, F)
<1>1. PICK C \in SUBSET Paths \ {{}}, strategy \in Strategies[Len(cuts) + 1] :
        SendWhole(C) \/ SendSplit(C, {}) \/ SendSplit(C, Paths \ C)
  BY DEF Send
<1>2. CASE SendWhole(C)
  <2> DEFINE F == {Flight(c, Len(cuts), 0, 1, FALSE) : c \in C}
  <2>1. Emit({1}, F)
    BY <1>2 DEF SendWhole
  <2>2. \A f \in F : \E c \in Paths : \E i, k :
          k \in {1} /\ i \in 0..(k - 1) /\ f = Flight(c, Len(cuts), i, k, FALSE)
    <3>1. 1 \in {1} /\ 0 \in 0..(1 - 1)
      OBVIOUS
    <3> QED BY <3>1
  <2> HIDE DEF F
  <2>3. Emits({1}, F)
    BY <2>1, <2>2 DEF Emits
  <2> QED BY <2>3 DEF Send
<1>3. ASSUME NEW rescue \in SUBSET Paths, SendSplit(C, rescue)
      PROVE  \E K, F : Emits(K, F)
  <2>1. PICK k \in FragmentCounts : \E route \in [0..(k - 1) -> C] :
          Emit({k} \cup {1 : c \in rescue},
               {Flight(route[i], Len(cuts), i, k, FALSE) : i \in 0..(k - 1)}
               \cup {Flight(c, Len(cuts), 0, 1, FALSE) : c \in rescue})
    BY <1>3 DEF SendSplit
  <2>2. PICK route \in [0..(k - 1) -> C] :
          Emit({k} \cup {1 : c \in rescue},
               {Flight(route[i], Len(cuts), i, k, FALSE) : i \in 0..(k - 1)}
               \cup {Flight(c, Len(cuts), 0, 1, FALSE) : c \in rescue})
    BY <2>1
  <2> DEFINE K == {k} \cup {1 : c \in rescue}
             G == {Flight(route[i], Len(cuts), i, k, FALSE) : i \in 0..(k - 1)}
             H == {Flight(c, Len(cuts), 0, 1, FALSE) : c \in rescue}
  <2>3. K \in {{1}, {k}, {1, k}} /\ k \in K /\ (rescue # {} => 1 \in K)
    OBVIOUS
  <2>4. \A f \in G : \E c \in Paths : \E i, j :
          j \in K /\ i \in 0..(j - 1) /\ f = Flight(c, Len(cuts), i, j, FALSE)
    <3>1. \A i \in 0..(k - 1) : route[i] \in Paths
      OBVIOUS
    <3> HIDE DEF K
    <3> QED BY <2>3, <3>1
  <2>5. \A f \in H : \E c \in Paths : \E i, j :
          j \in K /\ i \in 0..(j - 1) /\ f = Flight(c, Len(cuts), i, j, FALSE)
    <3>1. 0 \in 0..(1 - 1)
      OBVIOUS
    <3>2. \A c \in rescue : c \in Paths /\ 1 \in K
      BY <2>3
    <3> HIDE DEF K
    <3> QED BY <3>1, <3>2
  <2>6. Emit(K, G \cup H)
    BY <2>2
  <2> HIDE DEF K, G, H
  <2>7. \A f \in G \cup H : \E c \in Paths : \E i, j :
          j \in K /\ i \in 0..(j - 1) /\ f = Flight(c, Len(cuts), i, j, FALSE)
    BY <2>4, <2>5
  <2>8. \E j \in {1} \cup FragmentCounts : K \in {{1}, {j}, {1, j}}
    BY <2>3
  <2>9. Emits(K, G \cup H)
    BY <2>6, <2>7, <2>8 DEF Emits
  <2> QED BY <2>9
<1>4. {} \in SUBSET Paths /\ Paths \ C \in SUBSET Paths
  OBVIOUS
<1>5. Len(cuts) < Len(Strategies)
  BY DEF Send
<1> QED BY <1>1, <1>2, <1>3, <1>4, <1>5

(* The cuts of the earlier packets stay. *)
LEMMA EmitAppends ==
  ASSUME ClientInv, NEW K, NEW F, Emits(K, F)
  PROVE  /\ cuts' \in Seq(SUBSET Nat) /\ Len(cuts') = Len(cuts) + 1 /\ Len(cuts) \in Nat
         /\ \A n \in 0..(Len(cuts) - 1) : cuts'[n + 1] = cuts[n + 1]
         /\ cuts'[Len(cuts) + 1] = K
         /\ K \in SUBSET Nat /\ K # {}
<1>1. K \in SUBSET Nat /\ K # {}
  <2>1. PICK k \in {1} \cup FragmentCounts : K \in {{1}, {k}, {1, k}}
    BY DEF Emits
  <2>2. {1} \cup FragmentCounts \subseteq Nat
    BY StreamAssumption, WindowAssumption
  <2> QED BY <2>1, <2>2
<1>2. cuts' = Append(cuts, K) /\ cuts \in Seq(SUBSET Nat)
  BY DEF Emits, Emit, ClientInv
<1> QED BY <1>1, <1>2

(* The answer to a repair request is of a packet in the cache. *)
LEMMA RepairsHeld ==
  ASSUME ClientInv, Len(cuts) <= MaxMediaSequence, NEW a, RepairTask(a),
         NEW f \in network' \ network
  PROVE  \E c \in Paths : \E n, i, k : Cut(n, i, k) /\ f = Flight(c, n, i, k, TRUE)
<1> DEFINE r == W!DecodeRepairRequest(a.request)
           s == r.sequence
           n == LatestOf(s)
           k == Cache!Held.held[s].fragments
<1>1. Cache!Answers(r) /\ f \in Repairs(n, k, Cache!Fragments(r))
  <2>1. ~Cache!Answers(r) => network' = network
    BY SMT DEF RepairTask
  <2>2. Cache!Answers(r) => network' = network \cup Repairs(n, k, Cache!Fragments(r))
    BY SMT DEF RepairTask
  <2> HIDE DEF r, s, n, k
  <2> QED BY <2>1, <2>2
<1>2. PICK c \in Paths, i \in Cache!Fragments(r) : f = Flight(c, n, i, k, TRUE)
  <2> HIDE DEF r, s, n, k
  <2> QED BY <1>1 DEF Repairs, Flight
<1>3. /\ s \in 0..(Len(cuts) - 1) /\ k \in cuts[s + 1]
  <2>1. s \in DOMAIN Cache!Held.held
    BY <1>1 DEF Cache!Answers
  <2> QED BY <2>1, HeldKeeps DEF ClientInv
<1>4. k \in Nat
  <2> HIDE DEF s, k
  <2>1. cuts[s + 1] \subseteq 1..MaxFragments
    BY <1>3, CutCounts
  <2> QED BY <1>3, <2>1
<1>5. i \in 0..(k - 1)
  <2>1. Cache!Fragments(r) = IF k = 1 THEN {0} ELSE r.missing \cap (0..(k - 1))
    BY DEF Cache!Fragments
  <2> HIDE DEF k, r, s
  <2> QED BY <1>2, <2>1
<1>6. n = s
  <2>1. Len(cuts) \in Nat /\ MaxMediaSequence \in Nat
    BY WindowAssumption DEF ClientInv
  <2>2. \A m \in 0..(Len(cuts) - 1) : SequenceOf(m) = m
    BY <2>1, FirstLap DEF MediaSequences
  <2> DEFINE N == {m \in 0..(Len(cuts) - 1) : SequenceOf(m) = s}
  <2>3. N = {s}
    BY <1>3, <2>2
  <2>4. n = Max(N)
    BY DEF LatestOf
  <2> HIDE DEF N, n, s
  <2>5. s \in Int
    BY <1>3
  <2> QED BY <2>3, <2>4, <2>5 DEF Max
<1>7. Cut(n, i, k)
  BY <1>3, <1>5, <1>6 DEF Cut
<1> QED BY <1>2, <1>7

(* Of the steps of the stream only these change what the client keeps. *)
LEMMA NextClient ==
  ASSUME ClientInv, Len(cuts') <= MaxMediaSequence, [StreamNext]_streamVars
  PROVE  ClientInv'
<1>1. ASSUME NEW K, NEW F, Emits(K, F), Len(cuts) < Len(Strategies)
      PROVE  ClientInv'
  <2> DEFINE p == Len(cuts)
             q == Cache!Inserted(SequenceOf(p), Min(K))
  <2>1. /\ cuts' \in Seq(SUBSET Nat) /\ Len(cuts') = p + 1 /\ p \in Nat
        /\ \A n \in 0..(p - 1) : cuts'[n + 1] = cuts[n + 1]
        /\ cuts'[p + 1] = K
        /\ K \in SUBSET Nat /\ K # {}
    BY <1>1, EmitAppends
  <2>2. cached' = q
    BY <1>1 DEF Emits, Emit
  <2>3. SequenceOf(p) = p
    BY <2>1, WindowAssumption, FirstLap DEF MediaSequences
  <2>4. Min(K) \in K
    BY <2>1, MinOfNaturals
  <2>5. \A t \in DOMAIN q.held :
          \/ t = p /\ q.held[t] = [fragments |-> Min(K), age |-> 0]
          \/ t \in DOMAIN cached.held /\ q.held[t] = cached.held[t]
    BY <2>3, InsertedKeeps
  <2> HIDE DEF q
  <2>6. ASSUME NEW n \in 0..p
        PROVE  \E k \in {1} \cup FragmentCounts : cuts'[n + 1] \in {{1}, {k}, {1, k}}
    <3>1. CASE n = p
      BY <1>1, <2>1, <3>1 DEF Emits
    <3>2. CASE n # p
      <4>1. n \in 0..(p - 1)
        BY <2>1, <3>2
      <4> QED BY <2>1, <4>1 DEF ClientInv
    <3> QED BY <3>1, <3>2
  <2>7. ASSUME NEW t \in DOMAIN q.held
        PROVE  /\ t \in 0..p
               /\ DOMAIN q.held[t] = {"fragments", "age"}
               /\ q.held[t].fragments \in cuts'[t + 1]
    <3>1. CASE t = p /\ q.held[t] = [fragments |-> Min(K), age |-> 0]
      BY <2>1, <2>4, <3>1
    <3>2. CASE t \in DOMAIN cached.held /\ q.held[t] = cached.held[t]
      <4>1. t \in 0..(p - 1)
        BY <3>2 DEF ClientInv
      <4> QED BY <2>1, <3>2, <4>1, SMTT(20) DEF ClientInv
    <3> QED BY <2>5, <3>1, <3>2
  <2>8. p + 1 <= Len(Strategies)
    BY <1>1, <2>1, StreamAssumption
  <2>9. 0..(Len(cuts') - 1) = 0..p
    BY <2>1
  <2> HIDE DEF p
  <2> QED BY <2>1, <2>2, <2>6, <2>7, <2>8, <2>9 DEF ClientInv
<1>2. ASSUME NEW a, RepairTask(a) PROVE ClientInv'
  <2>1. cuts' = cuts /\ cached' = Cache!Held
    BY <1>2 DEF RepairTask
  <2> QED BY <2>1, HeldKeeps DEF ClientInv
<1>3. ASSUME ClockTick PROVE ClientInv'
  <2>1. cuts' = cuts /\ cached' = Cache!Older(cached, Ttl)
    BY <1>3 DEF ClockTick
  <2>2. /\ DOMAIN cached'.held = DOMAIN cached.held
        /\ \A s \in DOMAIN cached.held :
             cached'.held[s] = [cached.held[s] EXCEPT !.age = IF @ < Ttl THEN @ + 1 ELSE @]
    BY <2>1 DEF Cache!Older
  <2>3. \A s \in DOMAIN cached.held :
          /\ DOMAIN cached'.held[s] = {"fragments", "age"}
          /\ cached'.held[s].fragments = cached.held[s].fragments
    BY <2>2 DEF ClientInv
  <2> QED BY <2>1, <2>2, <2>3 DEF ClientInv
<1>4. ASSUME UNCHANGED <<cuts, cached>> PROVE ClientInv'
  BY <1>4 DEF ClientInv
<1> QED
  BY <1>1, <1>2, <1>3, <1>4, SendEmits
  DEF StreamNext, Lose, Deliver, ServerTimeout, streamVars, client

(* Packets stay as they were cut. *)
LEMMA CutsStay ==
  ASSUME ClientInv, [StreamNext]_streamVars
  PROVE  /\ \A n, i, k : Cut(n, i, k) => Cut(n, i, k)'
         /\ Len(cuts') >= Len(cuts)
         /\ \A n \in 0..(Len(cuts) - 1) : cuts'[n + 1] = cuts[n + 1]
<1>1. ASSUME NEW K, NEW F, Emits(K, F)
      PROVE  /\ Len(cuts') >= Len(cuts) /\ Len(cuts) \in Nat /\ Len(cuts') \in Nat
             /\ \A n \in 0..(Len(cuts) - 1) : cuts'[n + 1] = cuts[n + 1]
  BY <1>1, EmitAppends
<1>2. CASE UNCHANGED cuts
  BY <1>2 DEF Cut, ClientInv
<1>3. CASE \E K, F : Emits(K, F)
  <2>1. /\ Len(cuts') >= Len(cuts) /\ Len(cuts) \in Nat /\ Len(cuts') \in Nat
        /\ \A n \in 0..(Len(cuts) - 1) : cuts'[n + 1] = cuts[n + 1]
    BY <1>1, <1>3
  <2> QED BY <2>1 DEF Cut
<1> QED
  BY <1>2, <1>3, SendEmits
  DEF StreamNext, RepairTask, Lose, Deliver, ServerTimeout, ClockTick, streamVars, client

(* What is put on a path is a fragment of a packet that was sent. *)
LEMMA FlightTravels ==
  ASSUME NEW n, NEW i, NEW k, Cut(n, i, k)',
         NEW f, f \in [path : Paths, datagram : {FrameOf(n, i, k)}, repair : BOOLEAN, age : {0}]
  PROVE  /\ \E m, j, l : Cut(m, j, l)' /\ f.datagram = FrameOf(m, j, l)
         /\ f \in [path : Paths, datagram : {f.datagram}, repair : BOOLEAN, age : 0..Latency]
<1>1. 0 \in 0..Latency
  BY StreamAssumption
<1> QED BY <1>1

(* Only fragments of packets that were cut are ever in flight: a repair    *)
(* task answers from a cache that holds nothing else.                      *)
LEMMA NextNetwork ==
  ASSUME ClientInv, NetworkInv, Len(cuts') <= MaxMediaSequence, [StreamNext]_streamVars
  PROVE  NetworkInv'
<1> DEFINE Travels(f) ==
             /\ \E n, i, k : Cut(n, i, k)' /\ f.datagram = FrameOf(n, i, k)
             /\ f \in [path : Paths, datagram : {f.datagram}, repair : BOOLEAN, age : 0..Latency]
           Requests(a) ==
             a \in [path : {a.path}, request : {a.request}, age : 0..RequestLatency]
<1>1. \A f \in network : Travels(f)
  BY CutsStay DEF NetworkInv
<1>2. \A a \in asked : Requests(a)
  BY DEF NetworkInv
<1>3. ASSUME NEW K, NEW F, Emits(K, F)
      PROVE  (\A f \in network' : Travels(f)) /\ asked' = asked
  <2>1. /\ network' = network \cup F /\ asked' = asked
        /\ \A f \in F : \E c \in Paths : \E i, k :
             k \in K /\ i \in 0..(k - 1) /\ f = Flight(c, Len(cuts), i, k, FALSE)
    BY <1>3 DEF Emits, Emit
  <2>2. ASSUME NEW f \in F PROVE Travels(f)
    <3>1. PICK c, i, k :
            c \in Paths /\ k \in K /\ i \in 0..(k - 1) /\ f = Flight(c, Len(cuts), i, k, FALSE)
      BY <2>1
    <3>2. /\ Len(cuts') = Len(cuts) + 1 /\ Len(cuts) \in Nat
          /\ cuts'[Len(cuts) + 1] = K
      BY <1>3, EmitAppends
    <3>3. PICK n \in Nat : n = Len(cuts)
      BY <3>2
    <3>4. Cut(n, i, k)'
      BY <3>1, <3>2, <3>3 DEF Cut
    <3>5. f \in [path : Paths, datagram : {FrameOf(n, i, k)}, repair : BOOLEAN, age : {0}]
      BY <3>1, <3>3 DEF Flight
    <3> QED BY <3>4, <3>5, FlightTravels
  <2> HIDE DEF Travels
  <2> QED BY <1>1, <2>1, <2>2
<1>4. ASSUME NEW a, RepairTask(a)
      PROVE  (\A f \in network' : Travels(f)) /\ (\A b \in asked' : Requests(b))
  <2>1. asked' = asked \ {a} /\ cuts' = cuts
    BY <1>4 DEF RepairTask
  <2>2. ASSUME NEW f \in network' \ network PROVE Travels(f)
    <3>1. PICK c, n, i, k : c \in Paths /\ Cut(n, i, k) /\ f = Flight(c, n, i, k, TRUE)
      BY <1>4, <2>1, RepairsHeld
    <3>2. Cut(n, i, k)'
      BY <3>1, CutsStay
    <3>3. f \in [path : Paths, datagram : {FrameOf(n, i, k)}, repair : BOOLEAN, age : {0}]
      BY <3>1 DEF Flight
    <3> QED BY <3>2, <3>3, FlightTravels
  <2> HIDE DEF Travels
  <2> QED BY <1>1, <1>2, <2>1, <2>2
<1>5. ASSUME NEW f, Lose(f)
      PROVE  (\A g \in network' : Travels(g)) /\ asked' = asked
  <2>1. network' = network \ {f} /\ asked' = asked
    BY <1>5 DEF Lose
  <2> HIDE DEF Travels
  <2> QED BY <1>1, <2>1
<1>6. ASSUME Asked PROVE \A a \in asked' : Requests(a)
  <2>1. \A a \in asked' : a \in asked \/ \E c, r :
          a = [path |-> c, request |-> W!EncodeRepairRequest(r), age |-> 0]
    BY <1>6 DEF Asked
  <2>2. 0 \in 0..RequestLatency
    BY StreamAssumption
  <2> QED BY <1>2, <2>1, <2>2
<1>7. ASSUME NEW f, Deliver(f)
      PROVE  (\A g \in network' : Travels(g)) /\ (\A a \in asked' : Requests(a))
  <2>1. network' = network \ {f} /\ Asked
    BY <1>7 DEF Deliver
  <2> HIDE DEF Travels, Requests
  <2> QED BY <1>1, <1>6, <2>1
<1>8. ASSUME ServerTimeout
      PROVE  (\A g \in network' : Travels(g)) /\ (\A a \in asked' : Requests(a))
  <2>1. network' = network /\ Asked
    BY <1>8 DEF ServerTimeout
  <2> HIDE DEF Travels, Requests
  <2> QED BY <1>1, <1>6, <2>1
<1>9. ASSUME ClockTick
      PROVE  (\A g \in network' : Travels(g)) /\ (\A a \in asked' : Requests(a))
  <2>1. /\ \A f \in network : f.age < Latency
        /\ \A a \in asked : a.age < RequestLatency
        /\ network' = {[f EXCEPT !.age = @ + 1] : f \in network}
        /\ asked' = {[a EXCEPT !.age = @ + 1] : a \in asked}
    BY <1>9 DEF ClockTick
  <2>2. ASSUME NEW g \in network' PROVE Travels(g)
    <3>1. PICK f \in network : g = [f EXCEPT !.age = @ + 1]
      BY <2>1
    <3>2. /\ f \in [path : Paths, datagram : {f.datagram}, repair : BOOLEAN, age : 0..Latency]
          /\ \E n, i, k : Cut(n, i, k)' /\ f.datagram = FrameOf(n, i, k)
          /\ f.age < Latency
      BY <1>1, <2>1
    <3>3. g \in [path : Paths, datagram : {f.datagram}, repair : BOOLEAN, age : 0..Latency]
      BY <3>1, <3>2, StreamAssumption, SMTT(20)
    <3>4. g.datagram = f.datagram
      BY <3>1, <3>2
    <3> QED BY <3>2, <3>3, <3>4
  <2>3. ASSUME NEW b \in asked' PROVE Requests(b)
    <3>1. PICK a \in asked : b = [a EXCEPT !.age = @ + 1]
      BY <2>1
    <3>2. /\ a \in [path : {a.path}, request : {a.request}, age : 0..RequestLatency]
          /\ a.age < RequestLatency
      BY <1>2, <2>1
    <3> QED BY <3>1, <3>2, StreamAssumption
  <2> QED BY <2>2, <2>3
<1>10. CASE UNCHANGED <<cuts, network, asked>>
  BY <1>10 DEF NetworkInv, Cut
<1>11. CASE (\A f \in network' : Travels(f)) /\ (\A a \in asked' : Requests(a))
  BY <1>11 DEF NetworkInv
<1> HIDE DEF Travels, Requests
<1> QED
  BY <1>2, <1>3, <1>4, <1>5, <1>7, <1>8, <1>9, <1>10, <1>11, SendEmits
  DEF StreamNext, streamVars, client

-----------------------------------------------------------------------------
(* The turns of the loop. *)

(* Each step of the stream is a step of the loop, or leaves it alone. *)
LEMMA StreamRunsLoop ==
  ASSUME ClientInv, NetworkInv, Bounded, [StreamNext]_streamVars
  PROVE  [Next]_vars
<1>1. ASSUME NEW f \in network, Deliver(f) PROVE Next
  <2>1. Parsed(f.datagram) \in Packets
    <3>1. Len(cuts) <= MaxMediaSequence
      BY DEF Bounded
    <3> QED BY <3>1, FlightOfPacket
  <2>2. f.path \in Connections
    <3>1. f.path \in Paths
      BY DEF NetworkInv
    <3> QED BY <3>1, StreamAssumption
  <2>3. ReceivePacket(f.path, Parsed(f.datagram))
    BY <1>1 DEF Deliver
  <2> QED BY <2>1, <2>2, <2>3 DEF Next
<1>2. ServerTimeout \/ ClockTick => Next
  BY DEF ServerTimeout, ClockTick, Next
<1>3. ASSUME NEW f, Lose(f) PROVE UNCHANGED vars
  BY <1>3 DEF Lose
<1>4. ASSUME NEW a, RepairTask(a) PROVE UNCHANGED vars
  BY <1>4 DEF RepairTask
<1>5. ASSUME NEW K, NEW F, Emits(K, F) PROVE UNCHANGED vars
  BY <1>5 DEF Emits, Emit
<1> QED
  BY <1>1, <1>2, <1>3, <1>4, <1>5, SendEmits DEF StreamNext, streamVars

(* In a flow, the window is of the first lap and not ahead of the sender,  *)
(* and what waits in it is of one packet each.                             *)
FlowInv ==
  initialized = TRUE =>
    /\ window.wrapped = FALSE
    /\ Len(cuts) # 0 /\ Within(window, Len(cuts) - 1)
    /\ OfOnePacket(window, cuts)

(* Where the turn that starts a flow with packet n begins. *)
FlowStart(n) ==
  [Fresh(window) EXCEPT !.next = n, !.start = n,
                        !.delivered = {}, !.skips = {}, !.wrapped = FALSE]

(* A flow starts with an empty window at its first packet. *)
LEMMA FlowStarts ==
  ASSUME Inv, TypeInv, initialized = FALSE, NEW n \in MediaSequences
  PROVE  LET u == FlowStart(n) IN
         /\ AtRest(u) /\ WindowTyped(u)
         /\ u.next = n /\ u.start = n /\ u.delivered = {} /\ u.skips = {}
         /\ u.wrapped = FALSE /\ u.out = << >> /\ u.requests = {}
         /\ DOMAIN u.buffered = {} /\ DOMAIN u.fragments = {}
<1> DEFINE u == FlowStart(n)
<1>1. /\ AtRest(Fresh(window)) /\ Pending(Fresh(window)) = {}
      /\ DOMAIN Fresh(window).gap = {}
      /\ WindowTyped(Fresh(window)) /\ DOMAIN Fresh(window) = WindowFields
      /\ Fresh(window).out = << >> /\ Fresh(window).requests = {}
  BY FreshSound, FreshTyped DEF Inv, TypeInv, AtRest, Sound, Fresh, WindowFields
<1>2. /\ DOMAIN u = WindowFields
      /\ u.next = n
      /\ u.buffered = Fresh(window).buffered /\ u.fragments = Fresh(window).fragments
      /\ u.seen = Fresh(window).seen /\ u.gap = Fresh(window).gap
      /\ u.out = Fresh(window).out /\ u.requests = Fresh(window).requests
      /\ u.start = n /\ u.delivered = {} /\ u.skips = {} /\ u.wrapped = FALSE
  BY <1>1 DEF FlowStart, WindowFields
<1> HIDE DEF u
<1>3. DOMAIN u.buffered = {} /\ DOMAIN u.fragments = {}
  BY <1>1, <1>2 DEF Pending
<1>4. AtRest(u)
  BY <1>1, <1>2, <1>3 DEF AtRest, Sound
<1>5. WindowTyped(u)
  BY <1>1, <1>2 DEF WindowTyped
<1> QED BY <1>1, <1>2, <1>3, <1>4, <1>5 DEF u

(* Where the turns of a flow begin. *)
LEMMA FlowResumes ==
  ASSUME Inv, TypeInv, FlowInv, initialized = TRUE
  PROVE  LET u == Fresh(window) IN
         /\ AtRest(u) /\ WindowTyped(u) /\ OfOnePacket(u, cuts)
         /\ Within(u, Len(cuts) - 1) /\ Len(cuts) # 0
         /\ u.next = window.next /\ u.start = window.start
         /\ u.delivered = window.delivered /\ u.skips = window.skips
         /\ u.wrapped = FALSE /\ u.out = << >> /\ u.requests = {}
         /\ u.buffered = window.buffered /\ u.fragments = window.fragments
<1> DEFINE u == Fresh(window)
<1>1. /\ AtRest(u) /\ WindowTyped(u)
      /\ u.next = window.next /\ u.start = window.start
      /\ u.delivered = window.delivered /\ u.skips = window.skips
      /\ u.wrapped = window.wrapped /\ u.out = << >> /\ u.requests = {}
      /\ u.buffered = window.buffered /\ u.fragments = window.fragments
  BY FreshSound, FreshTyped DEF Inv, TypeInv, AtRest, Sound, Fresh, WindowFields
<1> HIDE DEF u
<1>2. OfOnePacket(u, cuts) /\ Within(u, Len(cuts) - 1) /\ Len(cuts) # 0 /\ u.wrapped = FALSE
  BY <1>1 DEF FlowInv, OfOnePacket, Within, Pending
<1> QED BY <1>1, <1>2 DEF u

(* What delivers fragment i of the cut of packet n into k does: it starts  *)
(* a flow or goes on with the one in progress.                             *)
Delivers(n, i, k) ==
  /\ initialized' = TRUE /\ waited' = 0
  /\ n >= window'.next => Holds(window', n, i, k)
  /\ \/ /\ initialized = FALSE
        /\ Turn(window', FlowStart(n), cuts, Len(cuts) - 1)
        /\ Brings(window', FlowStart(n), cuts, {<<n, i, k>>})
     \/ /\ initialized = TRUE
        /\ Turn(window', Fresh(window), cuts, Len(cuts) - 1)
        /\ Brings(window', Fresh(window), cuts, {<<n, i, k>>})

(* A frame that arrives is a turn of the loop, on the window of the flow   *)
(* in progress or, when none is, of the one that it starts.                *)
LEMMA DeliverTurns ==
  ASSUME DOMAIN FecPayload = {}, Inv, TypeInv, ClientInv, NetworkInv, FlowInv, Bounded,
         NEW f \in network, Deliver(f),
         NEW n, NEW i, NEW k, Cut(n, i, k), f.datagram = FrameOf(n, i, k)
  PROVE  Delivers(n, i, k)
<1> DEFINE p == Media(n, i, k)
           b == Len(cuts) - 1
<1>1. /\ Parsed(f.datagram) = p /\ p \in Packets
      /\ n \in Nat /\ k \in 1..MaxFragments /\ i \in 0..(k - 1)
  BY CutArrives DEF Bounded
<1>2. /\ p.sequence = n /\ p.payload = n /\ p.fragment = i /\ p.fragments = k
  BY DEF Media
<1>3. ReceivePacket(f.path, p)
  BY <1>1 DEF Deliver
<1>4. /\ Len(cuts) \in Nat /\ n \in 0..b /\ b \in Nat /\ b < MaxMediaSequence
      /\ n \in MediaSequences /\ k \in cuts[n + 1]
      /\ Len(cuts) - n < RestartBackwardGap
  BY <1>1, <1>2, WindowAssumption DEF Cut, Bounded, ClientInv, MediaSequences
<1>5. \A j, l \in cuts[n + 1] \ {1} : j = l
  BY <1>4, CutCounts
<1> HIDE DEF p, b
<1>0. /\ p.payload = p.sequence /\ p.sequence <= b /\ p.fragments \in cuts[p.sequence + 1]
      /\ \A j, l \in cuts[p.sequence + 1] \ {1} : j = l
  BY <1>2, <1>4, <1>5
<1>6. CASE StartFlow(f.path, p)
  <2>1. /\ initialized = FALSE /\ initialized' = TRUE /\ waited' = 0
        /\ window' \in StoreMedia(FlowStart(n), p)
    BY <1>2, <1>6 DEF StartFlow, Inv, FlowStart
  <2> DEFINE u == FlowStart(n)
  <2>2. /\ AtRest(u) /\ WindowTyped(u) /\ u.next = n
        /\ u.wrapped = FALSE /\ u.out = << >>
        /\ DOMAIN u.buffered = {} /\ DOMAIN u.fragments = {}
    BY <1>4, <2>1, FlowStarts
  <2> HIDE DEF u
  <2>3. Within(u, b) /\ OfOnePacket(u, cuts)
    BY <1>4, <2>2 DEF Within, OfOnePacket, Pending
  <2>4. window' \in StoreMedia(u, p)
    BY <2>1 DEF u
  <2>5. /\ Turn(window', u, cuts, b)
        /\ Brings(window', u, cuts, {<<p.sequence, p.fragment, p.fragments>>})
        /\ p.sequence >= window'.next => Holds(window', p.sequence, p.fragment, p.fragments)
    <3>1. p.sequence >= u.next
      BY <1>1, <1>2, <2>2
    <3> QED BY <1>0, <1>1, <1>4, <2>2, <2>3, <2>4, <3>1, StoreMediaTurn
  <2> QED BY <1>2, <2>1, <2>5 DEF Delivers, u, b
<1>7. ASSUME initialized = TRUE
      PROVE  /\ AtRest(Fresh(window)) /\ WindowTyped(Fresh(window))
             /\ OfOnePacket(Fresh(window), cuts) /\ Within(Fresh(window), b)
             /\ Fresh(window).next = window.next /\ window.next \in Nat
             /\ Fresh(window).wrapped = FALSE /\ Fresh(window).out = << >>
  <2>1. window.next \in Nat
    BY WindowAssumption DEF Inv, AtRest, Sound, MediaSequences
  <2> QED BY <1>7, <2>1, FlowResumes DEF b
<1>8. CASE ContinueFlow(f.path, p)
  <2> DEFINE u == Fresh(window)
  <2>1. /\ initialized = TRUE /\ initialized' = TRUE /\ waited' = 0
        /\ window' \in StoreMedia(u, p) /\ n >= window.next
    BY <1>2, <1>8 DEF ContinueFlow, Inv
  <2>2. /\ AtRest(u) /\ WindowTyped(u) /\ u.next = window.next
        /\ u.wrapped = FALSE /\ u.out = << >>
        /\ OfOnePacket(u, cuts) /\ Within(u, b)
    BY <1>7, <2>1
  <2> HIDE DEF u
  <2>3. /\ Turn(window', u, cuts, b)
        /\ Brings(window', u, cuts, {<<p.sequence, p.fragment, p.fragments>>})
        /\ p.sequence >= window'.next => Holds(window', p.sequence, p.fragment, p.fragments)
    <3>1. p.sequence >= u.next
      BY <1>2, <2>1, <2>2
    <3> QED BY <1>0, <1>1, <1>4, <2>1, <2>2, <3>1, StoreMediaTurn
  <2> QED BY <1>2, <2>1, <2>3 DEF Delivers, u, b
<1>9. CASE DropBehind(f.path, p)
  <2> DEFINE u == Fresh(window)
  <2>1. /\ initialized = TRUE /\ initialized' = TRUE /\ waited' = 0
        /\ window' = u /\ n < window.next
    BY <1>2, <1>9 DEF DropBehind, Inv
  <2>2. Turn(u, u, cuts, b) /\ Brings(u, u, cuts, {<<n, i, k>>}) /\ u.next = window.next
    BY <1>4, <1>7, <2>1, TurnItself DEF AtRest
  <2>3. ~(n >= window'.next)
    BY <1>4, <1>7, <2>1, <2>2
  <2> QED BY <2>1, <2>2, <2>3 DEF Delivers, b
<1>10. CASE ConfirmRestart(f.path, p)
  <2>1. initialized = TRUE /\ window.next - n >= RestartBackwardGap
    BY <1>2, <1>10 DEF ConfirmRestart, Confirms, FarBehind, Inv
  <2>2. window.next <= Len(cuts) /\ window.next \in Nat
    BY <1>4, <1>7, <2>1 DEF Within, b
  <2>3. Len(cuts) - n < RestartBackwardGap /\ RestartBackwardGap \in Nat
    BY <1>4, ReorderAssumption
  <2> QED BY <1>4, <2>1, <2>2, <2>3
<1> QED BY <1>3, <1>6, <1>8, <1>9, <1>10 DEF ReceivePacket

(* A turn of the timer in a flow that goes on. *)
LEMMA TimeoutTurns ==
  ASSUME DOMAIN FecPayload = {}, Inv, TypeInv, ClientInv, FlowInv, Bounded, TimeoutAdvance
  PROVE  /\ initialized = TRUE /\ initialized' = TRUE /\ waited' = 0
         /\ Turn(window', Fresh(window), cuts, Len(cuts) - 1)
         /\ Brings(window', Fresh(window), cuts, {})
<1>1. /\ initialized = TRUE /\ initialized' = TRUE /\ waited' = 0
      /\ window' \in Advance({Fresh(window)})
  BY DEF TimeoutAdvance, Inv
<1>2. Len(cuts) # 0 /\ Len(cuts) - 1 \in Nat /\ Len(cuts) - 1 < MaxMediaSequence
  BY <1>1, WindowAssumption DEF FlowInv, Bounded, ClientInv
<1>3. /\ AtRest(Fresh(window)) /\ WindowTyped(Fresh(window))
      /\ OfOnePacket(Fresh(window), cuts) /\ Within(Fresh(window), Len(cuts) - 1)
      /\ Fresh(window).wrapped = FALSE /\ Fresh(window).out = << >>
  BY <1>1, FlowResumes
<1> QED BY <1>1, <1>2, <1>3, AdvanceTurn DEF AtRest

(* Time passes in a flow. *)
LEMMA TickKeeps ==
  ASSUME Inv, TypeInv, FlowInv, initialized = TRUE, Tick
  PROVE  /\ initialized' = TRUE /\ waited' = waited + 1
         /\ window'.next = window.next /\ window'.start = window.start
         /\ window'.delivered = window.delivered /\ window'.skips = window.skips
         /\ window'.wrapped = FALSE /\ window'.out = << >> /\ window'.requests = {}
         /\ OfOnePacket(window', cuts) /\ Within(window', Len(cuts) - 1)
         /\ \A n, i, k : Holds(window, n, i, k) => Holds(window', n, i, k)
         /\ \A A : HasArrived(window, cuts, A) => HasArrived(window', cuts, A)
         /\ \A t \in Pending(window') :
              t \in Pending(window) /\ PendingAge(window', t) <= PendingAge(window, t) + 1
<1> DEFINE u == Fresh(window)
<1>1. initialized' = TRUE /\ waited' = waited + 1 /\ window' = Aged(u)
  BY DEF Tick
<1>2. /\ AtRest(u) /\ WindowTyped(u) /\ OfOnePacket(u, cuts)
      /\ Within(u, Len(cuts) - 1)
      /\ u.next = window.next /\ u.start = window.start
      /\ u.delivered = window.delivered /\ u.skips = window.skips
      /\ u.wrapped = FALSE /\ u.out = << >> /\ u.requests = {}
      /\ u.buffered = window.buffered /\ u.fragments = window.fragments
  BY FlowResumes
<1> HIDE DEF u
<1>3. Sound(u)
  BY <1>2 DEF AtRest
<1>4. Aged(u).next = u.next
  BY <1>3 DEF Aged, Sound, WindowFields
<1>5. \A n, i, k : Holds(window, n, i, k) => Holds(u, n, i, k)
  BY <1>2 DEF Holds
<1>6. /\ Pending(u) = Pending(window)
      /\ \A t : PendingAge(u, t) = PendingAge(window, t)
  BY <1>2 DEF Pending, PendingAge
<1>7. /\ OfOnePacket(window', cuts)
      /\ \A n, i, k : Holds(u, n, i, k) => Holds(window', n, i, k)
      /\ \A t \in Pending(window') :
           t \in Pending(u) /\ PendingAge(window', t) <= PendingAge(u, t) + 1
      /\ window'.wrapped = u.wrapped /\ window'.start = u.start
      /\ window'.delivered = u.delivered /\ window'.skips = u.skips /\ window'.out = u.out
      /\ window'.requests = u.requests
  BY <1>1, <1>2, <1>3, AgedHolds
<1>8. Within(window', Len(cuts) - 1)
  BY <1>1, <1>2, <1>4, <1>7 DEF Within
<1>9. \A A : HasArrived(window, cuts, A) => HasArrived(window', cuts, A)
  <2>1. \A A : HasArrived(window, cuts, A) => HasArrived(u, cuts, A)
    BY <1>2 DEF HasArrived
  <2>2. \A A : HasArrived(u, cuts, A) => HasArrived(Aged(u), cuts, A)
    BY <1>2, <1>3, AgedHolds
  <2> QED BY <1>1, <2>1, <2>2
<1> QED BY <1>1, <1>2, <1>4, <1>5, <1>6, <1>7, <1>8, <1>9

(* A flow that is in progress never gets ahead of the sender. *)
LEMMA NextFlow ==
  ASSUME DOMAIN FecPayload = {}, Inv, TypeInv, ClientInv, NetworkInv, FlowInv, Bounded,
         [StreamNext]_streamVars
  PROVE  FlowInv'
<1>1. ASSUME NEW K, NEW F, Emits(K, F), initialized = TRUE
      PROVE  FlowInv'
  <2>1. window' = window
    BY <1>1 DEF Emits, Emit, vars
  <2>2. /\ Len(cuts') = Len(cuts) + 1 /\ Len(cuts) \in Nat
        /\ \A n \in 0..(Len(cuts) - 1) : cuts'[n + 1] = cuts[n + 1]
    BY <1>1, EmitAppends
  <2>3. /\ window.wrapped = FALSE /\ Within(window, Len(cuts) - 1)
        /\ OfOnePacket(window, cuts)
    BY <1>1 DEF FlowInv
  <2>4. window.next \in Nat /\ Pending(window) \subseteq Nat
    BY WindowAssumption DEF Inv, AtRest, Sound, MediaSequences, Pending
  <2>5. Within(window, Len(cuts') - 1)
    BY <2>2, <2>3, <2>4 DEF Within
  <2>6. \A s \in DOMAIN window.fragments : cuts'[s + 1] = cuts[s + 1]
    <3>1. \A s \in DOMAIN window.fragments : s \in 0..(Len(cuts) - 1)
      BY <2>2, <2>3, <2>4 DEF Within, Pending
    <3> QED BY <2>2, <3>1
  <2>7. OfOnePacket(window, cuts')
    BY <2>3, <2>6 DEF OfOnePacket
  <2>8. Len(cuts') # 0
    BY <2>2
  <2> QED BY <2>1, <2>3, <2>5, <2>7, <2>8 DEF FlowInv
<1>2. ASSUME NEW f \in network, Deliver(f)
      PROVE  FlowInv'
  <2>1. cuts' = cuts
    BY <1>2 DEF Deliver, client
  <2>2. PICK n, i, k : Cut(n, i, k) /\ f.datagram = FrameOf(n, i, k)
    BY DEF NetworkInv
  <2>3. Delivers(n, i, k)
    BY <1>2, <2>2, DeliverTurns
  <2>4. window'.wrapped = FALSE /\ Within(window', Len(cuts) - 1) /\ OfOnePacket(window', cuts)
    BY <2>3 DEF Delivers, Turn
  <2>5. Len(cuts) # 0
    BY <2>2 DEF Cut
  <2> QED BY <2>1, <2>4, <2>5 DEF FlowInv
<1>3. ASSUME ServerTimeout
      PROVE  FlowInv'
  <2>1. cuts' = cuts
    BY <1>3 DEF ServerTimeout, client
  <2>2. CASE TimeoutAdvance
    <3>1. initialized = TRUE /\ Turn(window', Fresh(window), cuts, Len(cuts) - 1)
      BY <2>2, TimeoutTurns
    <3> QED BY <2>1, <3>1 DEF FlowInv, Turn
  <2>3. CASE TimeoutIdle
    BY <2>3 DEF TimeoutIdle, FlowInv
  <2>4. CASE TimeoutNoFlow
    BY <2>4 DEF TimeoutNoFlow, FlowInv
  <2> QED BY <1>3, <2>2, <2>3, <2>4 DEF ServerTimeout, Timeout
<1>4. ASSUME ClockTick, initialized = TRUE
      PROVE  FlowInv'
  <2>1. cuts' = cuts /\ Tick
    BY <1>4 DEF ClockTick
  <2>2. /\ window'.wrapped = FALSE /\ OfOnePacket(window', cuts)
        /\ Within(window', Len(cuts) - 1)
    BY <1>4, <2>1, TickKeeps
  <2> QED BY <1>4, <2>1, <2>2 DEF FlowInv
<1>5. CASE UNCHANGED <<initialized, window, cuts>>
  BY <1>5 DEF FlowInv
<1>6. CASE initialized # TRUE /\ initialized' = initialized
  BY <1>6 DEF FlowInv
<1> QED
  BY <1>1, <1>2, <1>3, <1>4, <1>5, <1>6, SendEmits
  DEF StreamNext, RepairTask, Lose, Emits, Emit, ClockTick, Tick, streamVars, vars, client

-----------------------------------------------------------------------------
(* What the target gets. *)

(* A tuple, of whatever elements. *)
IsSequence(s) == \E S : s \in Seq(S)

(* What the target got: whole packets before limit, each a packet of its   *)
(* own, in ascending order.                                                *)
Delivered(h, limit) ==
  /\ IsSequence(h)
  /\ \A i \in 1..Len(h) : \E m \in Nat : h[i] = {m} /\ m < limit
  /\ \A i, j \in 1..Len(h) : i < j => \A m \in h[i], n \in h[j] : m < n

(* What is below a limit is below a higher one. *)
LEMMA DeliveredBelow ==
  ASSUME NEW h, NEW low \in Nat, NEW high \in Nat, low <= high, Delivered(h, low)
  PROVE  Delivered(h, high)
<1>1. \A i \in 1..Len(h) : \E m \in Nat : h[i] = {m} /\ m < high
  BY DEF Delivered
<1> QED BY <1>1 DEF Delivered

(* The turn forwards the packets of out. *)
LEMMA DeliveredExtends ==
  ASSUME NEW h, NEW low \in Nat, NEW high \in Nat, low <= high, Delivered(h, low),
         NEW out, IsSequence(out), Ascending(out, low, high),
         NEW c, \A i \in 1..Len(out) : c[i] = {out[i].sequence},
         NEW g, IsSequence(g), Continues(g, h, Len(out), c)
  PROVE  /\ Delivered(g, high)
         /\ \A i \in 1..Len(h) : \E j \in 1..Len(g) : g[j] = h[i]
<1> DEFINE n == Len(out)
<1>2. n \in Nat
  BY DEF IsSequence
<1>5. \A i \in 1..n : c[i] = {out[i].sequence} /\ out[i].sequence \in low..(high - 1)
  BY <1>2 DEF Ascending
<1>6. \A i \in 1..n : \A j \in 1..(i - 1) : out[j].sequence < out[i].sequence
  BY DEF Ascending
<1> HIDE DEF n
<1>7. /\ Len(h) \in Nat /\ Len(g) = Len(h) + n
      /\ \A i \in 1..Len(h) : g[i] = h[i]
      /\ \A i \in 1..n : g[Len(h) + i] = c[i]
      /\ \A i \in 1..Len(g) : i \in 1..Len(h) \/ \E j \in 1..n : i = Len(h) + j
  BY DEF Continues, n
<1>8. \A i \in 1..Len(h) : \E m \in Nat : h[i] = {m} /\ m < low
  BY DEF Delivered
<1>9. ASSUME NEW i \in 1..Len(g)
      PROVE  \E m \in Nat : g[i] = {m} /\ m < high
  <2>1. CASE i \in 1..Len(h)
    <3>1. PICK m \in Nat : h[i] = {m} /\ m < low
      BY <1>8, <2>1
    <3>2. g[i] = {m} /\ m < high
      BY <1>7, <2>1, <3>1
    <3> QED BY <3>2
  <2>2. ASSUME NEW j \in 1..n, i = Len(h) + j PROVE \E m \in Nat : g[i] = {m} /\ m < high
    <3>1. out[j].sequence \in Nat /\ out[j].sequence < high
      BY <1>5
    <3>2. g[i] = {out[j].sequence}
      BY <1>5, <1>7, <2>2
    <3> QED BY <3>1, <3>2
  <2> QED BY <1>7, <2>1, <2>2
<1>10. ASSUME NEW i \in 1..Len(g), NEW j \in 1..Len(g), i < j,
              NEW l \in g[i], NEW m \in g[j]
       PROVE  l < m
  <2>1. CASE i \in 1..Len(h) /\ j \in 1..Len(h)
    <3>1. l \in h[i] /\ m \in h[j]
      BY <1>7, <2>1
    <3> QED BY <1>10, <2>1, <3>1 DEF Delivered
  <2>2. ASSUME i \in 1..Len(h), NEW q \in 1..n, j = Len(h) + q PROVE l < m
    <3>1. l \in Nat /\ l < low
      BY <1>7, <1>8, <2>2
    <3>2. m = out[q].sequence
      BY <1>5, <1>7, <2>2
    <3>3. m \in low..(high - 1)
      BY <1>5, <3>2
    <3> QED BY <3>1, <3>3
  <2>3. ASSUME NEW q \in 1..n, i = Len(h) + q, NEW r \in 1..n, j = Len(h) + r PROVE l < m
    <3>1. l = out[q].sequence /\ m = out[r].sequence
      BY <1>5, <1>7, <2>3, ZenonT(30)
    <3>2. q \in 1..(r - 1)
      BY <1>2, <1>7, <1>10, <2>3 DEF n
    <3> QED BY <1>6, <3>1, <3>2
  <2>4. ASSUME NEW q \in 1..n, i = Len(h) + q, j \in 1..Len(h) PROVE FALSE
    BY <1>2, <1>7, <1>10, <2>4 DEF n
  <2> QED BY <1>7, <2>1, <2>2, <2>3, <2>4
<1>11. Delivered(g, high)
  BY <1>9, <1>10 DEF Delivered
<1>12. \A i \in 1..Len(h) : i \in 1..Len(g)
  BY <1>2, <1>7 DEF n
<1>13. \A i \in 1..Len(h) : \E j \in 1..Len(g) : g[j] = h[i]
  BY <1>7, <1>12
<1> QED BY <1>11, <1>13

(* What a turn of the loop adds to what the target got. *)
LEMMA TurnHands ==
  ASSUME NEW K, NEW b, NEW w, Turn(window', w, K, b), w.next \in Nat, window'.next \in Nat,
         Delivered(handed, w.next), Handed
  PROVE  /\ Delivered(handed', window'.next)
         /\ \A i \in 1..Len(handed) : \E j \in 1..Len(handed') : handed'[j] = handed[i]
         /\ \A i \in 1..Len(window'.out) :
              \E j \in 1..Len(handed') : handed'[j] = {window'.out[i].sequence}
         /\ \A i \in 1..Len(handed') :
              \/ \E j \in 1..Len(handed) : handed'[i] = handed[j]
              \/ \E j \in 1..Len(window'.out) : handed'[i] = {window'.out[j].sequence}
<1>1. /\ IsSequence(window'.out)
      /\ w.next <= window'.next /\ Ascending(window'.out, w.next, window'.next)
      /\ \A i \in 1..Len(window'.out) : window'.out[i].payload = {window'.out[i].sequence}
  BY DEF Turn, Ordered, OutIsSequence, IsSequence
<1>2. handed' = handed \o [i \in DOMAIN window'.out |-> window'.out[i].payload]
  BY DEF Handed
<1> DEFINE n == Len(window'.out)
           T == {window'.out[i].payload : i \in 1..n}
           c == [i \in 1..n |-> window'.out[i].payload]
<1>3. /\ DOMAIN window'.out = 1..n /\ n \in Nat
      /\ c \in [1..n -> T]
      /\ \A i \in 1..n : c[i] = {window'.out[i].sequence}
  BY <1>1 DEF IsSequence
<1>4. handed' = handed \o c
  BY <1>2, <1>3
<1> HIDE DEF c, T
<1>5. PICK S : handed \in Seq(S)
  BY DEF Delivered, IsSequence
<1>6. IsSequence(handed') /\ Continues(handed', handed, n, c)
  <2>1. handed \o c \in Seq(S \cup T) /\ Continues(handed \o c, handed, n, c)
    <3> HIDE DEF n
    <3> QED BY <1>3, <1>5, Appended
  <2> QED BY <1>4, <2>1 DEF IsSequence
<1> HIDE DEF n
<1>7. n = Len(window'.out)
  BY DEF n
<1>8. Delivered(handed', window'.next)
  BY <1>1, <1>3, <1>6, <1>7, DeliveredExtends
<1>9. \A i \in 1..Len(handed) : \E j \in 1..Len(handed') : handed'[j] = handed[i]
  BY <1>1, <1>3, <1>6, <1>7, DeliveredExtends
<1>10. \A i \in 1..Len(window'.out) :
              \E j \in 1..Len(handed') : handed'[j] = {window'.out[i].sequence}
  <2>1. ASSUME NEW i \in 1..n
        PROVE  Len(handed) + i \in 1..Len(handed') /\ handed'[Len(handed) + i] = {window'.out[i].sequence}
    BY <1>3, <1>6 DEF Continues
  <2> QED BY <1>7, <2>1
<1>11. ASSUME NEW i \in 1..Len(handed')
       PROVE  \/ \E j \in 1..Len(handed) : handed'[i] = handed[j]
              \/ \E j \in 1..Len(window'.out) : handed'[i] = {window'.out[j].sequence}
  <2>1. CASE i \in 1..Len(handed)
    BY <1>6, <2>1 DEF Continues
  <2>2. ASSUME NEW j \in 1..n, i = Len(handed) + j
        PROVE  handed'[i] = {window'.out[j].sequence}
    BY <1>3, <1>6, <2>2 DEF Continues
  <2> QED BY <1>6, <1>7, <2>1, <2>2 DEF Continues
<1> QED BY <1>8, <1>9, <1>10, <1>11

(* A turn that forwards nothing hands nothing over. *)
LEMMA NothingHanded ==
  ASSUME NEW limit, Delivered(handed, limit), window'.out = << >>, Handed
  PROVE  handed' = handed
<1>1. PICK S : handed \in Seq(S)
  BY DEF Delivered, IsSequence
<1>2. [i \in DOMAIN window'.out |-> window'.out[i].payload] = << >>
  OBVIOUS
<1> QED BY <1>1, <1>2 DEF Handed

(* A packet that is sent is ahead of all that were. *)
LEMMA EmittedFlight ==
  ASSUME ClientInv, Len(cuts') <= MaxMediaSequence, NEW K, NEW F, Emits(K, F),
         NEW f \in network' \ network
  PROVE  /\ f.repair = FALSE /\ f.age = 0 /\ PacketOf(f) = Len(cuts)
         /\ \E i, k : k \in K /\ i \in 0..(k - 1) /\ f.datagram = FrameOf(Len(cuts), i, k)
<1>1. f \in F
  BY DEF Emits, Emit
<1>2. PICK c, i, k :
        c \in Paths /\ k \in K /\ i \in 0..(k - 1)
        /\ f = Flight(c, Len(cuts), i, k, FALSE)
  BY <1>1 DEF Emits
<1>3. f.repair = FALSE /\ f.age = 0 /\ f.datagram = FrameOf(Len(cuts), i, k)
  BY <1>2 DEF Flight
<1>4. Len(cuts) \in MediaSequences
  <2>1. Len(cuts') = Len(cuts) + 1 /\ Len(cuts) \in Nat
    BY EmitAppends
  <2> QED BY <2>1, WindowAssumption DEF MediaSequences
<1>5. k \in 1..MaxFragments
  <2>1. {1} \cup FragmentCounts \subseteq 1..MaxFragments
    BY StreamAssumption, WindowAssumption
  <2> QED BY <1>2, <2>1 DEF Emits
<1>6. PacketOf(f) = Len(cuts)
  <2>1. Parsed(FrameOf(Len(cuts), i, k)) = Media(Len(cuts), i, k)
    BY <1>2, <1>4, <1>5, FrameSurvives
  <2> QED BY <1>3, <2>1 DEF PacketOf, Media
<1> QED BY <1>2, <1>3, <1>6

(* What answers a repair request is of a packet that was sent. *)
LEMMA RepairFlight ==
  ASSUME ClientInv, Len(cuts) <= MaxMediaSequence, NEW a, RepairTask(a),
         NEW f \in network' \ network
  PROVE  /\ f.repair = TRUE /\ f.age = 0
         /\ \E n, i, k : Cut(n, i, k) /\ f.datagram = FrameOf(n, i, k) /\ PacketOf(f) = n
<1>1. PICK c, n, i, k : c \in Paths /\ Cut(n, i, k) /\ f = Flight(c, n, i, k, TRUE)
  BY RepairsHeld
<1>2. f.repair = TRUE /\ f.age = 0 /\ f.datagram = FrameOf(n, i, k)
  BY <1>1 DEF Flight
<1>3. PacketOf(f) = n
  <2>1. Parsed(FrameOf(n, i, k)) = Media(n, i, k)
    BY <1>1, CutArrives
  <2> QED BY <1>2, <2>1 DEF PacketOf, Media
<1> QED BY <1>1, <1>2, <1>3

-----------------------------------------------------------------------------
(* No frame outlives a flow. *)

(* In a flow, a frame of a packet that is behind next was sent before the  *)
(* loop last turned, and one that answers a repair request was asked for   *)
(* before; without a flow the server asks for nothing.                     *)
TimeInv ==
  /\ initialized = TRUE =>
       /\ \A f \in network : f.repair = FALSE /\ PacketOf(f) < window.next => f.age >= waited
       /\ \A f \in network : f.repair = TRUE => f.age + RequestLatency >= waited
       /\ \A a \in asked : a.age >= waited
  /\ initialized = FALSE => asked = {} /\ window.out = << >> /\ window.requests = {}

(* So when a flow ends, all that is in flight is of packets that are ahead *)
(* of it.                                                                  *)
LEMMA NothingOldInFlight ==
  ASSUME RequestLatency + Latency < FlowIdleReset, NetworkInv, TimeInv, TypeInv, TimeoutIdle
  PROVE  /\ initialized = TRUE /\ asked = {}
         /\ \A f \in network : ~(PacketOf(f) < window.next)
<1>1. initialized = TRUE /\ waited >= FlowIdleReset
  BY DEF TimeoutIdle, TimerDue, TimerPeriod, TimeInv
<1>2. /\ waited \in Nat /\ Latency \in Nat /\ RequestLatency \in Nat /\ FlowIdleReset \in Nat
  BY StreamAssumption, ReorderAssumption DEF TypeInv, LoopTyped
<1>3. ASSUME NEW a \in asked PROVE FALSE
  <2>1. a.age \in 0..RequestLatency /\ a.age >= waited
    BY <1>1, <1>3 DEF NetworkInv, TimeInv
  <2> QED BY <1>1, <1>2, <2>1
<1>4. ASSUME NEW f \in network, PacketOf(f) < window.next PROVE FALSE
  <2>1. f.age \in 0..Latency /\ f.repair \in BOOLEAN
    BY DEF NetworkInv
  <2>2. f.age + RequestLatency >= waited \/ f.age >= waited
    BY <1>1, <1>4, <2>1 DEF TimeInv
  <2> QED BY <1>1, <1>2, <2>1, <2>2
<1> QED BY <1>1, <1>3, <1>4

(* No frame outlives a flow, step by step: a flow ends when no packet came *)
(* for FlowIdleReset ticks, and a packet, its request and the answer are   *)
(* in flight for fewer.                                                    *)
LEMMA NextTime ==
  ASSUME RequestLatency + Latency < FlowIdleReset, DOMAIN FecPayload = {},
         Inv, TypeInv, ClientInv, NetworkInv, FlowInv, TimeInv, Bounded, Bounded',
         [StreamNext]_streamVars
  PROVE  TimeInv'
<1>0. /\ waited \in Nat /\ Latency \in Nat /\ RequestLatency \in Nat /\ FlowIdleReset \in Nat
      /\ window.next \in Nat /\ initialized \in BOOLEAN
  BY StreamAssumption, ReorderAssumption, WindowAssumption
  DEF TypeInv, LoopTyped, Inv, AtRest, Sound, MediaSequences
<1>1. ASSUME NEW K, NEW F, Emits(K, F)
      PROVE  TimeInv'
  <2>1. UNCHANGED <<initialized, window, waited, asked>>
    BY <1>1 DEF Emits, Emit, vars
  <2>2. CASE initialized = TRUE
    <3>1. window.next <= Len(cuts) /\ Len(cuts) \in Nat
      BY <1>0, <1>1, <2>2, EmitAppends DEF FlowInv, Within
    <3>2. ASSUME NEW f \in network' \ network
          PROVE  f.repair = FALSE /\ ~(PacketOf(f) < window.next)
      <4>1. f.repair = FALSE /\ PacketOf(f) = Len(cuts)
        BY <1>1, EmittedFlight DEF Bounded
      <4> QED BY <1>0, <3>1, <4>1
    <3> QED BY <2>1, <2>2, <3>2 DEF TimeInv, PacketOf
  <2>3. CASE initialized = FALSE
    BY <2>1, <2>3 DEF TimeInv
  <2> QED BY <1>0, <2>2, <2>3
<1>2. ASSUME NEW a \in asked, RepairTask(a)
      PROVE  TimeInv'
  <2>1. UNCHANGED <<initialized, window, waited>> /\ asked' = asked \ {a}
    BY <1>2 DEF RepairTask, vars
  <2>2. initialized = TRUE
    BY <1>0, <1>2 DEF TimeInv
  <2>3. a.age >= waited /\ a.age \in 0..RequestLatency
    BY <1>2, <2>2 DEF TimeInv, NetworkInv
  <2>4. ASSUME NEW f \in network' \ network
        PROVE  f.repair = TRUE /\ f.age + RequestLatency >= waited
    <3>1. f.repair = TRUE /\ f.age = 0
      BY <1>2, RepairFlight DEF Bounded
    <3> QED BY <1>0, <2>3, <3>1
  <2> QED BY <2>1, <2>2, <2>4 DEF TimeInv, PacketOf
<1>3. ASSUME NEW f, Lose(f)
      PROVE  TimeInv'
  <2>1. UNCHANGED <<initialized, window, waited, asked>> /\ network' = network \ {f}
    BY <1>3 DEF Lose, vars
  <2> QED BY <2>1 DEF TimeInv, PacketOf
<1>4. ASSUME initialized' = TRUE, waited' = 0, network' \subseteq network, Asked
      PROVE  TimeInv'
  <2>1. \A f \in network' : f.age \in Nat
    BY <1>0, <1>4 DEF NetworkInv
  <2>2. \A a \in asked' : a.age \in Nat
    <3>1. \A a \in asked' : a \in asked \/ \E c, r :
            a = [path |-> c, request |-> W!EncodeRepairRequest(r), age |-> 0]
      BY <1>4 DEF Asked
    <3> QED BY <1>0, <3>1 DEF NetworkInv
  <2> QED BY <1>0, <1>4, <2>1, <2>2 DEF TimeInv
<1>5. ASSUME NEW f \in network, Deliver(f)
      PROVE  TimeInv'
  <2>1. PICK n, i, k : Cut(n, i, k) /\ f.datagram = FrameOf(n, i, k)
    BY DEF NetworkInv
  <2>2. initialized' = TRUE /\ waited' = 0
    BY <1>5, <2>1, DeliverTurns DEF Delivers
  <2>3. network' \subseteq network /\ Asked
    BY <1>5 DEF Deliver
  <2> QED BY <1>4, <2>2, <2>3
<1>6. ASSUME ServerTimeout
      PROVE  TimeInv'
  <2>1. network' = network /\ Asked
    BY <1>6 DEF ServerTimeout
  <2>2. CASE TimeoutAdvance
    BY <1>4, <2>1, <2>2, TimeoutTurns
  <2>3. CASE TimeoutIdle
    <3>1. initialized = TRUE /\ asked = {}
      BY <2>3, NothingOldInFlight
    <3>2. initialized' = FALSE /\ window'.out = << >> /\ window'.requests = {}
      BY <2>3 DEF TimeoutIdle, Fresh, Inv, AtRest, Sound, WindowFields
    <3>3. asked' = {}
      BY <2>1, <3>1, <3>2 DEF Asked
    <3> QED BY <3>2, <3>3 DEF TimeInv
  <2>4. CASE TimeoutNoFlow
    <3>1. initialized = FALSE /\ initialized' = FALSE /\ window' = window
      BY <1>0, <2>4 DEF TimeoutNoFlow
    <3>2. asked = {} /\ window.out = << >> /\ window.requests = {}
      BY <3>1 DEF TimeInv
    <3>3. asked' = {}
      BY <2>1, <3>1, <3>2 DEF Asked
    <3> QED BY <3>1, <3>2, <3>3 DEF TimeInv
  <2> QED BY <1>6, <2>2, <2>3, <2>4 DEF ServerTimeout, Timeout
<1>7. ASSUME ClockTick
      PROVE  TimeInv'
  <2>1. /\ Tick /\ initialized' = initialized /\ waited' = waited + 1
        /\ network' = {[f EXCEPT !.age = @ + 1] : f \in network}
        /\ asked' = {[a EXCEPT !.age = @ + 1] : a \in asked}
    BY <1>7 DEF ClockTick, Tick
  <2>2. ASSUME NEW g \in network'
        PROVE  \E f \in network : /\ g.repair = f.repair /\ g.age = f.age + 1
                                  /\ PacketOf(g) = PacketOf(f)
    <3>1. PICK f \in network : g = [f EXCEPT !.age = @ + 1]
      BY <2>1
    <3>2. f \in [path : Paths, datagram : {f.datagram}, repair : BOOLEAN, age : 0..Latency]
      BY DEF NetworkInv
    <3>3. g.repair = f.repair /\ g.age = f.age + 1 /\ g.datagram = f.datagram
      BY <3>1, <3>2
    <3> QED BY <3>3 DEF PacketOf
  <2>3. ASSUME NEW b \in asked'
        PROVE  \E a \in asked : b.age = a.age + 1
    <3>1. PICK a \in asked : b = [a EXCEPT !.age = @ + 1]
      BY <2>1
    <3>2. a \in [path : {a.path}, request : {a.request}, age : 0..RequestLatency]
      BY DEF NetworkInv
    <3> QED BY <3>1, <3>2
  <2>4. /\ \A f \in network : f.age \in Nat
        /\ \A a \in asked : a.age \in Nat
    BY <1>0 DEF NetworkInv
  <2>5. CASE initialized = TRUE
    <3>1. window'.next = window.next
      BY <2>1, <2>5, TickKeeps
    <3>2. ASSUME NEW g \in network'
          PROVE  /\ g.repair = FALSE /\ PacketOf(g) < window'.next => g.age >= waited'
                 /\ g.repair = TRUE => g.age + RequestLatency >= waited'
      <4>1. PICK f \in network : /\ g.repair = f.repair /\ g.age = f.age + 1
                                 /\ PacketOf(g) = PacketOf(f)
        BY <2>2
      <4>2. /\ f.repair = FALSE /\ PacketOf(f) < window.next => f.age >= waited
            /\ f.repair = TRUE => f.age + RequestLatency >= waited
        BY <2>5 DEF TimeInv
      <4> QED BY <1>0, <2>1, <2>4, <3>1, <4>1, <4>2
    <3>3. ASSUME NEW b \in asked' PROVE b.age >= waited'
      <4>1. PICK a \in asked : b.age = a.age + 1
        BY <2>3
      <4>2. a.age >= waited
        BY <2>5 DEF TimeInv
      <4> QED BY <1>0, <2>1, <2>4, <4>1, <4>2
    <3> QED BY <2>1, <2>5, <3>2, <3>3 DEF TimeInv, PacketOf
  <2>6. CASE initialized = FALSE
    <3>1. asked' = {}
      BY <2>1, <2>6 DEF TimeInv
    <3>2. window' = Aged(Fresh(window)) /\ DOMAIN window = WindowFields
      BY <2>1 DEF Tick, Inv, AtRest, Sound
    <3>3. window'.out = << >> /\ window'.requests = {}
      BY <3>2 DEF Aged, Fresh, WindowFields
    <3> QED BY <2>1, <2>6, <3>1, <3>3 DEF TimeInv
  <2> QED BY <1>0, <2>5, <2>6
<1>8. CASE UNCHANGED <<initialized, window, waited, network, asked>>
  BY <1>8 DEF TimeInv, PacketOf
<1> QED
  BY <1>1, <1>2, <1>3, <1>5, <1>6, <1>7, <1>8, SendEmits DEF StreamNext, streamVars, vars

(* What the target got is behind next in a flow; where none is in          *)
(* progress, all that is in flight is ahead of it.                         *)
HandedInv ==
  /\ Delivered(handed, Len(cuts))
  /\ initialized = TRUE => Delivered(handed, window.next)
  /\ initialized = FALSE => \A f \in network : Delivered(handed, PacketOf(f))

(* A turn of the server hands over what it forwarded. *)
LEMMA ServerHands ==
  ASSUME Inv', ClientInv, NEW w, Turn(window', w, cuts, Len(cuts) - 1), w.next \in Nat,
         Delivered(handed, w.next), Handed
  PROVE  /\ Delivered(handed', window'.next) /\ Delivered(handed', Len(cuts))
         /\ \A i \in 1..Len(handed) : \E j \in 1..Len(handed') : handed'[j] = handed[i]
         /\ \A i \in 1..Len(window'.out) :
              \E j \in 1..Len(handed') : handed'[j] = {window'.out[i].sequence}
         /\ \A i \in 1..Len(handed') :
              \/ \E j \in 1..Len(handed) : handed'[i] = handed[j]
              \/ \E j \in 1..Len(window'.out) : handed'[i] = {window'.out[j].sequence}
<1>1. window'.next \in Nat
  BY WindowAssumption DEF Inv, AtRest, Sound, MediaSequences
<1>2. Delivered(handed', window'.next)
  BY <1>1, TurnHands
<1>3. window'.next <= Len(cuts) /\ Len(cuts) \in Nat
  BY <1>1 DEF Turn, Within, ClientInv
<1>4. Delivered(handed', Len(cuts))
  BY <1>1, <1>2, <1>3, DeliveredBelow
<1> QED BY <1>1, <1>2, <1>4, TurnHands

(* A delivered frame makes the server hand over what it forwards. *)
LEMMA DeliverHands ==
  ASSUME Inv, Inv', TypeInv, ClientInv, NetworkInv, FlowInv, HandedInv,
         Len(cuts) <= MaxMediaSequence,
         NEW f \in network, NEW n, NEW i, NEW k, Cut(n, i, k), f.datagram = FrameOf(n, i, k),
         Delivers(n, i, k), Handed
  PROVE  /\ Delivered(handed', window'.next) /\ Delivered(handed', Len(cuts))
         /\ \A j \in 1..Len(handed) : \E l \in 1..Len(handed') : handed'[l] = handed[j]
         /\ \A j \in 1..Len(window'.out) :
              \E l \in 1..Len(handed') : handed'[l] = {window'.out[j].sequence}
         /\ \A j \in 1..Len(handed') :
              \/ \E l \in 1..Len(handed) : handed'[j] = handed[l]
              \/ \E l \in 1..Len(window'.out) : handed'[j] = {window'.out[l].sequence}
<1>1. Parsed(f.datagram) = Media(n, i, k) /\ n \in Nat
  BY CutArrives
<1>2. PacketOf(f) = n
  BY <1>1 DEF PacketOf, Media
<1>3. CASE initialized = FALSE /\ Turn(window', FlowStart(n), cuts, Len(cuts) - 1)
  <2>1. n \in MediaSequences
    BY <1>1, WindowAssumption DEF Cut, MediaSequences, ClientInv
  <2>2. FlowStart(n).next = n
    BY <1>3, <2>1, FlowStarts
  <2>3. Delivered(handed, n)
    BY <1>2, <1>3 DEF HandedInv
  <2> QED BY <1>1, <1>3, <2>2, <2>3, ServerHands
<1>4. CASE initialized = TRUE /\ Turn(window', Fresh(window), cuts, Len(cuts) - 1)
  <2>1. Fresh(window).next = window.next
    BY <1>4, FlowResumes
  <2>2. Delivered(handed, window.next) /\ window.next \in Nat
    BY <1>4, WindowAssumption DEF HandedInv, Inv, AtRest, Sound, MediaSequences
  <2> QED BY <1>4, <2>1, <2>2, ServerHands
<1> QED BY <1>3, <1>4 DEF Delivers

(* What a turn of reorder_loop sends comes behind all that was sent, and   *)
(* nothing that was sent is taken back.                                    *)
LEMMA NextHanded ==
  ASSUME RequestLatency + Latency < FlowIdleReset, DOMAIN FecPayload = {},
         Inv, Inv', TypeInv, ClientInv, NetworkInv, FlowInv, TimeInv, HandedInv,
         Bounded, Bounded', [StreamNext]_streamVars
  PROVE  /\ HandedInv'
         /\ \A j \in 1..Len(handed) : \E l \in 1..Len(handed') : handed'[l] = handed[j]
<1> DEFINE Kept == \A j \in 1..Len(handed) : \E l \in 1..Len(handed') : handed'[l] = handed[j]
<1>0. window.next \in Nat /\ initialized \in BOOLEAN /\ Len(cuts) \in Nat
  BY WindowAssumption DEF Inv, AtRest, Sound, MediaSequences, ClientInv
<1>1. ASSUME handed' = handed PROVE Kept
  BY <1>1
<1>2. ASSUME NEW K, NEW F, Emits(K, F)
      PROVE  HandedInv' /\ Kept
  <2>1. UNCHANGED <<initialized, window, handed>>
    BY <1>2 DEF Emits, Emit, vars
  <2>2. Len(cuts') = Len(cuts) + 1
    BY <1>2, EmitAppends
  <2>3. Delivered(handed, Len(cuts))
    BY DEF HandedInv
  <2>4. Delivered(handed, Len(cuts'))
    BY <1>0, <2>2, <2>3, DeliveredBelow
  <2>5. ASSUME NEW f \in network' \ network PROVE PacketOf(f) = Len(cuts)
    BY <1>2, EmittedFlight DEF Bounded
  <2> QED BY <1>1, <2>1, <2>3, <2>4, <2>5 DEF HandedInv, PacketOf
<1>3. ASSUME NEW a \in asked, RepairTask(a)
      PROVE  HandedInv' /\ Kept
  <2>1. UNCHANGED <<initialized, window, handed, cuts>>
    BY <1>3 DEF RepairTask, vars
  <2>2. initialized = TRUE
    BY <1>0, <1>3 DEF TimeInv
  <2> QED BY <1>1, <2>1, <2>2 DEF HandedInv
<1>4. ASSUME NEW f, Lose(f)
      PROVE  HandedInv' /\ Kept
  <2>1. UNCHANGED <<initialized, window, handed, cuts>> /\ network' = network \ {f}
    BY <1>4 DEF Lose, vars, client
  <2> QED BY <1>1, <2>1 DEF HandedInv, PacketOf
<1>5. ASSUME NEW f \in network, Deliver(f)
      PROVE  HandedInv' /\ Kept
  <2>1. PICK n, i, k : Cut(n, i, k) /\ f.datagram = FrameOf(n, i, k)
    BY DEF NetworkInv
  <2>2. Delivers(n, i, k)
    BY <1>5, <2>1, DeliverTurns
  <2>3. Handed /\ cuts' = cuts
    BY <1>5 DEF Deliver, client
  <2>4. Delivered(handed', window'.next) /\ Delivered(handed', Len(cuts)) /\ Kept
    BY <2>1, <2>2, <2>3, DeliverHands DEF Bounded
  <2> HIDE DEF Kept
  <2> QED BY <2>2, <2>3, <2>4 DEF HandedInv, Delivers
<1>6. ASSUME ServerTimeout
      PROVE  HandedInv' /\ Kept
  <2>1. network' = network /\ Handed /\ cuts' = cuts
    BY <1>6 DEF ServerTimeout, client
  <2>2. CASE TimeoutAdvance
    <3>1. /\ initialized = TRUE /\ initialized' = TRUE
          /\ Turn(window', Fresh(window), cuts, Len(cuts) - 1)
      BY <2>2, TimeoutTurns
    <3>2. Fresh(window).next = window.next /\ Delivered(handed, window.next)
      BY <3>1, FlowResumes DEF HandedInv
    <3>3. Delivered(handed', window'.next) /\ Delivered(handed', Len(cuts)) /\ Kept
      BY <1>0, <2>1, <3>1, <3>2, ServerHands
    <3> HIDE DEF Kept
    <3> QED BY <2>1, <3>1, <3>3 DEF HandedInv
  <2>3. CASE TimeoutIdle
    <3>1. initialized = TRUE /\ \A f \in network : ~(PacketOf(f) < window.next)
      BY <2>3, NothingOldInFlight
    <3>2. initialized' = FALSE /\ window'.out = << >>
      BY <2>3 DEF TimeoutIdle, Fresh, Inv, AtRest, Sound, WindowFields
    <3>3. Delivered(handed, window.next) /\ Delivered(handed, Len(cuts))
      BY <3>1 DEF HandedInv
    <3>4. handed' = handed
      BY <2>1, <3>2, <3>3, NothingHanded
    <3>5. ASSUME NEW f \in network PROVE Delivered(handed, PacketOf(f))
      <4>1. PacketOf(f) \in Nat
        BY <1>0, FlightOfPacket DEF Bounded
      <4>2. window.next <= PacketOf(f)
        BY <1>0, <3>1, <4>1
      <4> QED BY <1>0, <3>3, <4>1, <4>2, DeliveredBelow
    <3> QED BY <1>1, <2>1, <3>2, <3>3, <3>4, <3>5 DEF HandedInv, PacketOf
  <2>4. CASE TimeoutNoFlow
    <3>1. initialized = FALSE /\ initialized' = FALSE /\ window' = window
      BY <1>0, <2>4 DEF TimeoutNoFlow
    <3>2. handed' = handed
      BY <2>1, <3>1, NothingHanded DEF TimeInv, HandedInv
    <3> QED BY <1>1, <2>1, <3>1, <3>2 DEF HandedInv, PacketOf
  <2> QED BY <1>6, <2>2, <2>3, <2>4 DEF ServerTimeout, Timeout
<1>7. ASSUME ClockTick
      PROVE  HandedInv' /\ Kept
  <2>1. /\ Tick /\ initialized' = initialized /\ handed' = handed /\ cuts' = cuts
        /\ network' = {[f EXCEPT !.age = @ + 1] : f \in network}
    BY <1>7 DEF ClockTick, Tick
  <2>2. ASSUME NEW g \in network' PROVE \E f \in network : PacketOf(g) = PacketOf(f)
    <3>1. PICK f \in network : g = [f EXCEPT !.age = @ + 1]
      BY <2>1
    <3>2. f \in [path : Paths, datagram : {f.datagram}, repair : BOOLEAN, age : 0..Latency]
      BY DEF NetworkInv
    <3>3. g.datagram = f.datagram
      BY <3>1, <3>2
    <3> QED BY <3>3 DEF PacketOf
  <2>3. initialized = TRUE => window'.next = window.next
    BY <2>1, TickKeeps
  <2>4. initialized = FALSE => \A g \in network' : Delivered(handed, PacketOf(g))
    BY <2>2 DEF HandedInv
  <2> QED BY <1>1, <2>1, <2>3, <2>4 DEF HandedInv, PacketOf
<1>8. CASE UNCHANGED <<initialized, window, network, cuts, handed>>
  BY <1>1, <1>8 DEF HandedInv, PacketOf
<1> QED
  BY <1>2, <1>3, <1>4, <1>5, <1>6, <1>7, <1>8, SendEmits
  DEF StreamNext, streamVars, vars, client

-----------------------------------------------------------------------------
(* All that holds of the stream on its first lap. *)
OrderInv ==
  Inv /\ TypeInv /\ ClientInv /\ NetworkInv /\ FlowInv /\ TimeInv /\ HandedInv

(* Before the first packet nothing is in flight, buffered or handed over. *)
LEMMA InitOrder ==
  ASSUME StreamInit
  PROVE  OrderInv
<1>1. Inv /\ TypeInv
  BY InitInv, InitTyped DEF StreamInit
<1>2. /\ initialized = FALSE /\ window = EmptyWindow(0)
      /\ cuts = << >> /\ cached = Cache!Empty /\ network = {} /\ asked = {} /\ handed = << >>
  BY DEF StreamInit, Init
<1>3. ClientInv
  <2>1. Len(cuts) = 0 /\ cuts \in Seq(SUBSET Nat) /\ 0 <= Len(Strategies)
    BY <1>2, StreamAssumption
  <2>2. 0..(Len(cuts) - 1) = {}
    BY <2>1
  <2>3. DOMAIN cached.held = {}
    BY <1>2 DEF Cache!Empty
  <2> QED BY <2>1, <2>2, <2>3 DEF ClientInv
<1>4. NetworkInv /\ FlowInv
  BY <1>2 DEF NetworkInv, FlowInv
<1>5. TimeInv
  BY <1>2 DEF TimeInv, EmptyWindow
<1>6. HandedInv
  <2>1. IsSequence(handed) /\ Len(handed) = 0
    BY <1>2 DEF IsSequence
  <2>2. \A limit : Delivered(handed, limit)
    BY <2>1 DEF Delivered
  <2> QED BY <1>2, <2>2 DEF HandedInv
<1> QED BY <1>1, <1>3, <1>4, <1>5, <1>6 DEF OrderInv

(* Every step of the stream keeps all that. *)
LEMMA NextOrder ==
  ASSUME RequestLatency + Latency < FlowIdleReset, DOMAIN FecPayload = {},
         OrderInv, Bounded, Bounded', [StreamNext]_streamVars
  PROVE  OrderInv'
<1>1. [Next]_vars
  BY StreamRunsLoop DEF OrderInv
<1>2. Inv' /\ TypeInv'
  BY <1>1, NextInv, NextTyped DEF OrderInv
<1>3. ClientInv' /\ NetworkInv'
  BY NextClient, NextNetwork DEF OrderInv, Bounded
<1>4. FlowInv' /\ TimeInv'
  BY NextFlow, NextTime DEF OrderInv
<1>5. HandedInv'
  BY <1>2, NextHanded DEF OrderInv
<1> QED BY <1>2, <1>3, <1>4, <1>5 DEF OrderInv

(* So it holds as long as the stream stays on its first lap. *)
LEMMA OrderHolds ==
  ASSUME RequestLatency + Latency < FlowIdleReset, DOMAIN FecPayload = {}
  PROVE  StreamSpec /\ []Bounded => []OrderInv
<1>1. StreamInit => OrderInv
  BY InitOrder
<1>2. OrderInv /\ Bounded /\ Bounded' /\ [StreamNext]_streamVars => OrderInv'
  BY NextOrder
<1> QED BY <1>1, <1>2, PTL DEF StreamSpec

-----------------------------------------------------------------------------
(* What was handed over or waits has arrived, fragment by fragment. *)
ArrivedInv ==
  /\ \A i \in 1..Len(handed) : \A n \in handed[i] : WholeIn(n, cuts, arrived)
  /\ initialized = TRUE => HasArrived(window, cuts, arrived)

(* More arrivals take nothing away. *)
LEMMA ArrivedGrows ==
  ASSUME NEW K, NEW A, NEW B, A \subseteq B
  PROVE  /\ \A n : WholeIn(n, K, A) => WholeIn(n, K, B)
         /\ \A w : HasArrived(w, K, A) => HasArrived(w, K, B)
<1>1. \A n : WholeIn(n, K, A) => WholeIn(n, K, B)
  BY DEF WholeIn
<1>2. \A w : HasArrived(w, K, A) => HasArrived(w, K, B)
  BY <1>1 DEF HasArrived
<1> QED BY <1>1, <1>2

(* A turn hands over and keeps only what has arrived by then. *)
LEMMA TurnArrives ==
  ASSUME ArrivedInv, cuts' = cuts, NEW E, arrived' = arrived \cup E,
         NEW w, HasArrived(w, cuts, arrived'), Brings(window', w, cuts, E),
         \A i \in 1..Len(handed') :
           \/ \E j \in 1..Len(handed) : handed'[i] = handed[j]
           \/ \E j \in 1..Len(window'.out) : handed'[i] = {window'.out[j].sequence}
  PROVE  ArrivedInv'
<1>1. HasArrived(window', cuts, arrived') /\ OutArrived(window', cuts, arrived')
  BY DEF Brings
<1>2. ASSUME NEW i \in 1..Len(handed'), NEW n \in handed'[i]
      PROVE  WholeIn(n, cuts, arrived')
  <2>1. ASSUME NEW j \in 1..Len(handed), handed'[i] = handed[j]
        PROVE  WholeIn(n, cuts, arrived')
    <3>1. WholeIn(n, cuts, arrived)
      BY <1>2, <2>1 DEF ArrivedInv
    <3> QED BY <3>1, ArrivedGrows
  <2>2. ASSUME NEW j \in 1..Len(window'.out), handed'[i] = {window'.out[j].sequence}
        PROVE  WholeIn(n, cuts, arrived')
    BY <1>1, <1>2, <2>2 DEF OutArrived
  <2> QED BY <2>1, <2>2
<1> QED BY <1>1, <1>2 DEF ArrivedInv

LEMMA NextArrived ==
  ASSUME RequestLatency + Latency < FlowIdleReset, DOMAIN FecPayload = {},
         OrderInv, OrderInv', Bounded, Bounded', ArrivedInv, [StreamNext]_streamVars
  PROVE  ArrivedInv'
<1>0. /\ window.next \in Nat /\ initialized \in BOOLEAN /\ Len(cuts) \in Nat
      /\ Pending(window) \subseteq Nat
  BY WindowAssumption DEF OrderInv, Inv, AtRest, Sound, MediaSequences, ClientInv, Pending
<1>1. ASSUME NEW K, NEW F, Emits(K, F)
      PROVE  ArrivedInv'
  <2>1. UNCHANGED <<initialized, window, handed, arrived>>
    BY <1>1 DEF Emits, Emit, vars
  <2>2. \A n \in 0..(Len(cuts) - 1) : cuts'[n + 1] = cuts[n + 1]
    BY <1>1, EmitAppends DEF OrderInv
  <2>3. \A n \in 0..(Len(cuts) - 1) : WholeIn(n, cuts, arrived) => WholeIn(n, cuts', arrived)
    BY <2>2 DEF WholeIn
  <2>4. ASSUME NEW i \in 1..Len(handed), NEW n \in handed[i]
        PROVE  WholeIn(n, cuts', arrived)
    <3>1. n \in 0..(Len(cuts) - 1)
      BY <1>0, <2>4 DEF OrderInv, HandedInv, Delivered
    <3> QED BY <2>3, <2>4, <3>1 DEF ArrivedInv
  <2>5. ASSUME initialized = TRUE
        PROVE  HasArrived(window, cuts', arrived)
    <3>1. \A s \in DOMAIN window.buffered : s \in 0..(Len(cuts) - 1)
      BY <1>0, <2>5 DEF OrderInv, FlowInv, Within, Pending
    <3>2. HasArrived(window, cuts, arrived)
      BY <2>5 DEF ArrivedInv
    <3> QED BY <2>3, <3>1, <3>2 DEF HasArrived
  <2> QED BY <2>1, <2>4, <2>5 DEF ArrivedInv
<1>2. ASSUME NEW f \in network, Deliver(f)
      PROVE  ArrivedInv'
  <2>1. PICK n, i, k : Cut(n, i, k) /\ f.datagram = FrameOf(n, i, k)
    BY DEF OrderInv, NetworkInv
  <2>2. Delivers(n, i, k)
    BY <1>2, <2>1, DeliverTurns DEF OrderInv
  <2>3. Handed /\ cuts' = cuts
    BY <1>2 DEF Deliver, client
  <2>4. arrived' = arrived \cup {<<n, i, k>>}
    <3>1. Parsed(f.datagram) = Media(n, i, k)
      BY <2>1, CutArrives DEF OrderInv, Bounded
    <3> QED BY <1>2, <3>1 DEF Deliver, Media
  <2>5. \A j \in 1..Len(handed') :
          \/ \E l \in 1..Len(handed) : handed'[j] = handed[l]
          \/ \E l \in 1..Len(window'.out) : handed'[j] = {window'.out[l].sequence}
    BY <2>1, <2>2, <2>3, DeliverHands DEF OrderInv, Bounded
  <2>6. CASE initialized = FALSE /\ Brings(window', FlowStart(n), cuts, {<<n, i, k>>})
    <3>1. n \in MediaSequences
      BY <2>1, WindowAssumption DEF Cut, MediaSequences, Bounded, OrderInv, ClientInv
    <3>2. DOMAIN FlowStart(n).buffered = {} /\ DOMAIN FlowStart(n).fragments = {}
      BY <2>6, <3>1, FlowStarts DEF OrderInv
    <3>3. HasArrived(FlowStart(n), cuts, arrived')
      BY <3>2 DEF HasArrived
    <3> QED BY <2>3, <2>4, <2>5, <2>6, <3>3, TurnArrives
  <2>7. CASE initialized = TRUE /\ Brings(window', Fresh(window), cuts, {<<n, i, k>>})
    <3>1. HasArrived(Fresh(window), cuts, arrived)
      BY <2>7, FlowResumes DEF OrderInv, ArrivedInv, HasArrived
    <3>2. HasArrived(Fresh(window), cuts, arrived')
      BY <2>4, <3>1, ArrivedGrows
    <3> QED BY <2>3, <2>4, <2>5, <2>7, <3>2, TurnArrives
  <2> QED BY <2>2, <2>6, <2>7 DEF Delivers
<1>3. ASSUME ServerTimeout
      PROVE  ArrivedInv'
  <2>1. Handed /\ cuts' = cuts /\ arrived' = arrived
    BY <1>3 DEF ServerTimeout, client
  <2>2. CASE TimeoutAdvance
    <3>1. /\ initialized = TRUE /\ Brings(window', Fresh(window), cuts, {})
          /\ Turn(window', Fresh(window), cuts, Len(cuts) - 1)
      BY <2>2, TimeoutTurns DEF OrderInv
    <3>2. Fresh(window).next = window.next /\ Delivered(handed, window.next)
      BY <3>1, FlowResumes DEF OrderInv, HandedInv
    <3>3. \A j \in 1..Len(handed') :
            \/ \E l \in 1..Len(handed) : handed'[j] = handed[l]
            \/ \E l \in 1..Len(window'.out) : handed'[j] = {window'.out[l].sequence}
      BY <1>0, <2>1, <3>1, <3>2, ServerHands DEF OrderInv
    <3>4. HasArrived(Fresh(window), cuts, arrived')
      BY <2>1, <3>1, FlowResumes DEF OrderInv, ArrivedInv, HasArrived
    <3>5. arrived' = arrived \cup {}
      BY <2>1
    <3> QED BY <2>1, <3>1, <3>3, <3>4, <3>5, TurnArrives
  <2>3. CASE TimeoutIdle \/ TimeoutNoFlow
    <3>1. initialized' = FALSE /\ window'.out = << >>
      BY <1>0, <2>3
      DEF TimeoutIdle, TimeoutNoFlow, Fresh, OrderInv, TimeInv, Inv, AtRest, Sound, WindowFields
    <3>2. handed' = handed
      BY <2>1, <3>1, NothingHanded DEF OrderInv, HandedInv
    <3> QED BY <2>1, <3>1, <3>2 DEF ArrivedInv
  <2> QED BY <1>3, <2>2, <2>3 DEF ServerTimeout, Timeout
<1>4. ASSUME ClockTick
      PROVE  ArrivedInv'
  <2>1. Tick /\ initialized' = initialized /\ UNCHANGED <<handed, cuts, arrived>>
    BY <1>4 DEF ClockTick, Tick
  <2>2. initialized = TRUE => HasArrived(window', cuts, arrived)
    BY <2>1, TickKeeps DEF OrderInv, ArrivedInv
  <2> QED BY <2>1, <2>2 DEF ArrivedInv
<1>5. CASE UNCHANGED <<initialized, window, handed, cuts, arrived>>
  BY <1>5 DEF ArrivedInv
<1> QED
  BY <1>1, <1>2, <1>3, <1>4, <1>5, SendEmits
  DEF StreamNext, RepairTask, Lose, streamVars, vars, client

(* What reorder_loop sends to the UDP target is whole packets of the       *)
(* client, each put together from all fragments of a cut of that packet    *)
(* and no others, in the order in which the client sent them, whatever the *)
(* paths lose, delay or reorder and whatever is sent again on request: on  *)
(* the first lap of sequences, when a request and its answer take less     *)
(* time than an idle flow is kept.                                         *)
THEOREM PacketsHandedInOrder ==
  ASSUME RequestLatency + Latency < FlowIdleReset, DOMAIN FecPayload = {}
  PROVE  StreamSpec /\ []Bounded => []HandedInOrder
<1>1. OrderInv /\ ArrivedInv => HandedInOrder
  <2> SUFFICES ASSUME Delivered(handed, Len(cuts)), ArrivedInv PROVE HandedInOrder
    BY DEF OrderInv, HandedInv
  <2>1. DOMAIN handed = 1..Len(handed)
    BY DEF Delivered, IsSequence
  <2>2. \A i \in DOMAIN handed : Cardinality(handed[i]) = 1
    BY <2>1, FS_Singleton DEF Delivered
  <2>3. \A i \in DOMAIN handed : \A n \in handed[i] : ArrivedWhole(n)
    BY <2>1 DEF ArrivedInv, ArrivedWhole, WholeIn
  <2> QED BY <2>1, <2>2, <2>3 DEF Delivered, HandedInOrder
<1>2. StreamInit => ArrivedInv
  BY DEF StreamInit, Init, ArrivedInv
<1>3. /\ OrderInv /\ OrderInv' /\ Bounded /\ Bounded' /\ ArrivedInv
      /\ [StreamNext]_streamVars
      => ArrivedInv'
  BY NextArrived
<1> QED BY <1>1, <1>2, <1>3, OrderHolds, PTL DEF StreamSpec

(* No packet reaches the target twice, however many paths and answers to   *)
(* repair requests carried it, within the same limits; the run wrap shows  *)
(* a packet that does past the first lap.                                  *)
THEOREM PacketsHandedOnce ==
  ASSUME RequestLatency + Latency < FlowIdleReset, DOMAIN FecPayload = {}
  PROVE  StreamSpec /\ []Bounded => []HandedOnce
<1>1. OrderInv => HandedOnce
  <2> SUFFICES ASSUME Delivered(handed, Len(cuts)), 
                      NEW i \in DOMAIN handed, NEW j \in DOMAIN handed, i # j,
                      NEW m \in handed[i] \cap handed[j]
               PROVE  FALSE
    BY DEF OrderInv, HandedInv, HandedOnce
  <2>1. DOMAIN handed = 1..Len(handed) /\ i \in 1..Len(handed) /\ j \in 1..Len(handed)
    BY DEF Delivered, IsSequence
  <2>2. m \in Nat
    BY <2>1 DEF Delivered
  <2>3. i < j \/ j < i
    BY <2>1
  <2> QED BY <2>1, <2>2, <2>3 DEF Delivered
<1> QED BY <1>1, OrderHolds, PTL

-----------------------------------------------------------------------------
(* Without --repair nothing is asked for. *)

(* Neither do recovery, expiry and the drain. *)
LEMMA AdvanceAsksNothing ==
  ASSUME Repair = FALSE, NEW w, Sound(w), w.requests = {}, NEW v \in Advance({w})
  PROVE  v.requests = {}
<1> DEFINE R == RecoverFecReady(w)
<1>1. PICK x \in R : v = Drain(Expire(x))
  BY DEF Advance, RepairsAsked
<1>2. Sound(x) /\ x.requests = {}
  BY RecoverFecReadySound, RecoverRequestsNothing DEF AtRest
<1>3. Sound(Expire(x))
  BY <1>2, ExpireSound
<1> HIDE DEF R
<1>4. DOMAIN x = WindowFields /\ DOMAIN Expire(x) = WindowFields
  BY <1>2, <1>3 DEF Sound
<1>5. Expire(x).requests = {}
  BY <1>2, <1>4, ExpireFields
<1> QED BY <1>1, <1>4, <1>5, DrainFields

(* Neither does a packet that is stored. *)
LEMMA StoreMediaAsksNothing ==
  ASSUME Repair = FALSE, NEW w, AtRest(w), WindowTyped(w), w.requests = {},
         NEW p \in Packets, p.sequence >= w.next, NEW v \in StoreMedia(w, p)
  PROVE  v.requests = {}
<1>0. Sound(w)
  BY DEF AtRest
<1>1. ASSUME NEW payload, NEW u \in StoreWhole(w, p, payload)
      PROVE  u.requests = {}
  <2> DEFINE P == [s \in {p.sequence} |-> payload]
  <2>1. DOMAIN P \subseteq w.next..MaxMediaSequence
    BY <1>0, ReorderAssumption, WindowAssumption DEF Sound, MediaSequences
  <2>2. u \in Advance({Accept(w, P)})
    BY <1>1 DEF StoreWhole
  <2> HIDE DEF P
  <2>3. Sound(Accept(w, P)) /\ Accept(w, P).requests = {}
    BY <1>0, <2>1, AcceptSound, AcceptRequestsNothing DEF AtRest, Sound
  <2> QED BY <2>2, <2>3, AdvanceAsksNothing
<1>2. CASE ~AlreadyHeld(w, p) /\ p.fragments # 1
  <2> DEFINE a == WithFragment(w, p)
             x == [w EXCEPT !.fragments = With(@, [s \in {p.sequence} |-> a])]
  <2>1. v \in StoreFragment(w, p)
    BY <1>2 DEF StoreMedia
  <2>2. CASE IsComplete(a)
    <3>1. v \in StoreWhole(w, p, IntoPayload(a))
      BY <2>1, <2>2 DEF StoreFragment
    <3> QED BY <1>1, <3>1
  <2>3. CASE ~IsComplete(a)
    <3>1. v \in Advance({x})
      BY <2>1, <2>3 DEF StoreFragment
    <3>2. /\ p.sequence \notin DOMAIN w.buffered
          /\ p.sequence \in DOMAIN w.fragments => w.fragments[p.sequence].total = p.fragments
      BY <1>2 DEF AlreadyHeld
    <3>3. Sound(x)
      BY <1>0, <2>3, <3>2, JoinAssembly
    <3>4. x.requests = {}
      BY <1>0 DEF Sound, WindowFields
    <3> HIDE DEF x
    <3> QED BY <3>1, <3>3, <3>4, AdvanceAsksNothing
  <2> QED BY <2>2, <2>3
<1>3. CASE AlreadyHeld(w, p)
  BY <1>3 DEF StoreMedia
<1>4. CASE ~AlreadyHeld(w, p) /\ p.fragments = 1
  BY <1>1, <1>4 DEF StoreMedia
<1> QED BY <1>2, <1>3, <1>4

(* No turn of reorder_loop makes a request. *)
LEMMA LoopAsksNothing ==
  ASSUME Repair = FALSE, Inv, TypeInv, window.requests = {}, [Next]_vars
  PROVE  window'.requests = {}
<1> DEFINE w == Fresh(window)
<1>1. /\ AtRest(w) /\ Sound(w) /\ WindowTyped(w) /\ DOMAIN w = WindowFields
      /\ w.next = window.next /\ w.requests = {}
  <2>1. AtRest(window) /\ WindowTyped(window) /\ DOMAIN window = WindowFields
    BY DEF Inv, TypeInv, AtRest, Sound
  <2>2. w.requests = {}
    BY <2>1 DEF Fresh, WindowFields
  <2> QED BY <2>1, <2>2, FreshSound, FreshTyped DEF AtRest, Sound
<1>2. ASSUME window' \in Advance({w}) PROVE window'.requests = {}
  <2> HIDE DEF w
  <2> QED BY <1>1, <1>2, AdvanceAsksNothing
<1>3. ASSUME NEW c \in Connections, NEW p \in Packets, StartFlow(c, p)
      PROVE  window'.requests = {}
  <2>1. window' \in StoreMedia(FlowStart(p.sequence), p) /\ initialized = FALSE
    BY <1>3 DEF StartFlow, FlowStart, Inv
  <2>2. p.sequence \in MediaSequences /\ p.sequence >= p.sequence
    BY ReorderAssumption, WindowAssumption DEF MediaSequences
  <2>3. /\ AtRest(FlowStart(p.sequence)) /\ WindowTyped(FlowStart(p.sequence))
        /\ FlowStart(p.sequence).next = p.sequence /\ FlowStart(p.sequence).requests = {}
    BY <2>1, <2>2, FlowStarts
  <2> QED BY <2>1, <2>2, <2>3, StoreMediaAsksNothing
<1>4. ASSUME NEW c \in Connections, NEW p \in Packets, ContinueFlow(c, p)
      PROVE  window'.requests = {}
  <2>1. p.sequence >= w.next /\ window' \in StoreMedia(w, p)
    BY <1>1, <1>4 DEF ContinueFlow
  <2> HIDE DEF w
  <2> QED BY <1>1, <2>1, StoreMediaAsksNothing
<1>5. ASSUME NEW c \in Connections, NEW p \in Packets, ConfirmRestart(c, p)
      PROVE  window'.requests = {}
  <2> DEFINE u == EmptyWindow(p.sequence)
  <2>1. window' \in StoreMedia(u, p)
    BY <1>5 DEF ConfirmRestart
  <2>2. p.sequence \in MediaSequences /\ p.sequence >= u.next /\ u.requests = {}
    BY ReorderAssumption, WindowAssumption DEF MediaSequences, EmptyWindow
  <2>3. AtRest(u) /\ WindowTyped(u)
    BY <2>2, EmptyWindowSound, EmptyWindowTyped
  <2> HIDE DEF u
  <2> QED BY <2>1, <2>2, <2>3, StoreMediaAsksNothing
<1>6. ASSUME TimeoutIdle PROVE window'.requests = {}
  <2>1. window' = [w EXCEPT !.next = 0, !.skipped = << >>, !.gap = << >>]
    BY <1>6 DEF TimeoutIdle
  <2> HIDE DEF w
  <2> QED BY <1>1, <2>1 DEF WindowFields
<1>7. ASSUME Tick PROVE window'.requests = {}
  <2>1. window' = Aged(w)
    BY <1>7 DEF Tick
  <2> HIDE DEF w
  <2> QED BY <1>1, <2>1 DEF Aged, WindowFields
<1>8. window' = w => window'.requests = {}
  BY <1>1
<1> HIDE DEF w
<1> QED
  BY <1>2, <1>3, <1>4, <1>5, <1>6, <1>7, <1>8
  DEF Next, ReceivePacket, Timeout, DropBehind, ReceiveFec, TimeoutAdvance, TimeoutNoFlow, vars, w

(* So the client repairs nothing. *)
QuietInv ==
  /\ window.requests = {} /\ asked = {}
  /\ \A f \in network : f.repair = FALSE

(* So no frame is ever an answer. *)
LEMMA NextQuiet ==
  ASSUME Repair = FALSE, OrderInv, QuietInv, Bounded, Bounded', [StreamNext]_streamVars
  PROVE  QuietInv'
<1>1. window'.requests = {}
  BY LoopAsksNothing, StreamRunsLoop DEF OrderInv, QuietInv
<1>2. Asked => asked' = {}
  BY <1>1 DEF Asked, QuietInv
<1>3. ASSUME NEW K, NEW F, Emits(K, F)
      PROVE  asked' = {} /\ \A f \in network' : f.repair = FALSE
  <2>1. \A f \in network' \ network : f.repair = FALSE
    BY <1>3, EmittedFlight DEF OrderInv, Bounded
  <2> QED BY <1>3, <2>1 DEF Emits, Emit, QuietInv
<1>4. ASSUME NEW a \in asked PROVE FALSE
  BY <1>4 DEF QuietInv
<1>5. ASSUME ClockTick
      PROVE  asked' = {} /\ \A f \in network' : f.repair = FALSE
  <2>1. /\ network' = {[f EXCEPT !.age = @ + 1] : f \in network}
        /\ asked' = {[a EXCEPT !.age = @ + 1] : a \in asked}
    BY <1>5 DEF ClockTick
  <2>2. ASSUME NEW g \in network' PROVE g.repair = FALSE
    <3>1. PICK f \in network : g = [f EXCEPT !.age = @ + 1]
      BY <2>1
    <3>2. f \in [path : Paths, datagram : {f.datagram}, repair : BOOLEAN, age : 0..Latency]
      BY DEF OrderInv, NetworkInv
    <3> QED BY <3>1, <3>2 DEF QuietInv
  <2> QED BY <2>1, <2>2 DEF QuietInv
<1>6. ASSUME network' \subseteq network, asked' = {}
      PROVE  asked' = {} /\ \A f \in network' : f.repair = FALSE
  BY <1>6 DEF QuietInv
<1>7. asked' = {} /\ \A f \in network' : f.repair = FALSE
  BY <1>2, <1>3, <1>4, <1>5, <1>6, SendEmits
  DEF StreamNext, Lose, Deliver, ServerTimeout, streamVars, QuietInv
<1> QED BY <1>1, <1>7 DEF QuietInv

-----------------------------------------------------------------------------
(* What the server gives up. *)

(* What was handed stays handed, and what is gone stays gone: nothing is   *)
(* sent twice unless the server asks for it.                               *)
LEMMA HandedStays ==
  ASSUME Delivered(handed, Len(cuts)), Delivered(handed', Len(cuts')),
         \A j \in 1..Len(handed) : \E l \in 1..Len(handed') : handed'[l] = handed[j],
         NEW n, WasHanded(n)
  PROVE  WasHanded(n)'
<1>1. DOMAIN handed = 1..Len(handed) /\ DOMAIN handed' = 1..Len(handed')
  BY DEF Delivered, IsSequence
<1> QED BY <1>1 DEF WasHanded

(* A packet that is lost on every path stays lost: nobody sends it again. *)
LEMMA GoneStays ==
  ASSUME OrderInv, QuietInv, Bounded, Bounded', [StreamNext]_streamVars,
         NEW n, n \in Nat, Gone(n)
  PROVE  Gone(n)'
<1>1. n \in 0..(Len(cuts) - 1) /\ ClientInv /\ NetworkInv
  <2>1. ClientInv /\ NetworkInv
    BY DEF OrderInv
  <2>2. Len(cuts) \in Nat
    BY <2>1 DEF ClientInv
  <2>3. n < Len(cuts)
    BY DEF Gone
  <2> QED BY <2>1, <2>2, <2>3
<1>2. cuts'[n + 1] = cuts[n + 1] /\ n < Len(cuts')
  BY <1>1, CutsStay, SMTT(20) DEF ClientInv
<1>3. ASSUME NEW k \in cuts[n + 1], NEW i \in 0..(k - 1),
             <<n, i, k>> \notin arrived, ~InFlight(n, i, k)
      PROVE  <<n, i, k>> \notin arrived' /\ ~InFlight(n, i, k)'
  <2>1. \A f \in network : f.datagram # FrameOf(n, i, k)
    BY <1>3 DEF InFlight
  <2>2. ASSUME NEW K, NEW F, Emits(K, F)
        PROVE  /\ arrived' = arrived
               /\ \A f \in network' : f.datagram # FrameOf(n, i, k)
    <3>1. ASSUME NEW f \in network' \ network
          PROVE  f.datagram # FrameOf(n, i, k)
      <4>1. \E j, l : f.datagram = FrameOf(Len(cuts), j, l)
        BY <1>1, <2>2, <3>1, EmittedFlight DEF Bounded
      <4>2. n # Len(cuts)
        BY <1>1
      <4> QED BY <4>1, <4>2, FramesApart
    <3> QED BY <2>1, <2>2, <3>1 DEF Emits, Emit
  <2>3. ASSUME NEW a \in asked PROVE FALSE
    BY <2>3 DEF QuietInv
  <2>4. ASSUME NEW f \in network, Deliver(f)
        PROVE  <<n, i, k>> \notin arrived'
    <3>1. PICK m, j, l : /\ f.datagram = FrameOf(m, j, l)
                         /\ Parsed(f.datagram) = Media(m, j, l)
      BY <1>1, FlightOfPacket DEF Bounded
    <3>2. arrived' = arrived \cup {<<m, j, l>>}
      BY <2>4, <3>1 DEF Deliver, Media
    <3>3. <<m, j, l>> # <<n, i, k>>
      BY <2>1, <3>1
    <3> QED BY <1>3, <3>2, <3>3
  <2>5. ASSUME ClockTick
        PROVE  /\ arrived' = arrived
               /\ \A f \in network' : f.datagram # FrameOf(n, i, k)
    <3>1. /\ network' = {[f EXCEPT !.age = @ + 1] : f \in network} /\ arrived' = arrived
      BY <2>5 DEF ClockTick
    <3>2. ASSUME NEW g \in network' PROVE \E f \in network : g.datagram = f.datagram
      <4>1. PICK f \in network : g = [f EXCEPT !.age = @ + 1]
        BY <3>1
      <4>2. f \in [path : Paths, datagram : {f.datagram}, repair : BOOLEAN, age : 0..Latency]
        BY <1>1 DEF NetworkInv
      <4> QED BY <4>1, <4>2
    <3> QED BY <2>1, <3>1, <3>2
  <2>6. /\ <<n, i, k>> \notin arrived'
        /\ \A f \in network' : f.datagram # FrameOf(n, i, k)
    <3>1. ASSUME network' \subseteq network PROVE \A f \in network' : f.datagram # FrameOf(n, i, k)
      BY <2>1, <3>1
    <3> QED
      BY <1>3, <2>2, <2>3, <2>4, <2>5, <3>1, SendEmits
      DEF StreamNext, Lose, Deliver, ServerTimeout, streamVars
  <2> QED BY <2>6 DEF InFlight
<1> QED BY <1>2, <1>3 DEF Gone

(* Where a packet that arrived may be: it was handed to the target, or its *)
(* other fragments are gone, or a flow started after it.                   *)
Settled(n) == WasHanded(n) \/ Gone(n) \/ \E m \in starts : n < m

(* In a flow, no frame in flight is younger than what waits ahead of it;   *)
(* every frame that arrived is in the window unless next is past it; what  *)
(* is behind next was handed, is gone, or is before the start.  Where no   *)
(* flow is in progress, every packet that arrived is settled and behind    *)
(* what is in flight.                                                      *)
LossInv ==
  /\ \A a \in arrived : \E n, i, k : a = <<n, i, k>> /\ Cut(n, i, k)
  /\ initialized = TRUE =>
       /\ \A t \in Pending(window), f \in network :
            PacketOf(f) <= t => f.age >= PendingAge(window, t)
       /\ \A n, i, k : <<n, i, k>> \in arrived /\ n >= window.next => Holds(window, n, i, k)
       /\ \A s \in window.skips : Gone(s)
       /\ window.start \in starts
       /\ \A d \in window.delivered : WasHanded(d)
  /\ initialized = FALSE =>
       \A n, i, k : <<n, i, k>> \in arrived =>
         /\ \A f \in network : n < PacketOf(f)
         /\ Settled(n)

(* A fragment is missing of each cut of a packet that is not held whole. *)
LEMMA CutMissing ==
  ASSUME OrderInv, LossInv, initialized = TRUE, NEW s \in 0..(Len(cuts) - 1), s >= window.next,
         s \notin DOMAIN window.buffered, NEW k \in cuts[s + 1]
  PROVE  \E i \in 0..(k - 1) : <<s, i, k>> \notin arrived
<1> SUFFICES ASSUME \A i \in 0..(k - 1) : <<s, i, k>> \in arrived PROVE FALSE
  OBVIOUS
<1>1. /\ k \in 1..MaxFragments
      /\ \A j, l \in cuts[s + 1] \ {1} : j = l
  BY CutCounts DEF OrderInv
<1>2. ASSUME NEW i \in 0..(k - 1)
      PROVE  k # 1 /\ s \in DOMAIN window.fragments /\ i \in DOMAIN window.fragments[s].got
  <2>1. Holds(window, s, i, k)
    BY DEF LossInv
  <2> QED BY <2>1 DEF Holds
<1>3. 0 \in 0..(k - 1)
  BY <1>1
<1>4. k # 1 /\ s \in DOMAIN window.fragments
  BY <1>2, <1>3
<1>5. window.fragments[s].total = k
  <2>1. window.fragments[s].total \in cuts[s + 1] \ {1}
    BY <1>4 DEF OrderInv, FlowInv, OfOnePacket
  <2> QED BY <1>1, <1>4, <2>1
<1>6. Missing(window.fragments[s]) = {}
  BY <1>2, <1>5 DEF Missing
<1> QED BY <1>4, <1>6 DEF OrderInv, TypeInv, WindowTyped

(* What may be skipped is gone: it would have arrived before the packet    *)
(* that waits for it is overdue.                                           *)
LEMMA SkipsAreGone ==
  ASSUME Latency < MaxReorderDelay, OrderInv, LossInv, Bounded, initialized = TRUE,
         NEW s \in Nat, s >= window.next, MaySkip(window, s)
  PROVE  Gone(s)
<1>1. PICK t \in Pending(window) : t >= s /\ Overdue(window, t)
  BY DEF MaySkip
<1>2. /\ t \in Nat /\ t <= Len(cuts) - 1 /\ Len(cuts) \in Nat
      /\ PendingAge(window, t) \in Nat /\ PendingAge(window, t) >= MaxReorderDelay
      /\ Latency \in Nat /\ MaxReorderDelay \in Nat
  <2>1. t \in Nat
    BY WindowAssumption DEF OrderInv, Inv, AtRest, Sound, MediaSequences, Pending
  <2>2. t <= Len(cuts) - 1 /\ Len(cuts) \in Nat
    BY DEF OrderInv, FlowInv, ClientInv, Within
  <2>3. PendingAge(window, t) \in Nat
    BY PendingAgeIsNat DEF OrderInv, TypeInv
  <2> QED BY <1>1, <2>1, <2>2, <2>3, StreamAssumption, WindowAssumption DEF Overdue
<1>3. s \in 0..(Len(cuts) - 1) /\ s \notin DOMAIN window.buffered
  BY <1>1, <1>2 DEF MaySkip
<1>4. ASSUME NEW f \in network, PacketOf(f) <= t PROVE FALSE
  <2>1. f.age >= PendingAge(window, t)
    BY <1>4 DEF LossInv
  <2>2. f.age \in 0..Latency
    BY DEF OrderInv, NetworkInv
  <2> QED BY <1>2, <2>1, <2>2
<1>5. ASSUME NEW k \in cuts[s + 1], NEW i \in 0..(k - 1) PROVE ~InFlight(s, i, k)
  <2>1. SUFFICES ASSUME NEW f \in network, f.datagram = FrameOf(s, i, k) PROVE FALSE
    BY DEF InFlight
  <2>2. Cut(s, i, k)
    BY <1>3 DEF Cut
  <2>3. Parsed(FrameOf(s, i, k)) = Media(s, i, k)
    BY <2>2, CutArrives DEF OrderInv, Bounded
  <2>4. PacketOf(f) = s
    BY <2>1, <2>3 DEF PacketOf, Media
  <2> QED BY <1>1, <1>4, <2>4
<1>6. ASSUME NEW k \in cuts[s + 1]
      PROVE  \E i \in 0..(k - 1) : <<s, i, k>> \notin arrived /\ ~InFlight(s, i, k)
  BY <1>3, <1>5, CutMissing
<1>7. s < Len(cuts)
  BY <1>2, <1>3
<1> QED BY <1>6, <1>7 DEF Gone

(* What is behind next in a flow is settled. *)
LEMMA BehindIsSettled ==
  ASSUME OrderInv, LossInv, initialized = TRUE, NEW n \in Nat, n < window.next
  PROVE  Settled(n)
<1>1. /\ window.start \in Nat /\ window.next \in Nat
      /\ window.delivered \cup window.skips = window.start..(window.next - 1)
  BY WindowAssumption
  DEF OrderInv, FlowInv, Inv, Accounted, AtRest, Sound, MediaSequences
<1>2. CASE n < window.start
  BY <1>2 DEF LossInv, Settled
<1>3. CASE n >= window.start
  <2>1. n \in window.delivered \cup window.skips
    BY <1>1, <1>3
  <2> QED BY <2>1 DEF LossInv, Settled
<1> QED BY <1>1, <1>2, <1>3

(* A turn of the server that goes on with a flow, or starts one, skips     *)
(* only what is gone, and accounts for what it forwards.                   *)
LEMMA TurnLoses ==
  ASSUME Latency < MaxReorderDelay, OrderInv, LossInv, Bounded, Inv',
         initialized = TRUE, initialized' = TRUE,
         Turn(window', Fresh(window), cuts, Len(cuts) - 1)
  PROVE  /\ \A s \in window'.skips : s \in Nat /\ Gone(s)
         /\ \A t \in Pending(window') :
              \/ PendingAge(window', t) = 0
              \/ t \in Pending(window) /\ PendingAge(window', t) = PendingAge(window, t)
         /\ \A n, i, k : n >= window'.next /\ Holds(window, n, i, k) => Holds(window', n, i, k)
         /\ window'.start = window.start /\ window'.next >= window.next
         /\ \A d \in window'.delivered :
              d \in window.delivered \/ \E i \in 1..Len(window'.out) : window'.out[i].sequence = d
<1> DEFINE w == Fresh(window)
<1>1. /\ w.next = window.next /\ w.start = window.start
      /\ w.delivered = window.delivered /\ w.skips = window.skips
      /\ w.buffered = window.buffered /\ w.fragments = window.fragments
  BY FlowResumes DEF OrderInv
<1>2. Turn(window', w, cuts, Len(cuts) - 1)
  OBVIOUS
<1> HIDE DEF w
<1>3. /\ Pending(w) = Pending(window)
      /\ \A t : PendingAge(w, t) = PendingAge(window, t)
      /\ \A n, i, k : Holds(w, n, i, k) <=> Holds(window, n, i, k)
      /\ \A s : MaySkip(w, s) <=> MaySkip(window, s)
  BY <1>1 DEF Pending, PendingAge, Holds, MaySkip, Overdue
<1>4. window.skips \subseteq Nat /\ window.next \in Nat
  BY WindowAssumption
  DEF OrderInv, FlowInv, Inv, Accounted, AtRest, Sound, MediaSequences
<1>5. ASSUME NEW s \in window'.skips, s \notin window.skips
      PROVE  s \in Nat /\ Gone(s)
  <2>1. s >= window.next
    BY <1>1, <1>2, <1>5 DEF Turn
  <2>2. MaySkip(window, s)
    BY <1>1, <1>2, <1>3, <1>5 DEF Turn, Patient
  <2>3. s \in Nat
    BY <1>2, <1>5 DEF Turn, Inv, Accounted
  <2> QED BY <2>1, <2>2, <2>3, SkipsAreGone
<1>6. \A s \in window'.skips : s \in Nat /\ Gone(s)
  BY <1>4, <1>5 DEF LossInv
<1>7. window'.next >= window.next
  BY <1>1, <1>2 DEF Turn, Ordered
<1> QED BY <1>1, <1>2, <1>3, <1>6, <1>7 DEF Turn

(* The turn that starts a flow skips nothing. *)
LEMMA StartLoses ==
  ASSUME OrderInv, initialized = FALSE, NEW n \in MediaSequences,
         Turn(window', FlowStart(n), cuts, Len(cuts) - 1)
  PROVE  /\ window'.skips = {} /\ window'.start = n /\ window'.next >= n
         /\ \A t \in Pending(window') : PendingAge(window', t) = 0
         /\ \A d \in window'.delivered : \E i \in 1..Len(window'.out) : window'.out[i].sequence = d
<1> DEFINE w == FlowStart(n)
<1>1. /\ w.next = n /\ w.start = n /\ w.delivered = {} /\ w.skips = {}
      /\ DOMAIN w.buffered = {} /\ DOMAIN w.fragments = {}
  BY FlowStarts DEF OrderInv
<1>2. Turn(window', w, cuts, Len(cuts) - 1)
  OBVIOUS
<1> HIDE DEF w
<1>3. Pending(w) = {}
  BY <1>1 DEF Pending
<1>4. window'.skips = {}
  <2>1. \A s : ~MaySkip(w, s)
    BY <1>3 DEF MaySkip
  <2> QED BY <1>1, <1>2, <2>1 DEF Turn, Patient
<1>5. window'.next >= n
  BY <1>1, <1>2 DEF Turn, Ordered
<1> QED BY <1>1, <1>2, <1>3, <1>4, <1>5 DEF Turn

(* Every step of the stream keeps the accounts of LossInv: what arrives is *)
(* held, what is forwarded was handed over, and what expires is gone,      *)
(* since its frames have all arrived or been lost by then.                 *)
LEMMA NextLoss ==
  ASSUME Repair = FALSE, Latency < MaxReorderDelay, RequestLatency + Latency < FlowIdleReset,
         DOMAIN FecPayload = {}, OrderInv, OrderInv', QuietInv, LossInv, Bounded, Bounded',
         [StreamNext]_streamVars
  PROVE  LossInv'
<1> USE DEF OrderInv
<1>0. /\ window.next \in Nat /\ initialized \in BOOLEAN /\ Len(cuts) \in Nat
      /\ \A n, i, k : Cut(n, i, k) => n \in Nat /\ n < Len(cuts)
      /\ \A n, i, k : <<n, i, k>> \in arrived => Cut(n, i, k)
  BY WindowAssumption DEF Inv, AtRest, Sound, MediaSequences, ClientInv, Cut, LossInv
<1>1. \A n, i, k : Cut(n, i, k) => Cut(n, i, k)'
  BY CutsStay
<1>2. \A n \in Nat : Gone(n) => Gone(n)'
  BY GoneStays
<1>3. \A n : WasHanded(n) => WasHanded(n)'
  <2>1. \A j \in 1..Len(handed) : \E l \in 1..Len(handed') : handed'[l] = handed[j]
    BY NextHanded
  <2>2. Delivered(handed, Len(cuts)) /\ Delivered(handed', Len(cuts'))
    BY DEF HandedInv
  <2> QED BY <2>1, <2>2, HandedStays
<1>4. ASSUME starts \subseteq starts', NEW n \in Nat, Settled(n) PROVE Settled(n)'
  BY <1>2, <1>3, <1>4 DEF Settled
<1>5. initialized = TRUE => window.skips \subseteq Nat
  BY DEF Inv, Accounted, FlowInv
<1>6. ASSUME NEW K, NEW F, Emits(K, F)
      PROVE  LossInv'
  <2>1. UNCHANGED <<initialized, window, arrived, starts>>
    BY <1>6 DEF Emits, Emit, vars
  <2>2. ASSUME NEW f \in network' \ network
        PROVE  PacketOf(f) = Len(cuts)
    BY <1>6, EmittedFlight DEF Bounded
  <2>3. ASSUME initialized = TRUE, NEW t \in Pending(window), NEW f \in network', PacketOf(f) <= t
        PROVE  f.age >= PendingAge(window, t)
    <3>1. t <= Len(cuts) - 1 /\ t \in Nat
      BY <2>3, WindowAssumption
      DEF FlowInv, Within, Inv, AtRest, Sound, MediaSequences, Pending
    <3>2. f \in network
      BY <1>0, <2>2, <2>3, <3>1
    <3> QED BY <2>3, <3>2 DEF LossInv
  <2>4. ASSUME initialized = FALSE, NEW n, NEW i, NEW k, <<n, i, k>> \in arrived
        PROVE  (\A f \in network' : n < PacketOf(f)) /\ Settled(n)'
    <3>1. n \in Nat /\ n < Len(cuts)
      BY <1>0, <2>4
    <3>2. Settled(n)'
      BY <1>4, <2>1, <2>4, <3>1 DEF LossInv
    <3>3. \A f \in network' : n < PacketOf(f)
      BY <2>2, <2>4, <3>1 DEF LossInv
    <3> QED BY <3>2, <3>3
  <2> QED BY <1>1, <1>2, <1>3, <1>5, <2>1, <2>3, <2>4, ZenonT(30) DEF LossInv, PacketOf
<1>7. ASSUME NEW a \in asked PROVE FALSE
  BY <1>7 DEF QuietInv
<1>8. ASSUME NEW f, Lose(f)
      PROVE  LossInv'
  <2>1. /\ UNCHANGED <<initialized, window, arrived, starts>>
        /\ network' = network \ {f}
    BY <1>8 DEF Lose, vars
  <2>2. initialized = FALSE =>
          \A n, i, k : <<n, i, k>> \in arrived => Settled(n)'
    BY <1>0, <1>4, <2>1 DEF LossInv
  <2> QED BY <1>1, <1>2, <1>3, <1>5, <2>1, <2>2 DEF LossInv, PacketOf
<1>9. \A f \in network : f.age \in Nat
  BY StreamAssumption DEF NetworkInv
<1>10. ASSUME NEW f \in network, Deliver(f)
       PROVE  LossInv'
  <2>1. PICK n, i, k : /\ Cut(n, i, k) /\ f.datagram = FrameOf(n, i, k)
                       /\ Parsed(f.datagram) = Media(n, i, k)
                       /\ PacketOf(f) = n
    BY FlightOfPacket DEF Bounded
  <2>2. Delivers(n, i, k)
    BY <1>10, <2>1, DeliverTurns
  <2>3. /\ arrived' = arrived \cup {<<n, i, k>>}
        /\ starts' = IF initialized THEN starts ELSE starts \cup {n}
        /\ network' \subseteq network /\ Handed /\ initialized' = TRUE
    BY <1>10, <2>1, <2>2 DEF Deliver, Media, Delivers
  <2>4. \A j \in 1..Len(window'.out) :
          \E l \in 1..Len(handed') : handed'[l] = {window'.out[j].sequence}
    BY <2>1, <2>2, <2>3, DeliverHands DEF Bounded
  <2>5. \A d : (\E j \in 1..Len(window'.out) : window'.out[j].sequence = d) => WasHanded(d)'
    <3>1. DOMAIN handed' = 1..Len(handed')
      BY DEF HandedInv, Delivered, IsSequence
    <3> QED BY <2>4, <3>1 DEF WasHanded
  <2>6. \A a \in arrived' : \E m, j, l : a = <<m, j, l>> /\ Cut(m, j, l)'
    BY <1>1, <2>1, <2>3 DEF LossInv
  <2>7. n >= window'.next => Holds(window', n, i, k)
    BY <2>2 DEF Delivers
  <2>8. n \in MediaSequences /\ n \in Nat /\ window'.next \in Nat
    BY <1>0, <2>1, WindowAssumption DEF Bounded, MediaSequences, Inv, AtRest, Sound
  <2>9. CASE initialized = FALSE
    <3>1. Turn(window', FlowStart(n), cuts, Len(cuts) - 1)
      BY <2>2, <2>9 DEF Delivers
    <3>2. /\ window'.skips = {} /\ window'.start = n /\ window'.next >= n
          /\ \A t \in Pending(window') : PendingAge(window', t) = 0
          /\ \A d \in window'.delivered :
               \E j \in 1..Len(window'.out) : window'.out[j].sequence = d
      BY <2>8, <2>9, <3>1, StartLoses
    <3>3. n \in starts'
      BY <2>3, <2>9
    <3>4. ASSUME NEW m, NEW j, NEW l, <<m, j, l>> \in arrived', m >= window'.next
          PROVE  Holds(window', m, j, l)
      <4>1. CASE <<m, j, l>> = <<n, i, k>>
        BY <2>7, <3>4, <4>1
      <4>2. CASE <<m, j, l>> \in arrived
        <5>1. m < n /\ m \in Nat
          BY <1>0, <2>1, <2>9, <4>2 DEF LossInv
        <5> QED BY <2>8, <3>2, <3>4, <5>1
      <4> QED BY <2>3, <3>4, <4>1, <4>2
    <3>5. \A t \in Pending(window'), g \in network' : g.age >= PendingAge(window', t)
      BY <1>9, <2>3, <3>2
    <3> QED BY <2>3, <2>5, <2>6, <3>2, <3>3, <3>4, <3>5 DEF LossInv
  <2>10. CASE initialized = TRUE
    <3>1. Turn(window', Fresh(window), cuts, Len(cuts) - 1)
      BY <2>2, <2>10 DEF Delivers
    <3>2. /\ \A s \in window'.skips : s \in Nat /\ Gone(s)
          /\ \A t \in Pending(window') :
               \/ PendingAge(window', t) = 0
               \/ t \in Pending(window) /\ PendingAge(window', t) = PendingAge(window, t)
          /\ \A m, j, l : m >= window'.next /\ Holds(window, m, j, l) => Holds(window', m, j, l)
          /\ window'.start = window.start /\ window'.next >= window.next
          /\ \A d \in window'.delivered :
               d \in window.delivered \/ \E j \in 1..Len(window'.out) : window'.out[j].sequence = d
      BY <2>3, <2>10, <3>1, TurnLoses
    <3>3. window'.start \in starts'
      BY <2>3, <2>10, <3>2 DEF LossInv
    <3>4. ASSUME NEW m, NEW j, NEW l, <<m, j, l>> \in arrived', m >= window'.next
          PROVE  Holds(window', m, j, l)
      <4>1. CASE <<m, j, l>> = <<n, i, k>>
        BY <2>7, <3>4, <4>1
      <4>2. CASE <<m, j, l>> \in arrived
        <5>1. m >= window.next
          BY <1>0, <2>8, <3>2, <3>4, <4>2
        <5> QED BY <2>10, <3>2, <3>4, <4>2, <5>1 DEF LossInv
      <4> QED BY <2>3, <3>4, <4>1, <4>2
    <3>5. \A t \in Pending(window'), g \in network' :
            PacketOf(g) <= t => g.age >= PendingAge(window', t)
      BY <1>9, <2>3, <2>10, <3>2 DEF LossInv
    <3>6. \A s \in window'.skips : Gone(s)'
      BY <1>2, <3>2
    <3>7. \A d \in window'.delivered : WasHanded(d)'
      BY <1>3, <2>5, <2>10, <3>2 DEF LossInv
    <3> QED BY <2>3, <2>6, <3>3, <3>4, <3>5, <3>6, <3>7 DEF LossInv, PacketOf
  <2> QED BY <1>0, <2>9, <2>10
<1>11. ASSUME ServerTimeout
       PROVE  LossInv'
  <2>1. network' = network /\ Handed /\ UNCHANGED <<cuts, arrived, starts>>
    BY <1>11 DEF ServerTimeout, client
  <2>2. CASE TimeoutAdvance
    <3>1. /\ initialized = TRUE /\ initialized' = TRUE
          /\ Turn(window', Fresh(window), cuts, Len(cuts) - 1)
      BY <2>2, TimeoutTurns
    <3>2. /\ \A s \in window'.skips : s \in Nat /\ Gone(s)
          /\ \A t \in Pending(window') :
               \/ PendingAge(window', t) = 0
               \/ t \in Pending(window) /\ PendingAge(window', t) = PendingAge(window, t)
          /\ \A m, j, l : m >= window'.next /\ Holds(window, m, j, l) => Holds(window', m, j, l)
          /\ window'.start = window.start /\ window'.next >= window.next
          /\ \A d \in window'.delivered :
               d \in window.delivered \/ \E j \in 1..Len(window'.out) : window'.out[j].sequence = d
      BY <3>1, TurnLoses
    <3>3. \A d : (\E j \in 1..Len(window'.out) : window'.out[j].sequence = d) => WasHanded(d)'
      <4>1. Fresh(window).next = window.next /\ Delivered(handed, window.next)
        BY <3>1, FlowResumes DEF HandedInv
      <4>2. \A j \in 1..Len(window'.out) :
              \E l \in 1..Len(handed') : handed'[l] = {window'.out[j].sequence}
        BY <1>0, <2>1, <3>1, <4>1, ServerHands
      <4>3. DOMAIN handed' = 1..Len(handed')
        BY DEF HandedInv, Delivered, IsSequence
      <4> QED BY <4>2, <4>3 DEF WasHanded
    <3>4. ASSUME NEW m, NEW j, NEW l, <<m, j, l>> \in arrived', m >= window'.next
          PROVE  Holds(window', m, j, l)
      <4>1. window'.next \in Nat /\ m \in Nat
        BY <1>0, <2>1, <3>4, WindowAssumption DEF Inv, AtRest, Sound, MediaSequences
      <4>2. m >= window.next
        BY <1>0, <3>2, <3>4, <4>1
      <4> QED BY <2>1, <3>1, <3>2, <3>4, <4>2 DEF LossInv
    <3>5. \A t \in Pending(window'), g \in network' :
            PacketOf(g) <= t => g.age >= PendingAge(window', t)
      BY <1>9, <2>1, <3>1, <3>2 DEF LossInv
    <3>6. \A s \in window'.skips : Gone(s)'
      BY <1>2, <3>2
    <3>7. \A d \in window'.delivered : WasHanded(d)'
      BY <1>3, <3>1, <3>2, <3>3 DEF LossInv
    <3>8. \A a \in arrived' : \E m, j, l : a = <<m, j, l>> /\ Cut(m, j, l)'
      BY <1>1, <2>1 DEF LossInv
    <3>9. window'.start \in starts'
      BY <2>1, <3>1, <3>2 DEF LossInv
    <3> QED BY <3>1, <3>4, <3>5, <3>6, <3>7, <3>8, <3>9 DEF LossInv, PacketOf
  <2>3. CASE TimeoutIdle
    <3>1. initialized = TRUE /\ \A f \in network : ~(PacketOf(f) < window.next)
      BY <2>3, NothingOldInFlight
    <3>2. initialized' = FALSE /\ Pending(window) = {}
      BY <2>3 DEF TimeoutIdle, HasPendingState
    <3>3. ASSUME NEW n, NEW i, NEW k, <<n, i, k>> \in arrived
          PROVE  (\A f \in network : n < PacketOf(f)) /\ Settled(n)'
      <4>1. n \in Nat
        BY <1>0, <3>3
      <4>2. n < window.next
        <5>1. ~Holds(window, n, i, k)
          BY <3>2 DEF Holds, Pending
        <5>2. ~(n >= window.next)
          BY <3>1, <3>3, <5>1 DEF LossInv
        <5> QED BY <1>0, <4>1, <5>2
      <4>3. \A f \in network : PacketOf(f) \in Nat
        BY FlightOfPacket DEF Bounded
      <4>4. \A f \in network : n < PacketOf(f)
        BY <1>0, <3>1, <4>1, <4>2, <4>3
      <4>5. Settled(n)
        BY <3>1, <4>1, <4>2, BehindIsSettled
      <4>6. Settled(n)'
        BY <1>4, <2>1, <4>1, <4>5
      <4> QED BY <4>4, <4>6
    <3> QED BY <1>1, <2>1, <3>2, <3>3 DEF LossInv, PacketOf
  <2>4. CASE TimeoutNoFlow
    <3>1. initialized = FALSE /\ initialized' = FALSE
      BY <1>0, <2>4 DEF TimeoutNoFlow
    <3>2. \A n, i, k : <<n, i, k>> \in arrived => Settled(n)'
      BY <1>0, <1>4, <2>1, <3>1 DEF LossInv
    <3> QED BY <1>1, <2>1, <3>1, <3>2 DEF LossInv, PacketOf
  <2> QED BY <1>11, <2>2, <2>3, <2>4 DEF ServerTimeout, Timeout
<1>12. ASSUME ClockTick
       PROVE  LossInv'
  <2>1. /\ Tick /\ initialized' = initialized /\ arrived' = arrived /\ starts' = starts
        /\ network' = {[f EXCEPT !.age = @ + 1] : f \in network}
    BY <1>12 DEF ClockTick, Tick
  <2>2. ASSUME NEW g \in network'
        PROVE  \E f \in network : g.age = f.age + 1 /\ PacketOf(g) = PacketOf(f)
    <3>1. PICK f \in network : g = [f EXCEPT !.age = @ + 1]
      BY <2>1
    <3>2. f \in [path : Paths, datagram : {f.datagram}, repair : BOOLEAN, age : 0..Latency]
      BY DEF NetworkInv
    <3>3. g.age = f.age + 1 /\ g.datagram = f.datagram
      BY <3>1, <3>2
    <3> QED BY <3>3 DEF PacketOf
  <2>3. \A a \in arrived' : \E m, j, l : a = <<m, j, l>> /\ Cut(m, j, l)'
    BY <1>1, <2>1 DEF LossInv
  <2>4. CASE initialized = FALSE
    <3>1. ASSUME NEW n, NEW i, NEW k, <<n, i, k>> \in arrived
          PROVE  (\A g \in network' : n < PacketOf(g)) /\ Settled(n)'
      BY <1>0, <1>4, <2>1, <2>2, <2>4, <3>1 DEF LossInv
    <3> QED BY <2>1, <2>3, <2>4, <3>1 DEF LossInv, PacketOf
  <2>5. CASE initialized = TRUE
    <3>1. /\ window'.next = window.next /\ window'.start = window.start
          /\ window'.delivered = window.delivered /\ window'.skips = window.skips
          /\ \A n, i, k : Holds(window, n, i, k) => Holds(window', n, i, k)
          /\ \A t \in Pending(window') :
               t \in Pending(window) /\ PendingAge(window', t) <= PendingAge(window, t) + 1
      BY <2>1, <2>5, TickKeeps
    <3>2. ASSUME NEW t \in Pending(window'), NEW g \in network', PacketOf(g) <= t
          PROVE  g.age >= PendingAge(window', t)
      <4>1. PICK f \in network : g.age = f.age + 1 /\ PacketOf(g) = PacketOf(f)
        BY <2>2
      <4>2. t \in Pending(window) /\ PendingAge(window', t) <= PendingAge(window, t) + 1
        BY <3>1
      <4>3. f.age >= PendingAge(window, t)
        BY <2>5, <3>2, <4>1, <4>2 DEF LossInv
      <4>4. /\ f.age \in Nat
            /\ PendingAge(window, t) \in Nat /\ PendingAge(window', t) \in Nat
        BY <1>9, <4>2, PendingAgeIsNat DEF TypeInv
      <4> QED BY <4>1, <4>2, <4>3, <4>4
    <3>3. \A s \in window'.skips : Gone(s)'
      BY <1>2, <1>5, <2>5, <3>1 DEF LossInv
    <3>4. \A d \in window'.delivered : WasHanded(d)'
      BY <1>3, <2>5, <3>1 DEF LossInv
    <3>5. \A n, i, k : <<n, i, k>> \in arrived' /\ n >= window'.next => Holds(window', n, i, k)
      BY <2>1, <2>5, <3>1 DEF LossInv
    <3>6. window'.start \in starts'
      BY <2>1, <2>5, <3>1 DEF LossInv
    <3> QED BY <2>1, <2>3, <2>5, <3>2, <3>3, <3>4, <3>5, <3>6 DEF LossInv, PacketOf
  <2> QED BY <1>0, <2>4, <2>5
<1>13. ASSUME UNCHANGED <<initialized, window, arrived, starts, network>>
       PROVE  LossInv'
  <2>1. initialized = FALSE => \A n, i, k : <<n, i, k>> \in arrived => Settled(n)'
    BY <1>0, <1>4, <1>13 DEF LossInv
  <2> QED BY <1>1, <1>2, <1>3, <1>5, <1>13, <2>1 DEF LossInv, PacketOf
<1> QED
  BY <1>6, <1>7, <1>8, <1>10, <1>11, <1>12, <1>13, SendEmits
  DEF StreamNext, streamVars, vars

-----------------------------------------------------------------------------
(* All that holds of the stream without --repair. *)
NoRepairInv == OrderInv /\ QuietInv /\ LossInv

(* It holds before the first packet. *)
LEMMA InitNoRepair ==
  ASSUME StreamInit
  PROVE  NoRepairInv
<1>1. OrderInv
  BY InitOrder
<1>2. /\ initialized = FALSE /\ window = EmptyWindow(0)
      /\ network = {} /\ asked = {} /\ arrived = {}
  BY DEF StreamInit, Init
<1>3. QuietInv /\ LossInv
  BY <1>2 DEF QuietInv, LossInv, EmptyWindow
<1> QED BY <1>1, <1>3 DEF NoRepairInv

(* It holds as long as the stream stays on its first lap. *)
LEMMA NoRepairHolds ==
  ASSUME Repair = FALSE, Latency < MaxReorderDelay, RequestLatency + Latency < FlowIdleReset,
         DOMAIN FecPayload = {}
  PROVE  StreamSpec /\ []Bounded => []NoRepairInv
<1>1. StreamInit => NoRepairInv
  BY InitNoRepair
<1>2. ASSUME NoRepairInv, Bounded, Bounded', [StreamNext]_streamVars PROVE NoRepairInv'
  <2>1. OrderInv'
    BY <1>2, NextOrder DEF NoRepairInv
  <2> QED BY <1>2, <2>1, NextQuiet, NextLoss DEF NoRepairInv
<1>3. NoRepairInv /\ Bounded /\ Bounded' /\ [StreamNext]_streamVars => NoRepairInv'
  BY <1>2
<1> QED BY <1>1, <1>3, PTL DEF StreamSpec

(* Without --repair, and when frames that arrive do so before a gap        *)
(* expires, expire_reorder_gaps gives up a packet only if, of every cut it *)
(* was sent in, the network lost a fragment on every path: no packet is    *)
(* given up because it was overtaken or because a path was slow.           *)
THEOREM OnlyLostPacketsSkipped ==
  ASSUME Repair = FALSE, RequestLatency + Latency < FlowIdleReset, DOMAIN FecPayload = {}
  PROVE  StreamSpec /\ []Bounded => []SkipsOnlyLost
<1>1. CASE Latency < MaxReorderDelay
  <2>1. Bounded /\ NoRepairInv => SkipsOnlyLost
    <3> SUFFICES ASSUME Bounded, NoRepairInv, initialized,
                        NEW n \in 0..(Len(cuts) - 1), SequenceOf(n) \in window.skips
                 PROVE  Gone(n)
      BY DEF SkipsOnlyLost
    <3>1. SequenceOf(n) = n
      <4>1. n \in MediaSequences
        BY WindowAssumption
        DEF Bounded, NoRepairInv, OrderInv, ClientInv, MediaSequences
      <4> QED BY <4>1, FirstLap
    <3> QED BY <3>1 DEF NoRepairInv, LossInv
  <2> QED BY <1>1, <2>1, NoRepairHolds, PTL
<1>2. CASE ~(Latency < MaxReorderDelay)
  <2>1. SkipsOnlyLost
    BY <1>2 DEF SkipsOnlyLost
  <2> QED BY <2>1, PTL
<1> QED BY <1>1, <1>2

(* Once nothing is in flight and nothing waits in the window, every packet *)
(* of the client has reached the UDP target, but for those that the        *)
(* network lost on every path and those that were overtaken by the first   *)
(* packet of a flow, which reorder_loop takes for the start of the stream. *)
THEOREM OnlyLostPacketsMissing ==
  ASSUME Repair = FALSE, RequestLatency + Latency < FlowIdleReset, DOMAIN FecPayload = {}
  PROVE  StreamSpec /\ []Bounded => []EveryPacketHanded
<1>1. CASE Latency < MaxReorderDelay
  <2>1. NoRepairInv => EveryPacketHanded
    <3> SUFFICES ASSUME NoRepairInv, network = {}, ~HasPendingState(window),
                        NEW n \in 0..(Len(cuts) - 1), ~Gone(n)
                 PROVE  Settled(n)
      BY DEF EveryPacketHanded, Settled
    <3> USE DEF NoRepairInv, OrderInv
    <3>1. n \in Nat /\ n < Len(cuts) /\ window.next \in Nat /\ initialized \in BOOLEAN
      BY WindowAssumption DEF ClientInv, Inv, AtRest, Sound, MediaSequences
    <3>2. PICK k \in cuts[n + 1] : \A i \in 0..(k - 1) : <<n, i, k>> \in arrived
      BY <3>1 DEF Gone, InFlight
    <3>3. <<n, 0, k>> \in arrived
      <4>1. k \in 1..MaxFragments
        BY CutCounts
      <4>2. 0 \in 0..(k - 1)
        BY <4>1
      <4> QED BY <3>2, <4>2
    <3>4. CASE initialized = FALSE
      BY <3>3, <3>4 DEF LossInv
    <3>5. CASE initialized = TRUE
      <4>1. ~Holds(window, n, 0, k)
        BY DEF Holds, HasPendingState, Pending
      <4>2. ~(n >= window.next)
        BY <3>3, <3>5, <4>1 DEF LossInv
      <4>3. n < window.next
        BY <3>1, <4>2
      <4> QED BY <3>1, <3>5, <4>3, BehindIsSettled
    <3> QED BY <3>1, <3>4, <3>5
  <2> QED BY <1>1, <2>1, NoRepairHolds, PTL
<1>2. CASE ~(Latency < MaxReorderDelay)
  <2>1. EveryPacketHanded
    BY <1>2 DEF EveryPacketHanded
  <2> QED BY <2>1, PTL
<1> QED BY <1>1, <1>2

-----------------------------------------------------------------------------
(* Short streams. *)

(* The client sends no more packets than it has. *)
LEMMA CutsAreFew ==
  ASSUME ClientInv, [StreamNext]_streamVars
  PROVE  Len(cuts') \in Nat /\ Len(cuts') <= Len(Strategies)
<1>1. Len(cuts) \in Nat /\ Len(Strategies) \in Nat /\ Len(cuts) <= Len(Strategies)
  BY StreamAssumption DEF ClientInv
<1>2. CASE UNCHANGED cuts
  BY <1>1, <1>2
<1>3. CASE Send
  <2>1. PICK K, F : Emits(K, F)
    BY <1>3, SendEmits
  <2> QED BY <1>1, <1>3, <2>1, SendEmits, EmitAppends
<1> QED
  BY <1>2, <1>3
  DEF StreamNext, RepairTask, Lose, Deliver, ServerTimeout, ClockTick, streamVars, client

(* A stream of fewer packets than RestartBackwardGap, 4096 in the code,    *)
(* keeps within Bounded, whatever becomes of its frames.                   *)
THEOREM ShortStreamsAreBounded ==
  ASSUME Len(Strategies) < RestartBackwardGap, Len(Strategies) <= MaxMediaSequence
  PROVE  StreamSpec => []Bounded
<1>0. /\ Len(Strategies) \in Nat /\ MaxMediaSequence \in Nat /\ RestartBackwardGap \in Nat
  BY StreamAssumption, WindowAssumption, ReorderAssumption
<1>1. StreamInit => ClientInv /\ NetworkInv
  BY InitOrder DEF OrderInv
<1>2. ASSUME ClientInv, NetworkInv, [StreamNext]_streamVars
      PROVE  ClientInv' /\ NetworkInv'
  <2>1. Len(cuts') \in Nat /\ Len(cuts') <= Len(Strategies)
    BY <1>2, CutsAreFew
  <2>2. Len(cuts') <= MaxMediaSequence
    BY <1>0, <2>1
  <2> QED BY <1>2, <2>2, NextClient, NextNetwork
<1>3. ASSUME ClientInv, NetworkInv PROVE Bounded
  <2>1. Len(cuts) \in Nat /\ Len(cuts) <= Len(Strategies)
    BY <1>3 DEF ClientInv
  <2>2. Len(cuts) <= MaxMediaSequence
    BY <1>0, <2>1
  <2>3. ASSUME NEW f \in network
        PROVE  Len(cuts) - PacketOf(f) < RestartBackwardGap
    <3>1. PacketOf(f) \in 0..(Len(cuts) - 1)
      BY <1>3, <2>2, FlightOfPacket
    <3> QED BY <1>0, <2>1, <3>1
  <2> QED BY <2>2, <2>3 DEF Bounded, PacketOf
<1>4. ClientInv /\ NetworkInv /\ [StreamNext]_streamVars => ClientInv' /\ NetworkInv'
  BY <1>2
<1>5. ClientInv /\ NetworkInv => Bounded
  BY <1>3
<1> QED BY <1>1, <1>4, <1>5, PTL DEF StreamSpec
=============================================================================
