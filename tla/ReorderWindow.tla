---------------------------- MODULE ReorderWindow ----------------------------
(***************************************************************************)
(* reorder_loop of crates/server/src/main.rs: the one task that turns the  *)
(* frames of every client connection into the in-order stream it forwards  *)
(* to the UDP target.  Connection tasks hand it frames over a channel; it  *)
(* handles one frame, or one expiry of its timer, at a time, so every      *)
(* action below is one turn of the loop.  The window it keeps is a value   *)
(* of Window.tla.                                                          *)
(*                                                                         *)
(* Time passes only in Tick, and the timer is punctual: Tick is disabled   *)
(* while an expiry is due.  Handling a frame takes no time.                *)
(***************************************************************************)
EXTENDS Window

CONSTANTS
  Connections,           \* stable ids of the client connections
  RemoteOf,              \* [Connections -> endpoint id of the client]
  Packets,               \* the media packets the network may deliver
  RestartBackwardGap,    \* RESTART_BACKWARD_GAP, 4096 in the code
  RestartConfirmPackets, \* RESTART_CONFIRM_PACKETS, MaxFragments + 1 in the code
  FlowIdleReset          \* --flow-idle-reset-secs, in ticks

(* decode_packet accepts nothing else: a fragment index below a fragment   *)
(* count of at most MaxFragments.                                          *)
ASSUME ReorderAssumption ==
  /\ \A p \in Packets :
       /\ p.sequence \in MediaSequences
       /\ p.fragments \in 1..MaxFragments
       /\ p.fragment \in 0..(p.fragments - 1)
  /\ RestartBackwardGap \in Nat \ {0, 1}
  /\ RestartConfirmPackets \in Nat \ {0}
  /\ FlowIdleReset \in Nat

VARIABLES
  initialized,       \* a flow is in progress
  window,            \* next_seq and all the maps keyed by sequence
  restart_detector,  \* RestartDetector
  flow_connections,  \* connections that carried the current flow
  reply_routes,      \* remotes that responses go to, in order
  waited,            \* ticks since the loop last turned
  evidence           \* history: far-behind packets of other connections
                     \* since the flow last made sense (see RestartIsConfirmed)

vars == <<initialized, window, restart_detector, flow_connections,
          reply_routes, waited, evidence>>

ClearDetector == [count |-> 0, highest_seq |-> 0]

Init ==
  /\ initialized = FALSE
  /\ window = EmptyWindow(0)
  /\ restart_detector = ClearDetector
  /\ flow_connections = {}
  /\ reply_routes = << >>
  /\ waited = 0
  /\ evidence = 0

(* What a handler starts from: nothing forwarded or asked for yet. *)
Fresh(w) == [w EXCEPT !.out = << >>, !.requests = {}]

-----------------------------------------------------------------------------
(* set_reply_routes *)
AddRoute(routes, remote) ==
  IF Contains(routes, remote) THEN routes ELSE Append(routes, remote)

(* RestartDetector::observe, for a packet that is at least                 *)
(* RestartBackwardGap behind next.  The count saturates where it confirms. *)
Observed(s) ==
  LET d == restart_detector
  IN  IF d.count = 0 \/ s >= d.highest_seq
      THEN [count       |-> Min({d.count + 1, RestartConfirmPackets}),
            highest_seq |-> Max({d.highest_seq, s})]
      ELSE [count |-> 1, highest_seq |-> s]

FarBehind(s) == window.next - s >= RestartBackwardGap

(* Variants: any packet behind next restarts the flow; one packet less     *)
(* confirms.                                                               *)
Confirms_Always(c, s) == s < window.next

Confirms_OffByOne(c, s) ==
  /\ c \notin flow_connections
  /\ s < window.next
  /\ FarBehind(s)
  /\ Observed(s).count + 1 >= RestartConfirmPackets

Confirms(c, s) ==
  /\ c \notin flow_connections
  /\ s < window.next
  /\ FarBehind(s)
  /\ Observed(s).count >= RestartConfirmPackets

-----------------------------------------------------------------------------
(***************************************************************************)
(* The second half of the loop body, for a packet p that is not behind     *)
(* next: from window w the loop may leave any window of StoreMedia(w, p).  *)
(***************************************************************************)
AlreadyHeld(w, p) ==
  \/ p.sequence \in w.seen \cup DOMAIN w.buffered
  \/ /\ p.fragments # 1
     /\ p.sequence \in DOMAIN w.fragments
     /\ \/ w.fragments[p.sequence].total # p.fragments
        \/ p.fragment \in DOMAIN w.fragments[p.sequence].got

StoreWhole(w, p, payload) ==
  Advance({Accept(w, [s \in {p.sequence} |-> payload])})

StoreFragment(w, p) ==
  LET assembly == WithFragment(w, p)
  IN  IF IsComplete(assembly)
      THEN StoreWhole(w, p, IntoPayload(assembly))
      ELSE Advance({[w EXCEPT !.fragments = With(@, [s \in {p.sequence} |-> assembly])]})

StoreMedia(w, p) ==
  IF AlreadyHeld(w, p)   THEN {w}
  ELSE IF p.fragments = 1 THEN StoreWhole(w, p, {p.payload})
  ELSE StoreFragment(w, p)

(* The first packet of a flow sets the expected sequence. *)
StartFlow(c, p) ==
  /\ ~initialized
  /\ initialized' = TRUE
  /\ reply_routes' = <<RemoteOf[c]>>
  /\ flow_connections' = flow_connections \cup {c}
  /\ restart_detector' = ClearDetector
  /\ window' \in StoreMedia(
       [Fresh(window) EXCEPT !.next = p.sequence, !.start = p.sequence,
                             !.delivered = {}, !.skips = {}, !.wrapped = FALSE], p)
  /\ waited' = 0
  /\ evidence' = 0

(* A packet at or ahead of next belongs to the flow in progress. *)
ContinueFlow(c, p) ==
  /\ initialized
  /\ p.sequence >= window.next
  /\ reply_routes' = AddRoute(reply_routes, RemoteOf[c])
  /\ flow_connections' = flow_connections \cup {c}
  /\ restart_detector' = ClearDetector
  /\ window' \in StoreMedia(Fresh(window), p)
  /\ waited' = 0
  /\ evidence' = 0
  /\ UNCHANGED initialized

(* A packet behind next that does not confirm a restart: a duplicate, or   *)
(* the late arrival of a skipped sequence.  The two differ in the counter  *)
(* they bump.  The loop continues without advancing the window.            *)
DropBehind(c, p) ==
  /\ initialized
  /\ p.sequence < window.next
  /\ ~Confirms(c, p.sequence)
  /\ reply_routes' = AddRoute(reply_routes, RemoteOf[c])
  /\ restart_detector' = IF c \in flow_connections THEN restart_detector
                         ELSE IF FarBehind(p.sequence) THEN Observed(p.sequence)
                         ELSE ClearDetector
  /\ window' = Fresh(window)
  /\ waited' = 0
  /\ evidence' = IF c \notin flow_connections /\ FarBehind(p.sequence)
                 THEN Min({evidence + 1, RestartConfirmPackets})
                 ELSE evidence
  /\ UNCHANGED <<initialized, flow_connections>>

(* Variant: the restart keeps the connections of the flow it ends. *)
ConfirmRestart_KeepsConnections(c, p) ==
  /\ initialized
  /\ Confirms(c, p.sequence)
  /\ reply_routes' = <<RemoteOf[c]>>
  /\ flow_connections' = flow_connections \cup {c}
  /\ restart_detector' = Observed(p.sequence)
  /\ window' \in StoreMedia(EmptyWindow(p.sequence), p)
  /\ waited' = 0
  /\ evidence' = 0
  /\ UNCHANGED initialized

(* The packet that confirms a restart opens a new flow.  The detector is   *)
(* left as it is.                                                          *)
ConfirmRestart(c, p) ==
  /\ initialized
  /\ Confirms(c, p.sequence)
  /\ reply_routes' = <<RemoteOf[c]>>
  /\ flow_connections' = {c}
  /\ restart_detector' = Observed(p.sequence)
  /\ window' \in StoreMedia(EmptyWindow(p.sequence), p)
  /\ waited' = 0
  /\ evidence' = 0
  /\ UNCHANGED initialized

ReceivePacket(c, p) ==
  \/ StartFlow(c, p)
  \/ ContinueFlow(c, p)
  \/ DropBehind(c, p)
  \/ ConfirmRestart(c, p)

(* A parity frame of FEC; before a flow starts FecState only stores it.    *)
ReceiveFec(c) ==
  /\ DOMAIN FecPayload # {}
  /\ waited' = 0
  /\ IF initialized
     THEN /\ reply_routes' = AddRoute(reply_routes, RemoteOf[c])
          /\ window' \in Advance({Fresh(window)})
     ELSE UNCHANGED <<reply_routes, window>>
  /\ UNCHANGED <<initialized, restart_detector, flow_connections, evidence>>

-----------------------------------------------------------------------------
(* The timeout of the loop's receive. *)
TimerPeriod ==
  IF ~HasPendingState(window) THEN FlowIdleReset
  ELSE IF Repair THEN Min({RepairInterval, MaxReorderDelay})
  ELSE MaxReorderDelay

TimerDue == waited >= TimerPeriod

(* With something pending, the window advances. *)
TimeoutAdvance ==
  /\ TimerDue
  /\ initialized
  /\ HasPendingState(window)
  /\ window' \in Advance({Fresh(window)})
  /\ waited' = 0
  /\ UNCHANGED <<initialized, restart_detector, flow_connections, reply_routes, evidence>>

(* With nothing pending, the flow ends: the next packet starts another. *)
TimeoutIdle ==
  /\ TimerDue
  /\ initialized
  /\ ~HasPendingState(window)
  /\ initialized' = FALSE
  /\ window' = [Fresh(window) EXCEPT !.next = 0, !.skipped = << >>, !.gap = << >>]
  /\ restart_detector' = ClearDetector
  /\ flow_connections' = {}
  /\ waited' = 0
  /\ UNCHANGED <<reply_routes, evidence>>

(* Without a flow, the loop only starts to wait again. *)
TimeoutNoFlow ==
  /\ TimerDue
  /\ ~initialized
  /\ waited' = 0
  /\ UNCHANGED <<initialized, window, restart_detector, flow_connections, reply_routes, evidence>>

Timeout == TimeoutAdvance \/ TimeoutIdle \/ TimeoutNoFlow

Tick ==
  /\ ~TimerDue
  /\ waited' = waited + 1
  /\ window' = Aged(Fresh(window))
  /\ UNCHANGED <<initialized, restart_detector, flow_connections, reply_routes, evidence>>

Next ==
  \/ \E c \in Connections, p \in Packets : ReceivePacket(c, p)
  \/ \E c \in Connections : ReceiveFec(c)
  \/ Timeout
  \/ Tick

Spec == Init /\ [][Next]_vars

(* The task keeps running and its timer fires. *)
FairSpec == Spec /\ WF_vars(Tick) /\ WF_vars(Timeout)

-----------------------------------------------------------------------------
(* Properties *)

(* The fragments of an assembly: some of the indices, each with a payload. *)
Fragments == UNION {[D -> {p.payload : p \in Packets}] : D \in SUBSET FragmentIndices}

Assemblies ==
  [total      : 1..MaxFragments,
   got        : Fragments,
   first_seen : 0..AgeBound,
   asked      : 0..RepairInterval]

(* The values of the window's maps.  An assembly holds at least one of its *)
(* fragments and misses at least one.                                      *)
WindowTyped(w) ==
  /\ \A s \in DOMAIN w.buffered : w.buffered[s].age \in 0..AgeBound
  /\ \A s \in DOMAIN w.fragments :
       /\ w.fragments[s] \in Assemblies
       /\ Missing(w.fragments[s]) \notin {{}, 0..(w.fragments[s].total - 1)}
  /\ \A s \in DOMAIN w.gap : w.gap[s] \in 0..RepairInterval

(* The types of the loop's variables: sequences stay in the media range,   *)
(* an assembly is never left complete or empty, the detector's count never *)
(* passes RestartConfirmPackets.                                           *)
TypeOK ==
  /\ initialized \in BOOLEAN
  /\ window.next \in MediaSequences
  /\ Pending(window) \cup window.seen \cup DOMAIN window.gap \subseteq MediaSequences
  /\ WindowTyped(window)
  /\ restart_detector.count \in 0..RestartConfirmPackets
  /\ restart_detector.highest_seq \in MediaSequences
  /\ flow_connections \subseteq Connections
  /\ reply_routes \in Seq({RemoteOf[c] : c \in Connections})
  /\ waited \in Nat

(* Between two turns of the loop the maps keyed by sequence agree: seen is *)
(* exactly the buffered sequences, a sequence is never buffered and under  *)
(* assembly at once, nothing pending is behind next, the head is not       *)
(* waiting to be forwarded, only the head has a gap repair request, and    *)
(* without a flow nothing is pending.                                      *)
WindowConsistent ==
  /\ window.seen = DOMAIN window.buffered
  /\ DOMAIN window.buffered \cap DOMAIN window.fragments = {}
  /\ \A s \in Pending(window) : s >= window.next
  /\ window.next \notin DOMAIN window.buffered
  /\ DOMAIN window.gap \subseteq {window.next}
  /\ ~initialized => Pending(window) = {}

(* Every sequence from the start of the flow up to next was either         *)
(* forwarded or skipped, never both, until next wraps.                     *)
Accounting ==
  initialized /\ ~window.wrapped =>
    /\ window.delivered \cup window.skips = window.start..(window.next - 1)
    /\ window.delivered \cap window.skips = {}

(* A late packet is told from a duplicate by the list of recently skipped  *)
(* sequences: the list holds skipped sequences of this flow, the latest    *)
(* SkippedTrackLimit of them.                                              *)
SkipListIsRecent ==
  initialized /\ ~window.wrapped =>
    /\ Range(window.skipped) \subseteq window.skips
    /\ Len(window.skipped) = Min({Cardinality(window.skips), SkippedTrackLimit})
    /\ \A s \in Range(window.skipped), t \in window.skips \ Range(window.skipped) : t < s

(* The server asks only for what it misses: never for a sequence it holds  *)
(* or has forwarded, for an assembly exactly the fragments not received,   *)
(* and for at most MaxRepairRequestsPerTick sequences in one turn.         *)
RequestsOnlyMissing ==
  /\ Cardinality(window.requests) <= MaxRepairRequestsPerTick
  /\ \A r \in window.requests :
       /\ r.sequence \notin DOMAIN window.buffered
       /\ ~window.wrapped => r.sequence \notin window.delivered
       /\ r.sequence \in DOMAIN window.fragments =>
            r.missing = Missing(window.fragments[r.sequence])

(* Responses can reach every client that carried the current flow, and no  *)
(* remote is listed twice.                                                 *)
RoutesCoverFlow ==
  /\ \A c \in flow_connections : Contains(reply_routes, RemoteOf[c])
  /\ \A i, j \in DOMAIN reply_routes : reply_routes[i] = reply_routes[j] => i = j

(* A step within one flow, before next wraps: the flow goes on and loses   *)
(* none of its connections, as it does when a restart replaces it.         *)
SameFlow ==
  /\ initialized /\ initialized' /\ ~window'.wrapped
  /\ flow_connections \subseteq flow_connections'

(* Within a flow the target gets sequences in ascending order and none     *)
(* twice, whatever duplicates and late packets arrive.                     *)
ForwardsInOrder ==
  [][SameFlow =>
       \A i \in DOMAIN window'.out :
         /\ window'.out[i].sequence \notin window.delivered \cup window.skips
         /\ \A j \in 1..(i - 1) : window'.out[j].sequence < window'.out[i].sequence]_vars

(* A sequence is given up only if something at or behind it waited for     *)
(* MaxReorderDelay, and never one that is held complete.                   *)
NoEarlySkip ==
  [][SameFlow =>
       \A s \in window'.skips \ window.skips :
         /\ s \notin DOMAIN window.buffered
         /\ \E t \in Pending(window) : t >= s /\ PendingAge(window, t) >= MaxReorderDelay]_vars

NothingOverdue(w) ==
  IF w.next \in DOMAIN w.fragments
  THEN w.fragments[w.next].first_seen < MaxReorderDelay
  ELSE \A s \in Pending(w) : PendingAge(w, s) < MaxReorderDelay

(* When the timer fires, and whenever next moves, either no packet that    *)
(* has waited MaxReorderDelay stays blocked behind a head that is not      *)
(* itself a younger incomplete assembly, or the turn forwarded something:  *)
(* the loop expires one gap per turn, not those behind the run it drains.  *)
OverdueGapExpires ==
  [][TimeoutAdvance \/ (initialized' /\ window'.next # window.next)
       => NothingOverdue(window') \/ window'.out # << >>]_vars

(* A new flow replaces the one in progress only after                      *)
(* RestartConfirmPackets far-behind packets from connections outside it,   *)
(* with no packet that fits the flow in between.                           *)
RestartIsConfirmed ==
  [][\A c \in Connections, p \in Packets :
       ConfirmRestart(c, p) => evidence + 1 >= RestartConfirmPackets]_vars

(* README.md: "If a missing packet or fragment blocks newer complete       *)
(* packets longer than this, the server skips the missing sequence and     *)
(* forwards the buffered data behind it."  Stated with one period of the   *)
(* loop's own timer as slack.                                              *)
GapToleranceHonoured ==
  \A s \in DOMAIN window.buffered : window.buffered[s].age <= MaxReorderDelay + TimerPeriod

(* Once frames stop arriving, everything buffered is forwarded or skipped  *)
(* and the flow ends.                                                      *)
QuietStreamEnds ==
  <>[][Timeout \/ Tick]_vars => <>[](~initialized /\ Pending(window) = {})
=============================================================================
