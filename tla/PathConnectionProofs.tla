------------------------ MODULE PathConnectionProofs ------------------------
(***************************************************************************)
(* Theorems of PathConnection, for every value of its constants: any       *)
(* number of senders, addresses, connections and faults.                   *)
(*                                                                         *)
(* Most actions only move one task and leave the shared state alone, or    *)
(* change it in one of three ways: drop the connection, connect, or note   *)
(* a failure.  LinkInv is what the shared state must satisfy by itself;    *)
(* the first lemmas say that dropping keeps it.                            *)
(***************************************************************************)
EXTENDS PathConnection, TLAPS

LinkTyped ==
  /\ live \in Conns \cup {None}
  /\ bound \in Addresses \cup {Gone}
  /\ requested \in BOOLEAN

LinkInv == LinkTyped /\ NeverStranded /\ AttemptsReplaceNothing

PathInv == TypeOK /\ NeverStranded /\ AttemptsReplaceNothing

(* No connection is None. *)
LEMMA NoneIsNoConnection == None \notin Conns
BY PathAssumption DEF None, Conns

(* The latest connection is one, *)
LEMMA LatestIsConnection == Latest \in Conns
BY PathAssumption DEF Latest, Conns

(* and one more connection turns connections into connections. *)
LEMMA AgedTyped ==
  ASSUME NEW c \in Conns \cup {None}
  PROVE  /\ Aged(c) \in Conns \cup {None}
         /\ c # None => Aged(c) \in Conns
BY PathAssumption DEF Aged, Conns, None

(* Dropping a connection keeps the invariant of the shared state. *)
LEMMA DropKeepsLink ==
  ASSUME LinkInv, live # None, Drop, connector' = connector
  PROVE  LinkInv'
<1>1. LinkTyped'
  BY DEF LinkInv, LinkTyped, Drop
<1>2. NeverStranded'
  BY DEF NeverStranded, Drop
<1>3. AttemptsReplaceNothing'
  BY DEF AttemptsReplaceNothing, Drop
<1> QED BY <1>1, <1>2, <1>3 DEF LinkInv

(* What leaves the shared state alone keeps its invariant. *)
LEMMA SameLink ==
  ASSUME LinkInv, UNCHANGED link, connector' = connector
  PROVE  LinkInv'
BY DEF link, LinkInv, LinkTyped, NeverStranded, AttemptsReplaceNothing

(* So does a sender that marks a connection failed, *)
LEMMA MarkFailedKeepsLink ==
  ASSUME LinkInv, NEW id, MarkFailed(id), connector' = connector
  PROVE  LinkInv'
<1>1. CASE live # None /\ id \in {live, None}
  BY <1>1, DropKeepsLink DEF MarkFailed
<1>2. CASE ~(live # None /\ id \in {live, None})
  BY <1>2, SameLink DEF MarkFailed
<1> QED BY <1>1, <1>2

(* and a loop that finds the interface changed. *)
LEMMA MarkInterfaceChangedKeepsLink ==
  ASSUME LinkInv, NEW a, MarkInterfaceChanged(a), connector' = connector
  PROVE  LinkInv'
<1>1. CASE live # None /\ bound # a
  BY <1>1, DropKeepsLink DEF MarkInterfaceChanged
<1>2. CASE ~(live # None /\ bound # a)
  BY <1>2, SameLink DEF MarkInterfaceChanged
<1> QED BY <1>1, <1>2

(* Connecting ends the attempt and leaves nothing to ask for. *)
LEMMA ConnectKeepsLink ==
  ASSUME LinkInv, connector.addr \in Addresses \cup {Gone}, Connect
  PROVE  LinkInv'
<1>1. live' \in Conns
  BY LatestIsConnection DEF Connect
<1>2. LinkTyped'
  BY <1>1 DEF LinkInv, LinkTyped, Connect
<1>3. NeverStranded'
  BY <1>1, NoneIsNoConnection DEF NeverStranded
<1>4. AttemptsReplaceNothing'
  BY DEF AttemptsReplaceNothing, Connect
<1> QED BY <1>2, <1>3, <1>4 DEF LinkInv

(* Every step keeps the invariant of the shared state. *)
LEMMA LinkStep ==
  ASSUME PathInv, [Next]_pathVars
  PROVE  LinkInv'
<1> USE DEF link, policy, network
<1>0. LinkInv
  BY DEF PathInv, LinkInv, LinkTyped, TypeOK
<1>1. ASSUME NEW t \in Senders, Send(t)
      PROVE  LinkInv'
  BY <1>0, <1>1, SameLink DEF Send, Pick, ReadId, SendOk, SendError
<1>2. ASSUME NEW t \in Tasks, Report(t)
      PROVE  LinkInv'
  BY <1>0, <1>2, SameLink, MarkFailedKeepsLink
  DEF Report, RecordSuccess, RecordFailure, MarkAndDegrade
<1>3. CASE Read
  BY <1>0, <1>3, SameLink DEF Read, ReaderFollows, ReaderFails
<1>4. CASE Liveness
  BY <1>0, <1>4, SameLink, MarkFailedKeepsLink DEF Liveness, LivenessFinds, LivenessMarksFailed
<1>5. CASE Watch
  <2>1. CASE WatcherRequests
    BY <1>0, <2>1 DEF WatcherRequests, LinkInv, LinkTyped, NeverStranded, AttemptsReplaceNothing
  <2> QED
    BY <1>0, <1>5, <2>1, SameLink, MarkFailedKeepsLink, MarkInterfaceChangedKeepsLink
    DEF Watch, WatcherResolves, WatcherCompares, WatcherMarksFailed, WatcherRecordsDead
<1>6. CASE Reconnect
  <2>1. CASE Attempt
    BY <1>0, <2>1 DEF Attempt, LinkInv, LinkTyped, NeverStranded, AttemptsReplaceNothing
  <2>2. CASE Connect
    BY <1>0, <2>2, ConnectKeepsLink DEF PathInv, TypeOK
  <2>3. CASE ConnectFails
    BY <1>0, <2>3 DEF ConnectFails, LinkInv, LinkTyped, NeverStranded, AttemptsReplaceNothing
  <2>4. CASE ConnectorRecords
    BY <1>0, <2>4 DEF ConnectorRecords, LinkInv, LinkTyped, NeverStranded, AttemptsReplaceNothing
  <2> QED BY <1>6, <2>1, <2>2, <2>3, <2>4 DEF Reconnect
<1>7. CASE Choose
  BY <1>0, <1>7, SameLink DEF Choose, ChooserDegrades, ChooserDecides, ChooserSplits
<1>8. ASSUME NEW m \in Modes, SetMode(m)
      PROVE  LinkInv'
  BY <1>0, <1>8, SameLink DEF SetMode
<1>9. CASE Break
  BY <1>0, <1>9, SameLink DEF Break
<1>10. ASSUME NEW a \in Addresses \cup {Gone}, Move(a)
       PROVE  LinkInv'
  BY <1>0, <1>10, SameLink DEF Move
<1>11. CASE UNCHANGED pathVars
  BY <1>0, <1>11, SameLink DEF pathVars
<1> QED
  BY <1>1, <1>2, <1>3, <1>4, <1>5, <1>6, <1>7, <1>8, <1>9, <1>10, <1>11 DEF Next

-----------------------------------------------------------------------------
(* The other variables. *)

Pcs == {"idle", "picked", "sending", "sent", "reading", "error", "recorded"}

TaskTyped == task \in [Tasks -> [pc : Pcs, id : Conns \cup {None}]]

(* A task that moves on stays typed. *)
LEMMA GotoTyped ==
  ASSUME TaskTyped, NEW t, NEW pc \in Pcs, NEW id \in Conns \cup {None}, Goto(t, pc, id)
  PROVE  TaskTyped'
BY DEF TaskTyped, Goto

PolicyTyped ==
  /\ failed \in BOOLEAN /\ chooser \in BOOLEAN
  /\ mode \in Modes
  /\ strategy \in {"Split", "Redundant"}

LoopsTyped ==
  /\ liveness \in Conns \cup {None}
  /\ watcher \in [pc : {"idle", "resolved", "request", "dead"}, addr : Addresses \cup {Gone}]
  /\ connector \in [pc : {"idle", "connecting", "connected", "failed"},
                    addr : Addresses \cup {Gone}]

NetworkTyped ==
  /\ broken \subseteq Conns
  /\ addr \in Addresses \cup {Gone}
  /\ faults \in 0..MaxFaults

Typed == LinkTyped /\ TaskTyped /\ PolicyTyped /\ LoopsTyped /\ NetworkTyped

(* The parts of the type invariant are all of it. *)
LEMMA TypedIsTypeOK == Typed <=> TypeOK
BY DEF Typed, LinkTyped, TaskTyped, Pcs, PolicyTyped, LoopsTyped, NetworkTyped, TypeOK

(* A connection that is dropped joins the broken ones. *)
LEMMA DropNetworkTyped ==
  ASSUME Typed, network' = network,
         (live # None /\ Drop) \/ UNCHANGED broken
  PROVE  NetworkTyped'
<1>1. CASE live # None /\ Drop
  <2>1. live \in Conns
    BY <1>1 DEF Typed, LinkTyped
  <2> QED BY <1>1, <2>1 DEF Drop, network, Typed, NetworkTyped
<1>2. CASE UNCHANGED broken
  BY <1>2 DEF network, Typed, NetworkTyped
<1> QED BY <1>1, <1>2

(* A sender or the return task moves on and changes nothing else, except   *)
(* what it reports.                                                        *)
LEMMA TaskStepTyped ==
  ASSUME Typed,
         \/ \E t \in Senders : Send(t)
         \/ \E t \in Tasks : Report(t)
         \/ Read
  PROVE  TaskTyped' /\ PolicyTyped' /\ LoopsTyped' /\ NetworkTyped'
<1> USE DEF policy, network
<1>1. Senders \subseteq Tasks /\ Reader \in Tasks
  BY DEF Tasks
<1>2. ASSUME NEW t \in Tasks, NEW pc \in Pcs, Goto(t, pc, task[t].id)
      PROVE  TaskTyped'
  BY <1>2, GotoTyped DEF Typed, TaskTyped
<1>3. ASSUME NEW pc \in Pcs, NEW t, Goto(t, pc, None) \/ Goto(t, pc, live)
      PROVE  TaskTyped'
  BY <1>3, GotoTyped DEF Typed, LinkTyped
<1>4. TaskTyped'
  BY <1>1, <1>2, <1>3
  DEF Send, Report, Read, Pick, ReadId, SendOk, SendError, RecordSuccess, RecordFailure,
      MarkAndDegrade, ReaderFollows, ReaderFails, Pcs
<1>5. PolicyTyped' /\ LoopsTyped'
  BY DEF Send, Report, Read, Pick, ReadId, SendOk, SendError, RecordSuccess, RecordFailure,
         MarkAndDegrade, ReaderFollows, ReaderFails, Degrade, Typed, PolicyTyped, LoopsTyped
<1>6. NetworkTyped'
  <2>1. ASSUME NEW t \in Tasks, MarkAndDegrade(t)
        PROVE  NetworkTyped'
    BY <2>1, DropNetworkTyped DEF MarkAndDegrade, MarkFailed
  <2> QED
    BY <2>1, PathAssumption
    DEF Send, Report, Read, Pick, ReadId, SendOk, SendError, RecordSuccess, RecordFailure,
        ReaderFollows, ReaderFails, Typed, NetworkTyped
<1> QED BY <1>4, <1>5, <1>6

(* The loops keep the types of what is not the shared state of the path. *)
LEMMA LoopStepTyped ==
  ASSUME Typed, Liveness \/ Watch \/ Reconnect
  PROVE  TaskTyped' /\ PolicyTyped' /\ LoopsTyped' /\ NetworkTyped'
<1> USE DEF policy, network, Typed, TaskTyped, PolicyTyped, LoopsTyped, NetworkTyped, LinkTyped
<1>1. CASE Liveness
  <2>1. CASE LivenessMarksFailed
    <3>1. NetworkTyped'
      BY <2>1, DropNetworkTyped DEF LivenessMarksFailed, MarkFailed
    <3> QED BY <2>1, <3>1, NoneIsNoConnection DEF LivenessMarksFailed
  <2> QED BY <1>1, <2>1 DEF Liveness, LivenessFinds
<1>2. CASE Watch
  <2>1. CASE WatcherResolves
    BY <2>1 DEF WatcherResolves
  <2>2. CASE WatcherCompares
    <3>1. NetworkTyped'
      BY <2>2, DropNetworkTyped DEF WatcherCompares, MarkInterfaceChanged
    <3> QED BY <2>2, <3>1 DEF WatcherCompares
  <2>3. CASE WatcherMarksFailed
    <3>1. NetworkTyped'
      BY <2>3, DropNetworkTyped DEF WatcherMarksFailed, MarkFailed
    <3> QED BY <2>3, <3>1 DEF WatcherMarksFailed
  <2>4. CASE WatcherRequests
    BY <2>4 DEF WatcherRequests
  <2>5. CASE WatcherRecordsDead
    BY <2>5 DEF WatcherRecordsDead
  <2> QED BY <1>2, <2>1, <2>2, <2>3, <2>4, <2>5, Zenon DEF Watch
<1>3. CASE Reconnect
  <2>1. CASE Attempt
    BY <2>1 DEF Attempt
  <2>2. CASE Connect
    <3>1. liveness' \in Conns \cup {None}
      BY <2>2, AgedTyped DEF Connect
    <3>2. TaskTyped'
      BY <2>2, AgedTyped DEF Connect
    <3>3. broken' \subseteq Conns
      BY <2>2, AgedTyped, NoneIsNoConnection DEF Connect
    <3> QED BY <2>2, <3>1, <3>2, <3>3 DEF Connect
  <2>3. CASE ConnectFails
    BY <2>3 DEF ConnectFails
  <2>4. CASE ConnectorRecords
    BY <2>4 DEF ConnectorRecords
  <2> QED BY <1>3, <2>1, <2>2, <2>3, <2>4, Zenon DEF Reconnect
<1> QED BY <1>1, <1>2, <1>3

(* The strategy loop, the operator and the network. *)
LEMMA OtherStepTyped ==
  ASSUME Typed,
         \/ Choose \/ Break
         \/ \E m \in Modes : SetMode(m)
         \/ \E a \in Addresses \cup {Gone} : Move(a)
  PROVE  TaskTyped' /\ PolicyTyped' /\ LoopsTyped' /\ NetworkTyped'
<1> USE DEF policy, network, Typed, TaskTyped, PolicyTyped, LoopsTyped, NetworkTyped, LinkTyped
<1>1. CASE Choose
  BY <1>1 DEF Choose, ChooserDegrades, ChooserDecides, ChooserSplits
<1>2. CASE Break
  BY <1>2, PathAssumption DEF Break
<1>3. CASE \E m \in Modes : SetMode(m)
  BY <1>3, PathAssumption DEF SetMode
<1>4. CASE \E a \in Addresses \cup {Gone} : Move(a)
  BY <1>4, PathAssumption DEF Move
<1> QED BY <1>1, <1>2, <1>3, <1>4

-----------------------------------------------------------------------------
(* The invariant of the specification. *)

(* It holds at first, *)
LEMMA PathInvInit == Init => PathInv
<1> SUFFICES ASSUME Init
             PROVE  PathInv
  OBVIOUS
<1>1. addr \in Addresses
  BY PathAssumption DEF Init
<1>2. live \in Conns \cup {None} /\ bound \in Addresses \cup {Gone}
  BY <1>1, LatestIsConnection DEF Init
<1>3. LinkTyped /\ PolicyTyped /\ LoopsTyped
  BY <1>2, PathAssumption DEF Init, LinkTyped, PolicyTyped, LoopsTyped
<1>4. TaskTyped
  BY DEF Init, TaskTyped, Pcs
<1>5. NetworkTyped
  BY <1>1, PathAssumption DEF Init, NetworkTyped
<1>6. NeverStranded /\ AttemptsReplaceNothing
  BY NoneIsNoConnection, LatestIsConnection DEF Init, NeverStranded, AttemptsReplaceNothing
<1> QED BY <1>3, <1>4, <1>5, <1>6, TypedIsTypeOK DEF PathInv, Typed

(* and every step keeps it. *)
LEMMA PathInvStep == PathInv /\ [Next]_pathVars => PathInv'
<1> SUFFICES ASSUME PathInv, [Next]_pathVars
             PROVE  PathInv'
  OBVIOUS
<1>1. LinkInv'
  BY LinkStep
<1>2. Typed
  BY TypedIsTypeOK DEF PathInv
<1>3. TaskTyped' /\ PolicyTyped' /\ LoopsTyped' /\ NetworkTyped'
  <2>1. CASE UNCHANGED pathVars
    BY <1>2, <2>1 DEF pathVars, Typed, TaskTyped, PolicyTyped, LoopsTyped, NetworkTyped
  <2>2. CASE Next
    BY <1>2, <2>2, TaskStepTyped, LoopStepTyped, OtherStepTyped DEF Next
  <2> QED BY <2>1, <2>2
<1>4. Typed' <=> TypeOK'
  BY DEF Typed, LinkTyped, TaskTyped, Pcs, PolicyTyped, LoopsTyped, NetworkTyped, TypeOK
<1> QED BY <1>1, <1>3, <1>4 DEF PathInv, LinkInv, Typed

(* What the tasks, the loops and the strategy hold is always of its type:  *)
(* in particular no task drops a connection that does not exist.           *)
THEOREM PathTypeCorrect == Spec => []TypeOK
<1>1. PathInv => TypeOK
  BY DEF PathInv
<1> QED BY <1>1, PathInvInit, PathInvStep, PTL DEF Spec

(* However the tasks race to drop the connection and the reconnect loop to *)
(* make one, a path without a connection has a reconnect requested.        *)
THEOREM PathNeverStranded == Spec => []NeverStranded
<1>1. PathInv => NeverStranded
  BY DEF PathInv
<1> QED BY <1>1, PathInvInit, PathInvStep, PTL DEF Spec

(* No attempt finds a connection to replace when it installs its own. *)
THEOREM PathAttemptsReplaceNothing == Spec => []AttemptsReplaceNothing
<1>1. PathInv => AttemptsReplaceNothing
  BY DEF PathInv
<1> QED BY <1>1, PathInvInit, PathInvStep, PTL DEF Spec
=============================================================================
