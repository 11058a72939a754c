--------------------------- MODULE PathConnection ---------------------------
(***************************************************************************)
(* One path of the client: the PathConnection of crates/transport/src/     *)
(* lib.rs and the tasks of crates/client/src/main.rs that share it.        *)
(*                                                                         *)
(* Senders (the main loop and the repair tasks) and the return task find   *)
(* failures, the liveness task and the interface watcher look for them,    *)
(* and the reconnect loop makes new connections.  They share live under a  *)
(* lock and reconnect_requested, an atomic, and report to StrategyState:   *)
(* whether the interface has failed, and the strategy that auto mode uses. *)
(* A step is what a task does between two of these shared accesses.        *)
(*                                                                         *)
(* The link status that the remote control displays is left out.           *)
(***************************************************************************)
EXTENDS Integers

CONSTANTS
  Main,       \* the main loop, which sends the stream
  Repairers,  \* the repair tasks, which send what the server asks for
  Reader,     \* the task that reads what the server returns
  Addresses,  \* addresses the interface may have
  Modes,      \* modes the operator selects among
  Parity,     \* the main loop sends parity frames on every connected path
  MaxConns,   \* bound: connections that are told apart
  MaxFaults   \* bound: faults, moves of the interface, changes of mode

Gone == "gone"  \* the interface has no address

Senders == {Main} \cup Repairers

ASSUME PathAssumption ==
  /\ Reader \notin Senders
  /\ Gone \notin Addresses /\ Addresses # {}
  /\ Parity \in BOOLEAN
  /\ {"Auto"} \subseteq Modes /\ Modes \subseteq {"Auto", "Redundant", "Split", "RoundRobin"}
  /\ MaxConns \in Nat \ {0, 1}
  /\ MaxFaults \in Nat

Tasks == Senders \cup {Reader}

(* Stable ids are never used again and only compared with that of the live *)
(* connection, so a connection is numbered by how many have been made      *)
(* since: MaxConns stands for all that are as old or older.                *)
Conns == 1..MaxConns

None == 0

Latest == 1

Aged(c) == IF c \in {None, MaxConns} THEN c ELSE c + 1

VARIABLES
  live,       \* the path's connection
  bound,      \* the address it is bound to
  requested,  \* reconnect_requested
  failed,     \* the interface is in interface_failures
  mode, strategy,
  task,       \* senders and reader: [pc, id]
  liveness,   \* spawn_connection_liveness: the connection it found closed
  watcher,    \* spawn_interface_watchers: [pc, addr]
  connector,  \* spawn_reconnect_loops: [pc, addr]
  chooser,    \* strategy_loop: has it decided to split again?
  broken,     \* connections that no longer work
  addr,       \* the interface's address
  faults

pathVars == <<live, bound, requested, failed, mode, strategy, task, liveness, watcher,
              connector, chooser, broken, addr, faults>>

network == <<addr, faults>>
link == <<live, bound, requested>>
policy == <<mode, strategy, chooser>>

(* Each path is connected before the tasks start, or left for the          *)
(* reconnect loop to connect.  Which address it starts with does not       *)
(* matter: addresses are only compared with each other.                    *)
Init ==
  /\ addr = CHOOSE a \in Addresses : TRUE
  /\ \/ live = Latest /\ bound = addr /\ requested = FALSE
     \/ live = None /\ bound = Gone /\ requested = TRUE
  /\ failed = FALSE
  /\ mode = "Auto"
  /\ strategy = "Split"
  /\ task = [t \in Tasks |-> [pc |-> "idle", id |-> None]]
  /\ liveness = None
  /\ watcher = [pc |-> "idle", addr |-> Gone]
  /\ connector = [pc |-> "idle", addr |-> Gone]
  /\ chooser = FALSE
  /\ broken = {}
  /\ faults = 0

-----------------------------------------------------------------------------
(* PathConnection *)

(* Variants: reconnect_requested is not set; the endpoint is not closed.   *)
Drop_NoRequest ==
  /\ live' = None
  /\ bound' = Gone
  /\ broken' = broken \cup {live}
  /\ UNCHANGED requested

Drop_LeavesEndpoint ==
  /\ live' = None
  /\ bound' = Gone
  /\ requested' = TRUE
  /\ UNCHANGED broken

(* request_reconnect and live.take() under the lock.  The endpoint taken   *)
(* is closed by a task of its own, but nobody sees when: only the return   *)
(* task may still hold the connection, and it fails in a later step.       *)
Drop ==
  /\ live' = None
  /\ bound' = Gone
  /\ requested' = TRUE
  /\ broken' = broken \cup {live}

(* Variant: drops also when there is nothing to drop. *)
MarkFailed_Unguarded(id) ==
  IF id \in {live, None} THEN Drop ELSE UNCHANGED <<link, broken>>

MarkFailed(id) ==
  IF live # None /\ id \in {live, None} THEN Drop ELSE UNCHANGED <<link, broken>>

MarkInterfaceChanged(a) ==
  IF live # None /\ bound # a THEN Drop ELSE UNCHANGED <<link, broken>>

Effective == IF mode = "Auto" THEN strategy ELSE mode

Degrade ==
  IF mode = "Auto" THEN strategy' = "Redundant" ELSE UNCHANGED strategy

-----------------------------------------------------------------------------
(* Senders and the return task *)

Goto(t, pc, id) == task' = [task EXCEPT ![t] = [pc |-> pc, id |-> id]]

(* send_packet filters the connected paths before it sends on them. *)
Pick(t) ==
  /\ task[t].pc = "idle"
  /\ live # None
  /\ Goto(t, "picked", None)
  /\ UNCHANGED <<link, failed, policy, liveness, watcher, connector, broken, network>>

ReadId(t) ==
  /\ task[t].pc = "picked"
  /\ Goto(t, "sending", live)
  /\ UNCHANGED <<link, failed, policy, liveness, watcher, connector, broken, network>>

(* send clones the connection and then sends on it.  They are one step: if *)
(* the connection is dropped in between, what becomes of the datagram is   *)
(* what it would be before the drop, or what it is without a connection.   *)
SendOk(t) ==
  /\ task[t].pc = "sending"
  /\ live # None
  /\ live \notin broken
  /\ Goto(t, "sent", None)
  /\ UNCHANGED <<link, failed, policy, liveness, watcher, connector, broken, network>>

(* The path has no connection any more, its connection is closed, or the   *)
(* datagram is refused by a connection that works.                         *)
SendError(t) ==
  /\ task[t].pc = "sending"
  /\ \/ live \in broken \cup {None} /\ UNCHANGED faults
     \/ live \in Conns \ broken /\ faults < MaxFaults /\ faults' = faults + 1
  /\ Goto(t, "error", task[t].id)
  /\ UNCHANGED <<link, failed, policy, liveness, watcher, connector, broken, addr>>

(* Variant: only the reconnect loop clears the failure. *)
RecordSuccess_KeepsFailure(t) ==
  /\ task[t].pc = "sent"
  /\ Goto(t, "idle", None)
  /\ UNCHANGED <<link, failed, policy, liveness, watcher, connector, broken, network>>

RecordSuccess(t) ==
  /\ task[t].pc = "sent"
  /\ failed' = FALSE
  /\ Goto(t, "idle", None)
  /\ UNCHANGED <<link, policy, liveness, watcher, connector, broken, network>>

RecordFailure(t) ==
  /\ task[t].pc = "error"
  /\ failed' = TRUE
  /\ Goto(t, "recorded", task[t].id)
  /\ UNCHANGED <<link, policy, liveness, watcher, connector, broken, network>>

(* mark_failed, then degrade_to_redundant.  They are one step because no   *)
(* task looks at both the connection and the strategy.  Degrading loads    *)
(* mode and strategy before it stores: only the chooser stores the other   *)
(* value.                                                                  *)
MarkAndDegrade(t) ==
  /\ task[t].pc = "recorded"
  /\ MarkFailed(task[t].id)
  /\ Degrade
  /\ Goto(t, "idle", None)
  /\ UNCHANGED <<failed, mode, chooser, liveness, watcher, connector, network>>

ReaderFollows ==
  /\ task[Reader].pc = "idle"
  /\ live # None
  /\ Goto(Reader, "reading", live)
  /\ UNCHANGED <<link, failed, policy, liveness, watcher, connector, broken, network>>

ReaderFails ==
  /\ task[Reader].pc = "reading"
  /\ task[Reader].id \in broken
  /\ Goto(Reader, "error", task[Reader].id)
  /\ UNCHANGED <<link, failed, policy, liveness, watcher, connector, broken, network>>

-----------------------------------------------------------------------------
(* The liveness task and the interface watcher *)

LivenessFinds ==
  /\ liveness = None
  /\ live \in broken
  /\ liveness' = live
  /\ UNCHANGED <<link, failed, policy, task, watcher, connector, broken, network>>

LivenessMarksFailed ==
  /\ liveness # None
  /\ MarkFailed(liveness)
  /\ liveness' = None
  /\ UNCHANGED <<failed, policy, task, watcher, connector, network>>

WatcherResolves ==
  /\ watcher.pc = "idle"
  /\ watcher' = [pc |-> "resolved", addr |-> addr]
  /\ UNCHANGED <<link, failed, policy, task, liveness, connector, broken, network>>

WatcherCompares ==
  /\ watcher.pc = "resolved"
  /\ watcher.addr # Gone
  /\ MarkInterfaceChanged(watcher.addr)
  /\ watcher' = [pc |-> "idle", addr |-> Gone]
  /\ UNCHANGED <<failed, policy, task, liveness, connector, network>>

(* Without an address the connection is dropped, if there is one; if not,  *)
(* a reconnect is requested after the lock is released.                    *)
WatcherMarksFailed ==
  /\ watcher.pc = "resolved"
  /\ watcher.addr = Gone
  /\ MarkFailed(None)
  /\ watcher' = [pc |-> IF live = None THEN "request" ELSE "dead", addr |-> Gone]
  /\ UNCHANGED <<failed, policy, task, liveness, connector, network>>

WatcherRequests ==
  /\ watcher.pc = "request"
  /\ requested' = TRUE
  /\ watcher' = [pc |-> "dead", addr |-> Gone]
  /\ UNCHANGED <<live, bound, failed, policy, task, liveness, connector, broken, network>>

WatcherRecordsDead ==
  /\ watcher.pc = "dead"
  /\ failed' = TRUE
  /\ watcher' = [pc |-> "idle", addr |-> Gone]
  /\ UNCHANGED <<link, policy, task, liveness, connector, broken, network>>

-----------------------------------------------------------------------------
(* The reconnect loop *)

(* Variant: does not look whether there is a connection. *)
Attempt_EvenIfConnected ==
  /\ connector.pc = "idle"
  /\ requested
  /\ connector' = [pc |-> IF addr = Gone THEN "failed" ELSE "connecting", addr |-> addr]
  /\ UNCHANGED <<link, failed, policy, task, liveness, watcher, broken, network>>

Attempt ==
  /\ connector.pc = "idle"
  /\ requested
  /\ live = None
  /\ connector' = [pc |-> IF addr = Gone THEN "failed" ELSE "connecting", addr |-> addr]
  /\ UNCHANGED <<link, failed, policy, task, liveness, watcher, broken, network>>

(* connect_live_path succeeds, and under the lock the new connection       *)
(* replaces what is there; all others are older by one.                    *)
Connect ==
  /\ connector.pc = "connecting"
  /\ live' = Latest
  /\ bound' = connector.addr
  /\ requested' = FALSE
  /\ broken' = {Aged(c) : c \in broken \cup ({live} \ {None})}
  /\ task' = [t \in Tasks |-> [task[t] EXCEPT !.id = Aged(@)]]
  /\ liveness' = Aged(liveness)
  /\ connector' = [pc |-> "connected", addr |-> Gone]
  /\ UNCHANGED <<failed, policy, watcher, network>>

(* It fails, or RECONNECT_ATTEMPT_TIMEOUT passes. *)
ConnectFails ==
  /\ connector.pc = "connecting"
  /\ connector' = [pc |-> "failed", addr |-> Gone]
  /\ UNCHANGED <<link, failed, policy, task, liveness, watcher, broken, network>>

ConnectorRecords ==
  /\ connector.pc \in {"connected", "failed"}
  /\ failed' = (connector.pc = "failed")
  /\ connector' = [pc |-> "idle", addr |-> Gone]
  /\ UNCHANGED <<link, policy, task, liveness, watcher, broken, network>>

-----------------------------------------------------------------------------
(* The strategy loop and the operator *)

(* Another path may be unhealthy, or a queue too long: the loop may        *)
(* degrade whatever this path is like.                                     *)
ChooserDegrades ==
  /\ ~chooser
  /\ mode = "Auto" /\ strategy = "Split"
  /\ strategy' = "Redundant"
  /\ UNCHANGED <<link, failed, mode, chooser, task, liveness, watcher, connector,
                 broken, network>>

(* auto_split_ready, which reads the failures, comes before the store. *)
ChooserDecides ==
  /\ ~chooser
  /\ mode = "Auto" /\ strategy = "Redundant"
  /\ ~failed
  /\ chooser' = TRUE
  /\ UNCHANGED <<link, failed, mode, strategy, task, liveness, watcher, connector, broken, network>>

ChooserSplits ==
  /\ chooser
  /\ strategy' = "Split"
  /\ chooser' = FALSE
  /\ UNCHANGED <<link, failed, mode, task, liveness, watcher, connector, broken, network>>

SetMode(m) ==
  /\ m # mode
  /\ faults < MaxFaults
  /\ faults' = faults + 1
  /\ mode' = m
  /\ UNCHANGED <<link, failed, strategy, chooser, task, liveness, watcher, connector,
                 broken, addr>>

-----------------------------------------------------------------------------
(* The network *)

Break ==
  /\ live \in Conns \ broken
  /\ faults < MaxFaults
  /\ faults' = faults + 1
  /\ broken' = broken \cup {live}
  /\ UNCHANGED <<link, failed, policy, task, liveness, watcher, connector, addr>>

(* The interface gets another address, loses its address, or has one again. *)
Move(a) ==
  /\ a # addr
  /\ addr # Gone => faults < MaxFaults
  /\ faults' = IF addr = Gone THEN faults ELSE faults + 1
  /\ addr' = a
  /\ UNCHANGED <<link, failed, policy, task, liveness, watcher, connector, broken>>

-----------------------------------------------------------------------------
Send(t) == Pick(t) \/ ReadId(t) \/ SendOk(t) \/ SendError(t)

Report(t) == RecordSuccess(t) \/ RecordFailure(t) \/ MarkAndDegrade(t)

Read == ReaderFollows \/ ReaderFails

Liveness == LivenessFinds \/ LivenessMarksFailed

Watch ==
  \/ WatcherResolves \/ WatcherCompares \/ WatcherMarksFailed
  \/ WatcherRequests \/ WatcherRecordsDead

Reconnect == Attempt \/ Connect \/ ConnectFails \/ ConnectorRecords

Choose == ChooserDegrades \/ ChooserDecides \/ ChooserSplits

Next ==
  \/ \E t \in Senders : Send(t)
  \/ \E t \in Tasks : Report(t)
  \/ Read
  \/ Liveness
  \/ Watch
  \/ Reconnect
  \/ Choose
  \/ \E m \in Modes : SetMode(m)
  \/ Break
  \/ \E a \in Addresses \cup {Gone} : Move(a)

Spec == Init /\ [][Next]_pathVars

(* In split mode an interface that has failed gets no share of a packet. *)
CarriesTraffic == Parity \/ Effective # "Split" \/ ~failed

(* The stream goes on, tasks run, timers of the polling loops fire, and    *)
(* attempts to connect succeed if they are made again and again.  Whether  *)
(* the server asks for repairs is its own affair.                          *)
FairSpec ==
  /\ Spec
  /\ WF_pathVars(CarriesTraffic /\ Pick(Main))
  /\ \A t \in Senders : WF_pathVars(ReadId(t)) /\ WF_pathVars(SendOk(t) \/ SendError(t))
  /\ \A t \in Tasks : WF_pathVars(Report(t))
  /\ WF_pathVars(Read)
  /\ WF_pathVars(Liveness)
  /\ WF_pathVars(Watch)
  /\ WF_pathVars(Reconnect) /\ SF_pathVars(Connect)
  /\ WF_pathVars(failed /\ ChooserDegrades) /\ WF_pathVars(ChooserSplits)

-----------------------------------------------------------------------------
(* Properties *)

TypeOK ==
  /\ live \in Conns \cup {None}
  /\ bound \in Addresses \cup {Gone}
  /\ requested \in BOOLEAN /\ failed \in BOOLEAN /\ chooser \in BOOLEAN
  /\ mode \in Modes
  /\ strategy \in {"Split", "Redundant"}
  /\ task \in [Tasks -> [pc : {"idle", "picked", "sending", "sent", "reading", "error",
                               "recorded"},
                         id : Conns \cup {None}]]
  /\ liveness \in Conns \cup {None}
  /\ watcher \in [pc : {"idle", "resolved", "request", "dead"}, addr : Addresses \cup {Gone}]
  /\ connector \in [pc : {"idle", "connecting", "connected", "failed"},
                    addr : Addresses \cup {Gone}]
  /\ broken \subseteq Conns
  /\ addr \in Addresses \cup {Gone}
  /\ faults \in 0..MaxFaults

(* A path without a connection always has a reconnect requested, whichever *)
(* task dropped the connection and however it raced with a reconnect.      *)
NeverStranded == live = None => requested

(* A reconnect never replaces a connection: the loop starts an attempt     *)
(* only without one, nobody else makes one, and so an attempt is never cut *)
(* off by its timeout between installing the new connection and closing an *)
(* old one.                                                                *)
AttemptsReplaceNothing == connector.pc = "connecting" => live = None

Usable ==
  /\ live \in Conns \ broken
  /\ bound = addr

(* The interface, which moves only so often, has an address in the end. *)
Quiet == <>[](addr # Gone)

(* A sender that found no connection marks the path as failed without      *)
(* waiting for anything, while a connection takes a handshake to make.  If *)
(* one is made all the same before the mark, mark_failed(None) drops it,   *)
(* and two senders that are so late in turn keep the path down for ever.   *)
(* The properties below ask only that this does not go on for ever.        *)
Late(t) == task[t].pc \in {"error", "recorded"} /\ task[t].id = None

MarksInTime == <>[][Connect => \A t \in Senders : ~Late(t)]_pathVars

(* Faults being bounded: once the interface keeps an address, the path has *)
(* a working connection bound to it, that stays, and the return task reads *)
(* from that connection.                                                   *)
PathRecovers ==
  Quiet /\ MarksInTime => <>[](Usable /\ task[Reader] = [pc |-> "reading", id |-> live])

(* The interface does not stay marked as failed after it recovered, though *)
(* a task that saw the old connection fail may mark it after the reconnect *)
(* loop cleared the mark.                                                  *)
FailureIsForgotten == Quiet /\ MarksInTime => <>[](~failed)

(* README.md: "In `split` mode, packets are always fragmented across       *)
(* interfaces when more than one path is active."  A path that recovered   *)
(* gets its share of the packets again.                                    *)
RecoveredPathIsUsed ==
  Quiet /\ MarksInTime => <>[](live # None /\ mode = "Split" => CarriesTraffic)
=============================================================================
