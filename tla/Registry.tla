------------------------------- MODULE Registry -------------------------------
(***************************************************************************)
(* The server's connections (main and response_loop of                     *)
(* crates/server/src/main.rs, and health.rs): which connections of which   *)
(* clients it may answer on, and on which it reports their health.         *)
(*                                                                         *)
(* One task per accepted connection enters it in three shared structures,  *)
(* reads it until it closes and takes it out again.  response_loop sends   *)
(* what the UDP target answers, health_loop sends reports, and one task    *)
(* per client endpoint opens a health connection when there is none.       *)
(* Every structure has a lock of its own, so a step is what a task does    *)
(* under one lock, or one send, and tasks interleave between them.         *)
(*                                                                         *)
(* A map from remotes to sets of connections has an entry exactly for a    *)
(* nonempty set.  Connections of one remote are tried in the order of      *)
(* their stable ids, which are addresses: any order.                       *)
(***************************************************************************)
EXTENDS Integers, Sequences, SequencesExt

CONSTANTS
  Remotes,      \* endpoint ids of the clients' paths
  Data,         \* connections that clients open: numbers
  RemoteOf,     \* [Data -> Remotes]
  Extra,        \* health connections that the server may open: numbers
  Budgets       \* bounds: the numbers of connections that close, of
                \* responses, and of responses too large for a datagram

None == -1

Conns == Data \cup Extra

ASSUME RegistryAssumption ==
  /\ RemoteOf \in [Data -> Remotes]
  /\ Data \cup Extra \subseteq Nat
  /\ Data \cap Extra = {}
  /\ Budgets \subseteq [deaths : Nat, responses : Nat, refusals : Nat]

VARIABLES
  alive,     \* connections that are open
  budget,    \* what is left of a member of Budgets
  task,      \* Data |-> where the task of the connection is
  registry,  \* connections: remote |-> set of Data
  health,    \* health_connections: remote |-> connection or None
  targets,   \* health_targets
  opener,    \* maintain_health_connection: remote |-> where its task is
  routes,    \* reply_routes
  reply,     \* response_loop: where it is, and its local variables
  beat,      \* health_loop: the same
  refused,   \* history: connections that refused a response
  reachable  \* history: connections that could carry the response

vars == <<alive, budget, task, registry, health, targets, opener,
          routes, reply, beat, refused, reachable>>

Waiting == [pc |-> "receive", remotes |-> << >>, left |-> {}, failed |-> {}, sent |-> TRUE]

Resting == [pc |-> "tick", left |-> {}, failed |-> {}]

Init ==
  /\ alive = {}
  /\ budget \in Budgets
  /\ task = [c \in Data |-> "closed"]
  /\ registry = [r \in Remotes |-> {}]
  /\ health = [r \in Remotes |-> None]
  /\ targets = {}
  /\ opener = [r \in Remotes |-> "none"]
  /\ routes = << >>
  /\ reply = Waiting
  /\ beat = Resting
  /\ refused = {}
  /\ reachable = {}

-----------------------------------------------------------------------------
(* Connections. *)

(* A client's connection is accepted and registered.  Connections are      *)
(* numbered as they come.                                                  *)
Accept(c) ==
  /\ task[c] = "closed"
  /\ \A d \in Data : d < c => task[d] # "closed"
  /\ alive' = alive \cup {c}
  /\ task' = [task EXCEPT ![c] = "health"]
  /\ registry' = [registry EXCEPT ![RemoteOf[c]] = @ \cup {c}]
  /\ UNCHANGED <<budget, health, targets, opener, routes,
                 reply, beat, refused, reachable>>

Spend(what) == budget[what] > 0 /\ budget' = [budget EXCEPT ![what] = @ - 1]

Die(c) ==
  /\ c \in alive
  /\ Spend("deaths")
  /\ alive' = alive \ {c}
  /\ reachable' = reachable \ {c}
  /\ UNCHANGED <<task, registry, health, targets, opener, routes,
                 reply, beat, refused>>

-----------------------------------------------------------------------------
(* The task of connection c. *)

Goto(c, from, to) == task[c] = from /\ task' = [task EXCEPT ![c] = to]

InsertHealth(c) ==
  /\ Goto(c, "health", "target")
  /\ health' = [health EXCEPT ![RemoteOf[c]] = c]
  /\ UNCHANGED <<alive, budget, registry, targets, opener, routes,
                 reply, beat, refused, reachable>>

(* The first connection of an endpoint starts its health task. *)
InsertTarget(c) ==
  /\ Goto(c, "target", "read")
  /\ targets' = targets \cup {RemoteOf[c]}
  /\ opener' = IF RemoteOf[c] \in targets THEN opener
               ELSE [opener EXCEPT ![RemoteOf[c]] = "check"]
  /\ UNCHANGED <<alive, budget, registry, health, routes,
                 reply, beat, refused, reachable>>

(* Variant: a client is added on every frame. *)
AddRoute_Always(r) == Append(routes, r)

(* set_reply_routes without a reset *)
AddRoute(r) == IF Contains(routes, r) THEN routes ELSE Append(routes, r)

(* A frame of c reaches reorder_loop, which sets the reply routes: it      *)
(* starts a flow, or continues one.                                        *)
ReadFrame(c) ==
  /\ task[c] = "read"
  /\ c \in alive
  /\ routes' \in {<<RemoteOf[c]>>, AddRoute(RemoteOf[c])}
  /\ UNCHANGED <<alive, budget, task, registry, health, targets, opener,
                 reply, beat, refused, reachable>>

(* remove_connection_if_current; then the health entry is compared under  *)
(* a read lock and removed under another lock: it may be a newer one by    *)
(* then.  No task looks at both structures, so the first two are one step. *)
(* The code leaves its connection registered if reorder_loop is gone when  *)
(* it sends a frame on; here that loop never ends.                         *)
Unregister(c) ==
  /\ c \notin alive
  /\ Goto(c, "read", IF health[RemoteOf[c]] = c THEN "remove" ELSE "done")
  /\ registry' = [registry EXCEPT ![RemoteOf[c]] = @ \ {c}]
  /\ UNCHANGED <<alive, budget, health, targets, opener, routes,
                 reply, beat, refused, reachable>>

RemoveHealth(c) ==
  /\ Goto(c, "remove", "done")
  /\ health' = [health EXCEPT ![RemoteOf[c]] = None]
  /\ UNCHANGED <<alive, budget, registry, targets, opener, routes,
                 reply, beat, refused, reachable>>

Connection(c) ==
  \/ InsertHealth(c) \/ InsertTarget(c)
  \/ Unregister(c) \/ RemoveHealth(c)

-----------------------------------------------------------------------------
(* response_loop *)

ReplyOnly ==
  UNCHANGED <<alive, task, health, targets, opener, routes, beat>>

(* The connections of the routed clients that are registered and open. *)
Candidates ==
  {c \in Data \cap alive : Contains(routes, RemoteOf[c]) /\ c \in registry[RemoteOf[c]]}

(* A response of the UDP target; without a route it is dropped. *)
Receive ==
  /\ reply.pc = "receive"
  /\ routes # << >>
  /\ Spend("responses")
  /\ reply' = [reply EXCEPT !.pc = "route", !.remotes = routes, !.sent = FALSE]
  /\ reachable' = Candidates
  /\ UNCHANGED <<registry, refused>>
  /\ ReplyOnly

(* The next remote's connections are copied out of the registry; after the *)
(* last remote the response is dropped.                                    *)
NextRemote ==
  /\ reply.pc = "route"
  /\ IF reply.remotes = << >>
     THEN reply' = [Waiting EXCEPT !.sent = FALSE]
     ELSE reply' = [reply EXCEPT !.pc = "send", !.left = registry[Head(reply.remotes)]]
  /\ UNCHANGED <<budget, registry, refused, reachable>>
  /\ ReplyOnly

(* Once a send succeeded, or all failed, what failed is removed. *)
AfterSends(r) ==
  IF r.failed # {} THEN [r EXCEPT !.pc = "remove", !.left = {}]
  ELSE IF r.sent THEN Waiting
  ELSE [r EXCEPT !.pc = "route", !.remotes = Tail(@)]

(* Variant: one failure is enough to give up the remote. *)
Failed_GivesUp(r, c) == AfterSends([r EXCEPT !.failed = @ \cup {c}])

Failed(r, c) == [r EXCEPT !.left = @ \ {c}, !.failed = @ \cup {c}]

SendFails(c) ==
  /\ reply.pc = "send"
  /\ c \in reply.left
  /\ IF c \in alive
     THEN Spend("refusals") /\ refused' = refused \cup {c}
     ELSE UNCHANGED <<budget, refused>>
  /\ reply' = Failed(reply, c)
  /\ reachable' = reachable \ {c}
  /\ UNCHANGED registry
  /\ ReplyOnly

SendSucceeds(c) ==
  /\ reply.pc = "send"
  /\ c \in reply.left \cap alive
  /\ reply' = AfterSends([reply EXCEPT !.sent = TRUE])
  /\ reachable' = {}
  /\ UNCHANGED <<budget, registry, refused>>
  /\ ReplyOnly

NoneLeft ==
  /\ reply.pc = "send"
  /\ reply.left = {}
  /\ reply' = AfterSends(reply)
  /\ UNCHANGED <<budget, registry, refused, reachable>>
  /\ ReplyOnly

(* Variant: a failure removes every connection of the remote. *)
RemoveFailed_All(r) == {}

RemoveFailed(r) == registry[r] \ reply.failed

DropFailed ==
  /\ reply.pc = "remove"
  /\ registry' = [registry EXCEPT ![Head(reply.remotes)] = RemoveFailed(Head(reply.remotes))]
  /\ reply' = AfterSends([reply EXCEPT !.failed = {}])
  /\ UNCHANGED <<budget, refused, reachable>>
  /\ ReplyOnly

Respond ==
  \/ NextRemote
  \/ \E c \in Data : SendFails(c) \/ SendSucceeds(c)
  \/ NoneLeft
  \/ DropFailed

-----------------------------------------------------------------------------
(* health_loop, and maintain_health_connection for each endpoint. *)

HealthOnly ==
  UNCHANGED <<alive, budget, task, registry, targets, routes,
              reply, refused, reachable>>

Held == {r \in Remotes : health[r] # None}

(* The report goes to a copy of health_connections. *)
Beat ==
  /\ beat.pc = "tick"
  /\ Held # {}
  /\ beat' = [pc |-> "send", left |-> {<<r, health[r]>> : r \in Held}, failed |-> {}]
  /\ UNCHANGED <<health, opener>>
  /\ HealthOnly

SendReport(entry) ==
  /\ beat.pc = "send"
  /\ entry \in beat.left
  /\ beat' = [beat EXCEPT !.left = @ \ {entry},
                          !.failed = IF entry[2] \in alive THEN @ ELSE @ \cup {entry}]
  /\ UNCHANGED <<health, opener>>
  /\ HealthOnly

(* Variant: what failed is left. *)
AfterBeat_KeepsFailed(r) == health[r]

(* What failed is removed, if it is still what the remote has. *)
AfterBeat(r) == IF <<r, health[r]>> \in beat.failed THEN None ELSE health[r]

EndBeat ==
  /\ beat.pc = "send"
  /\ beat.left = {}
  /\ health' = [r \in Remotes |-> AfterBeat(r)]
  /\ beat' = Resting
  /\ UNCHANGED opener
  /\ HealthOnly

HealthLoop == Beat \/ (\E entry \in Remotes \X Conns : SendReport(entry)) \/ EndBeat

(* The client's endpoint is there as long as it has a connection. *)
Up(r) == \E c \in Data \cap alive : RemoteOf[c] = r

(* An endpoint never leaves health_targets, so its task never ends. *)
CheckHealth(r) ==
  /\ opener[r] = "check"
  /\ health[r] = None
  /\ opener' = [opener EXCEPT ![r] = "connect"]
  /\ UNCHANGED <<health, beat>>
  /\ HealthOnly

(* Nothing refers to connection c. *)
Unheld(c) == \A r \in Remotes : health[r] # c /\ <<r, c>> \notin beat.left \cup beat.failed

Connect(r) ==
  /\ opener[r] = "connect"
  /\ Up(r)
  /\ \E c \in Extra :
       /\ c \notin alive /\ Unheld(c)
       /\ alive' = alive \cup {c}
       /\ health' = [health EXCEPT ![r] = c]
  /\ opener' = [opener EXCEPT ![r] = "check"]
  /\ UNCHANGED <<budget, task, registry, targets, routes, reply, beat,
                 refused, reachable>>

ConnectFails(r) ==
  /\ opener[r] = "connect"
  /\ ~Up(r)
  /\ opener' = [opener EXCEPT ![r] = "check"]
  /\ UNCHANGED <<health, beat>>
  /\ HealthOnly

Maintain(r) == CheckHealth(r) \/ Connect(r) \/ ConnectFails(r)

(* A health connection closes when the last reference to it is dropped. *)
Dropped(c) ==
  /\ c \in alive
  /\ Unheld(c)
  /\ alive' = alive \ {c}
  /\ UNCHANGED <<budget, task, registry, health, targets, opener, routes,
                 reply, beat, refused, reachable>>

-----------------------------------------------------------------------------
Next ==
  \/ \E c \in Data : Accept(c) \/ ReadFrame(c) \/ Connection(c)
  \/ \E c \in Conns : Die(c)
  \/ \E c \in Extra : Dropped(c)
  \/ Receive
  \/ Respond
  \/ HealthLoop
  \/ \E r \in Remotes : Maintain(r)

Spec == Init /\ [][Next]_vars

(* Every task that can go on does; connections come, close, refuse and     *)
(* deliver as they like.                                                   *)
FairSpec ==
  /\ Spec
  /\ \A c \in Data : WF_vars(Connection(c))
  /\ \A c \in Extra : WF_vars(Dropped(c))
  /\ WF_vars(Respond)
  /\ WF_vars(HealthLoop)
  /\ \A r \in Remotes : WF_vars(Maintain(r))

-----------------------------------------------------------------------------
(* Properties *)

(* The types of the shared structures and of where the tasks are; only     *)
(* connections of a remote are registered under it, and a client is routed *)
(* to once.                                                                *)
TypeOK ==
  /\ alive \subseteq Conns
  /\ budget \in [deaths : Nat, responses : Nat, refusals : Nat]
  /\ task \in [Data -> {"closed", "health", "target", "read", "remove", "done"}]
  /\ registry \in [Remotes -> SUBSET Data]
  /\ \A r \in Remotes : \A c \in registry[r] : RemoteOf[c] = r
  /\ health \in [Remotes -> Conns \cup {None}]
  /\ targets \subseteq Remotes
  /\ opener \in [Remotes -> {"none", "check", "connect"}]
  /\ routes \in Seq(Remotes) /\ IsInjective(routes)
  /\ reply.pc \in {"receive", "route", "send", "remove"}
  /\ beat.pc \in {"tick", "send"}

(* A connection that is open, read, and never refused a response is        *)
(* registered: closing or failing another connection never takes it out.   *)
RegisteredWhileOpen ==
  \A c \in (Data \cap alive) \ refused :
    task[c] \in {"health", "target", "read"} => c \in registry[RemoteOf[c]]

(* A response is dropped only if each registered connection of each client *)
(* that responses go to closed, or refused it, before its turn came.       *)
NoResponseDropped == reply.pc = "receive" /\ ~reply.sent => reachable = {}

(* Whatever closes, and whoever removes or overwrites whose health entry   *)
(* meanwhile, a client that stays connected ends up with an open health    *)
(* connection, and one that is gone with none that is closed.              *)
HealthSettles ==
  \A r \in Remotes :
    <>[](r \in targets => health[r] \in alive \/ (~Up(r) /\ health[r] = None))
=============================================================================
