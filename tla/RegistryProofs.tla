--------------------------- MODULE RegistryProofs ---------------------------
(***************************************************************************)
(* Theorems of Registry, for any number of clients, connections, closings, *)
(* responses and refusals.                                                 *)
(*                                                                         *)
(* response_loop takes connections out of the registry some steps after    *)
(* they failed, under another lock.  That no open connection goes with     *)
(* them rests on two facts about what it remembers: a connection that is   *)
(* registered, collected or failed was accepted, and so is never accepted  *)
(* again; and what failed and is still open refused a response.            *)
(* That no response is dropped while a connection could carry it rests on  *)
(* following each such connection through the loop: until it is tried, it  *)
(* is registered and its remote is still ahead (Tried).                    *)
(***************************************************************************)
EXTENDS Registry, TLAPS

Accepted == {c \in Data : task[c] # "closed"}

(* What response_loop remembers. *)
ReplyTyped ==
  /\ reply \in [ pc : {"receive", "route", "send", "remove"}, remotes : Seq(Remotes),
                 left : SUBSET Data, failed : SUBSET Data, sent : BOOLEAN ]
  /\ reply.pc \in {"send", "remove"} => reply.remotes # << >>

(* What health_loop remembers. *)
BeatTyped ==
  beat \in [ pc : {"tick", "send"}, left : SUBSET (Remotes \X Conns),
             failed : SUBSET (Remotes \X Conns) ]

(* The types of the rest. *)
StateTyped ==
  /\ alive \subseteq Conns
  /\ budget \in [deaths : Nat, responses : Nat, refusals : Nat]
  /\ task \in [Data -> {"closed", "health", "target", "read", "remove", "done"}]
  /\ registry \in [Remotes -> SUBSET Data]
  /\ \A r \in Remotes : \A c \in registry[r] : RemoteOf[c] = r
  /\ health \in [Remotes -> Conns \cup {None}]
  /\ targets \subseteq Remotes
  /\ opener \in [Remotes -> {"none", "check", "connect"}]
  /\ routes \in Seq(Remotes) /\ IsInjective(routes)

Typed == StateTyped /\ ReplyTyped /\ BeatTyped

(* Only connections that were accepted are known to the loop, and what     *)
(* failed is closed or refused a response.                                 *)
Remembered ==
  /\ \A r \in Remotes : registry[r] \subseteq Accepted
  /\ reply.left \subseteq Accepted /\ reply.failed \subseteq Accepted
  /\ reply.failed \cap alive \subseteq refused

(* Where response_loop still finds connection c: on the way to its remote, *)
(* among what is left to try, or under a remote that follows.              *)
Ahead(c) ==
  \/ reply.pc = "route" /\ Contains(reply.remotes, RemoteOf[c])
  \/ reply.pc = "send" /\ c \in reply.left
  \/ reply.pc \in {"send", "remove"} /\ Contains(Tail(reply.remotes), RemoteOf[c])

(* Whoever could carry the response is still open and registered, has not  *)
(* failed, and is yet to be tried, unless the response was sent.           *)
Tried ==
  /\ reachable \subseteq Data \cap alive
  /\ reachable \cap reply.failed = {}
  /\ \A c \in reachable : c \in registry[RemoteOf[c]] /\ Ahead(c)
  /\ reply.pc \in {"receive", "route"} => reply.failed = {}
  /\ reply.pc \in {"route", "send"} => reply.sent = FALSE
  /\ reply.sent = TRUE => reachable = {}

RegistryInv == Typed /\ Remembered /\ RegisteredWhileOpen /\ Tried

-----------------------------------------------------------------------------
(* Initially. *)

(* Nothing is open, nothing is routed to. *)
LEMMA InitTyped == Init => Typed
<1> SUFFICES ASSUME Init PROVE Typed
  OBVIOUS
<1>1. << >> \in Seq(Remotes) /\ IsInjective(<< >>)
  BY DEF IsInjective
<1>2. StateTyped
  BY <1>1, RegistryAssumption DEF Init, StateTyped
<1>3. ReplyTyped
  BY <1>1 DEF Init, ReplyTyped, Waiting
<1>4. BeatTyped
  BY DEF Init, BeatTyped, Resting
<1> QED BY <1>2, <1>3, <1>4 DEF Typed

(* No connection is accepted yet. *)
LEMMA InitInv == Init => RegistryInv
<1> SUFFICES ASSUME Init PROVE RegistryInv
  OBVIOUS
<1>1. Typed
  BY InitTyped
<1>2. Remembered
  BY DEF Init, Remembered, Waiting
<1>3. RegisteredWhileOpen
  BY DEF Init, RegisteredWhileOpen
<1>4. Tried
  BY DEF Init, Tried, Waiting
<1> QED BY <1>1, <1>2, <1>3, <1>4 DEF RegistryInv

-----------------------------------------------------------------------------
(* The types. *)

(* A budget that is spent from stays one. *)
LEMMA SpendTyped ==
  ASSUME budget \in [deaths : Nat, responses : Nat, refusals : Nat],
         NEW what \in {"deaths", "responses", "refusals"}, Spend(what)
  PROVE  budget' \in [deaths : Nat, responses : Nat, refusals : Nat]
BY DEF Spend

(* A route is added at the end, if it is not there yet. *)
LEMMA RouteTyped ==
  ASSUME NEW s \in Seq(Remotes), IsInjective(s), NEW r \in Remotes
  PROVE  /\ Append(s, r) \in Seq(Remotes)
         /\ ~Contains(s, r) => IsInjective(Append(s, r))
         /\ <<r>> \in Seq(Remotes) /\ IsInjective(<<r>>)
BY DEF IsInjective, Contains

(* The steps of a connection and of its task. *)
LEMMA ConnectionsTyped ==
  ASSUME StateTyped, NEW c \in Data,
         Accept(c) \/ ReadFrame(c) \/ Connection(c) \/ Die(c)
  PROVE  StateTyped'
<1> USE RegistryAssumption DEF StateTyped, Conns
<1>1. RemoteOf[c] \in Remotes
  OBVIOUS
<1>2. CASE Accept(c)
  BY <1>1, <1>2 DEF Accept
<1>3. CASE ReadFrame(c)
  <2>1. routes' \in {<<RemoteOf[c]>>, AddRoute(RemoteOf[c])}
    BY <1>3 DEF ReadFrame
  <2>2. routes' \in Seq(Remotes) /\ IsInjective(routes')
    <3>1. routes \in Seq(Remotes) /\ IsInjective(routes)
      OBVIOUS
    <3>2. <<RemoteOf[c]>> \in Seq(Remotes) /\ IsInjective(<<RemoteOf[c]>>)
      BY <1>1, <3>1, RouteTyped
    <3>3. AddRoute(RemoteOf[c]) \in Seq(Remotes) /\ IsInjective(AddRoute(RemoteOf[c]))
      <4>1. AddRoute(RemoteOf[c]) \in {routes, Append(routes, RemoteOf[c])}
            /\ (Contains(routes, RemoteOf[c]) => AddRoute(RemoteOf[c]) = routes)
        BY DEF AddRoute
      <4>2. /\ Append(routes, RemoteOf[c]) \in Seq(Remotes)
            /\ ~Contains(routes, RemoteOf[c]) => IsInjective(Append(routes, RemoteOf[c]))
        BY <1>1, <3>1, RouteTyped
      <4> QED BY <3>1, <4>1, <4>2, Zenon
    <3> QED BY <2>1, <3>2, <3>3
  <2> QED BY <1>3, <2>2 DEF ReadFrame
<1>4. CASE InsertHealth(c)
  BY <1>1, <1>4 DEF InsertHealth, Goto
<1>5. CASE InsertTarget(c)
  BY <1>1, <1>5 DEF InsertTarget, Goto
<1>6. CASE Unregister(c)
  BY <1>1, <1>6 DEF Unregister, Goto
<1>7. CASE RemoveHealth(c)
  BY <1>1, <1>7 DEF RemoveHealth, Goto
<1>8. CASE Die(c)
  BY <1>8, SpendTyped DEF Die
<1> QED BY <1>2, <1>3, <1>4, <1>5, <1>6, <1>7, <1>8 DEF Connection

(* response_loop only changes the registry. *)
LEMMA ReplyKeepsState ==
  ASSUME StateTyped, ReplyTyped, Receive \/ Respond
  PROVE  StateTyped'
<1> USE DEF StateTyped, ReplyOnly
<1>1. CASE Receive
  BY <1>1, SpendTyped DEF Receive
<1>2. CASE NextRemote
  BY <1>2 DEF NextRemote
<1>3. ASSUME NEW c \in Data, SendFails(c)
      PROVE  StateTyped'
  BY <1>3, SpendTyped DEF SendFails
<1>4. ASSUME NEW c \in Data, SendSucceeds(c)
      PROVE  StateTyped'
  BY <1>4 DEF SendSucceeds
<1>5. CASE NoneLeft
  BY <1>5 DEF NoneLeft
<1>6. CASE DropFailed
  BY <1>6 DEF DropFailed, RemoveFailed
<1> QED BY <1>1, <1>2, <1>3, <1>4, <1>5, <1>6 DEF Respond

(* What response_loop goes on with once it is done with a remote. *)
LEMMA AfterSendsTyped ==
  ASSUME NEW r \in [ pc : {"receive", "route", "send", "remove"}, remotes : Seq(Remotes),
                     left : SUBSET Data, failed : SUBSET Data, sent : BOOLEAN ],
         r.remotes # << >>, reply' = AfterSends(r)
  PROVE  ReplyTyped'
<1>1. << >> \in Seq(Remotes) /\ Tail(r.remotes) \in Seq(Remotes)
  OBVIOUS
<1> QED BY <1>1 DEF AfterSends, ReplyTyped, Waiting

(* What response_loop remembers keeps its type. *)
LEMMA ReplyStep ==
  ASSUME StateTyped, ReplyTyped, Receive \/ Respond
  PROVE  ReplyTyped'
<1>1. CASE Receive
  BY <1>1 DEF Receive, ReplyTyped, StateTyped
<1>2. CASE NextRemote
  <2>1. CASE reply.remotes = << >>
    BY <1>2, <2>1 DEF NextRemote, ReplyTyped, Waiting
  <2>2. CASE reply.remotes # << >>
    <3>1. registry[Head(reply.remotes)] \subseteq Data
      BY <2>2 DEF ReplyTyped, StateTyped
    <3> QED BY <1>2, <2>2, <3>1 DEF NextRemote, ReplyTyped
  <2> QED BY <2>1, <2>2
<1>3. ASSUME NEW c \in Data, SendFails(c)
      PROVE  ReplyTyped'
  BY <1>3 DEF SendFails, Failed, ReplyTyped
<1>4. ASSUME NEW c \in Data, SendSucceeds(c)
      PROVE  ReplyTyped'
  BY <1>4, AfterSendsTyped DEF SendSucceeds, ReplyTyped
<1>5. CASE NoneLeft
  BY <1>5, AfterSendsTyped DEF NoneLeft, ReplyTyped
<1>6. CASE DropFailed
  BY <1>6, AfterSendsTyped DEF DropFailed, ReplyTyped
<1> QED BY <1>1, <1>2, <1>3, <1>4, <1>5, <1>6 DEF Respond

(* The steps of health_loop and of the health tasks. *)
LEMMA HealthTyped ==
  ASSUME StateTyped, BeatTyped,
         HealthLoop \/ \E r \in Remotes : Maintain(r)
  PROVE  StateTyped' /\ BeatTyped'
<1> USE DEF StateTyped, BeatTyped, HealthOnly
<1>1. CASE Beat
  <2>1. {<<r, health[r]>> : r \in Held} \subseteq Remotes \X Conns
    BY DEF Held
  <2> QED BY <1>1, <2>1 DEF Beat
<1>2. ASSUME NEW entry \in Remotes \X Conns, SendReport(entry)
      PROVE  StateTyped' /\ BeatTyped'
  <2>1. beat.left \ {entry} \subseteq Remotes \X Conns
        /\ beat.failed \cup {entry} \subseteq Remotes \X Conns
    BY <1>2
  <2>2. BeatTyped'
    <3>1. CASE entry[2] \in alive
      BY <1>2, <2>1, <3>1 DEF SendReport
    <3>2. CASE entry[2] \notin alive
      BY <1>2, <2>1, <3>2 DEF SendReport
    <3> QED BY <3>1, <3>2
  <2> QED BY <1>2, <2>2 DEF SendReport
<1>3. CASE EndBeat
  BY <1>3 DEF EndBeat, AfterBeat, Resting
<1>4. ASSUME NEW r \in Remotes, CheckHealth(r) \/ ConnectFails(r)
      PROVE  StateTyped' /\ BeatTyped'
  BY <1>4 DEF CheckHealth, ConnectFails
<1>5. ASSUME NEW r \in Remotes, Connect(r)
      PROVE  StateTyped' /\ BeatTyped'
  BY <1>5 DEF Connect, Conns
<1> QED BY <1>1, <1>2, <1>3, <1>4, <1>5 DEF HealthLoop, Maintain

(* Every step keeps the types. *)
LEMMA TypedStep ==
  ASSUME Typed, [Next]_vars
  PROVE  Typed'
<1> USE DEF Typed
<1>1. ASSUME NEW c \in Data, Accept(c) \/ ReadFrame(c) \/ Connection(c)
      PROVE  Typed'
  <2>1. reply' = reply /\ beat' = beat
    BY <1>1 DEF Accept, ReadFrame, Connection, InsertHealth, InsertTarget,
                Unregister, RemoveHealth
  <2>2. ReplyTyped' /\ BeatTyped'
    BY <2>1 DEF ReplyTyped, BeatTyped
  <2> QED BY <1>1, <2>2, ConnectionsTyped
<1>2. ASSUME NEW c \in Conns, Die(c) \/ Dropped(c)
      PROVE  Typed'
  <2>1. ReplyTyped' /\ BeatTyped'
    BY <1>2 DEF Die, Dropped, ReplyTyped, BeatTyped
  <2>2. StateTyped'
    BY <1>2, SpendTyped DEF Die, Dropped, StateTyped
  <2> QED BY <2>1, <2>2
<1>3. CASE Receive \/ Respond
  <2>1. beat' = beat
    BY <1>3 DEF Receive, Respond, NextRemote, SendFails, SendSucceeds, NoneLeft,
                DropFailed, ReplyOnly
  <2>2. BeatTyped'
    BY <2>1 DEF BeatTyped
  <2> QED BY <1>3, <2>2, ReplyKeepsState, ReplyStep
<1>4. CASE HealthLoop \/ \E r \in Remotes : Maintain(r)
  <2>1. reply' = reply
    BY <1>4 DEF HealthLoop, Beat, SendReport, EndBeat, Maintain, CheckHealth, Connect,
                ConnectFails, HealthOnly
  <2>2. ReplyTyped'
    BY <2>1 DEF ReplyTyped
  <2> QED BY <1>4, <2>2, HealthTyped
<1>5. CASE UNCHANGED vars
  BY <1>5 DEF vars, StateTyped, ReplyTyped, BeatTyped
<1> QED
  BY <1>1, <1>2, <1>3, <1>4, <1>5 DEF Next, Conns

-----------------------------------------------------------------------------
(* What the loop remembers. *)

(* The task of a connection only moves on. *)
LEMMA StaysAccepted ==
  ASSUME Typed, [Next]_vars
  PROVE  Accepted \subseteq Accepted'
<1> SUFFICES ASSUME NEW c \in Data, task[c] # "closed"
             PROVE  task'[c] # "closed"
  BY DEF Accepted
<1>1. ASSUME NEW d \in Data, Accept(d) \/ ReadFrame(d) \/ Connection(d)
      PROVE  task'[c] # "closed"
  BY <1>1 DEF Typed, StateTyped, Accept, ReadFrame, Connection, InsertHealth, InsertTarget,
              Unregister, RemoveHealth, Goto
<1>2. CASE \A d \in Data : ~(Accept(d) \/ ReadFrame(d) \/ Connection(d))
  <2>1. task' = task
    BY <1>2 DEF Next, vars, Die, Dropped, Receive, Respond, NextRemote, SendFails,
                SendSucceeds, NoneLeft, DropFailed, ReplyOnly, HealthLoop, Beat, SendReport,
                EndBeat, Maintain, CheckHealth, Connect, ConnectFails, HealthOnly
  <2> QED BY <2>1
<1> QED BY <1>1, <1>2

(* A step that leaves the registry, the refusals and response_loop alone   *)
(* keeps what the loop remembers, if no connection that was accepted is    *)
(* opened by it.                                                           *)
LEMMA SameRemembered ==
  ASSUME Remembered, Accepted \subseteq Accepted', alive' \cap Accepted \subseteq alive,
         registry' = registry, reply' = reply, refused' = refused
  PROVE  Remembered'
BY DEF Remembered

(* Every step keeps what the loop remembers. *)
LEMMA RememberedStep ==
  ASSUME Typed, Remembered, [Next]_vars
  PROVE  Remembered'
<1>1. Accepted \subseteq Accepted'
  BY StaysAccepted
<1>2. ASSUME NEW c \in Data, Accept(c)
      PROVE  Remembered'
  <2>1. c \notin Accepted /\ c \in Accepted'
    BY <1>2 DEF Accept, Accepted, Typed, StateTyped
  <2> QED BY <1>1, <1>2, <2>1 DEF Accept, Remembered, Typed, StateTyped
<1>3. ASSUME NEW c \in Data, ReadFrame(c) \/ Connection(c)
      PROVE  Remembered'
  <2>1. CASE Unregister(c)
    BY <1>1, <2>1 DEF Unregister, Remembered, Typed, StateTyped
  <2>2. CASE ~Unregister(c)
    BY <1>1, <1>3, <2>2, SameRemembered
    DEF ReadFrame, Connection, InsertHealth, InsertTarget, RemoveHealth
  <2> QED BY <2>1, <2>2
<1>4. ASSUME NEW c \in Conns, Die(c) \/ Dropped(c)
      PROVE  Remembered'
  BY <1>1, <1>4, SameRemembered DEF Die, Dropped
<1>5. CASE Receive \/ Respond
  <2> USE <1>1 DEF Remembered, ReplyOnly
  <2>1. CASE Receive
    BY <2>1 DEF Receive, Typed, ReplyTyped
  <2>2. CASE NextRemote
    <3>1. CASE reply.remotes = << >>
      BY <2>2, <3>1 DEF NextRemote, Waiting
    <3>2. CASE reply.remotes # << >>
      <4>1. Head(reply.remotes) \in Remotes
        BY <3>2 DEF Typed, ReplyTyped
      <4> QED BY <2>2, <3>2, <4>1 DEF NextRemote, Typed, ReplyTyped
    <3> QED BY <3>1, <3>2
  <2>3. ASSUME NEW c \in Data, SendFails(c)
        PROVE  Remembered'
    BY <2>3 DEF SendFails, Failed, Typed, ReplyTyped
  <2>4. ASSUME NEW c \in Data, SendSucceeds(c)
        PROVE  Remembered'
    BY <2>4 DEF SendSucceeds, AfterSends, Waiting, Typed, ReplyTyped
  <2>5. CASE NoneLeft
    BY <2>5 DEF NoneLeft, AfterSends, Waiting, Typed, ReplyTyped
  <2>6. CASE DropFailed
    BY <2>6 DEF DropFailed, RemoveFailed, AfterSends, Waiting, Typed, ReplyTyped, StateTyped
  <2> QED BY <1>5, <2>1, <2>2, <2>3, <2>4, <2>5, <2>6 DEF Respond
<1>6. CASE HealthLoop \/ \E r \in Remotes : Maintain(r)
  <2>1. alive' \cap Accepted \subseteq alive
    BY <1>6, RegistryAssumption
    DEF HealthLoop, Beat, SendReport, EndBeat, Maintain, CheckHealth, Connect,
        ConnectFails, HealthOnly, Accepted
  <2> QED
    BY <1>1, <1>6, <2>1, SameRemembered
    DEF HealthLoop, Beat, SendReport, EndBeat, Maintain, CheckHealth, Connect,
        ConnectFails, HealthOnly
<1>7. CASE UNCHANGED vars
  BY <1>1, <1>7, SameRemembered DEF vars
<1> QED
  BY <1>2, <1>3, <1>4, <1>5, <1>6, <1>7 DEF Next, Conns

-----------------------------------------------------------------------------
(* Open connections. *)

(* Every step keeps open connections registered.  What DropFailed takes    *)
(* out has refused a response, if it is still open.                        *)
LEMMA OpenStep ==
  ASSUME RegistryInv, [Next]_vars
  PROVE  RegisteredWhileOpen'
<1> USE DEF RegisteredWhileOpen
<1>0. Typed /\ Remembered /\ RegisteredWhileOpen
  BY DEF RegistryInv
<1>1. ASSUME NEW c \in Data, Accept(c)
      PROVE  RegisteredWhileOpen'
  BY <1>0, <1>1, RegistryAssumption DEF Accept, Typed, StateTyped
<1>2. ASSUME NEW c \in Data, ReadFrame(c) \/ Connection(c)
      PROVE  RegisteredWhileOpen'
  <2>1. CASE Unregister(c)
    BY <1>0, <2>1, RegistryAssumption DEF Unregister, Goto, Typed, StateTyped
  <2>2. CASE ~Unregister(c)
    BY <1>0, <1>2, <2>2
    DEF ReadFrame, Connection, InsertHealth, InsertTarget, RemoveHealth, Goto,
        Typed, StateTyped
  <2> QED BY <2>1, <2>2
<1>3. ASSUME NEW c \in Conns, Die(c) \/ Dropped(c)
      PROVE  RegisteredWhileOpen'
  BY <1>0, <1>3 DEF Die, Dropped
<1>4. CASE Receive \/ NextRemote \/ NoneLeft
  BY <1>0, <1>4 DEF Receive, NextRemote, NoneLeft, ReplyOnly
<1>5. ASSUME NEW c \in Data, SendFails(c) \/ SendSucceeds(c)
      PROVE  RegisteredWhileOpen'
  <2>1. refused \subseteq refused'
    BY <1>5 DEF SendFails, SendSucceeds
  <2> QED BY <1>0, <1>5, <2>1 DEF SendFails, SendSucceeds, ReplyOnly
<1>6. CASE DropFailed
  <2> SUFFICES ASSUME NEW c \in (Data \cap alive) \ refused,
                      task[c] \in {"health", "target", "read"}
               PROVE  c \in registry'[RemoteOf[c]]
    BY <1>6 DEF DropFailed, ReplyOnly
  <2>1. c \in registry[RemoteOf[c]]
    BY <1>0
  <2>2. c \notin reply.failed
    BY <1>0 DEF Remembered
  <2>3. RemoteOf[c] \in Remotes
    BY RegistryAssumption
  <2> QED BY <1>0, <1>6, <2>1, <2>2, <2>3 DEF DropFailed, RemoveFailed, Typed, StateTyped
<1>7. CASE HealthLoop \/ \E r \in Remotes : Maintain(r)
  <2>1. alive' \cap Data \subseteq alive
    BY <1>7, RegistryAssumption
    DEF HealthLoop, Beat, SendReport, EndBeat, Maintain, CheckHealth, Connect,
        ConnectFails, HealthOnly
  <2> QED
    BY <1>0, <1>7, <2>1
    DEF HealthLoop, Beat, SendReport, EndBeat, Maintain, CheckHealth, Connect,
        ConnectFails, HealthOnly
<1>8. CASE UNCHANGED vars
  BY <1>0, <1>8 DEF vars
<1> QED
  BY <1>1, <1>2, <1>3, <1>4, <1>5, <1>6, <1>7, <1>8 DEF Next, Respond, Conns

-----------------------------------------------------------------------------
(* Responses. *)

(* A route is the first or one of the rest. *)
LEMMA FirstOrRest ==
  ASSUME NEW s \in Seq(Remotes), NEW r, Contains(s, r)
  PROVE  s # << >> /\ (Head(s) = r \/ Contains(Tail(s), r))
<1>1. PICK i \in 1..Len(s) : s[i] = r
  BY DEF Contains
<1>2. s # << >>
  BY <1>1
<1>3. CASE i = 1
  BY <1>1, <1>2, <1>3
<1>4. CASE i # 1
  <2>1. i - 1 \in 1..Len(Tail(s)) /\ Tail(s)[i - 1] = s[i]
    BY <1>1, <1>2, <1>4
  <2> QED BY <1>1, <1>2, <2>1 DEF Contains
<1> QED BY <1>3, <1>4

(* A step that leaves response_loop alone and takes nobody who could carry *)
(* the response out of the registry.                                       *)
LEMMA SameTried ==
  ASSUME Tried, reply' = reply, reachable' \subseteq reachable, reachable' \subseteq alive',
         \A c \in reachable' : c \in registry'[RemoteOf[c]]
  PROVE  Tried'
BY DEF Tried, Ahead

(* Once a remote is done with, whoever is left is under one that follows. *)
LEMMA AfterSendsTried ==
  ASSUME NEW r \in [ pc : {"receive", "route", "send", "remove"}, remotes : Seq(Remotes),
                     left : SUBSET Data, failed : SUBSET Data, sent : BOOLEAN ],
         reply' = AfterSends(r),
         reachable' \subseteq Data \cap alive', reachable' \cap r.failed = {},
         r.sent = TRUE => reachable' = {},
         \A c \in reachable' : c \in registry'[RemoteOf[c]] /\ Contains(Tail(r.remotes), RemoteOf[c])
  PROVE  Tried'
<1>1. CASE r.failed # {}
  <2>1. reply' = [r EXCEPT !.pc = "remove", !.left = {}]
    BY <1>1 DEF AfterSends
  <2>2. /\ reply'.pc = "remove" /\ reply'.remotes = r.remotes
        /\ reply'.failed = r.failed /\ reply'.sent = r.sent
    BY <2>1
  <2> QED BY <2>2 DEF Tried, Ahead
<1>2. CASE r.failed = {} /\ r.sent = TRUE
  <2>1. reply' = Waiting
    BY <1>2 DEF AfterSends
  <2> QED BY <1>2, <2>1 DEF Tried, Waiting
<1>3. CASE r.failed = {} /\ r.sent = FALSE
  <2>1. reply' = [r EXCEPT !.pc = "route", !.remotes = Tail(@)]
    BY <1>3 DEF AfterSends
  <2>2. /\ reply'.pc = "route" /\ reply'.remotes = Tail(r.remotes)
        /\ reply'.failed = {} /\ reply'.sent = FALSE
    BY <1>3, <2>1
  <2> QED BY <2>2 DEF Tried, Ahead
<1> QED BY <1>1, <1>2, <1>3

(* Every step of response_loop either tries a connection that could carry  *)
(* the response or leaves it ahead.                                        *)
LEMMA ReplyTried ==
  ASSUME Typed, Tried, Receive \/ Respond
  PROVE  Tried'
<1>0. /\ reply \in [ pc : {"receive", "route", "send", "remove"}, remotes : Seq(Remotes),
                     left : SUBSET Data, failed : SUBSET Data, sent : BOOLEAN ]
      /\ reply.pc \in {"send", "remove"} => reply.remotes # << >>
      /\ alive' = alive
  BY DEF Typed, ReplyTyped, Receive, Respond, NextRemote, SendFails, SendSucceeds, NoneLeft,
         DropFailed, ReplyOnly
<1>1. CASE Receive
  <2>1. /\ reply.pc = "receive" /\ reachable' = Candidates /\ registry' = registry
        /\ reply' = [reply EXCEPT !.pc = "route", !.remotes = routes, !.sent = FALSE]
    BY <1>1 DEF Receive
  <2>2. /\ reply'.pc = "route" /\ reply'.remotes = routes /\ reply'.sent = FALSE
        /\ reply'.failed = reply.failed
    BY <1>0, <2>1
  <2>3. reply.failed = {}
    BY <2>1 DEF Tried
  <2> QED BY <1>0, <2>1, <2>2, <2>3 DEF Tried, Ahead, Candidates
<1>2. CASE NextRemote
  <2>1. /\ reply.pc = "route" /\ registry' = registry /\ reachable' = reachable
    BY <1>2 DEF NextRemote
  <2>2. /\ reply.failed = {} /\ reply.sent = FALSE
        /\ \A c \in reachable : /\ c \in registry[RemoteOf[c]]
                                /\ Contains(reply.remotes, RemoteOf[c])
    BY <2>1 DEF Tried, Ahead
  <2>3. CASE reply.remotes = << >>
    <3>1. reachable = {}
      BY <2>2, <2>3, <1>0, FirstOrRest
    <3>2. reply' = [Waiting EXCEPT !.sent = FALSE]
      BY <1>2, <2>3 DEF NextRemote
    <3>3. reply'.pc = "receive" /\ reply'.failed = {} /\ reply'.sent = FALSE
      BY <3>2 DEF Waiting
    <3> QED BY <2>1, <3>1, <3>3 DEF Tried
  <2>4. CASE reply.remotes # << >>
    <3>1. reply' = [reply EXCEPT !.pc = "send", !.left = registry[Head(reply.remotes)]]
      BY <1>2, <2>4 DEF NextRemote
    <3>2. /\ reply'.pc = "send" /\ reply'.left = registry[Head(reply.remotes)]
          /\ reply'.remotes = reply.remotes /\ reply'.failed = {} /\ reply'.sent = FALSE
      BY <1>0, <2>2, <3>1
    <3>3. ASSUME NEW c \in reachable
          PROVE  c \in reply'.left \/ Contains(Tail(reply'.remotes), RemoteOf[c])
      <4>1. Head(reply.remotes) = RemoteOf[c] \/ Contains(Tail(reply.remotes), RemoteOf[c])
        BY <1>0, <2>2, FirstOrRest
      <4> QED BY <2>2, <3>2, <4>1
    <3> QED BY <1>0, <2>1, <2>2, <3>2, <3>3 DEF Tried, Ahead
  <2> QED BY <2>3, <2>4
<1>3. ASSUME NEW c \in Data, SendFails(c)
      PROVE  Tried'
  <2>1. /\ reply.pc = "send" /\ reachable' = reachable \ {c} /\ registry' = registry
        /\ reply' = [reply EXCEPT !.left = @ \ {c}, !.failed = @ \cup {c}]
    BY <1>3 DEF SendFails, Failed
  <2>2. /\ reply'.pc = "send" /\ reply'.left = reply.left \ {c}
        /\ reply'.failed = reply.failed \cup {c}
        /\ reply'.remotes = reply.remotes /\ reply'.sent = reply.sent
    BY <1>0, <2>1
  <2> QED BY <1>0, <2>1, <2>2 DEF Tried, Ahead
<1>4. ASSUME NEW c \in Data, SendSucceeds(c)
      PROVE  Tried'
  <2> DEFINE r == [reply EXCEPT !.sent = TRUE]
  <2>1. reply' = AfterSends(r) /\ reachable' = {}
    BY <1>4 DEF SendSucceeds
  <2>2. r \in [ pc : {"receive", "route", "send", "remove"}, remotes : Seq(Remotes),
                left : SUBSET Data, failed : SUBSET Data, sent : BOOLEAN ]
    BY <1>0
  <2> HIDE DEF r
  <2> QED BY <2>1, <2>2, AfterSendsTried
<1>5. CASE NoneLeft
  <2>1. /\ reply.pc = "send" /\ reply.left = {} /\ reply' = AfterSends(reply)
        /\ reachable' = reachable /\ registry' = registry
    BY <1>5 DEF NoneLeft
  <2>2. /\ reachable \subseteq Data \cap alive /\ reachable \cap reply.failed = {}
        /\ reply.sent = TRUE => reachable = {}
        /\ \A c \in reachable : /\ c \in registry[RemoteOf[c]]
                                /\ Contains(Tail(reply.remotes), RemoteOf[c])
    BY <2>1 DEF Tried, Ahead
  <2> QED BY <1>0, <2>1, <2>2, AfterSendsTried
<1>6. CASE DropFailed
  <2> DEFINE r == [reply EXCEPT !.failed = {}]
  <2>1. /\ reply.pc = "remove" /\ reply' = AfterSends(r) /\ reachable' = reachable
        /\ registry' = [registry EXCEPT ![Head(reply.remotes)] = @ \ reply.failed]
    BY <1>6 DEF DropFailed, RemoveFailed
  <2>2. r \in [ pc : {"receive", "route", "send", "remove"}, remotes : Seq(Remotes),
                left : SUBSET Data, failed : SUBSET Data, sent : BOOLEAN ]
    BY <1>0
  <2>3. r.failed = {} /\ r.sent = reply.sent /\ r.remotes = reply.remotes
    BY <1>0
  <2> HIDE DEF r
  <2>4. /\ reachable \subseteq Data \cap alive /\ reachable \cap reply.failed = {}
        /\ reply.sent = TRUE => reachable = {}
        /\ \A c \in reachable : /\ c \in registry[RemoteOf[c]]
                                /\ Contains(Tail(reply.remotes), RemoteOf[c])
    BY <2>1 DEF Tried, Ahead
  <2>5. \A c \in reachable : c \in registry'[RemoteOf[c]]
    BY <2>1, <2>4, RegistryAssumption DEF Typed, StateTyped
  <2> QED BY <1>0, <2>1, <2>2, <2>3, <2>4, <2>5, AfterSendsTried
<1> QED BY <1>1, <1>2, <1>3, <1>4, <1>5, <1>6 DEF Respond

(* The other tasks leave the loop alone.  A connection leaves the registry *)
(* only once it is closed, and then it can carry nothing.                  *)
LEMMA TriedStep ==
  ASSUME Typed, Tried, [Next]_vars
  PROVE  Tried'
<1>0. /\ reachable \subseteq Data /\ reachable \subseteq alive
      /\ \A c \in reachable : c \in registry[RemoteOf[c]]
      /\ registry \in [Remotes -> SUBSET Data]
  BY DEF Typed, StateTyped, Tried
<1>1. ASSUME NEW c \in Data, Accept(c) \/ Unregister(c)
      PROVE  Tried'
  <2>1. reply' = reply /\ reachable' = reachable /\ alive \subseteq alive'
    BY <1>1 DEF Accept, Unregister
  <2>2. \A d \in reachable : d \in registry'[RemoteOf[d]]
    BY <1>0, <1>1, RegistryAssumption DEF Accept, Unregister
  <2> QED BY <1>0, <2>1, <2>2, SameTried
<1>2. ASSUME NEW c \in Data, ReadFrame(c) \/ InsertHealth(c) \/ InsertTarget(c) \/ RemoveHealth(c)
      PROVE  Tried'
  BY <1>0, <1>2, SameTried DEF ReadFrame, InsertHealth, InsertTarget, RemoveHealth
<1>3. ASSUME NEW c \in Conns, Die(c)
      PROVE  Tried'
  BY <1>0, <1>3, SameTried DEF Die
<1>4. ASSUME NEW c \in Extra, Dropped(c)
      PROVE  Tried'
  BY <1>0, <1>4, RegistryAssumption, SameTried DEF Dropped
<1>5. CASE HealthLoop \/ \E r \in Remotes : Maintain(r)
  <2>1. /\ reply' = reply /\ reachable' = reachable /\ registry' = registry
        /\ alive \subseteq alive'
    BY <1>5
    DEF HealthLoop, Beat, SendReport, EndBeat, Maintain, CheckHealth, Connect,
        ConnectFails, HealthOnly
  <2> QED BY <1>0, <2>1, SameTried
<1>6. CASE UNCHANGED vars
  BY <1>0, <1>6, SameTried DEF vars
<1> QED
  BY <1>1, <1>2, <1>3, <1>4, <1>5, <1>6, ReplyTried DEF Next, Connection

-----------------------------------------------------------------------------
(* The theorems. *)

(* The invariant holds throughout. *)
LEMMA InvHolds == Spec => []RegistryInv
<1>1. RegistryInv /\ [Next]_vars => RegistryInv'
  BY TypedStep, RememberedStep, OpenStep, TriedStep DEF RegistryInv
<1> QED BY InitInv, <1>1, PTL DEF Spec

(* Whatever closes, fails or is refused, the shared structures of the      *)
(* server and the states of its tasks keep their types, a connection is    *)
(* registered only under its own remote, and no client is routed to twice. *)
THEOREM RegistryTypeCorrect == Spec => []TypeOK
<1>1. RegistryInv => TypeOK
  BY DEF RegistryInv, Typed, StateTyped, ReplyTyped, BeatTyped, TypeOK
<1> QED BY InvHolds, <1>1, PTL

(* A connection that is open and being read stays in the registry, unless  *)
(* it refused a response itself: neither the end of another connection nor *)
(* response_loop's late removal of what failed takes it out.               *)
THEOREM OpenStaysRegistered == Spec => []RegisteredWhileOpen
<1>1. RegistryInv => RegisteredWhileOpen
  BY DEF RegistryInv
<1> QED BY InvHolds, <1>1, PTL

(* A response is dropped only if each registered connection of each client *)
(* that responses go to closed, or refused it, before its turn came.       *)
THEOREM ResponsesAreTried == Spec => []NoResponseDropped
<1>1. RegistryInv => NoResponseDropped
  BY DEF RegistryInv, Tried, Ahead, NoResponseDropped
<1> QED BY InvHolds, <1>1, PTL
=============================================================================
