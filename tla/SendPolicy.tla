----------------------------- MODULE SendPolicy -----------------------------
(***************************************************************************)
(* The client's sender over several paths: send_payload of crates/client/  *)
(* src/main.rs decides for each payload how it is cut and on which paths   *)
(* it goes, by SplitPlan.tla, while strategy_loop of path_strategy.rs      *)
(* moves auto mode between split and redundant.                            *)
(*                                                                         *)
(* Both read the state that other tasks change: the health receivers, the  *)
(* tasks of each path (PathConnection.tla has them in detail), the user.   *)
(* The sender reads connections and mode, then strategy and groups, then   *)
(* the weights; the loop reads the backlogs, decides, and then stores      *)
(* split.  Between these steps anything may happen.  Parity frames, which  *)
(* go to every path, are in Fec.tla.                                       *)
(***************************************************************************)
EXTENDS SplitPlan

CONSTANTS
  PathCount,    \* number of interfaces
  Payloads,     \* what may be ingested: [len, ts], ts if it is MPEG-TS
  Reports,      \* what the server may report: path |-> [seq, mbps]
  Modes,        \* the modes that the user may choose
  MaxPayloads,  \* bound: payloads ingested
  MaxEvents     \* bound: changes by other tasks, in the whole run

Paths == 1..PathCount

(* main: there are at most MAX_FRAGMENTS interfaces. *)
ASSUME PolicyAssumption ==
  /\ PathCount \in 1..MaxFragments
  /\ \A x \in Payloads : x.len \in Nat /\ x.ts \in BOOLEAN
  /\ \A r \in Reports :
       /\ DOMAIN r \subseteq Paths
       /\ \A p \in DOMAIN r : r[p].seq \in Nat \cup {None} /\ r[p].mbps \in Nat
  /\ Modes \subseteq {"auto", "redundant", "split", "roundrobin"}

VARIABLES
  connected,  \* the paths with a connection
  failed,     \* interface_failures
  health,     \* health_by_interface: path |-> [seq, mbps, fresh]
  mode,       \* mode
  stored,     \* strategy, which only auto mode looks at
  weighted,   \* weighted_auto_split
  backlog,    \* the worst tc backlog: "none" if tc fails, "low", "mid", "high"
  cursor,     \* round_robin_cursor
  sequence,   \* sequence of the next packet
  sender,     \* where send_payload is, and what it has read
  sent,       \* the datagrams of the last payload
  loop,       \* where strategy_loop is, and the backlog it has read
  payloads,   \* number of payloads ingested
  events      \* number of changes by other tasks

shared == <<connected, failed, health, mode, stored, weighted, backlog>>

senderVars == <<cursor, sequence, sender, sent, payloads>>

policyVars == <<shared, senderVars, loop, events>>

Idle == [step |-> "idle"]

(* spawn_strategy_loop *)
Init ==
  /\ connected = Paths
  /\ failed = {}
  /\ health = << >>
  /\ mode = "auto"
  /\ stored = "split"
  /\ weighted = TRUE
  /\ backlog \in {"none", "low", "high"}
  /\ cursor = 0
  /\ sequence = 0
  /\ sender = Idle
  /\ sent = {}
  /\ loop = Idle
  /\ payloads = 0
  /\ events = 0

(* current *)
Effective == IF mode = "auto" THEN stored ELSE mode

(* degrade_to_redundant *)
Degraded == IF mode = "auto" THEN "redundant" ELSE stored

-----------------------------------------------------------------------------
(* The other tasks. *)

Event == events < MaxEvents /\ events' = events + 1

(* record_health_report *)
Report(r) ==
  /\ health' = [p \in DOMAIN health \cup DOMAIN r |->
                  IF p \in DOMAIN r
                  THEN [seq |-> r[p].seq, mbps |-> r[p].mbps, fresh |-> TRUE]
                  ELSE health[p]]
  /\ UNCHANGED <<connected, failed, mode, stored, weighted, backlog>>

(* The report on a path is AUTO_SPLIT_HEALTH_STALE_MS old. *)
GrowStale(p) ==
  /\ p \in Fresh(health, Paths)
  /\ health' = [health EXCEPT ![p].fresh = FALSE]
  /\ UNCHANGED <<connected, failed, mode, stored, weighted, backlog>>

(* A path loses its connection or gets one. *)
Connection(p) ==
  /\ connected' = IF p \in connected THEN connected \ {p} ELSE connected \cup {p}
  /\ UNCHANGED <<failed, health, mode, stored, weighted, backlog>>

(* record_interface_failure or record_interface_dead; after the first      *)
(* comes degrade_to_redundant.                                             *)
RecordFailure(p) ==
  /\ p \notin failed
  /\ failed' = failed \cup {p}
  /\ stored' \in {stored, Degraded}
  /\ UNCHANGED <<connected, health, mode, weighted, backlog>>

(* record_interface_success *)
RecordSuccess(p) ==
  /\ p \in failed
  /\ failed' = failed \ {p}
  /\ UNCHANGED <<connected, health, mode, stored, weighted, backlog>>

(* set_mode *)
SetMode(m) ==
  /\ mode' = m
  /\ UNCHANGED <<connected, failed, health, stored, weighted, backlog>>

(* toggle_weighted_auto_split *)
ToggleWeighted ==
  /\ weighted' = ~weighted
  /\ UNCHANGED <<connected, failed, health, mode, stored, backlog>>

Backlog(b) ==
  /\ backlog' = b
  /\ UNCHANGED <<connected, failed, health, mode, stored, weighted>>

OtherTask ==
  /\ Event
  /\ \/ \E r \in Reports : Report(r)
     \/ \E p \in Paths : GrowStale(p) \/ Connection(p) \/ RecordFailure(p) \/ RecordSuccess(p)
     \/ \E m \in Modes : SetMode(m)
     \/ ToggleWeighted
     \/ \E b \in {"low", "mid", "high"} : Backlog(b)
  /\ UNCHANGED <<senderVars, loop>>

-----------------------------------------------------------------------------
(* The sender: send_payload, that is send_mpeg_ts_chunks and send_packet.  *)

(* The active paths and mode().  Without an active path a chunked payload  *)
(* takes no sequence, any other takes one.                                 *)
Ingest(x) ==
  /\ sender.step = "idle" /\ payloads < MaxPayloads
  /\ payloads' = payloads + 1
  /\ sent' = {}
  /\ IF connected = {}
     THEN /\ sequence' = IF Chunked(x) THEN sequence ELSE sequence + 1
          /\ sender' = Idle
     ELSE /\ sender' = [step |-> "strategy", payload |-> x, active |-> connected, mode |-> mode]
          /\ UNCHANGED sequence
  /\ UNCHANGED <<shared, cursor, loop, events>>

(* Variant: splits over the healthy paths although auto mode is redundant. *)
Groups_WheneverAuto(m, effective) ==
  IF m = "auto" THEN AutoPathGroups(health, failed, Paths) ELSE [split |-> Paths, rescue |-> {}]

(* The paths to split over, and those that get the payload whole. *)
Groups(m, effective) ==
  IF m = "auto" /\ effective = "split"
  THEN AutoPathGroups(health, failed, Paths)
  ELSE [split |-> Paths, rescue |-> {}]

(* current() and auto_path_groups.  send_packet asks the paths once more   *)
(* whether they are connected.                                             *)
ReadStrategy ==
  LET groups == Groups(sender.mode, Effective)
      active == IF Chunked(sender.payload) THEN sender.active ELSE connected
  IN  /\ sender.step = "strategy"
      /\ sender' = [ step      |-> "send",
                     payload   |-> sender.payload,
                     active    |-> sender.active,
                     mode      |-> sender.mode,
                     effective |-> Effective,
                     healthy   |-> groups.split,
                     split     |-> groups.split \cap active,
                     rescue    |-> groups.rescue \cap sender.active ]
      /\ UNCHANGED <<shared, cursor, sequence, sent, loop, payloads, events>>

Datagram(p, n, i, k, r) ==
  [path |-> p, sequence |-> sequence + n, fragment |-> i, fragments |-> k,
   from |-> r.from, to |-> r.to]

SplitShares ==
  Shares(health, failed, mode = "auto" /\ weighted, InOrder(sender.split))

(* next_round_robin_index, n sends from now *)
Rotated(n) ==
  InOrder(sender.active)[((cursor + n) % Cardinality(sender.active)) + 1]

(* send_mpeg_ts_chunks: every chunk is a packet of its own. *)
ChunkDatagrams ==
  LET chunks  == Chunks(sender.payload.len, ChunkBytes)
      dealt   == Dealt(chunks, SplitShares)
      paths(j) == IF sender.effective = "roundrobin" THEN {Rotated(j - 1)}
                  ELSE IF "redundant" \in {sender.effective, sender.mode} THEN sender.active
                  ELSE {InOrder(sender.split)[dealt[j].path]}
  IN  IF sender.effective # "roundrobin" /\ "redundant" \notin {sender.effective, sender.mode}
         /\ sender.split = {}
      THEN {}
      ELSE UNION {{Datagram(p, j - 1, 0, 1, chunks[j]) : p \in paths(j)} : j \in DOMAIN chunks}

(* send_packet, once it splits.  The rescue paths get the packet whole. *)
SplitDatagrams ==
  LET len    == sender.payload.len
      ranges == PacketRanges(len, SplitShares)
      rescue == IF ExceedsMtu(len) THEN {} ELSE sender.rescue
  IN  IF TooManyFragments(len) THEN {}
      ELSE {Datagram(InOrder(sender.split)[ranges[i].path], 0, i - 1, Len(ranges), ranges[i]) :
              i \in DOMAIN ranges}
           \cup {Datagram(p, 0, 0, 1, Between(0, len)) : p \in rescue}

Splits ==
  ShouldSplit(sender.payload.len, Cardinality(sender.split), sender.mode, sender.effective)

WholeDatagrams ==
  {Datagram(p, 0, 0, 1, Between(0, sender.payload.len)) :
     p \in IF sender.effective = "roundrobin" THEN {Rotated(0)} ELSE sender.active}

Datagrams ==
  IF Chunked(sender.payload) THEN ChunkDatagrams
  ELSE IF Splits THEN SplitDatagrams
  ELSE WholeDatagrams

(* How often the cursor is moved; it is kept modulo 60, a multiple of      *)
(* every number of paths up to six.                                        *)
Rotations ==
  IF sender.effective # "roundrobin" THEN 0
  ELSE IF Chunked(sender.payload) THEN Len(Chunks(sender.payload.len, ChunkBytes))
  ELSE IF Splits THEN 0
  ELSE 1

SequencesTaken(D) ==
  IF Chunked(sender.payload) THEN Cardinality({d.sequence : d \in D}) ELSE 1

(* send_on_path, for each of the datagrams D: some paths fail, among them  *)
(* those that have lost their connection.                                  *)
SendOnPaths(D, F) ==
  LET used == {d.path : d \in D}
  IN  /\ used \ connected \subseteq F /\ F \subseteq used
      /\ IF F \subseteq used \ connected THEN UNCHANGED events ELSE Event
      /\ sent' = D
      /\ failed' = (failed \ used) \cup F
      /\ connected' = connected \ F
      /\ stored' = IF F # {} THEN Degraded ELSE stored
      /\ sequence' = sequence + SequencesTaken(D)
      /\ cursor' = (cursor + Rotations) % 60
      /\ sender' = [sender EXCEPT !.step = "idle"]
      /\ UNCHANGED <<health, mode, weighted, backlog, loop, payloads>>

SendDatagrams ==
  /\ sender.step = "send"
  /\ LET D == Datagrams IN \E F \in SUBSET Paths : SendOnPaths(D, F)

-----------------------------------------------------------------------------
(* strategy_loop *)

(* tc_backlog of every interface, with awaits in between *)
LoopSamples ==
  /\ loop.step = "idle"
  /\ loop' = [step |-> "decide", backlog |-> backlog]
  /\ UNCHANGED <<shared, senderVars, events>>

Ready == AutoSplitReady(health, failed, Paths)

(* Variant: without tc nothing recovers. *)
Recovered_NeedsTc(b) == b = "low"

(* The worst backlog is low enough, or there is none. *)
Recovered(b) == b \in {"low", "none"}

LoopDegrades ==
  /\ loop.step = "decide"
  /\ Effective = "split" /\ mode = "auto"
  /\ ~Ready \/ loop.backlog = "high"
  /\ stored' = "redundant"
  /\ loop' = Idle
  /\ UNCHANGED <<connected, failed, health, mode, weighted, backlog, senderVars, events>>

LoopRecovers == mode = "auto" /\ stored = "redundant" /\ Recovered(loop.backlog) /\ Ready

LoopDecides ==
  /\ loop.step = "decide"
  /\ ~(mode = "auto" /\ stored = "split" /\ (~Ready \/ loop.backlog = "high"))
  /\ loop' = IF LoopRecovers THEN [step |-> "set"] ELSE Idle
  /\ UNCHANGED <<shared, senderVars, events>>

LoopSplits ==
  /\ loop.step = "set"
  /\ stored' = "split"
  /\ loop' = Idle
  /\ UNCHANGED <<connected, failed, health, mode, weighted, backlog, senderVars, events>>

StrategyLoop == LoopSamples \/ LoopDegrades \/ LoopDecides \/ LoopSplits

Next ==
  \/ OtherTask
  \/ \E x \in Payloads : Ingest(x)
  \/ ReadStrategy
  \/ SendDatagrams
  \/ StrategyLoop

(* The loop is a task of its own, woken by an interval timer. *)
Spec == Init /\ [][Next]_policyVars /\ WF_policyVars(StrategyLoop)

-----------------------------------------------------------------------------
(* Properties.  They look at the last payload once it has been sent, when  *)
(* sender still says what had been read for it.                            *)

Done == sender.step = "idle" /\ sender # Idle

Whole(d) == d.fragments = 1 /\ d.from = 0 /\ d.to = sender.payload.len

(* The pieces of the payload when it is cut into k fragments. *)
Pieces(k) ==
  {[sequence |-> d.sequence, fragment |-> d.fragment, from |-> d.from, to |-> d.to] :
     d \in {e \in sent : e.fragments = k}}

Precedes(x, y) ==
  \/ x.sequence < y.sequence
  \/ x.sequence = y.sequence /\ x.fragment < y.fragment

(* Whatever other tasks change while a payload is being sent, what goes    *)
(* out of it under any fragment count is the whole payload: every byte is  *)
(* in exactly one piece, in the order of sequences and fragments, in no    *)
(* more fragments than a header can count and none above the MTU; no path  *)
(* gets a byte twice; and the sequences used are those just taken.         *)
EveryByteOnce ==
  Done =>
    /\ \A k \in {d.fragments : d \in sent} :
         /\ k <= MaxFragments
         /\ {x.fragment : x \in Pieces(k)} = 0..(k - 1)
         /\ \A b \in 0..(sender.payload.len - 1) :
              Cardinality({x \in Pieces(k) : x.from <= b /\ b < x.to}) = 1
         /\ \A x, y \in Pieces(k) : Precedes(x, y) => x.to <= y.from
    /\ \A d \in sent : Chunked(sender.payload) \/ d.to - d.from <= Mtu
    /\ \A d, e \in sent : d # e /\ d.path = e.path => d.to <= e.from \/ e.to <= d.from
    /\ LET taken == {d.sequence : d \in sent}
       IN  taken = (sequence - Cardinality(taken))..(sequence - 1)

(* A payload that finds a path is sent on one, but for three cases: it     *)
(* needs more fragments than a header can count; it is empty and cut to    *)
(* pieces; or it must be cut or chunked, and auto mode has no healthy path *)
(* to split over, or every path lost its connection meanwhile.             *)
NothingDropped ==
  Done /\ sent = {} =>
    \/ TooManyFragments(sender.payload.len)
    \/ sender.payload.len = 0
    \/ /\ ExceedsMtu(sender.payload.len) \/ Chunked(sender.payload)
       /\ sender.split = {}
       /\ \/ sender.mode = "auto" /\ sender.effective = "split"
          \/ sender.healthy = Paths

(* In auto mode a path that is not known to be healthy is never relied on: *)
(* it carries a payload within the MTU whole, or not at all if it had lost *)
(* its connection when the payload came in.                                *)
RescueCovers ==
  Done /\ sender.mode = "auto" /\ sender.effective \in {"split", "redundant"}
       /\ ~Chunked(sender.payload) /\ ~ExceedsMtu(sender.payload.len) =>
    \A p \in sender.active :
      p \in sender.healthy \/ \E d \in sent : d.path = p /\ Whole(d)

(* Once the other tasks leave auto mode alone it settles, whatever races   *)
(* there were with sends that failed: on split if every path is healthy    *)
(* and no backlog is known to be high, on redundant if not, or if one is.  *)
AutoSettles ==
  /\ <>[](mode = "auto" /\ Ready /\ backlog \in {"none", "low"}) => <>[](stored = "split")
  /\ <>[](mode = "auto" /\ (~Ready \/ backlog = "high")) => <>[](stored = "redundant")
=============================================================================
