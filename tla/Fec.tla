--------------------------------- MODULE Fec ---------------------------------
(***************************************************************************)
(* Forward error correction from end to end: the client's FecEncoder       *)
(* groups the packets it sends and adds a parity frame per group (crates/  *)
(* client/src/main.rs), the network delivers any of the datagrams in any   *)
(* order, and the server's loop decodes them and runs FecState.tla over    *)
(* its window.                                                             *)
(*                                                                         *)
(* Packets are counted 1, 2, 3, ...  A datagram that never arrives is      *)
(* lost.  A media packet arrives once; a parity frame is sent on every     *)
(* path and arrives as often.  Nothing is restarted, and the reply routes  *)
(* of ReorderWindow.tla are left out.                                      *)
(***************************************************************************)
EXTENDS FecState

CONSTANTS
  First,               \* sequence of the first packet
  Mtu,                 \* --mtu
  GroupSizes,          \* the group sizes that --fec-group-packets allows,
                       \* several in adaptive mode, none with --no-fec
  MaxFecGroupPackets,  \* MAX_FEC_GROUP_PACKETS, 32 in the code
  Paths,               \* number of paths that are connected
  Invalid              \* a value that is no packet

SentSequence(k) == SequenceAfter(First, k - 1)

(* Parity protects packets of the stream, each under its own sequence, and *)
(* the stream has at most one packet of each sequence.  The server runs    *)
(* without --repair.                                                       *)
ASSUME FecAssumption ==
  /\ ~Repair
  /\ First \in MediaSequences
  /\ Mtu \in Nat \ {0}
  /\ MaxFecGroupPackets \in Nat
  /\ GroupSizes \subseteq 2..MaxFecGroupPackets
  /\ LengthOf \in Seq(Nat)
  /\ Len(LengthOf) <= MaxMediaSequence + 1
  /\ FecPayload = [s \in {SentSequence(k) : k \in DOMAIN LengthOf} |->
                     CHOOSE k \in DOMAIN LengthOf : SentSequence(k) = s]

VARIABLES
  sent,         \* number of packets numbered so far
  group,        \* FecEncoder.packets: [packet, room], room being the group
                \* size that the packet was admitted under
  network,      \* datagrams in flight |-> copies still to arrive
  parity,       \* history: the groups that were flushed
  initialized,  \* a flow is in progress
  window,       \* the server's window
  fec           \* FecState

clientVars == <<sent, group, parity>>

serverVars == <<initialized, window, fec>>

fecVars == <<clientVars, network, serverVars>>

W == INSTANCE Wire WITH SequenceValues <- MaxMediaSequence + 2

FecInit ==
  /\ sent = 0
  /\ group = << >>
  /\ network = << >>
  /\ parity = {}
  /\ initialized = FALSE
  /\ window = EmptyWindow(0)
  /\ fec = EmptyFec

-----------------------------------------------------------------------------
(* The client. *)

(* Variant: the lengths that a frame carries are not counted. *)
PayloadFits_NoLengths(len, size) == len <= Mtu - 10

(* fec_payload_fits; 10 is FEC_FRAME_PAYLOAD_OVERHEAD_WITHOUT_LENGTHS and  *)
(* every packet adds a length of two bytes.                                *)
PayloadFits(len, size) == len <= Mtu - (10 + 2 * size)

Lengths(g) == [i \in DOMAIN g |-> LengthOf[g[i].packet]]

(* A frame without a byte of parity is not sent. *)
Flushed(g) == {h \in {g} : \E i \in DOMAIN h : Lengths(h)[i] > 0}

FlushedOrCleared(g) == IF Len(g) >= 2 THEN Flushed(g) ELSE {}

(* flush: the datagram of the parity frame of group g. *)
Parity(g) ==
  W!EncodeFec([ base    |-> SentSequence(g[1].packet),
                lengths |-> Lengths(g),
                parity  |-> Xor([i \in DOMAIN g |-> {g[i].packet}]),
                size    |-> Max(Range(Lengths(g))) ])

(* Variant: a group goes on across a sequence that was not recorded. *)
Breaks_Never(k) == FALSE

(* Packet k is not next in sequence to the group. *)
Breaks(k) ==
  group # << >> /\ SequenceAfter(SentSequence(Last(group).packet), 1) # SentSequence(k)

(* record, when groups are to have this size: what the group becomes, and  *)
(* the groups that are flushed.                                            *)
Record(k, size) ==
  LET ends   == ~PayloadFits(LengthOf[k], size) \/ Breaks(k)
      early  == IF ends THEN FlushedOrCleared(group) ELSE {}
      longer == Append(IF ends THEN << >> ELSE group, [packet |-> k, room |-> size])
  IN  IF ~PayloadFits(LengthOf[k], size) THEN [group |-> << >>, flushed |-> early]
      ELSE IF Len(longer) >= size THEN [group |-> << >>, flushed |-> early \cup Flushed(longer)]
      ELSE [group |-> longer, flushed |-> early]

Media(k) ==
  W!EncodePacket([sequence |-> SentSequence(k), fragment |-> 0, fragments |-> 1], <<{k}>>)

Number(k) == k = sent + 1 /\ k \in DOMAIN LengthOf /\ sent' = k

Emit(k, flushed) ==
  /\ parity' = parity \cup flushed
  /\ network' = With(network, [d \in {Media(k)} \cup {Parity(g) : g \in flushed} |->
                                 IF d = Media(k) THEN 1 ELSE Paths])

(* The next packet is sent, and recorded unless there is no FEC. *)
Send(k) ==
  /\ Number(k)
  /\ \/ GroupSizes = {} /\ Emit(k, {}) /\ UNCHANGED group
     \/ \E size \in GroupSizes :
          LET r == Record(k, size) IN Emit(k, r.flushed) /\ group' = r.group
  /\ UNCHANGED serverVars

(* The next packet finds no path and only takes its number. *)
Skip(k) ==
  /\ Number(k)
  /\ UNCHANGED <<group, parity, network, serverVars>>

-----------------------------------------------------------------------------
(* The server's turns. *)

Fresh == [window EXCEPT !.out = << >>]

Turn(v) == window' = v.window /\ fec' = v.fec

Take(d) ==
  network' = IF network[d] > 1 THEN [network EXCEPT ![d] = @ - 1] ELSE Without(network, {d})

(* A media packet behind next, or held already, changes nothing. *)
Receive(packet) ==
  LET s == packet.header.sequence
      w == IF initialized THEN Fresh ELSE [Fresh EXCEPT !.next = s, !.start = s]
      v == [window |-> w, fec |-> fec]
  IN  /\ initialized' = TRUE
      /\ IF s < w.next \/ s \in w.seen \cup DOMAIN w.buffered THEN Turn(v)
         ELSE Turn(AdvanceWithFec(AcceptPayload(v, s, packet.body[1])))

(* Variant: a frame waits for the next media packet. *)
ReceiveFec_OnlyStores(frame) ==
  /\ Turn([window |-> Fresh, fec |-> InsertFrame(fec, frame)])
  /\ UNCHANGED initialized

(* Before a flow starts a frame is only stored. *)
ReceiveFec(frame) ==
  LET v == [window |-> Fresh, fec |-> InsertFrame(fec, frame)]
  IN  /\ Turn(IF initialized THEN AdvanceWithFec(v) ELSE v)
      /\ UNCHANGED initialized

(* parse_frame, and the turn of the loop. *)
Deliver(d) ==
  LET packet == W!DecodePacket(d)
  IN  /\ Take(d)
      /\ IF packet.header.sequence = W!FecSequence
         THEN ReceiveFec(W!DecodeFec(d))
         ELSE Receive(packet)
      /\ UNCHANGED clientVars

(* Time passes for what is buffered. *)
Tick ==
  /\ \E s \in DOMAIN window.buffered : window.buffered[s].age < AgeBound
  /\ window' = Aged(Fresh)
  /\ UNCHANGED <<clientVars, network, initialized, fec>>

(* The loop's timer: by then all that is buffered has waited its time. *)
TimeoutAdvance ==
  /\ HasPendingState(window)
  /\ \A s \in DOMAIN window.buffered : window.buffered[s].age >= MaxReorderDelay
  /\ Turn(AdvanceWithFec([window |-> Fresh, fec |-> fec]))
  /\ UNCHANGED <<clientVars, network, initialized>>

TimeoutIdle ==
  /\ initialized /\ ~HasPendingState(window)
  /\ initialized' = FALSE
  /\ window' = EmptyWindow(0)
  /\ fec' = EmptyFec
  /\ UNCHANGED <<clientVars, network>>

FecNext ==
  \/ \E k \in DOMAIN LengthOf : Send(k) \/ Skip(k)
  \/ \E d \in DOMAIN network : Deliver(d)
  \/ Tick \/ TimeoutAdvance \/ TimeoutIdle

FecSpec == FecInit /\ [][FecNext]_fecVars

-----------------------------------------------------------------------------
(* Properties *)

(* The queues and maps of FecState agree within their limits: every frame  *)
(* and every payload can still be evicted, and no payload is queued twice. *)
CachesAgree ==
  /\ Cardinality(DOMAIN fec.frames) <= FrameLimit
  /\ Cardinality(DOMAIN fec.payloads) <= PayloadLimit
  /\ DOMAIN fec.frames \subseteq Range(fec.frame_order)
  /\ DOMAIN fec.payloads = Range(fec.payload_order)
  /\ IsInjective(fec.payload_order)

(* Whatever is forwarded, buffered or kept under a sequence is the packet  *)
(* that was sent under it, be it received or reconstructed from parity.    *)
PayloadsIntact ==
  LET Sent(s) == {FecPayload[s]}
  IN  /\ \A i \in DOMAIN window.out : window.out[i].payload = Sent(window.out[i].sequence)
      /\ \A s \in DOMAIN window.buffered : window.buffered[s].payload = Sent(s)
      /\ \A s \in DOMAIN fec.payloads : fec.payloads[s] = Sent(s)

(* Between turns of a flow a frame is kept only while two of its packets   *)
(* are absent: a single loss never waits for anything else to arrive.      *)
NothingLeftToRecover ==
  initialized =>
    \A b \in DOMAIN fec.frames : Cardinality(AbsentFrom(fec, window, fec.frames[b])) >= 2

(* A parity frame of no more packets than its members were admitted for    *)
(* fits the MTU.  In adaptive mode a group may grow beyond that.           *)
ParityFits ==
  \A g \in parity :
    (\A i \in DOMAIN g : Len(g) <= g[i].room)
      => 5 + 4 + 1 + 2 * Len(g) + Max(Range(Lengths(g))) <= Mtu

(* A turn of the window of ReorderWindow.tla, where parity may reconstruct *)
(* any protected packet that is not held: nothing is forwarded, time       *)
(* passes or the flow ends; the loop advances; or a packet is dropped or   *)
(* accepted, in the window or as the first of a flow, and the loop         *)
(* advances.                                                               *)
WindowTurn ==
  \/ window' \in {Fresh, Aged(Fresh), EmptyWindow(0)}
  \/ initialized /\ window' \in Advance({Fresh})
  \/ \E s \in DOMAIN FecPayload :
       LET w == IF initialized THEN Fresh ELSE [Fresh EXCEPT !.next = s, !.start = s]
       IN  window' \in {w} \cup Advance({Accept(w, [t \in {s} |-> {FecPayload[s]}])})

(* FecState recovers nothing that Window.tla does not allow: whatever a    *)
(* datagram brings, the window makes one of its turns.                     *)
RecoversWithinWindow == [][WindowTurn]_window
=============================================================================
