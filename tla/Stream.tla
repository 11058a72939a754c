------------------------------- MODULE Stream -------------------------------
(***************************************************************************)
(* One client streaming to the server: the sender numbers and cuts its     *)
(* packets and stores them for repair (the main loop and send_packet of    *)
(* crates/client/src/main.rs), the paths carry the frames as QUIC          *)
(* datagrams, reorder_loop, which is ReorderWindow.tla, puts the stream    *)
(* together again, its requests for what is missing go back over every     *)
(* connection of the client (RepairControl), and the client's repair tasks *)
(* answer them from the cache, which is RepairCache.tla.  What travels is  *)
(* encoded and decoded by Wire.tla.                                        *)
(*                                                                         *)
(* Packets are counted 0, 1, 2, ... over the whole stream; the count is    *)
(* the payload of their frames, and the header carries it modulo the range *)
(* of media sequences.  A frame sent on a path arrives at most once,       *)
(* within Latency ticks, in any order, or is lost.  A repair request is a  *)
(* QUIC stream: it arrives within RequestLatency ticks.                    *)
(***************************************************************************)
EXTENDS ReorderWindow

CONSTANTS
  Paths,              \* the client's paths: a subset of Connections
  Strategies,         \* how each packet of the stream may be sent: see Send;
                      \* the bound on the stream is its length
  FragmentCounts,     \* into how many fragments a packet may be split
  Ttl,                \* --repair-cache-ms, in ticks
  MaxPackets,         \* --repair-cache-packets
  RequestsPerPacket,  \* requests remembered per packet, 4 in the code
  DedupWindow,        \* REPAIR_REQUEST_DEDUP_WINDOW, in ticks
  MaxLost,            \* bound: frames the network may lose
  Latency,            \* ticks within which a frame arrives
  RequestLatency,     \* ticks within which a repair request arrives
  Invalid             \* a value that is no frame and no request

ASSUME StreamAssumption ==
  /\ Paths \subseteq Connections
  /\ Strategies \in Seq(SUBSET {"redundant", "round_robin", "split", "rescue"})
  /\ FragmentCounts \subseteq 2..MaxFragments
  /\ Ttl \in Nat \ {0}
  /\ MaxPackets \in 1..MaxMediaSequence
  /\ RequestsPerPacket \in Nat
  /\ DedupWindow \in Nat
  /\ MaxLost \in Nat
  /\ Latency \in Nat
  /\ RequestLatency \in Nat

VARIABLES
  cuts,     \* the packets sent: the set of fragment counts each was cut into
  cached,   \* the packets of the repair cache
  recent,   \* the requests it answered lately
  network,  \* frames in flight: [path, datagram, repair, age]
  asked,    \* repair requests in flight: [path, request, age], encoded
  lost,     \* number of frames the network has lost
  arrived,  \* history: <<packet, fragment, fragments>> of the frames that arrived
  starts,   \* history: the packets that flows started with
  tooLate,  \* history: sequences asked for when the cache had dropped them
  handed    \* the packets handed to the UDP target, in order

client == <<cuts, cached, recent>>

streamVars == <<vars, client, network, asked, lost, arrived, starts, tooLate, handed>>

(* next_sequence, n times from 0. *)
SequenceOf(n) == n % (MaxMediaSequence + 1)

RepairRequests ==
  [sequence : MediaSequences, missing : SUBSET FragmentIndices \ {{}}]

W == INSTANCE Wire WITH
  SequenceValues     <- MaxMediaSequence + 2,
  MaxFecGroupPackets <- 0

Cache == INSTANCE RepairCache WITH
  Requests <- RepairRequests,
  packets  <- cached,
  sequence <- SequenceOf(Len(cuts)),
  rescue   <- FALSE,
  answer   <- {},
  answered <- << >>

StreamInit ==
  /\ Init
  /\ cuts = << >>
  /\ cached = Cache!Empty
  /\ recent = Cache!Empty
  /\ network = {}
  /\ asked = {}
  /\ lost = 0
  /\ arrived = {}
  /\ starts = {}
  /\ tooLate = {}
  /\ handed = << >>

-----------------------------------------------------------------------------
(* The sender. *)

FrameOf(n, i, k) ==
  W!EncodePacket([sequence |-> SequenceOf(n), fragment |-> i, fragments |-> k], n)

(* parse_frame and decode_packet, on the server. *)
Parsed(datagram) ==
  LET p == W!DecodePacket(datagram)
  IN  [ sequence |-> p.header.sequence, fragment |-> p.header.fragment,
        fragments |-> p.header.fragments, payload |-> p.body ]

(* Every frame the sender may make is a packet to the server. *)
ASSUME NetworkAssumption ==
  \A n \in 0..(Len(Strategies) - 1), k \in {1} \cup FragmentCounts : \A i \in 0..(k - 1) :
    Parsed(FrameOf(n, i, k)) \in Packets

(* A frame put on a path, by the sender or again to repair it. *)
Flight(path, n, i, k, repair) ==
  [path |-> path, datagram |-> FrameOf(n, i, k), repair |-> repair, age |-> 0]

(* The packet is cut into each count of K and the frames F are sent.  What *)
(* the cache keeps is the last cut, the whole packet if there is one.  The *)
(* code inserts a packet with a rescue copy twice, in two steps as in      *)
(* RepairCache; here no request comes between them.                        *)
Emit(K, F) ==
  /\ cuts' = Append(cuts, K)
  /\ cached' = Cache!Inserted(SequenceOf(Len(cuts)), Min(K))
  /\ network' = network \cup F
  /\ UNCHANGED <<vars, recent, asked, lost, arrived, starts, tooLate, handed>>

(* A whole packet on each of the active paths C. *)
SendWhole(C) == Emit({1}, {Flight(c, Len(cuts), 0, 1, FALSE) : c \in C})

(* The fragments of a packet, each on one of the paths C; the rescue paths *)
(* get the packet whole.                                                   *)
SendSplit(C, rescue) ==
  \E k \in FragmentCounts : \E route \in [0..(k - 1) -> C] :
    Emit({k} \cup {1 : c \in rescue},
         {Flight(route[i], Len(cuts), i, k, FALSE) : i \in 0..(k - 1)}
         \cup {Flight(c, Len(cuts), 0, 1, FALSE) : c \in rescue})

(* Any of the paths may be active when a packet is sent, and the strategy  *)
(* may change between packets.                                             *)
Send ==
  /\ Len(cuts) < Len(Strategies)
  /\ \E C \in SUBSET Paths \ {{}}, strategy \in Strategies[Len(cuts) + 1] :
       \/ strategy = "redundant" /\ SendWhole(C)
       \/ strategy = "round_robin" /\ Cardinality(C) = 1 /\ SendWhole(C)
       \/ strategy = "split" /\ SendSplit(C, {})
       \/ strategy = "rescue" /\ C # Paths /\ SendSplit(C, Paths \ C)

(* The packet that sequence s was given last. *)
LatestOf(s) == Max({n \in 0..(Len(cuts) - 1) : SequenceOf(n) = s})

(* The fragments I of packet n on every connected path. *)
Repairs(n, k, I) == {Flight(c, n, i, k, TRUE) : c \in Paths, i \in I}

(* spawn_repair_control: the task of path a.path answers the request a. *)
RepairTask(a) ==
  LET r == W!DecodeRepairRequest(a.request)
      n == LatestOf(r.sequence)
      k == Cache!Held.held[r.sequence].fragments
  IN  /\ asked' = asked \ {a}
      /\ cached' = Cache!Held
      /\ IF Cache!Answers(r)
         THEN /\ recent' = Cache!Remembered(r)
              /\ network' = network \cup Repairs(n, k, Cache!Fragments(r))
         ELSE /\ recent' = Cache!Asked
              /\ UNCHANGED network
      /\ tooLate' = IF r.sequence \in DOMAIN Cache!Held.held THEN tooLate
                    ELSE tooLate \cup {r.sequence}
      /\ UNCHANGED <<vars, cuts, lost, arrived, starts, handed>>

-----------------------------------------------------------------------------
(* The network, and the server's turns. *)

(* forward_payload: what this turn forwarded reaches the UDP target. *)
Handed == handed' = handed \o [i \in DOMAIN window'.out |-> window'.out[i].payload]

(* RepairControl::send: each request of this turn goes out on every        *)
(* connection of every client that responses go to.                        *)
Asked ==
  asked' = asked \cup {[path |-> c, request |-> W!EncodeRepairRequest(r), age |-> 0] :
                         c \in {d \in Paths : Contains(reply_routes', RemoteOf[d])},
                         r \in window'.requests}

Lose(f) ==
  /\ lost < MaxLost
  /\ lost' = lost + 1
  /\ network' = network \ {f}
  /\ UNCHANGED <<vars, client, asked, arrived, starts, tooLate, handed>>

Deliver(f) ==
  LET p == Parsed(f.datagram)
  IN  /\ ReceivePacket(f.path, p)
      /\ network' = network \ {f}
      /\ arrived' = arrived \cup {<<p.payload, p.fragment, p.fragments>>}
      /\ starts' = IF initialized THEN starts ELSE starts \cup {p.payload}
      /\ Handed
      /\ Asked
      /\ UNCHANGED <<client, lost, tooLate>>

ServerTimeout ==
  /\ Timeout
  /\ Handed
  /\ Asked
  /\ UNCHANGED <<client, network, lost, arrived, starts, tooLate>>

(* Time passes for what is in flight and in the cache too; an overdue      *)
(* frame arrives, or is lost, first.                                       *)
ClockTick ==
  /\ \A f \in network : f.age < Latency
  /\ \A a \in asked : a.age < RequestLatency
  /\ Tick
  /\ network' = {[f EXCEPT !.age = @ + 1] : f \in network}
  /\ asked' = {[a EXCEPT !.age = @ + 1] : a \in asked}
  /\ cached' = Cache!Older(cached, Ttl)
  /\ recent' = Cache!Older(recent, DedupWindow)
  /\ UNCHANGED <<cuts, lost, arrived, starts, tooLate, handed>>

StreamNext ==
  \/ Send
  \/ \E a \in asked : RepairTask(a)
  \/ \E f \in network : Lose(f)
  \/ \E f \in network : Deliver(f)
  \/ ServerTimeout
  \/ ClockTick

StreamSpec == StreamInit /\ [][StreamNext]_streamVars

-----------------------------------------------------------------------------
(* Properties *)

(* Every fragment of one of its cuts has arrived. *)
ArrivedWhole(n) ==
  \E k \in cuts[n + 1] : \A i \in 0..(k - 1) : <<n, i, k>> \in arrived

(* What the target gets is packets the client sent, in the order it sent   *)
(* them, each intact: none is put together from fragments of two, and none *)
(* from only some of its fragments.                                        *)
HandedInOrder ==
  /\ \A i \in DOMAIN handed :
       Cardinality(handed[i]) = 1 /\ \A n \in handed[i] : ArrivedWhole(n)
  /\ \A i, j \in DOMAIN handed :
       i < j => \A m \in handed[i], n \in handed[j] : m < n

(* main.rs: "Client-to-server packets are deduped/reordered centrally      *)
(* before hitting the UDP target."  No packet reaches the target twice.    *)
HandedOnce == \A i, j \in DOMAIN handed : i # j => handed[i] \cap handed[j] = {}

InFlight(n, i, k) == \E f \in network : f.datagram = FrameOf(n, i, k)

(* Packet n lost, of every cut, a fragment on every path that carried it. *)
Gone(n) ==
  /\ n < Len(cuts)
  /\ \A k \in cuts[n + 1] : \E i \in 0..(k - 1) :
       <<n, i, k>> \notin arrived /\ ~InFlight(n, i, k)

(* When frames that arrive do so before a gap expires, the server gives up *)
(* only packets of which the network lost a fragment on every path: a      *)
(* packet delayed on one path, or overtaken by a later one, is waited for. *)
SkipsOnlyLost ==
  Latency < MaxReorderDelay /\ initialized /\ ~window.wrapped =>
    \A n \in 0..(Len(cuts) - 1) : SequenceOf(n) \in window.skips => Gone(n)

(* How many packets may be missing at once: a flow starts with a packet or *)
(* a fragment of one, and one waits behind the others or in part.          *)
Gaps == Cardinality({n \in DOMAIN Strategies :
                       \/ n \in 2..(Len(Strategies) - 1)
                       \/ Strategies[n] \cap {"split", "rescue"} # {}})

(* README.md: with --repair the client retransmits what the server misses. *)
(* A packet is asked for when all before it are there, while those behind  *)
(* it grow older.  When as many requests and answers one after another as  *)
(* there may be gaps are faster than a gap expires, the first packet that  *)
(* the server gives up was asked for after the cache had dropped it, or    *)
(* the network lost a fragment and then every copy of it in the answer.    *)
RepairsInTime ==
  Repair /\ Gaps * (RequestLatency + Latency) < MaxReorderDelay /\ initialized /\ ~window.wrapped =>
    \/ window.skips = {} \/ Min(window.skips) \in tooLate
    \/ lost > Cardinality(Paths)

WasHanded(n) == \E i \in DOMAIN handed : n \in handed[i]

(* When nothing is in flight and nothing waits in the window, every packet *)
(* has reached the target, but for those that the network lost and those   *)
(* that were overtaken by the packet a flow started with.                  *)
EveryPacketHanded ==
  Latency < MaxReorderDelay /\ network = {} /\ ~HasPendingState(window) =>
    \A n \in 0..(Len(cuts) - 1) : WasHanded(n) \/ Gone(n) \/ \E m \in starts : n < m
=============================================================================
