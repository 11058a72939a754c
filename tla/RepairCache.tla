----------------------------- MODULE RepairCache -----------------------------
(***************************************************************************)
(* RepairCache of crates/client/src/main.rs: the packets sent lately, from *)
(* which the client answers the server's repair requests, and the requests *)
(* answered lately, which it ignores for a while.                          *)
(*                                                                         *)
(* The sender stores packets while one task per path answers requests; all *)
(* go through one mutex, so an operation is one step, but the two stores   *)
(* of a packet that is split and then rescued whole are two.  An Instant   *)
(* is an age, which saturates where the code compares it.                  *)
(*                                                                         *)
(* Both halves of the cache are the same thing: a map whose entries age    *)
(* and a queue of its keys.  Here such a pair is one value [held, order],  *)
(* the code's packets and order, recent_requests and request_order.        *)
(***************************************************************************)
EXTENDS Integers, FiniteSets, Sequences, SequencesExt

CONSTANTS
  MaxMediaSequence,   \* MAX_MEDIA_SEQUENCE
  MaxFragments,       \* MAX_FRAGMENTS
  Ttl,                \* --repair-cache-ms, in ticks
  MaxPackets,         \* --repair-cache-packets
  RequestsPerPacket,  \* requests remembered per packet, 4 in the code
  DedupWindow,        \* REPAIR_REQUEST_DEDUP_WINDOW, in ticks
  Requests            \* what the server may ask: [sequence, missing]

(* main rejects a cache without time or room.  The cache is smaller than   *)
(* the range of sequences, 2^26 - 1.                                       *)
ASSUME CacheAssumption ==
  /\ MaxMediaSequence \in Nat
  /\ MaxFragments \in Nat \ {0}
  /\ Ttl \in Nat \ {0}
  /\ MaxPackets \in Nat \ {0} /\ MaxPackets <= MaxMediaSequence
  /\ RequestsPerPacket \in Nat
  /\ DedupWindow \in Nat \ {0}
  /\ \A r \in Requests :
       /\ r.sequence \in 0..MaxMediaSequence
       /\ r.missing \in SUBSET (0..(MaxFragments - 1)) \ {{}}

VARIABLES
  packets,   \* held: sequence |-> [fragments, age]
  recent,    \* held: request |-> [age]
  sequence,  \* the sequence the sender gives its next packet
  rescue,    \* the last packet was split, and rescue paths get it whole
  answer,    \* history: the answer given in the last step, as in RecentPackets
  answered   \* history: request |-> ticks since it was answered

vars == <<packets, recent, sequence, rescue, answer, answered>>

Contract == INSTANCE RecentPackets WITH
  log <- [i \in DOMAIN packets.order |->
            [sequence  |-> packets.order[i],
             fragments |-> packets.held[packets.order[i]].fragments,
             age       |-> packets.held[packets.order[i]].age]]

Empty == [held |-> << >>, order |-> << >>]

Init ==
  /\ packets = Empty
  /\ recent = Empty
  /\ sequence = 0
  /\ rescue = FALSE
  /\ answer = Contract!NoAnswer
  /\ answered = << >>

-----------------------------------------------------------------------------
(* The map and its queue. *)

(* f without the keys in S. *)
Without(f, S) == Restrict(f, DOMAIN f \ S)

Keys(q, k) == {q.order[i] : i \in 1..k}

(* pop_front, k times, each with the removal of the key from the map. *)
DropFront(q, k) ==
  [held  |-> Without(q.held, Keys(q, k)),
   order |-> SubSeq(q.order, k + 1, Len(q.order))]

Stale(q, key, bound) == key \in DOMAIN q.held => q.held[key].age >= bound

(* Variant: keeps an entry one tick too long. *)
Expired_OneTickLate(q, bound) ==
  DropFront(q, Min({k \in 0..Len(q.order) :
                      k < Len(q.order) => ~Stale(q, q.order[k + 1], bound + 1)}))

(* expire_locked, expire_recent_requests_locked: as long as the front of   *)
(* the queue is stale.                                                     *)
Expired(q, bound) ==
  DropFront(q, Min({k \in 0..Len(q.order) :
                      k < Len(q.order) => ~Stale(q, q.order[k + 1], bound)}))

(* Variant: queues a key that is queued already. *)
Put_AlwaysQueues(q, key, entry) ==
  [held  |-> [j \in DOMAIN q.held \cup {key} |-> IF j = key THEN entry ELSE q.held[j]],
   order |-> Append(q.order, key)]

(* A key that is held keeps its place in the queue. *)
Put(q, key, entry) ==
  [held  |-> [j \in DOMAIN q.held \cup {key} |-> IF j = key THEN entry ELSE q.held[j]],
   order |-> IF key \in DOMAIN q.held THEN q.order ELSE Append(q.order, key)]

(* Variant: makes room at the back of the queue. *)
Limited_DropsNewest(q, max) ==
  IF Cardinality(DOMAIN q.held) <= max THEN q
  ELSE [held |-> Without(q.held, {Last(q.order)}), order |-> Front(q.order)]

(* enforce_limit_locked, enforce_recent_request_limit_locked. *)
Limited(q, max) ==
  DropFront(q, Min({k \in 0..Len(q.order) :
                      k < Len(q.order) => Cardinality(DOMAIN q.held \ Keys(q, k)) <= max}))

Older(q, bound) ==
  [held  |-> [k \in DOMAIN q.held |->
                [q.held[k] EXCEPT !.age = IF @ < bound THEN @ + 1 ELSE @]],
   order |-> q.order]

-----------------------------------------------------------------------------
(* The operations. *)

(* insert, of a packet that was cut into n fragments.  No fragments would  *)
(* be no insertion.                                                        *)
Inserted(s, n) ==
  Limited(Put(Expired(packets, Ttl), s, [fragments |-> n, age |-> 0]), MaxPackets)

(* Variant: wraps one sequence too late. *)
NextSequence_PastTheEnd(s) == IF s > MaxMediaSequence THEN 0 ELSE s + 1

NextSequence(s) == IF s = MaxMediaSequence THEN 0 ELSE s + 1

CachePacket(n) ==
  /\ packets' = Inserted(sequence, n)
  /\ sequence' = NextSequence(sequence)
  /\ rescue' \in BOOLEAN
  /\ answer' = Contract!NoAnswer
  /\ UNCHANGED <<recent, answered>>

(* The rescue paths got the packet whole: its cut is replaced. *)
CacheRescue ==
  /\ rescue
  /\ packets' = Inserted(IF sequence = 0 THEN MaxMediaSequence ELSE sequence - 1, 1)
  /\ rescue' = FALSE
  /\ answer' = Contract!NoAnswer
  /\ UNCHANGED <<recent, sequence, answered>>

(* Variants: a request is never, or too early, no longer a repetition. *)
Repeated_Never(q, r) == FALSE

Repeated_OneTickShort(q, r) == r \in DOMAIN q.held /\ q.held[r].age + 1 < DedupWindow

Repeated(q, r) == r \in DOMAIN q.held /\ q.held[r].age < DedupWindow

MaxRequests == Max({RequestsPerPacket * MaxPackets, 1})

(* What fragments_for works on, once both halves have expired. *)
Held == Expired(packets, Ttl)

Asked == Expired(recent, DedupWindow)

Answers(r) == r.sequence \in DOMAIN Held.held /\ ~Repeated(Asked, r)

Remembered(r) == Limited(Put(Asked, r, [age |-> 0]), MaxRequests)

(* Variant: a packet that was not cut is filtered like one that was. *)
Fragments_FiltersWhole(r) == r.missing \cap (0..(Held.held[r.sequence].fragments - 1))

(* The answer: a packet that was not cut goes out whole, whatever is       *)
(* missing.                                                                *)
Fragments(r) ==
  LET n == Held.held[r.sequence].fragments
  IN  IF n = 1 THEN {0} ELSE r.missing \cap (0..(n - 1))

(* fragments_for, for a packet not held or a request just answered. *)
IgnoreRequest(r) ==
  /\ ~Answers(r)
  /\ packets' = Held
  /\ recent' = Asked
  /\ answer' = Contract!NoAnswer
  /\ UNCHANGED <<sequence, rescue, answered>>

(* fragments_for, answering. *)
AnswerRequest(r) ==
  /\ Answers(r)
  /\ packets' = Held
  /\ recent' = Remembered(r)
  /\ answer' = [sequence  |-> r.sequence,
                fragments |-> Held.held[r.sequence].fragments,
                sent      |-> Fragments(r),
                age       |-> Held.held[r.sequence].age]
  /\ answered' = [q \in DOMAIN answered \cup {r} |-> IF q = r THEN 0 ELSE answered[q]]
  /\ UNCHANGED <<sequence, rescue>>

Tick ==
  /\ packets' = Older(packets, Ttl)
  /\ recent' = Older(recent, DedupWindow)
  /\ answered' = [r \in {q \in DOMAIN answered : answered[q] + 1 < DedupWindow} |->
                    answered[r] + 1]
  /\ answer' = Contract!NoAnswer
  /\ UNCHANGED <<sequence, rescue>>

Next ==
  \/ \E n \in 1..MaxFragments : CachePacket(n)
  \/ CacheRescue
  \/ \E r \in Requests : IgnoreRequest(r) \/ AnswerRequest(r)
  \/ Tick

Spec == Init /\ [][Next]_vars

-----------------------------------------------------------------------------
(* Properties *)

Queue(q, K, E) ==
  /\ DOMAIN q = {"held", "order"}
  /\ DOMAIN q.held \subseteq K
  /\ \A k \in DOMAIN q.held : q.held[k] \in E
  /\ q.order \in Seq(K)

(* The types of the two maps and their queues. *)
TypeOK ==
  /\ Queue(packets, 0..MaxMediaSequence, [fragments : 1..MaxFragments, age : 0..Ttl])
  /\ Queue(recent, Requests, [age : 0..DedupWindow])
  /\ sequence \in 0..MaxMediaSequence
  /\ rescue \in BOOLEAN

(* The queue holds every key of the map once, and nothing else. *)
Agrees(q) ==
  /\ {q.order[i] : i \in DOMAIN q.order} = DOMAIN q.held
  /\ \A i, j \in DOMAIN q.order : q.order[i] = q.order[j] => i = j

(* main.rs keeps each map and its queue by hand: a key only in the queue   *)
(* is evicted in place of another, a key only in the map is never evicted. *)
QueuesAgree == Agrees(packets) /\ Agrees(recent)

OldestFirst(q) ==
  \A i, j \in DOMAIN q.order : i < j => q.held[q.order[j]].age <= q.held[q.order[i]].age

(* Entries are refreshed without moving in the queue, and still no entry   *)
(* is older than one before it: expiry, which looks at the front only,     *)
(* never leaves a stale entry behind a fresh one.                          *)
QueuesInOrder == OldestFirst(packets) /\ OldestFirst(recent)

(* An answer is never older than --repair-cache-ms, also across the wrap   *)
(* of sequences.                                                           *)
AnswersFresh == [][\A r \in Requests : AnswerRequest(r) => answer'.age < Ttl]_vars

(* A request is answered again within the dedup window only when more      *)
(* requests than the cache remembers were answered since.                  *)
AnswersSpaced ==
  [][\A r \in Requests :
       AnswerRequest(r) /\ r \in DOMAIN answered =>
         Cardinality({q \in DOMAIN answered : answered[q] <= answered[r]}) > MaxRequests]_vars

(* The map and the queue together are the log of RecentPackets. *)
KeepsRecentPackets == Contract!Spec
=============================================================================
