-------------------------- MODULE RepairCacheProofs --------------------------
(***************************************************************************)
(* Proofs about RepairCache, for every value of its constants: map and     *)
(* queue agree and stay in order, answers are fresh and spaced, and the    *)
(* cache implements the log of RecentPackets.                              *)
(***************************************************************************)
EXTENDS RepairCache, Induction, FiniteSetTheorems, SequenceTheorems

-----------------------------------------------------------------------------
(* A map with its queue.  Every operation of the cache is one of the five  *)
(* operators below applied to one of its halves.                           *)

(* A well-formed half: typed, and its queue holds the keys of its map.     *)
Paired(q, K, E) == Queue(q, K, E) /\ Agrees(q)

(* The basic facts of a half, and the number of its entries. *)
LEMMA PairedSize ==
  ASSUME NEW q, NEW K, NEW E, Paired(q, K, E)
  PROVE  /\ Len(q.order) \in Nat
         /\ DOMAIN q.order = 1..Len(q.order)
         /\ \A i \in 1..Len(q.order) : q.order[i] \in DOMAIN q.held
         /\ IsFiniteSet(DOMAIN q.held)
         /\ Cardinality(DOMAIN q.held) = Len(q.order)
<1> DEFINE n == Len(q.order)
<1>1. n \in Nat /\ DOMAIN q.order = 1..n /\ q.order \in [1..n -> K]
  BY LenProperties DEF Paired, Queue
<1>2. \A i \in 1..n : q.order[i] \in DOMAIN q.held
  BY <1>1 DEF Paired, Agrees
<1>3. q.order \in Bijection(1..n, DOMAIN q.held)
  <2>1. q.order \in [1..n -> DOMAIN q.held]
    BY <1>1, <1>2
  <2>2. \A x \in DOMAIN q.held : \E i \in 1..n : q.order[i] = x
    BY <1>1 DEF Paired, Agrees
  <2>3. \A i, j \in 1..n : q.order[i] = q.order[j] => i = j
    BY <1>1 DEF Paired, Agrees
  <2> QED BY <2>1, <2>2, <2>3 DEF Bijection, Injection, Surjection, IsInjective
<1>4. ExistsBijection(1..n, DOMAIN q.held)
  BY <1>3 DEF ExistsBijection
<1> QED BY <1>1, <1>2, <1>4, FS_CountingElements, FS_NatBijection

(* Dropping k entries from the front. *)
LEMMA DropFrontPaired ==
  ASSUME NEW q, NEW K, NEW E, Paired(q, K, E), NEW k \in 0..Len(q.order)
  PROVE  LET d == DropFront(q, k) IN
         /\ Paired(d, K, E)
         /\ Len(d.order) = Len(q.order) - k
         /\ \A i \in 1..(Len(q.order) - k) : d.order[i] = q.order[i + k]
         /\ DOMAIN d.held = DOMAIN q.held \ Keys(q, k)
         /\ \A x \in DOMAIN d.held : d.held[x] = q.held[x]
         /\ OldestFirst(q) => OldestFirst(d)
<1> DEFINE n == Len(q.order)
           d == DropFront(q, k)
<1>1. /\ n \in Nat /\ k \in Nat /\ k <= n
      /\ DOMAIN q.order = 1..n
      /\ \A i \in 1..n : q.order[i] \in DOMAIN q.held
  BY PairedSize
<1>2. /\ DOMAIN d = {"held", "order"}
      /\ d.held = Without(q.held, Keys(q, k))
      /\ d.order = SubSeq(q.order, k + 1, n)
  BY DEF DropFront
<1>3. /\ DOMAIN d.held = DOMAIN q.held \ Keys(q, k)
      /\ \A x \in DOMAIN d.held : d.held[x] = q.held[x]
  BY <1>2 DEF Without, Restrict
<1> HIDE DEF d
<1>4. /\ d.order \in Seq(K)
      /\ Len(d.order) = n - k
      /\ \A i \in 1..(n - k) : d.order[i] = q.order[i + k]
  <2>1. \A i \in (k + 1)..n : q.order[i] \in K
    BY <1>1 DEF Paired, Queue
  <2>2. /\ SubSeq(q.order, k + 1, n) \in Seq(K)
        /\ Len(SubSeq(q.order, k + 1, n)) = IF k + 1 <= n THEN n - (k + 1) + 1 ELSE 0
        /\ \A i \in 1..(n - (k + 1) + 1) : SubSeq(q.order, k + 1, n)[i] = q.order[k + 1 + i - 1]
    BY <1>1, <2>1, SubSeqProperties
  <2> QED BY <1>1, <1>2, <2>2
<1>5. DOMAIN d.order = 1..(n - k)
  BY <1>4, LenProperties
<1>6. \A i, j \in 1..n : q.order[i] = q.order[j] => i = j
  BY <1>1 DEF Paired, Agrees
<1>7. {d.order[i] : i \in DOMAIN d.order} = DOMAIN d.held
  <2>1. ASSUME NEW i \in 1..(n - k) PROVE d.order[i] \in DOMAIN d.held
    <3>1. i + k \in 1..n /\ d.order[i] = q.order[i + k]
      BY <1>1, <1>4
    <3>2. ASSUME NEW j \in 1..k, q.order[j] = q.order[i + k] PROVE FALSE
      <4>1. j \in 1..n /\ j # i + k
        BY <1>1
      <4> QED BY <1>6, <3>1, <3>2, <4>1
    <3>3. q.order[i + k] \in DOMAIN q.held
      BY <1>1, <3>1
    <3> QED BY <1>3, <3>1, <3>2, <3>3 DEF Keys
  <2>2. ASSUME NEW x \in DOMAIN d.held PROVE \E i \in 1..(n - k) : d.order[i] = x
    <3>1. PICK j \in 1..n : q.order[j] = x
      BY <1>1, <1>3 DEF Paired, Agrees
    <3>2. j \notin 1..k
      BY <1>3, <3>1 DEF Keys
    <3>3. j - k \in 1..(n - k) /\ (j - k) + k = j
      BY <1>1, <3>2
    <3> QED BY <1>4, <3>1, <3>3
  <2> QED BY <1>5, <2>1, <2>2
<1>8. \A i, j \in DOMAIN d.order : d.order[i] = d.order[j] => i = j
  <2> SUFFICES ASSUME NEW i \in 1..(n - k), NEW j \in 1..(n - k), d.order[i] = d.order[j]
               PROVE  i = j
    BY <1>5
  <2>1. i + k \in 1..n /\ j + k \in 1..n
    BY <1>1
  <2>2. i + k = j + k
    BY <1>4, <1>6, <2>1
  <2> QED BY <1>1, <2>2
<1>9. Paired(d, K, E)
  BY <1>2, <1>3, <1>4, <1>7, <1>8 DEF Paired, Queue, Agrees, d
<1>10. ASSUME OldestFirst(q) PROVE OldestFirst(d)
  <2> SUFFICES ASSUME NEW i \in 1..(n - k), NEW j \in 1..(n - k), i < j
               PROVE  d.held[d.order[j]].age <= d.held[d.order[i]].age
    BY <1>5 DEF OldestFirst
  <2>1. i + k \in 1..n /\ j + k \in 1..n /\ i + k < j + k
    BY <1>1
  <2>2. d.order[i] \in DOMAIN d.held /\ d.order[j] \in DOMAIN d.held
    BY <1>5, <1>7
  <2>3. q.held[q.order[j + k]].age <= q.held[q.order[i + k]].age
    BY <1>1, <1>10, <2>1 DEF OldestFirst
  <2> QED BY <1>3, <1>4, <2>2, <2>3
<1> QED BY <1>3, <1>4, <1>9, <1>10 DEF d

(* How many stale entries are at the front: expiry drops these, all of     *)
(* them stale, and the next one is not.  Ordered oldest first, no stale    *)
(* entry is left anywhere.                                                 *)
LEMMA ExpiredPaired ==
  ASSUME NEW q, NEW K, NEW E, Paired(q, K, E), NEW bound \in Nat,
         \A e \in E : e.age \in Nat
  PROVE  \E k \in 0..Len(q.order) :
           /\ Expired(q, bound) = DropFront(q, k)
           /\ \A i \in 1..k : q.held[q.order[i]].age >= bound
           /\ OldestFirst(q) =>
                \A i \in (k + 1)..Len(q.order) : q.held[q.order[i]].age < bound
<1> DEFINE n == Len(q.order)
           T == {k \in 0..n : k < n => ~Stale(q, q.order[k + 1], bound)}
           m == Min(T)
<1>1. /\ n \in Nat /\ DOMAIN q.order = 1..n
      /\ \A i \in 1..n : q.order[i] \in DOMAIN q.held
  BY PairedSize
<1>2. \A x \in DOMAIN q.held : q.held[x].age \in Nat
  BY DEF Paired, Queue
<1>3. T \in SUBSET Nat /\ n \in T
  BY <1>1
<1>4. m \in T /\ \A k \in T : m <= k
  BY <1>3, MinOfNaturals, Zenon
<1>5. Expired(q, bound) = DropFront(q, m)
  BY DEF Expired
<1> HIDE DEF m
<1>6. m \in 0..n /\ m \in Nat /\ (m < n => ~Stale(q, q.order[m + 1], bound))
  BY <1>1, <1>4
<1>7. ASSUME NEW i \in 1..m PROVE q.held[q.order[i]].age >= bound
  <2>1. i - 1 \in 0..n /\ i - 1 < n /\ i - 1 \notin T /\ i \in 1..n
    BY <1>1, <1>4, <1>6
  <2>2. Stale(q, q.order[(i - 1) + 1], bound)
    BY <2>1
  <2>3. q.order[(i - 1) + 1] = q.order[i]
    BY <2>1
  <2> QED BY <1>1, <2>1, <2>2, <2>3 DEF Stale
<1>8. ASSUME OldestFirst(q), NEW i \in (m + 1)..n PROVE q.held[q.order[i]].age < bound
  <2>1. m < n /\ m + 1 \in 1..n /\ i \in 1..n
    BY <1>1, <1>6
  <2>2. q.order[m + 1] \in DOMAIN q.held /\ q.order[i] \in DOMAIN q.held
    BY <1>1, <2>1
  <2>3. q.held[q.order[m + 1]].age < bound
    BY <1>2, <1>6, <2>1, <2>2 DEF Stale
  <2>4. q.held[q.order[i]].age <= q.held[q.order[m + 1]].age
    <3>1. CASE i = m + 1
      BY <1>2, <2>2, <3>1
    <3>2. CASE i # m + 1
      BY <1>1, <1>6, <1>8, <2>1, <3>2 DEF OldestFirst
    <3> QED BY <3>1, <3>2
  <2> QED BY <1>2, <2>2, <2>3, <2>4
<1> QED BY <1>5, <1>6, <1>7, <1>8

(* Making room drops as many entries as there are too many. *)
LEMMA LimitedPaired ==
  ASSUME NEW q, NEW K, NEW E, Paired(q, K, E), NEW max \in Nat
  PROVE  Limited(q, max) =
           DropFront(q, IF Len(q.order) <= max THEN 0 ELSE Len(q.order) - max)
<1> DEFINE n == Len(q.order)
           T == {k \in 0..n : k < n => Cardinality(DOMAIN q.held \ Keys(q, k)) <= max}
           m == Min(T)
<1>1. n \in Nat
  BY PairedSize
<1>2. \A k \in 0..n : Cardinality(DOMAIN q.held \ Keys(q, k)) = n - k
  <2> SUFFICES ASSUME NEW k \in 0..n
               PROVE  Cardinality(DOMAIN q.held \ Keys(q, k)) = n - k
    OBVIOUS
  <2> DEFINE d == DropFront(q, k)
  <2>1. Paired(d, K, E) /\ Len(d.order) = n - k /\ DOMAIN d.held = DOMAIN q.held \ Keys(q, k)
    BY DropFrontPaired
  <2> HIDE DEF d
  <2>2. Cardinality(DOMAIN d.held) = Len(d.order)
    BY <2>1, PairedSize
  <2> QED BY <2>1, <2>2
<1>3. T = {k \in 0..n : k < n => n - k <= max}
  BY <1>2
<1> HIDE DEF T
<1>4. T \in SUBSET Nat /\ n \in T
  BY <1>1, <1>3
<1>5. m \in T /\ \A k \in T : m <= k
  BY <1>4, MinOfNaturals, Zenon
<1>6. Limited(q, max) = DropFront(q, m)
  BY DEF Limited, T
<1> HIDE DEF m
<1>7. m = IF n <= max THEN 0 ELSE n - max
  <2>1. CASE n <= max
    <3>1. 0 \in T
      BY <1>1, <1>3, <2>1
    <3> QED BY <1>1, <1>3, <1>5, <2>1, <3>1
  <2>2. CASE n > max
    <3>1. n - max \in T /\ m \in 0..n /\ (m < n => n - m <= max)
      BY <1>1, <1>3, <1>5, <2>2
    <3>2. m <= n - max
      BY <1>5, <3>1
    <3> QED BY <1>1, <2>2, <3>1, <3>2
  <2> QED BY <1>1, <2>1, <2>2
<1> QED BY <1>6, <1>7

(* Storing an entry under a new key queues it last; under a key that is    *)
(* held it changes the entry and leaves the queue.                         *)
LEMMA PutPaired ==
  ASSUME NEW q, NEW K, NEW E, Paired(q, K, E), NEW key \in K, NEW entry \in E
  PROVE  LET p == Put(q, key, entry) IN
         /\ Paired(p, K, E)
         /\ DOMAIN p.held = DOMAIN q.held \cup {key}
         /\ \A x \in DOMAIN p.held : p.held[x] = IF x = key THEN entry ELSE q.held[x]
         /\ key \in DOMAIN q.held => p.order = q.order
         /\ key \notin DOMAIN q.held =>
              /\ Len(p.order) = Len(q.order) + 1
              /\ \A i \in 1..Len(q.order) : p.order[i] = q.order[i]
              /\ p.order[Len(q.order) + 1] = key
<1> DEFINE n == Len(q.order)
           p == Put(q, key, entry)
<1>1. /\ n \in Nat /\ DOMAIN q.order = 1..n /\ q.order \in Seq(K)
      /\ \A i \in 1..n : q.order[i] \in DOMAIN q.held
  BY PairedSize DEF Paired, Queue
<1>2. /\ DOMAIN p = {"held", "order"}
      /\ DOMAIN p.held = DOMAIN q.held \cup {key}
      /\ \A x \in DOMAIN p.held : p.held[x] = IF x = key THEN entry ELSE q.held[x]
      /\ p.order = IF key \in DOMAIN q.held THEN q.order ELSE Append(q.order, key)
  BY DEF Put
<1> HIDE DEF p
<1>3. /\ DOMAIN p.held \subseteq K
      /\ \A x \in DOMAIN p.held : p.held[x] \in E
  BY <1>2 DEF Paired, Queue
<1>4. CASE key \in DOMAIN q.held
  <2>1. p.order = q.order /\ DOMAIN p.held = DOMAIN q.held
    BY <1>2, <1>4
  <2>2. Queue(p, K, E)
    BY <1>1, <1>2, <1>3, <2>1 DEF Queue
  <2>3. Agrees(p)
    BY <2>1 DEF Paired, Agrees
  <2>4. Paired(p, K, E)
    BY <2>2, <2>3 DEF Paired
  <2> QED BY <1>2, <1>4, <2>1, <2>4 DEF p
<1>5. CASE key \notin DOMAIN q.held
  <2>1. /\ p.order \in Seq(K)
        /\ Len(p.order) = n + 1
        /\ \A i \in 1..n : p.order[i] = q.order[i]
        /\ p.order[n + 1] = key
        /\ DOMAIN p.order = 1..(n + 1)
    BY <1>1, <1>2, <1>5
  <2>2. {p.order[i] : i \in DOMAIN p.order} = DOMAIN p.held
    <3>1. \A i \in 1..(n + 1) : p.order[i] \in DOMAIN p.held
      BY <1>1, <1>2, <2>1
    <3>2. ASSUME NEW x \in DOMAIN p.held PROVE \E i \in 1..(n + 1) : p.order[i] = x
      <4>1. CASE x = key
        BY <1>1, <2>1, <4>1
      <4>2. CASE x # key
        <5>1. PICK i \in 1..n : q.order[i] = x
          BY <1>1, <1>2, <4>2 DEF Paired, Agrees
        <5> QED BY <1>1, <2>1, <5>1
      <4> QED BY <4>1, <4>2
    <3> QED BY <2>1, <3>1, <3>2
  <2>3. \A i, j \in DOMAIN p.order : p.order[i] = p.order[j] => i = j
    <3> SUFFICES ASSUME NEW i \in 1..(n + 1), NEW j \in 1..(n + 1), p.order[i] = p.order[j]
                 PROVE  i = j
      BY <2>1
    <3>1. \A l \in 1..n : p.order[l] # key
      BY <1>1, <1>5, <2>1
    <3>2. CASE i \in 1..n /\ j \in 1..n
      BY <1>1, <2>1, <3>2 DEF Paired, Agrees
    <3>3. CASE i = n + 1 \/ j = n + 1
      BY <1>1, <2>1, <3>1, <3>3
    <3> QED BY <1>1, <3>2, <3>3
  <2>4. Paired(p, K, E)
    BY <1>2, <1>3, <2>1, <2>2, <2>3 DEF Paired, Queue, Agrees
  <2> QED BY <1>2, <1>5, <2>1, <2>4 DEF p
<1> QED BY <1>4, <1>5

(* The entries of E have an age, which may grow up to bound. *)
Ageing(E, bound) ==
  \A e \in E : /\ e.age \in Nat
              /\ [e EXCEPT !.age = IF @ < bound THEN @ + 1 ELSE @] \in E
              /\ "age" \in DOMAIN e

(* A tick changes the ages only, and all of them alike. *)
LEMMA OlderPaired ==
  ASSUME NEW q, NEW K, NEW E, Paired(q, K, E), NEW bound \in Nat, Ageing(E, bound)
  PROVE  LET o == Older(q, bound) IN
         /\ Paired(o, K, E)
         /\ o.order = q.order
         /\ DOMAIN o.held = DOMAIN q.held
         /\ \A x \in DOMAIN q.held :
              o.held[x].age =
                IF q.held[x].age < bound THEN q.held[x].age + 1 ELSE q.held[x].age
         /\ OldestFirst(q) => OldestFirst(o)
<1> DEFINE o == Older(q, bound)
<1>1. /\ DOMAIN o = {"held", "order"}
      /\ o.order = q.order
      /\ DOMAIN o.held = DOMAIN q.held
      /\ \A x \in DOMAIN q.held :
           o.held[x] = [q.held[x] EXCEPT !.age = IF @ < bound THEN @ + 1 ELSE @]
  BY DEF Older, Paired, Queue
<1> HIDE DEF o
<1>2. \A x \in DOMAIN q.held : q.held[x] \in E
  BY DEF Paired, Queue
<1>3. \A x \in DOMAIN q.held :
        o.held[x].age = IF q.held[x].age < bound THEN q.held[x].age + 1 ELSE q.held[x].age
  BY <1>1, <1>2 DEF Ageing
<1>4. Paired(o, K, E)
  <2>1. ASSUME NEW x \in DOMAIN q.held PROVE o.held[x] \in E
    <3> DEFINE e == q.held[x]
    <3>1. e \in E /\ o.held[x] = [e EXCEPT !.age = IF @ < bound THEN @ + 1 ELSE @]
      BY <1>1, <1>2
    <3> HIDE DEF e
    <3> QED BY <3>1 DEF Ageing
  <2> QED BY <1>1, <2>1 DEF Paired, Queue, Agrees
<1>5. ASSUME OldestFirst(q) PROVE OldestFirst(o)
  <2> SUFFICES ASSUME NEW i \in DOMAIN q.order, NEW j \in DOMAIN q.order, i < j
               PROVE  o.held[q.order[j]].age <= o.held[q.order[i]].age
    BY <1>1 DEF OldestFirst
  <2>1. q.order[i] \in DOMAIN q.held /\ q.order[j] \in DOMAIN q.held
    BY DEF Paired, Agrees
  <2>2. q.held[q.order[j]].age <= q.held[q.order[i]].age
    BY <1>5 DEF OldestFirst
  <2>3. q.held[q.order[i]].age \in Nat /\ q.held[q.order[j]].age \in Nat
    BY <1>2, <2>1 DEF Ageing
  <2>4. \A a, b \in Nat : b <= a =>
          (IF b < bound THEN b + 1 ELSE b) <= (IF a < bound THEN a + 1 ELSE a)
    OBVIOUS
  <2> QED BY <1>3, <2>1, <2>2, <2>3, <2>4
<1> QED BY <1>1, <1>3, <1>4, <1>5 DEF o

-----------------------------------------------------------------------------
(* The packets. *)

PacketEntry == [fragments : 1..MaxFragments, age : 0..Ttl]

MediaSequences == 0..MaxMediaSequence

PacketQueue(q) == Paired(q, MediaSequences, PacketEntry)

(* The sequence d sequences before s. *)
Back(s, d) == IF d <= s THEN s - d ELSE s + MaxMediaSequence + 1 - d

(* The queue holds the sequences before s, without a gap. *)
InLine(q, s) ==
  \A i \in DOMAIN q.order : q.order[i] = Back(s, Len(q.order) - i + 1)

(* Between two operations the cache holds the packets sent last.  It is    *)
(* smaller than the range of sequences: the next one is not held, and the  *)
(* one that may be cut anew is held last, or has expired.                  *)
LatestHeld ==
  /\ Len(packets.order) <= MaxPackets
  /\ InLine(packets, sequence)

PacketsInv ==
  /\ PacketQueue(packets) /\ OldestFirst(packets) /\ LatestHeld
  /\ sequence \in 0..MaxMediaSequence

(* Going back from the next sequence is one step longer. *)
LEMMA BackFromNext ==
  ASSUME NEW s \in 0..MaxMediaSequence
  PROVE  /\ NextSequence(s) \in 0..MaxMediaSequence
         /\ Back(NextSequence(s), 1) = s
         /\ \A d \in 1..MaxMediaSequence :
              Back(NextSequence(s), d + 1) = Back(s, d) /\ Back(s, d) # s
         /\ Back(s, 1) = IF s = 0 THEN MaxMediaSequence ELSE s - 1
BY CacheAssumption DEF NextSequence, Back

(* Dropping from the front leaves the packets sent last. *)
LEMMA DropFrontPackets ==
  ASSUME NEW q, PacketQueue(q), NEW s, InLine(q, s), NEW k \in 0..Len(q.order)
  PROVE  InLine(DropFront(q, k), s)
<1> DEFINE d == DropFront(q, k)
           n == Len(q.order)
<1>1. /\ PacketQueue(d)
      /\ Len(d.order) = n - k
      /\ \A i \in 1..(n - k) : d.order[i] = q.order[i + k]
  <2>1. Paired(q, MediaSequences, PacketEntry)
    BY DEF PacketQueue
  <2>2. /\ Paired(d, MediaSequences, PacketEntry)
        /\ Len(d.order) = n - k
        /\ \A i \in 1..(n - k) : d.order[i] = q.order[i + k]
    BY <2>1, DropFrontPaired
  <2> HIDE DEF d
  <2> QED BY <2>2 DEF PacketQueue
<1> HIDE DEF d
<1>2. n \in Nat /\ DOMAIN q.order = 1..n /\ DOMAIN d.order = 1..(n - k)
  <2>1. DOMAIN d.order = 1..Len(d.order)
    BY <1>1, PairedSize DEF PacketQueue
  <2> QED BY <1>1, <2>1, PairedSize DEF PacketQueue
<1>3. ASSUME NEW i \in 1..(n - k) PROVE d.order[i] = Back(s, Len(d.order) - i + 1)
  <2>1. i + k \in 1..n /\ n - (i + k) + 1 = (n - k) - i + 1
    BY <1>2
  <2>2. q.order[i + k] = Back(s, n - (i + k) + 1)
    BY <1>2, <2>1 DEF InLine
  <2> QED BY <1>1, <2>1, <2>2
<1> QED BY <1>2, <1>3 DEF InLine, d

(* expire_locked leaves the fresh packets, all of them and no others. *)
LEMMA HeldPackets ==
  ASSUME PacketsInv
  PROVE  /\ PacketQueue(Held) /\ OldestFirst(Held) /\ InLine(Held, sequence)
         /\ Len(Held.order) <= MaxPackets
         /\ \A x \in DOMAIN Held.held : Held.held[x].age < Ttl
         /\ \E k \in 0..Len(packets.order) :
              /\ Held = DropFront(packets, k)
              /\ \A i \in 1..k : packets.held[packets.order[i]].age >= Ttl
<1> DEFINE n == Len(packets.order)
<1>1. /\ PacketQueue(packets) /\ OldestFirst(packets)
      /\ InLine(packets, sequence) /\ n <= MaxPackets
  BY DEF PacketsInv, LatestHeld
<1>2. n \in Nat /\ Ttl \in Nat /\ MaxPackets \in Nat
  BY <1>1, PairedSize, CacheAssumption DEF PacketQueue
<1>3. \A e \in PacketEntry : e.age \in Nat
  BY <1>2 DEF PacketEntry
<1>4. PICK k \in 0..n :
        /\ Held = DropFront(packets, k)
        /\ \A i \in 1..k : packets.held[packets.order[i]].age >= Ttl
        /\ \A i \in (k + 1)..n : packets.held[packets.order[i]].age < Ttl
  BY <1>1, <1>2, <1>3, ExpiredPaired DEF PacketQueue, Held
<1>5. /\ PacketQueue(Held)
      /\ Len(Held.order) = n - k
      /\ \A i \in 1..(n - k) : Held.order[i] = packets.order[i + k]
      /\ \A x \in DOMAIN Held.held : Held.held[x] = packets.held[x]
      /\ OldestFirst(Held)
  <2> DEFINE d == DropFront(packets, k)
  <2>1. /\ Paired(d, MediaSequences, PacketEntry)
        /\ Len(d.order) = n - k
        /\ \A i \in 1..(n - k) : d.order[i] = packets.order[i + k]
        /\ \A x \in DOMAIN d.held : d.held[x] = packets.held[x]
        /\ OldestFirst(d)
    BY <1>1, DropFrontPaired DEF PacketQueue
  <2>2. Held = d
    BY <1>4
  <2> HIDE DEF d
  <2> QED BY <2>1, <2>2 DEF PacketQueue
<1>6. InLine(Held, sequence)
  BY <1>1, <1>4, DropFrontPackets
<1>7. ASSUME NEW x \in DOMAIN Held.held PROVE Held.held[x].age < Ttl
  <2>1. PICK i \in 1..(n - k) : Held.order[i] = x
    <3>1. DOMAIN Held.order = 1..(n - k)
      BY <1>5, PairedSize DEF PacketQueue
    <3> QED BY <1>5, <3>1 DEF PacketQueue, Paired, Agrees
  <2>2. i + k \in (k + 1)..n /\ packets.order[i + k] = x
    BY <1>2, <1>5, <2>1
  <2>3. packets.held[x].age < Ttl
    BY <1>4, <2>2
  <2> QED BY <1>5, <2>3
<1>8. Len(Held.order) <= MaxPackets
  BY <1>1, <1>2, <1>5
<1> QED BY <1>4, <1>5, <1>6, <1>7, <1>8

(* What both stores of a packet need once the entry is in place. *)
LEMMA LimitedPackets ==
  ASSUME NEW q, PacketQueue(q), OldestFirst(q), NEW s, InLine(q, s)
  PROVE  LET l == Limited(q, MaxPackets) IN
         /\ PacketQueue(l) /\ OldestFirst(l) /\ InLine(l, s) /\ Len(l.order) <= MaxPackets
         /\ l = DropFront(q, IF Len(q.order) <= MaxPackets THEN 0 ELSE Len(q.order) - MaxPackets)
<1> DEFINE n == Len(q.order)
           k == IF n <= MaxPackets THEN 0 ELSE n - MaxPackets
<1>1. n \in Nat /\ MaxPackets \in Nat
  BY PairedSize, CacheAssumption DEF PacketQueue
<1>2. k \in 0..n /\ n - k <= MaxPackets
  BY <1>1
<1>3. Limited(q, MaxPackets) = DropFront(q, k)
  BY <1>1, LimitedPaired DEF PacketQueue
<1> HIDE DEF k
<1>4. /\ PacketQueue(DropFront(q, k)) /\ OldestFirst(DropFront(q, k))
      /\ Len(DropFront(q, k).order) = n - k
  BY <1>2, DropFrontPaired DEF PacketQueue
<1>5. InLine(DropFront(q, k), s)
  BY <1>2, DropFrontPackets
<1> QED BY <1>2, <1>3, <1>4, <1>5 DEF k

(* A new packet: its sequence is not held, it is queued last. *)
LEMMA NewPacket ==
  ASSUME PacketsInv, NEW n \in 1..MaxFragments
  PROVE  LET p == Put(Held, sequence, [fragments |-> n, age |-> 0]) IN
         /\ sequence \notin DOMAIN Held.held
         /\ PacketQueue(p) /\ OldestFirst(p) /\ InLine(p, NextSequence(sequence))
<1> DEFINE entry == [fragments |-> n, age |-> 0]
           p == Put(Held, sequence, entry)
           m == Len(Held.order)
<1>1. /\ PacketQueue(Held) /\ OldestFirst(Held) /\ InLine(Held, sequence)
      /\ m <= MaxPackets /\ sequence \in 0..MaxMediaSequence
  BY HeldPackets DEF PacketsInv
<1>2. /\ m \in Nat /\ DOMAIN Held.order = 1..m
      /\ m <= MaxMediaSequence /\ MaxMediaSequence \in Nat
      /\ \A i \in 1..m : Held.order[i] \in DOMAIN Held.held
  BY <1>1, PairedSize, CacheAssumption DEF PacketQueue
<1>3. entry \in PacketEntry /\ entry.age = 0
  BY CacheAssumption DEF PacketEntry
<1>4. \A i \in 1..m : m - i + 1 \in 1..MaxMediaSequence
  BY <1>2
<1>5. sequence \notin DOMAIN Held.held
  <2> SUFFICES ASSUME NEW i \in 1..m, Held.order[i] = sequence PROVE FALSE
    BY <1>1, <1>2 DEF PacketQueue, Paired, Agrees
  <2>1. Held.order[i] = Back(sequence, m - i + 1)
    BY <1>1, <1>2 DEF InLine
  <2> QED BY <1>1, <1>4, <2>1, BackFromNext
<1> HIDE DEF entry
<1>6. /\ PacketQueue(p)
      /\ \A x \in DOMAIN p.held : p.held[x] = IF x = sequence THEN entry ELSE Held.held[x]
      /\ DOMAIN p.held = DOMAIN Held.held \cup {sequence}
      /\ Len(p.order) = m + 1
      /\ \A i \in 1..m : p.order[i] = Held.order[i]
      /\ p.order[m + 1] = sequence
  <2>1. Paired(Held, MediaSequences, PacketEntry) /\ sequence \in MediaSequences
    BY <1>1 DEF PacketQueue, MediaSequences
  <2>2. /\ Paired(p, MediaSequences, PacketEntry)
        /\ DOMAIN p.held = DOMAIN Held.held \cup {sequence}
        /\ \A x \in DOMAIN p.held :
             p.held[x] = IF x = sequence THEN entry ELSE Held.held[x]
        /\ sequence \notin DOMAIN Held.held =>
             /\ Len(p.order) = m + 1
             /\ \A i \in 1..m : p.order[i] = Held.order[i]
             /\ p.order[m + 1] = sequence
    BY <1>1, <1>3, <2>1, PutPaired
  <2> QED BY <1>5, <2>2 DEF PacketQueue
<1> HIDE DEF p
<1>7. DOMAIN p.order = 1..(m + 1)
  BY <1>6, PairedSize DEF PacketQueue
<1>8. InLine(p, NextSequence(sequence))
  <2> SUFFICES ASSUME NEW i \in 1..(m + 1)
               PROVE  p.order[i] = Back(NextSequence(sequence), (m + 1) - i + 1)
    BY <1>6, <1>7 DEF InLine
  <2>1. CASE i = m + 1
    <3>1. (m + 1) - i + 1 = 1
      BY <1>2, <2>1
    <3> QED BY <1>1, <1>6, <2>1, <3>1, BackFromNext
  <2>2. CASE i # m + 1
    <3>1. i \in 1..m /\ (m + 1) - i + 1 = (m - i + 1) + 1
      BY <1>2, <2>2
    <3>2. Held.order[i] = Back(sequence, m - i + 1)
      BY <1>1, <1>2, <3>1 DEF InLine
    <3>3. Back(NextSequence(sequence), (m - i + 1) + 1) = Back(sequence, m - i + 1)
      BY <1>1, <1>4, <3>1, BackFromNext
    <3> QED BY <1>6, <3>1, <3>2, <3>3
  <2> QED BY <2>1, <2>2
<1>9. OldestFirst(p)
  <2> SUFFICES ASSUME NEW i \in 1..(m + 1), NEW j \in 1..(m + 1), i < j
               PROVE  p.held[p.order[j]].age <= p.held[p.order[i]].age
    BY <1>7 DEF OldestFirst
  <2>1. i \in 1..m
    BY <1>2
  <2>2. p.order[i] \in DOMAIN Held.held /\ p.held[p.order[i]] = Held.held[Held.order[i]]
    BY <1>2, <1>5, <1>6, <2>1
  <2>3. Held.held[Held.order[i]].age \in Nat
    BY <1>2, <1>1, <2>1 DEF PacketQueue, Paired, Queue, PacketEntry
  <2>4. CASE j = m + 1
    BY <1>3, <1>6, <2>2, <2>3, <2>4
  <2>5. CASE j # m + 1
    <3>1. j \in 1..m
      BY <1>2, <2>5
    <3>2. p.held[p.order[j]] = Held.held[Held.order[j]]
      BY <1>2, <1>5, <1>6, <3>1
    <3> QED BY <1>1, <1>2, <2>1, <2>2, <3>1, <3>2 DEF OldestFirst
  <2> QED BY <2>4, <2>5
<1> QED BY <1>5, <1>6, <1>8, <1>9 DEF p, entry

(* The packet sent last: it is held last and keeps its place, or nothing   *)
(* is held any more.                                                       *)
LEMMA RecutPacket ==
  ASSUME PacketsInv, NEW n \in 1..MaxFragments
  PROVE  LET p == Put(Held, Back(sequence, 1), [fragments |-> n, age |-> 0])
             m == Len(Held.order)
         IN
         /\ Back(sequence, 1) \in MediaSequences
         /\ IF Back(sequence, 1) \in DOMAIN Held.held
              THEN m \in Nat \ {0} /\ Held.order[m] = Back(sequence, 1)
              ELSE m = 0
         /\ PacketQueue(p) /\ OldestFirst(p) /\ InLine(p, sequence)
<1> DEFINE entry == [fragments |-> n, age |-> 0]
           last == Back(sequence, 1)
           p == Put(Held, last, entry)
           m == Len(Held.order)
<1>1. /\ PacketQueue(Held) /\ OldestFirst(Held) /\ InLine(Held, sequence)
      /\ m <= MaxPackets /\ sequence \in 0..MaxMediaSequence
  BY HeldPackets DEF PacketsInv
<1>2. /\ m \in Nat /\ DOMAIN Held.order = 1..m
      /\ \A i \in 1..m : Held.order[i] \in DOMAIN Held.held
      /\ Paired(Held, MediaSequences, PacketEntry)
  BY <1>1, PairedSize DEF PacketQueue
<1>3. entry \in PacketEntry /\ entry.age = 0
  BY CacheAssumption DEF PacketEntry
<1>4. last \in MediaSequences
  BY <1>1, CacheAssumption DEF Back, MediaSequences
<1> HIDE DEF entry, last
<1>5. m # 0 => Held.order[m] = last /\ last \in DOMAIN Held.held
  <2> SUFFICES ASSUME m # 0 PROVE Held.order[m] = last
    BY <1>2
  <2>1. m \in 1..m /\ m - m + 1 = 1
    BY <1>2
  <2> QED BY <1>1, <1>2, <2>1 DEF InLine, last
<1>6. m = 0 => DOMAIN Held.held = {}
  BY <1>2 DEF Paired, Agrees
<1>7. /\ Paired(p, MediaSequences, PacketEntry)
      /\ DOMAIN p.held = DOMAIN Held.held \cup {last}
      /\ \A x \in DOMAIN p.held : p.held[x] = IF x = last THEN entry ELSE Held.held[x]
      /\ last \in DOMAIN Held.held => p.order = Held.order
      /\ last \notin DOMAIN Held.held =>
           /\ Len(p.order) = m + 1
           /\ p.order[m + 1] = last
  BY <1>2, <1>3, <1>4, PutPaired
<1> HIDE DEF p
<1>8. CASE m = 0
  <2>1. /\ last \notin DOMAIN Held.held
        /\ Len(p.order) = 1 /\ p.order[1] = last
    BY <1>6, <1>7, <1>8
  <2>2. DOMAIN p.order = 1..1
    BY <1>7, <2>1, PairedSize
  <2>3. InLine(p, sequence)
    BY <2>1, <2>2 DEF InLine, last
  <2>4. OldestFirst(p)
    BY <2>2 DEF OldestFirst
  <2> QED BY <1>4, <1>7, <1>8, <2>1, <2>3, <2>4 DEF PacketQueue, p, last, entry
<1>9. CASE m # 0
  <2>1. last \in DOMAIN Held.held /\ p.order = Held.order
    BY <1>5, <1>7, <1>9
  <2>2. InLine(p, sequence)
    BY <1>1, <2>1 DEF InLine
  <2>3. OldestFirst(p)
    <3> SUFFICES ASSUME NEW i \in 1..m, NEW j \in 1..m, i < j
                 PROVE  p.held[p.order[j]].age <= p.held[p.order[i]].age
      BY <1>2, <2>1 DEF OldestFirst
    <3>1. i # m /\ m \in 1..m
      BY <1>2
    <3>2. Held.order[i] # last
      BY <1>2, <1>5, <1>9, <3>1 DEF Paired, Agrees
    <3>3. p.held[p.order[i]] = Held.held[Held.order[i]] /\ p.order[i] \in DOMAIN Held.held
      BY <1>2, <1>7, <2>1, <3>2
    <3>4. p.held[p.order[i]].age \in Nat
      BY <1>2, <3>3 DEF Paired, Queue, PacketEntry
    <3>5. CASE j = m
      BY <1>3, <1>5, <1>7, <1>9, <2>1, <3>4, <3>5
    <3>6. CASE j # m
      <4>1. Held.order[j] # last
        BY <1>2, <1>5, <1>9, <3>1, <3>6 DEF Paired, Agrees
      <4>2. p.held[p.order[j]] = Held.held[Held.order[j]]
        BY <1>2, <1>7, <2>1, <4>1
      <4> QED BY <1>1, <1>2, <3>3, <4>2 DEF OldestFirst
    <3> QED BY <3>5, <3>6
  <2> QED BY <1>2, <1>4, <1>5, <1>7, <1>9, <2>1, <2>2, <2>3 DEF PacketQueue, p, last, entry
<1> QED BY <1>8, <1>9

-----------------------------------------------------------------------------
(* The requests. *)

RequestEntry == [age : 0..DedupWindow]

RequestQueue(q) == Paired(q, Requests, RequestEntry)

(* While a request is in its dedup window it is remembered, or as many     *)
(* requests as the cache remembers were answered since: all of these are   *)
(* still in the queue, and none is older.                                  *)
AnsweredKept ==
  /\ Len(recent.order) <= MaxRequests
  /\ IsFiniteSet(DOMAIN answered)
  /\ \A r \in DOMAIN recent.held : recent.held[r].age < DedupWindow => r \in DOMAIN answered
  /\ \A r \in DOMAIN answered :
       /\ answered[r] \in 0..(DedupWindow - 1)
       /\ r \in DOMAIN recent.held => recent.held[r].age = answered[r]
       /\ r \notin DOMAIN recent.held =>
            /\ Len(recent.order) = MaxRequests
            /\ \A x \in DOMAIN recent.held : recent.held[x].age <= answered[r]

RequestsInv == RequestQueue(recent) /\ OldestFirst(recent) /\ AnsweredKept

(* The cache remembers at least one request. *)
LEMMA MaxRequestsPositive == MaxRequests \in Nat /\ MaxRequests >= 1
<1> DEFINE n == RequestsPerPacket * MaxPackets
           S == {n, 1}
<1>1. n \in Nat
  BY CacheAssumption
<1> HIDE DEF n
<1>2. \E x \in S : \A y \in S : x >= y
  BY <1>1
<1>3. Max(S) \in S /\ \A y \in S : Max(S) >= y
  BY <1>2 DEF Max
<1>4. MaxRequests = Max(S)
  BY DEF MaxRequests, n
<1> QED BY <1>1, <1>3, <1>4

(* expire_recent_requests_locked leaves the requests in their window; if   *)
(* all are, it leaves the queue as it is.                                  *)
LEMMA AskedRequests ==
  ASSUME RequestsInv
  PROVE  /\ RequestQueue(Asked) /\ OldestFirst(Asked)
         /\ Len(Asked.order) <= Len(recent.order)
         /\ DOMAIN Asked.held = {x \in DOMAIN recent.held : recent.held[x].age < DedupWindow}
         /\ \A x \in DOMAIN Asked.held : Asked.held[x] = recent.held[x]
         /\ (\A x \in DOMAIN recent.held : recent.held[x].age < DedupWindow) =>
              Len(Asked.order) = Len(recent.order)
<1> DEFINE n == Len(recent.order)
<1>1. /\ Paired(recent, Requests, RequestEntry) /\ OldestFirst(recent)
      /\ n \in Nat /\ DedupWindow \in Nat
      /\ \A i \in 1..n : recent.order[i] \in DOMAIN recent.held
      /\ DOMAIN recent.order = 1..n
  BY PairedSize, CacheAssumption DEF RequestsInv, RequestQueue
<1>2. \A e \in RequestEntry : e.age \in Nat
  BY <1>1 DEF RequestEntry
<1>3. PICK k \in 0..n :
        /\ Asked = DropFront(recent, k)
        /\ \A i \in 1..k : recent.held[recent.order[i]].age >= DedupWindow
        /\ \A i \in (k + 1)..n : recent.held[recent.order[i]].age < DedupWindow
  BY <1>1, <1>2, ExpiredPaired DEF Asked
<1> DEFINE d == DropFront(recent, k)
<1>4. /\ Paired(d, Requests, RequestEntry)
      /\ Len(d.order) = n - k
      /\ DOMAIN d.held = DOMAIN recent.held \ Keys(recent, k)
      /\ \A x \in DOMAIN d.held : d.held[x] = recent.held[x]
      /\ OldestFirst(d)
  BY <1>1, DropFrontPaired
<1>5. Asked = d
  BY <1>3
<1> HIDE DEF d
<1>6. ASSUME NEW x \in DOMAIN recent.held
      PROVE  x \in Keys(recent, k) <=> ~(recent.held[x].age < DedupWindow)
  <2>1. PICK i \in 1..n : recent.order[i] = x
    BY <1>1 DEF Paired, Agrees
  <2>2. recent.held[x].age \in Nat
    BY <1>1, <1>2 DEF Paired, Queue
  <2>3. CASE i \in 1..k
    BY <1>1, <1>3, <2>1, <2>2, <2>3 DEF Keys
  <2>4. CASE i \in (k + 1)..n
    <3>1. ASSUME NEW j \in 1..k, recent.order[j] = x PROVE FALSE
      <4>1. j \in 1..n /\ j # i
        BY <1>1, <2>4
      <4> QED BY <1>1, <2>1, <3>1, <4>1 DEF Paired, Agrees
    <3> QED BY <1>3, <2>1, <2>4, <3>1 DEF Keys
  <2> QED BY <1>1, <2>3, <2>4
<1>7. DOMAIN d.held = {x \in DOMAIN recent.held : recent.held[x].age < DedupWindow}
  BY <1>4, <1>6
<1>8. (\A x \in DOMAIN recent.held : recent.held[x].age < DedupWindow) => k = 0
  <2> SUFFICES ASSUME k # 0
               PROVE  ~(recent.held[recent.order[1]].age < DedupWindow)
    BY <1>1
  <2>1. 1 \in 1..k /\ 1 \in 1..n
    BY <1>1
  <2>2. recent.held[recent.order[1]].age \in Nat
    BY <1>1, <1>2, <2>1 DEF Paired, Queue
  <2> QED BY <1>1, <1>3, <2>1, <2>2
<1> QED BY <1>1, <1>4, <1>5, <1>7, <1>8 DEF RequestQueue

(* Expiry takes no request out of the queue that is still in its window:   *)
(* AnsweredKept holds of the expired queue too.                            *)
LEMMA AskedKeepsAnswered ==
  ASSUME RequestsInv
  PROVE  /\ Len(Asked.order) <= MaxRequests
         /\ DOMAIN Asked.held \subseteq DOMAIN answered
         /\ \A x \in DOMAIN Asked.held : Asked.held[x].age = answered[x]
         /\ \A q \in DOMAIN answered : q \notin DOMAIN Asked.held =>
              /\ Len(Asked.order) = MaxRequests
              /\ \A x \in DOMAIN Asked.held : Asked.held[x].age <= answered[q]
<1>1. AnsweredKept /\ DedupWindow \in Nat /\ MaxRequests \in Nat
  BY CacheAssumption, MaxRequestsPositive DEF RequestsInv
<1>2. /\ Len(Asked.order) <= Len(recent.order)
      /\ DOMAIN Asked.held = {x \in DOMAIN recent.held : recent.held[x].age < DedupWindow}
      /\ \A x \in DOMAIN Asked.held : Asked.held[x] = recent.held[x]
      /\ (\A x \in DOMAIN recent.held : recent.held[x].age < DedupWindow) =>
           Len(Asked.order) = Len(recent.order)
  BY AskedRequests
<1>3. \A x \in DOMAIN recent.held : recent.held[x].age \in Nat
  BY <1>1 DEF RequestsInv, RequestQueue, Paired, Queue, RequestEntry
<1>4. Len(Asked.order) <= MaxRequests
  <2>1. Len(Asked.order) \in Nat /\ Len(recent.order) \in Nat
    BY AskedRequests, PairedSize DEF RequestQueue, RequestsInv
  <2> QED BY <1>1, <1>2, <2>1 DEF AnsweredKept
<1>5. ASSUME NEW q \in DOMAIN answered, q \notin DOMAIN Asked.held
      PROVE  /\ Len(Asked.order) = MaxRequests
             /\ \A x \in DOMAIN Asked.held : Asked.held[x].age <= answered[q]
  <2>1. answered[q] \in Nat /\ answered[q] < DedupWindow
    BY <1>1 DEF AnsweredKept
  <2>2. q \notin DOMAIN recent.held
    BY <1>1, <1>2, <1>5, <2>1 DEF AnsweredKept
  <2>3. /\ Len(recent.order) = MaxRequests
        /\ \A x \in DOMAIN recent.held : recent.held[x].age <= answered[q]
    BY <1>1, <2>2 DEF AnsweredKept
  <2>4. \A x \in DOMAIN recent.held : recent.held[x].age < DedupWindow
    BY <1>1, <1>3, <2>1, <2>3
  <2> QED BY <1>2, <2>3, <2>4
<1> QED BY <1>1, <1>2, <1>4, <1>5 DEF AnsweredKept

(* A request that is answered was not in the queue; it is queued last, and *)
(* what makes room for it is the oldest request when the queue is full.    *)
LEMMA RememberedRequests ==
  ASSUME RequestsInv, NEW r \in Requests, ~Repeated(Asked, r)
  PROVE  LET f == Remembered(r) IN
         /\ r \notin DOMAIN Asked.held
         /\ RequestQueue(f) /\ OldestFirst(f) /\ Len(f.order) <= MaxRequests
         /\ r \in DOMAIN f.held
         /\ DOMAIN f.held \subseteq DOMAIN Asked.held \cup {r}
         /\ \A x \in DOMAIN f.held :
              f.held[x].age = IF x = r THEN 0 ELSE Asked.held[x].age
         /\ Len(Asked.order) = MaxRequests => Len(f.order) = MaxRequests
         /\ \A x \in DOMAIN Asked.held \ DOMAIN f.held :
              /\ Len(f.order) = MaxRequests
              /\ \A y \in DOMAIN f.held : f.held[y].age <= Asked.held[x].age
<1> DEFINE entry == [age |-> 0]
           p == Put(Asked, r, entry)
           m == Len(Asked.order)
           k == IF m + 1 <= MaxRequests THEN 0 ELSE m + 1 - MaxRequests
           f == Remembered(r)
<1>1. /\ Paired(Asked, Requests, RequestEntry) /\ OldestFirst(Asked)
      /\ m \in Nat /\ m <= MaxRequests /\ MaxRequests \in Nat /\ MaxRequests >= 1
      /\ DOMAIN Asked.order = 1..m
      /\ \A i \in 1..m : Asked.order[i] \in DOMAIN Asked.held
  BY AskedRequests, AskedKeepsAnswered, MaxRequestsPositive, PairedSize DEF RequestQueue
<1>2. r \notin DOMAIN Asked.held
  BY AskedRequests DEF Repeated
<1>3. entry \in RequestEntry /\ entry.age = 0
  BY CacheAssumption DEF RequestEntry
<1>4. \A x \in DOMAIN Asked.held : Asked.held[x].age \in Nat
  BY <1>1, CacheAssumption DEF Paired, Queue, RequestEntry
<1> HIDE DEF entry
<1>5. /\ Paired(p, Requests, RequestEntry)
      /\ DOMAIN p.held = DOMAIN Asked.held \cup {r}
      /\ \A x \in DOMAIN p.held : p.held[x] = IF x = r THEN entry ELSE Asked.held[x]
      /\ r \notin DOMAIN Asked.held =>
           /\ Len(p.order) = m + 1
           /\ \A i \in 1..m : p.order[i] = Asked.order[i]
           /\ p.order[m + 1] = r
  BY <1>1, <1>3, PutPaired
<1>6. f = Limited(p, MaxRequests)
  BY DEF Remembered, entry
<1> HIDE DEF p, f
<1>7. /\ Len(p.order) = m + 1 /\ DOMAIN p.order = 1..(m + 1)
      /\ \A i \in 1..m : p.order[i] = Asked.order[i]
      /\ p.order[m + 1] = r
  <2>1. DOMAIN p.order = 1..Len(p.order)
    BY <1>5, PairedSize
  <2> QED BY <1>2, <1>5, <2>1
<1>8. k \in 0..m /\ k \in 0..1 /\ (k = 1 => m = MaxRequests) /\ (k = 0 => m + 1 <= MaxRequests)
  BY <1>1
<1>9. f = DropFront(p, k)
  BY <1>1, <1>5, <1>6, <1>7, LimitedPaired
<1> HIDE DEF k
<1>10. OldestFirst(p)
  <2> SUFFICES ASSUME NEW i \in 1..(m + 1), NEW j \in 1..(m + 1), i < j
               PROVE  p.held[p.order[j]].age <= p.held[p.order[i]].age
    BY <1>7 DEF OldestFirst
  <2>1. i \in 1..m /\ (j = m + 1 \/ j \in 1..m)
    BY <1>1
  <2>2. \A l \in 1..m : /\ p.order[l] \in DOMAIN Asked.held
                        /\ p.held[p.order[l]] = Asked.held[Asked.order[l]]
    BY <1>1, <1>2, <1>5, <1>7
  <2>3. CASE j = m + 1
    <3>1. p.held[p.order[j]].age = 0
      BY <1>3, <1>5, <1>7, <2>3
    <3> QED BY <1>4, <1>1, <2>1, <2>2, <3>1
  <2>4. CASE j \in 1..m
    BY <1>1, <2>1, <2>2, <2>4 DEF OldestFirst
  <2> QED BY <2>1, <2>3, <2>4
<1>11. /\ Paired(f, Requests, RequestEntry) /\ OldestFirst(f)
       /\ Len(f.order) = m + 1 - k
       /\ DOMAIN f.held = DOMAIN p.held \ Keys(p, k)
       /\ \A x \in DOMAIN f.held : f.held[x] = p.held[x]
  <2> DEFINE d == DropFront(p, k)
  <2>1. k \in 0..Len(p.order)
    BY <1>7, <1>8
  <2>2. /\ Paired(d, Requests, RequestEntry) /\ OldestFirst(d)
        /\ Len(d.order) = Len(p.order) - k
        /\ DOMAIN d.held = DOMAIN p.held \ Keys(p, k)
        /\ \A x \in DOMAIN d.held : d.held[x] = p.held[x]
    BY <1>5, <1>10, <2>1, DropFrontPaired
  <2> HIDE DEF d
  <2>3. f = d
    BY <1>9 DEF d
  <2>4. Len(d.order) = m + 1 - k
    BY <1>1, <1>7, <1>8, <2>2
  <2> QED BY <2>2, <2>3, <2>4
<1>12. r \in DOMAIN f.held
  <2>1. \A i \in 1..m : p.order[i] # r
    BY <1>1, <1>2, <1>7
  <2>2. 1..k \subseteq 1..m
    BY <1>8
  <2> QED BY <1>5, <1>11, <2>1, <2>2 DEF Keys
<1>13. /\ Len(f.order) <= MaxRequests
       /\ m = MaxRequests => Len(f.order) = MaxRequests
       /\ k = 1 => Len(f.order) = MaxRequests
  BY <1>1, <1>8, <1>11
<1>14. \A x \in DOMAIN f.held : f.held[x].age = IF x = r THEN 0 ELSE Asked.held[x].age
  BY <1>3, <1>5, <1>11
<1>15. ASSUME NEW x \in DOMAIN Asked.held \ DOMAIN f.held
       PROVE  /\ Len(f.order) = MaxRequests
              /\ \A y \in DOMAIN f.held : f.held[y].age <= Asked.held[x].age
  <2>1. x \in Keys(p, k)
    BY <1>5, <1>11
  <2>2. k = 1 /\ x = p.order[1] /\ 1 \in 1..(m + 1)
    BY <1>1, <1>8, <2>1 DEF Keys
  <2>3. \A y \in DOMAIN p.held : p.held[y].age <= p.held[x].age
    <3> SUFFICES ASSUME NEW i \in 1..(m + 1)
                 PROVE  p.held[p.order[i]].age <= p.held[x].age
      BY <1>5, <1>7 DEF Paired, Agrees
    <3>1. p.held[x].age \in Nat
      BY <1>4, <1>2, <1>5
    <3>2. CASE i = 1
      BY <2>2, <3>1, <3>2
    <3>3. CASE i # 1
      <4>1. 1 < i
        BY <3>3
      <4> QED BY <1>7, <1>10, <2>2, <4>1 DEF OldestFirst
    <3> QED BY <3>2, <3>3
  <2>4. p.held[x] = Asked.held[x]
    BY <1>2, <1>5
  <2> QED BY <1>11, <1>13, <2>2, <2>3, <2>4
<1> QED BY <1>2, <1>5, <1>11, <1>12, <1>13, <1>14, <1>15 DEF RequestQueue, f

-----------------------------------------------------------------------------
(* The steps. *)

CacheInv == PacketsInv /\ RequestsInv /\ rescue \in BOOLEAN

(* What the invariant says of each half is what the properties say.        *)
LEMMA CacheInvImplies == CacheInv => TypeOK /\ QueuesAgree /\ QueuesInOrder
BY DEF CacheInv, PacketsInv, RequestsInv, PacketQueue, RequestQueue, Paired, MediaSequences,
       PacketEntry, RequestEntry, TypeOK, QueuesAgree, QueuesInOrder

(* The empty cache. *)
LEMMA InitCacheInv == Init => CacheInv
<1> SUFFICES ASSUME Init PROVE CacheInv
  OBVIOUS
<1>1. ASSUME NEW K, NEW E
      PROVE  /\ Paired(Empty, K, E) /\ OldestFirst(Empty)
             /\ Len(Empty.order) = 0 /\ DOMAIN Empty.order = {} /\ DOMAIN Empty.held = {}
  <2>1. /\ DOMAIN Empty = {"held", "order"}
        /\ Empty.held = << >> /\ Empty.order = << >>
    BY DEF Empty
  <2>2. DOMAIN Empty.held = {} /\ DOMAIN Empty.order = {} /\ Empty.order \in Seq(K)
    BY <2>1, SMT
  <2> QED BY <2>1, <2>2 DEF Paired, Queue, Agrees, OldestFirst
<1>2. PacketsInv
  BY <1>1, CacheAssumption DEF Init, PacketsInv, PacketQueue, LatestHeld, InLine
<1>3. IsFiniteSet(DOMAIN answered) /\ DOMAIN answered = {}
  <2>1. answered = << >>
    BY DEF Init
  <2>2. DOMAIN answered = {}
    BY <2>1, SMT
  <2> QED BY <2>2, FS_EmptySet
<1>4. RequestsInv
  BY <1>1, <1>3, MaxRequestsPositive DEF Init, RequestsInv, RequestQueue, AnsweredKept
<1> QED BY <1>2, <1>4 DEF Init, CacheInv

(* No step loses what is said of the packets. *)
LEMMA PacketsStep == CacheInv /\ [Next]_vars => PacketsInv'
<1> SUFFICES ASSUME CacheInv, [Next]_vars PROVE PacketsInv'
  OBVIOUS
<1>1. PacketsInv /\ sequence \in 0..MaxMediaSequence
  BY DEF CacheInv, PacketsInv
<1>2. ASSUME NEW n \in 1..MaxFragments, CachePacket(n) PROVE PacketsInv'
  <2> DEFINE p == Put(Held, sequence, [fragments |-> n, age |-> 0])
  <2>1. PacketQueue(p) /\ OldestFirst(p) /\ InLine(p, NextSequence(sequence))
    BY <1>1, NewPacket
  <2>2. packets' = Limited(p, MaxPackets) /\ sequence' = NextSequence(sequence)
    BY <1>2 DEF CachePacket, Inserted, Held
  <2> HIDE DEF p
  <2>3. /\ PacketQueue(packets') /\ OldestFirst(packets')
        /\ InLine(packets', sequence') /\ Len(packets'.order) <= MaxPackets
    BY <2>1, <2>2, LimitedPackets
  <2>4. sequence' \in 0..MaxMediaSequence
    BY <1>1, <2>2, BackFromNext
  <2> QED BY <2>3, <2>4 DEF PacketsInv, LatestHeld
<1>3. ASSUME CacheRescue PROVE PacketsInv'
  <2> DEFINE p == Put(Held, Back(sequence, 1), [fragments |-> 1, age |-> 0])
  <2>1. 1 \in 1..MaxFragments
    BY CacheAssumption
  <2>2. PacketQueue(p) /\ OldestFirst(p) /\ InLine(p, sequence)
    BY <1>1, <2>1, RecutPacket
  <2>3. packets' = Limited(p, MaxPackets) /\ sequence' = sequence
    BY <1>1, <1>3, BackFromNext DEF CacheRescue, Inserted, Held
  <2> HIDE DEF p
  <2>4. /\ PacketQueue(packets') /\ OldestFirst(packets')
        /\ InLine(packets', sequence') /\ Len(packets'.order) <= MaxPackets
    BY <2>2, <2>3, LimitedPackets
  <2> QED BY <1>1, <2>3, <2>4 DEF PacketsInv, LatestHeld
<1>4. ASSUME packets' = Held, sequence' = sequence PROVE PacketsInv'
  BY <1>1, <1>4, HeldPackets DEF PacketsInv, LatestHeld
<1>5. ASSUME Tick PROVE PacketsInv'
  <2> DEFINE o == Older(packets, Ttl)
  <2>1. Ageing(PacketEntry, Ttl)
    BY CacheAssumption DEF PacketEntry, Ageing
  <2>2. /\ Paired(o, MediaSequences, PacketEntry)
        /\ o.order = packets.order
        /\ OldestFirst(o)
    BY <1>1, <2>1, CacheAssumption, OlderPaired DEF PacketsInv, PacketQueue
  <2>3. packets' = o /\ sequence' = sequence
    BY <1>5 DEF Tick
  <2> HIDE DEF o
  <2> QED BY <1>1, <2>2, <2>3 DEF PacketsInv, PacketQueue, LatestHeld, InLine
<1>6. CASE UNCHANGED vars
  BY <1>1, <1>6 DEF vars, PacketsInv, LatestHeld
<1> QED BY <1>2, <1>3, <1>4, <1>5, <1>6 DEF Next, IgnoreRequest, AnswerRequest

(* No step loses what is said of the requests. *)
LEMMA RequestsStep == CacheInv /\ [Next]_vars => RequestsInv'
<1> SUFFICES ASSUME CacheInv, [Next]_vars PROVE RequestsInv'
  OBVIOUS
<1>1. /\ RequestsInv /\ AnsweredKept
      /\ DedupWindow \in Nat \ {0} /\ MaxRequests \in Nat
  BY CacheAssumption, MaxRequestsPositive DEF CacheInv, RequestsInv
<1>2. ASSUME UNCHANGED <<recent, answered>> PROVE RequestsInv'
  BY <1>1, <1>2 DEF RequestsInv, AnsweredKept
<1>3. ASSUME NEW r \in Requests, IgnoreRequest(r) PROVE RequestsInv'
  <2>1. recent' = Asked /\ answered' = answered
    BY <1>3 DEF IgnoreRequest
  <2>2. RequestQueue(Asked) /\ OldestFirst(Asked)
    BY <1>1, AskedRequests
  <2>3. AnsweredKept'
    BY <1>1, <2>1, AskedKeepsAnswered DEF AnsweredKept
  <2> QED BY <2>1, <2>2, <2>3 DEF RequestsInv
<1>4. ASSUME NEW r \in Requests, AnswerRequest(r) PROVE RequestsInv'
  <2> DEFINE f == Remembered(r)
  <2>1. /\ recent' = f
        /\ DOMAIN answered' = DOMAIN answered \cup {r}
        /\ \A q \in DOMAIN answered' : answered'[q] = IF q = r THEN 0 ELSE answered[q]
    BY <1>4 DEF AnswerRequest
  <2>2. /\ RequestQueue(f) /\ OldestFirst(f) /\ Len(f.order) <= MaxRequests
        /\ r \in DOMAIN f.held
        /\ DOMAIN f.held \subseteq DOMAIN Asked.held \cup {r}
        /\ \A x \in DOMAIN f.held :
             f.held[x].age = IF x = r THEN 0 ELSE Asked.held[x].age
        /\ Len(Asked.order) = MaxRequests => Len(f.order) = MaxRequests
        /\ \A x \in DOMAIN Asked.held \ DOMAIN f.held :
             /\ Len(f.order) = MaxRequests
             /\ \A y \in DOMAIN f.held : f.held[y].age <= Asked.held[x].age
    BY <1>1, <1>4, RememberedRequests DEF AnswerRequest, Answers
  <2> HIDE DEF f
  <2>3. /\ DOMAIN Asked.held \subseteq DOMAIN answered
        /\ \A x \in DOMAIN Asked.held : Asked.held[x].age = answered[x]
        /\ \A q \in DOMAIN answered : q \notin DOMAIN Asked.held =>
             /\ Len(Asked.order) = MaxRequests
             /\ \A x \in DOMAIN Asked.held : Asked.held[x].age <= answered[q]
    BY <1>1, AskedKeepsAnswered
  <2>4. IsFiniteSet(DOMAIN answered')
    BY <1>1, <2>1, FS_AddElement DEF AnsweredKept
  <2>5. \A x \in DOMAIN f.held : x \in DOMAIN answered' /\ f.held[x].age = answered'[x]
    BY <2>1, <2>2, <2>3
  <2>6. ASSUME NEW q \in DOMAIN answered'
        PROVE  /\ answered'[q] \in 0..(DedupWindow - 1)
               /\ q \notin DOMAIN f.held =>
                    /\ Len(f.order) = MaxRequests
                    /\ \A x \in DOMAIN f.held : f.held[x].age <= answered'[q]
    <3>1. CASE q = r
      BY <1>1, <2>1, <2>2, <3>1
    <3>2. CASE q # r
      <4>1. q \in DOMAIN answered /\ answered'[q] = answered[q]
        BY <2>1, <3>2
      <4>2. answered[q] \in 0..(DedupWindow - 1)
        BY <1>1, <4>1 DEF AnsweredKept
      <4>3. CASE q \in DOMAIN Asked.held
        BY <2>2, <2>3, <4>1, <4>2, <4>3
      <4>4. CASE q \notin DOMAIN Asked.held
        BY <1>1, <2>2, <2>3, <4>1, <4>2, <4>4
      <4> QED BY <4>3, <4>4
    <3> QED BY <3>1, <3>2
  <2>7. AnsweredKept'
    BY <2>1, <2>2, <2>4, <2>5, <2>6 DEF AnsweredKept
  <2> QED BY <2>1, <2>2, <2>7 DEF RequestsInv
<1>5. ASSUME Tick PROVE RequestsInv'
  <2> DEFINE o == Older(recent, DedupWindow)
  <2>1. Ageing(RequestEntry, DedupWindow)
    BY <1>1 DEF RequestEntry, Ageing
  <2>2. /\ Paired(o, Requests, RequestEntry)
        /\ o.order = recent.order
        /\ DOMAIN o.held = DOMAIN recent.held
        /\ \A x \in DOMAIN recent.held :
             o.held[x].age = IF recent.held[x].age < DedupWindow
                               THEN recent.held[x].age + 1 ELSE recent.held[x].age
        /\ OldestFirst(o)
    <3>1. Paired(recent, Requests, RequestEntry) /\ OldestFirst(recent) /\ DedupWindow \in Nat
      BY <1>1 DEF RequestsInv, RequestQueue
    <3> QED BY <2>1, <3>1, OlderPaired
  <2>3. /\ recent' = o
        /\ DOMAIN answered' = {q \in DOMAIN answered : answered[q] + 1 < DedupWindow}
        /\ \A q \in DOMAIN answered' : answered'[q] = answered[q] + 1
    BY <1>5 DEF Tick
  <2> HIDE DEF o
  <2>4. \A x \in DOMAIN recent.held : recent.held[x].age \in 0..DedupWindow
    BY <1>1 DEF RequestsInv, RequestQueue, Paired, Queue, RequestEntry
  <2>5. IsFiniteSet(DOMAIN answered')
    <3>1. DOMAIN answered' \in SUBSET DOMAIN answered
      BY <2>3
    <3> QED BY <1>1, <3>1, FS_Subset DEF AnsweredKept
  <2>6. \A x \in DOMAIN o.held : o.held[x].age < DedupWindow => x \in DOMAIN answered'
    BY <1>1, <2>2, <2>3, <2>4 DEF AnsweredKept
  <2>7. ASSUME NEW q \in DOMAIN answered'
        PROVE  /\ answered'[q] \in 0..(DedupWindow - 1)
               /\ q \in DOMAIN o.held => o.held[q].age = answered'[q]
               /\ q \notin DOMAIN o.held =>
                    /\ Len(o.order) = MaxRequests
                    /\ \A x \in DOMAIN o.held : o.held[x].age <= answered'[q]
    <3>1. /\ q \in DOMAIN answered /\ answered[q] + 1 < DedupWindow
          /\ answered'[q] = answered[q] + 1
          /\ answered[q] \in 0..(DedupWindow - 1)
      BY <1>1, <2>3 DEF AnsweredKept
    <3>2. CASE q \in DOMAIN recent.held
      BY <1>1, <2>2, <3>1, <3>2 DEF AnsweredKept
    <3>3. CASE q \notin DOMAIN recent.held
      <4>1. /\ Len(recent.order) = MaxRequests
            /\ \A x \in DOMAIN recent.held : recent.held[x].age <= answered[q]
        BY <1>1, <3>1, <3>3 DEF AnsweredKept
      <4> QED BY <1>1, <2>2, <2>4, <3>1, <3>3, <4>1
    <3> QED BY <3>2, <3>3
  <2>8. AnsweredKept'
    BY <1>1, <2>2, <2>3, <2>5, <2>6, <2>7 DEF AnsweredKept
  <2> QED BY <2>2, <2>3, <2>8 DEF RequestsInv, RequestQueue
<1> QED BY <1>2, <1>3, <1>4, <1>5 DEF Next, CachePacket, CacheRescue, vars

(* CacheInv is an invariant of the specification. *)
LEMMA CacheInvHolds == Spec => []CacheInv
<1>1. CacheInv /\ [Next]_vars => CacheInv'
  <2> SUFFICES ASSUME CacheInv, [Next]_vars PROVE rescue' \in BOOLEAN
    BY PacketsStep, RequestsStep DEF CacheInv
  <2> QED BY DEF CacheInv, Next, CachePacket, CacheRescue, IgnoreRequest, AnswerRequest,
                 Tick, vars
<1> QED BY InitCacheInv, <1>1, PTL DEF Spec

-----------------------------------------------------------------------------
(* The theorems. *)

(* Maps and queues keep their types. *)
THEOREM CacheTypeCorrect == Spec => []TypeOK
BY CacheInvHolds, CacheInvImplies, PTL

(* Each queue holds the keys of its map, each once: eviction never takes a *)
(* packet in place of another, and no packet escapes it.                   *)
THEOREM CacheQueuesAgree == Spec => []QueuesAgree
BY CacheInvHolds, CacheInvImplies, PTL

(* Entries stay ordered by age although an entry may be refreshed in its   *)
(* place: the packet cut anew is always the last one of the queue, and a   *)
(* request is answered again only once it has left the queue.              *)
THEOREM CacheQueuesInOrder == Spec => []QueuesInOrder
BY CacheInvHolds, CacheInvImplies, PTL

(* No request is answered from a packet older than --repair-cache-ms,      *)
(* though expiry stops at the first entry that is fresh.                   *)
THEOREM CacheAnswersFresh == Spec => AnswersFresh
<1>1. ASSUME CacheInv, NEW r \in Requests, AnswerRequest(r) PROVE answer'.age < Ttl
  <2>1. r.sequence \in DOMAIN Held.held /\ answer'.age = Held.held[r.sequence].age
    BY <1>1 DEF AnswerRequest, Answers
  <2> QED BY <1>1, <2>1, HeldPackets DEF CacheInv
<1>2. CacheInv => \A r \in Requests : AnswerRequest(r) => answer'.age < Ttl
  BY <1>1
<1> QED BY <1>2, CacheInvHolds, PTL DEF AnswersFresh

(* A request answered a second time within its window has more than        *)
(* MaxRequests answers of other requests between: those in the queue.      *)
LEMMA SpacedAnswer ==
  ASSUME CacheInv, NEW r \in Requests, AnswerRequest(r), r \in DOMAIN answered
  PROVE  Cardinality({q \in DOMAIN answered : answered[q] <= answered[r]}) > MaxRequests
<1> DEFINE S == {q \in DOMAIN answered : answered[q] <= answered[r]}
           A == DOMAIN Asked.held
<1>1. RequestsInv /\ AnsweredKept /\ MaxRequests \in Nat /\ ~Repeated(Asked, r)
  BY MaxRequestsPositive DEF CacheInv, RequestsInv, AnswerRequest, Answers
<1>2. r \notin A
  BY <1>1, RememberedRequests
<1>3. /\ A \subseteq DOMAIN answered
      /\ \A x \in A : Asked.held[x].age = answered[x]
      /\ Len(Asked.order) = MaxRequests
      /\ \A x \in A : Asked.held[x].age <= answered[r]
  BY <1>1, <1>2, AskedKeepsAnswered
<1>4. IsFiniteSet(A) /\ Cardinality(A) = MaxRequests
  BY <1>1, <1>3, AskedRequests, PairedSize DEF RequestQueue
<1>5. IsFiniteSet(A \cup {r}) /\ Cardinality(A \cup {r}) = MaxRequests + 1
  BY <1>2, <1>4, FS_AddElement
<1>6. answered[r] \in Int
  BY <1>1 DEF AnsweredKept
<1>7. A \cup {r} \in SUBSET S
  BY <1>3, <1>6
<1>8. IsFiniteSet(S)
  <2>1. S \in SUBSET DOMAIN answered
    OBVIOUS
  <2> QED BY <1>1, <2>1, FS_Subset DEF AnsweredKept
<1>9. Cardinality(A \cup {r}) <= Cardinality(S) /\ Cardinality(S) \in Nat
  BY <1>7, <1>8, FS_Subset, FS_CardinalityType
<1> QED BY <1>1, <1>5, <1>9

(* The dedup window of the requests is kept, up to the limit on how many   *)
(* are remembered.                                                         *)
THEOREM CacheAnswersSpaced == Spec => AnswersSpaced
<1>1. CacheInv =>
        \A r \in Requests :
          AnswerRequest(r) /\ r \in DOMAIN answered =>
            Cardinality({q \in DOMAIN answered : answered[q] <= answered[r]}) > MaxRequests
  BY SpacedAnswer
<1> QED BY <1>1, CacheInvHolds, PTL DEF AnswersSpaced

-----------------------------------------------------------------------------
(* The refinement of RecentPackets.  The operations of a half, seen on the *)
(* log that the half stands for.                                           *)

LogOf(q) == [i \in DOMAIN q.order |->
               [sequence  |-> q.order[i],
                fragments |-> q.held[q.order[i]].fragments,
                age       |-> q.held[q.order[i]].age]]

LogEntry == [sequence : MediaSequences, fragments : 1..MaxFragments, age : 0..Ttl]

(* The log is a sequence, as long as the queue. *)
LEMMA LogIsSequence ==
  ASSUME NEW q, PacketQueue(q)
  PROVE  /\ LogOf(q) \in Seq(LogEntry)
         /\ Len(LogOf(q)) = Len(q.order) /\ Len(q.order) \in Nat
         /\ DOMAIN LogOf(q) = 1..Len(q.order)
         /\ \A i \in 1..Len(q.order) :
              LogOf(q)[i] = [sequence  |-> q.order[i],
                             fragments |-> q.held[q.order[i]].fragments,
                             age       |-> q.held[q.order[i]].age]
<1> DEFINE n == Len(q.order)
<1>1. /\ n \in Nat /\ DOMAIN q.order = 1..n
      /\ \A i \in 1..n : q.order[i] \in DOMAIN q.held
      /\ Paired(q, MediaSequences, PacketEntry)
  BY PairedSize DEF PacketQueue
<1>2. \A x \in DOMAIN q.held : x \in MediaSequences /\ q.held[x] \in PacketEntry
  BY <1>1 DEF Paired, Queue
<1>3. LogOf(q) \in [1..n -> LogEntry]
  BY <1>1, <1>2 DEF LogOf, LogEntry, PacketEntry
<1>4. LogOf(q) \in Seq(LogEntry)
  BY <1>1, <1>3, SeqDef
<1>5. DOMAIN LogOf(q) = 1..n
  BY <1>3
<1>6. Len(LogOf(q)) = n
  BY <1>1, <1>4, <1>5, LenProperties
<1> QED BY <1>1, <1>4, <1>5, <1>6 DEF LogOf

(* Its entries, field by field. *)
LEMMA LogFields ==
  ASSUME NEW q, PacketQueue(q)
  PROVE  \A i \in 1..Len(q.order) :
           /\ LogOf(q)[i].sequence = q.order[i]
           /\ LogOf(q)[i].age = q.held[q.order[i]].age
<1> SUFFICES ASSUME NEW i \in 1..Len(q.order)
             PROVE  /\ LogOf(q)[i].sequence = q.order[i]
                    /\ LogOf(q)[i].age = q.held[q.order[i]].age
  OBVIOUS
<1>1. LogOf(q)[i] = [sequence  |-> q.order[i],
                     fragments |-> q.held[q.order[i]].fragments,
                     age       |-> q.held[q.order[i]].age]
  BY LogIsSequence
<1> QED BY <1>1

(* Dropping from the front of the queue is taking a suffix of the log. *)
LEMMA LogOfDropFront ==
  ASSUME NEW q, PacketQueue(q), NEW k \in 0..Len(q.order)
  PROVE  /\ PacketQueue(DropFront(q, k))
         /\ LogOf(DropFront(q, k)) = SubSeq(LogOf(q), k + 1, Len(LogOf(q)))
<1> DEFINE d == DropFront(q, k)
           n == Len(q.order)
           t == SubSeq(LogOf(q), k + 1, n)
<1>1. /\ Paired(d, MediaSequences, PacketEntry)
      /\ Len(d.order) = n - k
      /\ \A i \in 1..(n - k) : d.order[i] = q.order[i + k]
      /\ \A x \in DOMAIN d.held : d.held[x] = q.held[x]
  BY DropFrontPaired DEF PacketQueue
<1> HIDE DEF d
<1>2. PacketQueue(d)
  BY <1>1 DEF PacketQueue
<1>3. /\ LogOf(q) \in Seq(LogEntry) /\ Len(LogOf(q)) = n /\ n \in Nat
      /\ \A i \in 1..n : LogOf(q)[i] = [sequence  |-> q.order[i],
                                        fragments |-> q.held[q.order[i]].fragments,
                                        age       |-> q.held[q.order[i]].age]
  BY LogIsSequence
<1>4. /\ LogOf(d) \in Seq(LogEntry) /\ Len(LogOf(d)) = n - k
      /\ \A i \in 1..(n - k) :
           LogOf(d)[i] = [sequence  |-> d.order[i],
                          fragments |-> d.held[d.order[i]].fragments,
                          age       |-> d.held[d.order[i]].age]
  <2>1. /\ LogOf(d) \in Seq(LogEntry) /\ Len(LogOf(d)) = Len(d.order)
        /\ \A i \in 1..Len(d.order) :
             LogOf(d)[i] = [sequence  |-> d.order[i],
                            fragments |-> d.held[d.order[i]].fragments,
                            age       |-> d.held[d.order[i]].age]
    BY <1>2, LogIsSequence
  <2>2. Len(d.order) = n - k
    BY <1>1
  <2> QED BY <2>1, <2>2
<1>5. /\ t \in Seq(LogEntry) /\ Len(t) = n - k
      /\ \A i \in 1..(n - k) : t[i] = LogOf(q)[i + k]
  <2>1. \A i \in (k + 1)..n : LogOf(q)[i] \in LogEntry
    BY <1>3, ElementOfSeq
  <2>2. /\ t \in Seq(LogEntry)
        /\ Len(t) = IF k + 1 <= n THEN n - (k + 1) + 1 ELSE 0
        /\ \A i \in 1..(n - (k + 1) + 1) : t[i] = LogOf(q)[k + 1 + i - 1]
    BY <1>3, <2>1, SubSeqProperties
  <2> QED BY <1>3, <2>2
<1> HIDE DEF t
<1>6. ASSUME NEW i \in 1..(n - k) PROVE LogOf(d)[i] = t[i]
  <2>1. i + k \in 1..n
    BY <1>3
  <2>2. d.order[i] \in DOMAIN d.held
    BY <1>1, PairedSize
  <2>3. d.order[i] = q.order[i + k] /\ d.held[d.order[i]] = q.held[q.order[i + k]]
    BY <1>1, <2>2
  <2>4. LogOf(q)[i + k] = [sequence  |-> q.order[i + k],
                           fragments |-> q.held[q.order[i + k]].fragments,
                           age       |-> q.held[q.order[i + k]].age]
    BY <1>3, <2>1
  <2>5. LogOf(d)[i] = LogOf(q)[i + k]
    BY <1>4, <2>3, <2>4
  <2> QED BY <1>5, <2>5
<1>7. LogOf(d) = t
  BY <1>4, <1>5, <1>6, SeqEqual
<1> QED BY <1>2, <1>3, <1>7 DEF d, t

(* Queueing a new packet is appending it to the log. *)
LEMMA LogOfNewPacket ==
  ASSUME NEW q, PacketQueue(q), NEW s \in MediaSequences, s \notin DOMAIN q.held,
         NEW n \in 1..MaxFragments
  PROVE  LogOf(Put(q, s, [fragments |-> n, age |-> 0])) =
           Append(LogOf(q), Contract!Entry(s, n))
<1> DEFINE entry == [fragments |-> n, age |-> 0]
           p == Put(q, s, entry)
           m == Len(q.order)
           new == Contract!Entry(s, n)
           t == Append(LogOf(q), new)
<1>1. entry \in PacketEntry /\ entry.fragments = n /\ entry.age = 0
  BY CacheAssumption DEF PacketEntry
<1>2. new = [sequence |-> s, fragments |-> n, age |-> 0] /\ new \in LogEntry
  BY CacheAssumption DEF Contract!Entry, LogEntry
<1> HIDE DEF entry, new
<1>3. /\ Paired(p, MediaSequences, PacketEntry)
      /\ DOMAIN p.held = DOMAIN q.held \cup {s}
      /\ \A x \in DOMAIN p.held : p.held[x] = IF x = s THEN entry ELSE q.held[x]
      /\ s \notin DOMAIN q.held =>
           /\ Len(p.order) = m + 1
           /\ \A i \in 1..m : p.order[i] = q.order[i]
           /\ p.order[m + 1] = s
  BY <1>1, PutPaired DEF PacketQueue
<1> HIDE DEF p
<1>4. /\ LogOf(q) \in Seq(LogEntry) /\ Len(LogOf(q)) = m /\ m \in Nat
      /\ \A i \in 1..m : LogOf(q)[i] = [sequence  |-> q.order[i],
                                        fragments |-> q.held[q.order[i]].fragments,
                                        age       |-> q.held[q.order[i]].age]
  BY LogIsSequence
<1>5. /\ LogOf(p) \in Seq(LogEntry) /\ Len(LogOf(p)) = m + 1
      /\ \A i \in 1..(m + 1) :
           LogOf(p)[i] = [sequence  |-> p.order[i],
                          fragments |-> p.held[p.order[i]].fragments,
                          age       |-> p.held[p.order[i]].age]
  <2>1. PacketQueue(p) /\ Len(p.order) = m + 1
    BY <1>3 DEF PacketQueue
  <2> QED BY <2>1, LogIsSequence
<1>6. /\ t \in Seq(LogEntry) /\ Len(t) = m + 1 /\ t[m + 1] = new
      /\ \A i \in 1..m : t[i] = LogOf(q)[i]
  BY <1>2, <1>4
<1> HIDE DEF t
<1>7. ASSUME NEW i \in 1..(m + 1) PROVE LogOf(p)[i] = t[i]
  <2>1. CASE i = m + 1
    <3>1. p.order[i] = s /\ p.held[s] = entry
      BY <1>3, <2>1
    <3> QED BY <1>1, <1>2, <1>5, <1>6, <2>1, <3>1
  <2>2. CASE i # m + 1
    <3>1. i \in 1..m
      BY <1>4, <2>2
    <3>2. q.order[i] \in DOMAIN q.held
      BY <3>1, PairedSize DEF PacketQueue
    <3>3. p.order[i] = q.order[i] /\ p.held[p.order[i]] = q.held[q.order[i]]
      BY <1>3, <3>1, <3>2
    <3>4. LogOf(p)[i] = [sequence  |-> p.order[i],
                         fragments |-> p.held[p.order[i]].fragments,
                         age       |-> p.held[p.order[i]].age]
      BY <1>5
    <3>5. LogOf(q)[i] = [sequence  |-> q.order[i],
                         fragments |-> q.held[q.order[i]].fragments,
                         age       |-> q.held[q.order[i]].age]
      BY <1>4, <3>1
    <3>6. LogOf(p)[i] = LogOf(q)[i]
      BY <3>3, <3>4, <3>5
    <3> QED BY <1>6, <3>1, <3>6
  <2> QED BY <2>1, <2>2
<1>8. LogOf(p) = t
  BY <1>4, <1>5, <1>6, <1>7, SeqEqual
<1> QED BY <1>8 DEF t, p, entry, new

(* Cutting the packet held last anew is replacing the last one of the log. *)
LEMMA LogOfRecut ==
  ASSUME NEW q, PacketQueue(q), Len(q.order) # 0, NEW n \in 1..MaxFragments
  PROVE  LET m == Len(q.order) IN
         LogOf(Put(q, q.order[m], [fragments |-> n, age |-> 0])) =
           [LogOf(q) EXCEPT ![m] = Contract!Entry(q.order[m], n)]
<1> DEFINE entry == [fragments |-> n, age |-> 0]
           m == Len(q.order)
           s == q.order[m]
           p == Put(q, s, entry)
           new == Contract!Entry(s, n)
           t == [LogOf(q) EXCEPT ![m] = new]
<1>1. entry \in PacketEntry /\ entry.fragments = n /\ entry.age = 0
  BY CacheAssumption DEF PacketEntry
<1>2. /\ m \in 1..m /\ m \in Nat /\ s \in DOMAIN q.held /\ s \in MediaSequences
      /\ \A i \in 1..m : q.order[i] \in DOMAIN q.held /\ (q.order[i] = s => i = m)
  <2>1. /\ m \in Nat /\ DOMAIN q.order = 1..m
        /\ \A i \in 1..m : q.order[i] \in DOMAIN q.held
    BY PairedSize DEF PacketQueue
  <2>2. m \in 1..m
    BY <2>1
  <2>3. DOMAIN q.held \subseteq MediaSequences /\ \A i, j \in 1..m : q.order[i] = q.order[j] => i = j
    BY <2>1 DEF PacketQueue, Paired, Queue, Agrees
  <2> HIDE DEF m
  <2> QED BY <2>1, <2>2, <2>3
<1> HIDE DEF s
<1>3. new = [sequence |-> s, fragments |-> n, age |-> 0] /\ new \in LogEntry
  BY <1>2, CacheAssumption DEF Contract!Entry, LogEntry
<1> HIDE DEF entry, new
<1>4. /\ Paired(p, MediaSequences, PacketEntry)
      /\ DOMAIN p.held = DOMAIN q.held \cup {s}
      /\ \A x \in DOMAIN p.held : p.held[x] = IF x = s THEN entry ELSE q.held[x]
      /\ s \in DOMAIN q.held => p.order = q.order
  BY <1>1, <1>2, PutPaired DEF PacketQueue
<1> HIDE DEF p
<1>5. /\ LogOf(q) \in Seq(LogEntry) /\ Len(LogOf(q)) = m
      /\ \A i \in 1..m : LogOf(q)[i] = [sequence  |-> q.order[i],
                                        fragments |-> q.held[q.order[i]].fragments,
                                        age       |-> q.held[q.order[i]].age]
  BY LogIsSequence
<1>6. /\ LogOf(p) \in Seq(LogEntry) /\ Len(LogOf(p)) = m
      /\ \A i \in 1..m :
           LogOf(p)[i] = [sequence  |-> p.order[i],
                          fragments |-> p.held[p.order[i]].fragments,
                          age       |-> p.held[p.order[i]].age]
  <2>1. PacketQueue(p) /\ p.order = q.order
    BY <1>2, <1>4 DEF PacketQueue
  <2> QED BY <2>1, LogIsSequence
<1>7. /\ t \in Seq(LogEntry) /\ Len(t) = m
      /\ \A i \in 1..m : t[i] = IF i = m THEN new ELSE LogOf(q)[i]
  BY <1>2, <1>3, <1>5, ExceptSeq
<1> HIDE DEF t
<1>8. ASSUME NEW i \in 1..m PROVE LogOf(p)[i] = t[i]
  <2>1. CASE i = m
    <3>1. p.order[i] = s /\ p.held[s] = entry
      BY <1>2, <1>4, <2>1 DEF s
    <3> QED BY <1>1, <1>3, <1>6, <1>7, <2>1, <3>1
  <2>2. CASE i # m
    <3>1. p.order[i] = q.order[i] /\ p.held[p.order[i]] = q.held[q.order[i]]
      BY <1>2, <1>4, <2>2
    <3>2. LogOf(p)[i] = LogOf(q)[i]
      BY <1>5, <1>6, <3>1
    <3> QED BY <1>7, <2>2, <3>2
  <2> QED BY <2>1, <2>2
<1>9. LogOf(p) = t
  BY <1>6, <1>7, <1>8, SeqEqual
<1> QED BY <1>9 DEF t, p, entry, new, s

(* What expiry leaves is one of the logs that may remain. *)
LEMMA HeldRemains ==
  ASSUME PacketsInv
  PROVE  LogOf(Held) \in Contract!Remains
<1> DEFINE log == LogOf(packets)
<1>1. PICK k \in 0..Len(packets.order) :
        /\ Held = DropFront(packets, k)
        /\ \A i \in 1..k : packets.held[packets.order[i]].age >= Ttl
  BY HeldPackets
<1>2. /\ Len(log) = Len(packets.order) /\ Len(packets.order) \in Nat
      /\ \A i \in 1..Len(packets.order) :
           log[i].age = packets.held[packets.order[i]].age
  BY LogIsSequence, LogFields DEF PacketsInv
<1>3. LogOf(Held) = SubSeq(log, k + 1, Len(log))
  BY <1>1, LogOfDropFront DEF PacketsInv
<1>4. k \in {j \in 0..Len(log) : \A i \in 1..j : log[i].age >= Ttl}
  BY <1>1, <1>2
<1>5. Contract!Remains =
        {SubSeq(log, j + 1, Len(log)) :
           j \in {l \in 0..Len(log) : \A i \in 1..l : log[i].age >= Ttl}}
  BY DEF Contract!Remains, LogOf
<1> HIDE DEF log
<1> QED BY <1>3, <1>4, <1>5

(* Making room is dropping the oldest packet when there is one too many.   *)
LEMMA LogOfLimited ==
  ASSUME NEW q, PacketQueue(q), OldestFirst(q), NEW s, InLine(q, s),
         Len(q.order) <= MaxPackets + 1
  PROVE  LogOf(Limited(q, MaxPackets)) = Contract!Latest(LogOf(q))
<1> DEFINE n == Len(q.order)
           log == LogOf(q)
<1>1. /\ log \in Seq(LogEntry) /\ Len(log) = n /\ n \in Nat
      /\ MaxPackets \in Nat
  BY LogIsSequence, CacheAssumption
<1>2. Limited(q, MaxPackets) = DropFront(q, IF n <= MaxPackets THEN 0 ELSE n - MaxPackets)
  BY LimitedPackets
<1>3. Contract!Latest(log) = IF Len(log) > MaxPackets THEN Tail(log) ELSE log
  BY DEF Contract!Latest
<1>4. \A k \in 0..n : LogOf(DropFront(q, k)) = SubSeq(log, k + 1, Len(log))
  BY LogOfDropFront
<1> HIDE DEF log
<1>5. CASE n <= MaxPackets
  <2>1. LogOf(Limited(q, MaxPackets)) = SubSeq(log, 1, Len(log))
    BY <1>1, <1>2, <1>4, <1>5
  <2> QED BY <1>1, <1>3, <1>5, <2>1, SubSeqFull DEF log
<1>6. CASE n > MaxPackets
  <2>1. n - MaxPackets = 1 /\ 1 \in 0..n /\ log # << >>
    BY <1>1, <1>6
  <2>2. Limited(q, MaxPackets) = DropFront(q, 1)
    BY <1>1, <1>2, <1>6, <2>1
  <2>3. LogOf(DropFront(q, 1)) = SubSeq(log, 1 + 1, Len(log)) /\ 1 + 1 = 2
    BY <1>4, <2>1
  <2> QED BY <1>1, <1>3, <1>6, <2>1, <2>2, <2>3, TailIsSubSeq DEF log
<1> QED BY <1>1, <1>5, <1>6

(* Storing a new packet is Store. *)
LEMMA CachePacketStores ==
  ASSUME CacheInv, NEW n \in 1..MaxFragments, CachePacket(n)
  PROVE  Contract!Store(sequence, n)
<1> DEFINE p == Put(Held, sequence, [fragments |-> n, age |-> 0])
           rest == LogOf(Held)
<1>1. PacketsInv
  BY DEF CacheInv
<1>2. /\ sequence \notin DOMAIN Held.held /\ sequence \in MediaSequences
      /\ PacketQueue(p) /\ OldestFirst(p) /\ InLine(p, NextSequence(sequence))
      /\ PacketQueue(Held) /\ Len(Held.order) <= MaxPackets
  BY <1>1, NewPacket, HeldPackets DEF PacketsInv, MediaSequences
<1>3. /\ Paired(Held, MediaSequences, PacketEntry)
      /\ [fragments |-> n, age |-> 0] \in PacketEntry
  BY <1>2, CacheAssumption DEF PacketQueue, PacketEntry
<1>4. Len(p.order) = Len(Held.order) + 1
  BY <1>2, <1>3, PutPaired
<1>5. LogOf(p) = Append(rest, Contract!Entry(sequence, n))
  BY <1>2, LogOfNewPacket
<1>6. packets' = Limited(p, MaxPackets)
  BY DEF CachePacket, Inserted, Held
<1>7. Len(p.order) <= MaxPackets + 1
  <2>1. Len(Held.order) \in Nat /\ MaxPackets \in Nat
    BY <1>2, LogIsSequence, CacheAssumption
  <2> QED BY <1>2, <1>4, <2>1
<1> HIDE DEF p
<1>8. LogOf(packets') = Contract!Latest(Append(rest, Contract!Entry(sequence, n)))
  BY <1>2, <1>5, <1>6, <1>7, LogOfLimited
<1>9. ASSUME NEW i \in DOMAIN rest PROVE rest[i].sequence # sequence
  <2>1. i \in 1..Len(Held.order) /\ rest[i].sequence = Held.order[i]
    BY <1>2, LogIsSequence, LogFields
  <2>2. Held.order[i] \in DOMAIN Held.held
    BY <1>2, <2>1, PairedSize DEF PacketQueue
  <2> QED BY <1>2, <2>1, <2>2
<1>10. rest \in Contract!Remains
  BY <1>1, HeldRemains
<1>11. answer' = Contract!NoAnswer
  BY DEF CachePacket
<1> HIDE DEF rest
<1>12. Contract!Store(sequence, n) <=>
         /\ \E r \in Contract!Remains :
              /\ \A i \in DOMAIN r : r[i].sequence # sequence
              /\ LogOf(packets') = Contract!Latest(Append(r, Contract!Entry(sequence, n)))
         /\ answer' = Contract!NoAnswer
  BY DEF Contract!Store, LogOf
<1> QED BY <1>8, <1>9, <1>10, <1>11, <1>12

(* Storing the whole of a packet that was cut is Recut, or Store if it has *)
(* expired in between.                                                     *)
LEMMA CacheRescueRecuts ==
  ASSUME CacheInv, CacheRescue
  PROVE  \E s \in MediaSequences : Contract!Recut(s, 1) \/ Contract!Store(s, 1)
<1> DEFINE s == Back(sequence, 1)
           p == Put(Held, s, [fragments |-> 1, age |-> 0])
           rest == LogOf(Held)
           m == Len(Held.order)
<1>1. PacketsInv /\ 1 \in 1..MaxFragments
  BY CacheAssumption DEF CacheInv
<1>2. /\ s \in MediaSequences
      /\ IF s \in DOMAIN Held.held
           THEN m \in Nat \ {0} /\ Held.order[m] = s
           ELSE m = 0
      /\ PacketQueue(p) /\ OldestFirst(p) /\ InLine(p, sequence)
  BY <1>1, RecutPacket
<1>3. PacketQueue(Held) /\ m <= MaxPackets
  BY <1>1, HeldPackets
<1>4. packets' = Limited(p, MaxPackets)
  BY <1>1, BackFromNext DEF CacheRescue, Inserted, Held, PacketsInv
<1>5. rest \in Contract!Remains
  BY <1>1, HeldRemains
<1>6. answer' = Contract!NoAnswer
  BY DEF CacheRescue
<1>7. /\ rest \in Seq(LogEntry) /\ Len(rest) = m /\ m \in Nat /\ DOMAIN rest = 1..m
      /\ \A i \in 1..m : rest[i].sequence = Held.order[i]
  BY <1>3, LogIsSequence, LogFields
<1> HIDE DEF s
<1>8. /\ Paired(Held, MediaSequences, PacketEntry)
      /\ [fragments |-> 1, age |-> 0] \in PacketEntry
  BY <1>1, <1>3, CacheAssumption DEF PacketQueue, PacketEntry
<1>9. CASE s \in DOMAIN Held.held
  <2>1. p.order = Held.order
    BY <1>2, <1>8, <1>9, PutPaired
  <2>2. LogOf(p) = [rest EXCEPT ![m] = Contract!Entry(s, 1)]
    BY <1>1, <1>2, <1>3, <1>9, LogOfRecut
  <2>3. Len(LogOf(p)) = m /\ Len(p.order) <= MaxPackets + 1
    BY <1>2, <1>3, <1>7, <2>1, LogIsSequence, CacheAssumption
  <2> HIDE DEF p
  <2>4. LogOf(packets') = Contract!Latest(LogOf(p))
    BY <1>2, <1>4, <2>3, LogOfLimited
  <2>5. Contract!Latest(LogOf(p)) = LogOf(p)
    BY <1>3, <1>7, <2>3, CacheAssumption DEF Contract!Latest
  <2>6. rest # << >> /\ rest[Len(rest)].sequence = s
    BY <1>2, <1>7, <1>9
  <2> HIDE DEF rest
  <2>7. Contract!Recut(s, 1) <=>
          /\ \E r \in Contract!Remains :
               /\ r # << >>
               /\ r[Len(r)].sequence = s
               /\ LogOf(packets') = [r EXCEPT ![Len(r)] = Contract!Entry(s, 1)]
          /\ answer' = Contract!NoAnswer
    BY DEF Contract!Recut, LogOf
  <2>8. Contract!Recut(s, 1)
    BY <1>5, <1>6, <1>7, <2>2, <2>4, <2>5, <2>6, <2>7
  <2> QED BY <1>2, <2>8
<1>10. CASE s \notin DOMAIN Held.held
  <2>1. Len(p.order) = m + 1
    BY <1>2, <1>8, <1>10, PutPaired
  <2>2. LogOf(p) = Append(rest, Contract!Entry(s, 1))
    BY <1>1, <1>2, <1>3, <1>10, LogOfNewPacket
  <2>3. Len(p.order) <= MaxPackets + 1
    BY <1>3, <1>7, <2>1, CacheAssumption
  <2> HIDE DEF p
  <2>4. LogOf(packets') = Contract!Latest(Append(rest, Contract!Entry(s, 1)))
    BY <1>2, <1>4, <2>2, <2>3, LogOfLimited
  <2>5. \A i \in DOMAIN rest : rest[i].sequence # s
    BY <1>2, <1>7, <1>10
  <2> HIDE DEF rest
  <2>6. Contract!Store(s, 1) <=>
          /\ \E r \in Contract!Remains :
               /\ \A i \in DOMAIN r : r[i].sequence # s
               /\ LogOf(packets') = Contract!Latest(Append(r, Contract!Entry(s, 1)))
          /\ answer' = Contract!NoAnswer
    BY DEF Contract!Store, LogOf
  <2>7. Contract!Store(s, 1)
    BY <1>5, <1>6, <2>4, <2>5, <2>6
  <2> QED BY <1>2, <2>7
<1> QED BY <1>9, <1>10

(* Answering is Answer: from a packet that expiry has left.                *)
LEMMA AnswerRequestAnswers ==
  ASSUME CacheInv, NEW r \in Requests, AnswerRequest(r)
  PROVE  Contract!Answer(r)
<1> DEFINE rest == LogOf(Held)
           e == Held.held[r.sequence]
<1>1. PacketsInv
  BY DEF CacheInv
<1>2. rest \in Contract!Remains
  BY <1>1, HeldRemains
<1>3. /\ r.sequence \in DOMAIN Held.held
      /\ packets' = Held
      /\ answer' = [sequence  |-> r.sequence,
                    fragments |-> e.fragments,
                    sent      |-> Contract!Sent(e.fragments, r.missing),
                    age       |-> e.age]
  BY DEF AnswerRequest, Answers, Fragments, Contract!Sent
<1>4. PacketQueue(Held) /\ e.age < Ttl
  BY <1>1, <1>3, HeldPackets
<1>5. PICK i \in 1..Len(Held.order) : Held.order[i] = r.sequence
  <2>1. DOMAIN Held.order = 1..Len(Held.order)
    BY <1>4, PairedSize DEF PacketQueue
  <2> QED BY <1>3, <1>4, <2>1 DEF PacketQueue, Paired, Agrees
<1>6. i \in DOMAIN rest /\ rest[i] = [sequence  |-> r.sequence,
                                      fragments |-> e.fragments,
                                      age       |-> e.age]
  BY <1>4, <1>5, LogIsSequence
<1> HIDE DEF e
<1>7. /\ rest[i].sequence = r.sequence /\ rest[i].age = e.age
      /\ rest[i].fragments = e.fragments
  BY <1>6
<1>8. LogOf(packets') = rest
  BY <1>3
<1> HIDE DEF rest
<1>9. Contract!Answer(r) <=>
        \E l \in Contract!Remains : \E j \in DOMAIN l :
          /\ l[j].sequence = r.sequence
          /\ l[j].age < Ttl
          /\ LogOf(packets') = l
          /\ answer' = [sequence  |-> r.sequence,
                        fragments |-> l[j].fragments,
                        sent      |-> Contract!Sent(l[j].fragments, r.missing),
                        age       |-> l[j].age]
  BY DEF Contract!Answer, LogOf
<1> QED BY <1>2, <1>3, <1>4, <1>6, <1>7, <1>8, <1>9

(* A request that is ignored is Expire. *)
LEMMA IgnoreRequestExpires ==
  ASSUME CacheInv, NEW r \in Requests, IgnoreRequest(r)
  PROVE  Contract!Expire
<1>1. LogOf(Held) \in Contract!Remains
  BY HeldRemains DEF CacheInv
<1>2. LogOf(packets') = LogOf(Held) /\ answer' = Contract!NoAnswer
  BY DEF IgnoreRequest
<1>3. Contract!Expire <=> LogOf(packets') \in Contract!Remains /\ answer' = Contract!NoAnswer
  BY DEF Contract!Expire, LogOf
<1> QED BY <1>1, <1>2, <1>3

(* A tick is a tick of the log. *)
LEMMA TickTicks ==
  ASSUME CacheInv, Tick
  PROVE  Contract!Tick
<1> DEFINE log == LogOf(packets)
           n == Len(packets.order)
<1>1. /\ PacketQueue(packets) /\ n \in Nat
      /\ DOMAIN packets.order = 1..n /\ DOMAIN log = 1..n
      /\ \A i \in 1..n : /\ packets.order[i] \in DOMAIN packets.held
                         /\ log[i] = [sequence  |-> packets.order[i],
                                      fragments |-> packets.held[packets.order[i]].fragments,
                                      age       |-> packets.held[packets.order[i]].age]
  BY LogIsSequence, PairedSize DEF CacheInv, PacketsInv, PacketQueue
<1>2. /\ packets'.order = packets.order
      /\ \A x \in DOMAIN packets.held :
           packets'.held[x] =
             [packets.held[x] EXCEPT !.age = IF @ < Ttl THEN @ + 1 ELSE @]
      /\ answer' = Contract!NoAnswer
  BY DEF Tick, Older
<1>3. LogOf(packets') = [i \in 1..n |-> [sequence  |-> packets.order[i],
                                         fragments |-> packets'.held[packets.order[i]].fragments,
                                         age       |-> packets'.held[packets.order[i]].age]]
  BY <1>1, <1>2 DEF LogOf
<1> DEFINE older(i) == [log[i] EXCEPT !.age = IF @ < Ttl THEN @ + 1 ELSE @]
<1>4. ASSUME NEW i \in 1..n
      PROVE  [sequence  |-> packets.order[i],
              fragments |-> packets'.held[packets.order[i]].fragments,
              age       |-> packets'.held[packets.order[i]].age] = older(i)
  <2> DEFINE e == packets.held[packets.order[i]]
             o == packets'.held[packets.order[i]]
             x == packets.order[i]
  <2>1. e \in PacketEntry /\ o = [e EXCEPT !.age = IF @ < Ttl THEN @ + 1 ELSE @]
    BY <1>1, <1>2 DEF PacketQueue, Paired, Queue
  <2>2. log[i] = [sequence |-> x, fragments |-> e.fragments, age |-> e.age]
    BY <1>1
  <2> HIDE DEF e, o, x, log
  <2>3. /\ o.fragments = e.fragments
        /\ o.age = IF e.age < Ttl THEN e.age + 1 ELSE e.age
    BY <2>1 DEF PacketEntry
  <2>4. older(i) = [sequence  |-> x,
                    fragments |-> e.fragments,
                    age       |-> IF e.age < Ttl THEN e.age + 1 ELSE e.age]
    BY <2>2
  <2> QED BY <2>3, <2>4 DEF e, o, x
<1>5. LogOf(packets') = [i \in 1..n |-> older(i)]
  BY <1>3, <1>4
<1>6. Contract!Tick <=>
        /\ LogOf(packets') = [i \in DOMAIN log |->
                                [log[i] EXCEPT !.age = IF @ < Ttl THEN @ + 1 ELSE @]]
        /\ answer' = Contract!NoAnswer
  BY DEF Contract!Tick, LogOf
<1> QED BY <1>1, <1>2, <1>5, <1>6

(* The cache is the log of RecentPackets: every operation of the cache is  *)
(* one of the log or leaves it alone, so what the client answers is what   *)
(* it sent lately, with no trace of the two structures and of the order in *)
(* which they are changed.                                                 *)
THEOREM CacheImplementsLog == Spec => KeepsRecentPackets
<1>1. Init => Contract!Init
  <2>1. Init => packets.order = << >> /\ answer = Contract!NoAnswer
    BY DEF Init, Empty
  <2> QED BY <2>1 DEF Contract!Init
<1>2. CacheInv /\ [Next]_vars => [Contract!Next]_<<LogOf(packets), answer>>
  <2> SUFFICES ASSUME CacheInv, [Next]_vars
               PROVE  Contract!Next \/ UNCHANGED <<LogOf(packets), answer>>
    OBVIOUS
  <2>1. sequence \in Contract!Sequences /\ MediaSequences = Contract!Sequences
    BY DEF CacheInv, PacketsInv, MediaSequences, Contract!Sequences
  <2>2. ASSUME NEW n \in 1..MaxFragments, CachePacket(n) PROVE Contract!Next
    BY <2>1, <2>2, CachePacketStores DEF Contract!Next
  <2>3. ASSUME CacheRescue PROVE Contract!Next
    <3>1. 1 \in 1..MaxFragments
      BY CacheAssumption
    <3> QED BY <2>1, <2>3, <3>1, CacheRescueRecuts DEF Contract!Next
  <2>4. ASSUME NEW r \in Requests, IgnoreRequest(r) PROVE Contract!Next
    BY <2>4, IgnoreRequestExpires DEF Contract!Next
  <2>5. ASSUME NEW r \in Requests, AnswerRequest(r) PROVE Contract!Next
    BY <2>5, AnswerRequestAnswers DEF Contract!Next
  <2>6. ASSUME Tick PROVE Contract!Next
    BY <2>6, TickTicks DEF Contract!Next
  <2>7. CASE UNCHANGED vars
    BY <2>7 DEF vars, LogOf
  <2> QED BY <2>2, <2>3, <2>4, <2>5, <2>6, <2>7 DEF Next
<1>3. CacheInv /\ [Next]_vars =>
        [Contract!Next]_<<[i \in DOMAIN packets.order |->
                             [sequence  |-> packets.order[i],
                              fragments |-> packets.held[packets.order[i]].fragments,
                              age       |-> packets.held[packets.order[i]].age]], answer>>
  BY <1>2 DEF LogOf
<1> QED BY <1>1, <1>3, CacheInvHolds, PTL DEF Spec, KeepsRecentPackets, Contract!Spec
=============================================================================
