-------------------------- MODULE SendPolicyProofs --------------------------
(***************************************************************************)
(* Theorems of SendPolicy, for any number of paths and any payloads,       *)
(* reports, modes and changes by other tasks.                              *)
(*                                                                         *)
(* All properties look at a payload that has been sent, and speak of what  *)
(* the sender had read for it.  The invariant follows these reads: what    *)
(* they say of each other once they are done (ReadAll), whatever became of *)
(* the shared state since; and what was then sent (RescueCovers,           *)
(* NothingDropped and EveryByteOnce themselves).  The rest is about the    *)
(* plan: that the ranges into which it cuts a payload tile it, whatever    *)
(* the shares are (Tiles), and which datagrams are made of them.           *)
(***************************************************************************)
EXTENDS SendPolicy, Induction, FiniteSetTheorems

(* What the server has reported of some paths. *)
HealthTyped ==
  /\ DOMAIN health \subseteq Paths
  /\ \A p \in DOMAIN health :
       health[p] \in [seq : Nat \cup {None}, mbps : Nat, fresh : BOOLEAN]

(* The shared state that decides what the sender may read. *)
SharedTyped ==
  /\ HealthTyped
  /\ connected \subseteq Paths
  /\ mode \in {"auto", "redundant", "split", "roundrobin"}
  /\ stored \in {"split", "redundant"}

(* What the sender reads first. *)
ReadFirst ==
  /\ sender.payload \in Payloads
  /\ sender.active \subseteq Paths /\ sender.active # {}
  /\ sender.mode \in {"auto", "redundant", "split", "roundrobin"}

(* Once it has read the strategy and the groups: it relies on all paths,   *)
(* or, in auto mode that splits, on the healthy ones, and rescues the rest *)
(* of those that were active.  A path that it splits over is none that it  *)
(* rescues, unless it is the only one.                                     *)
ReadAll ==
  /\ DOMAIN sender = {"step", "payload", "active", "mode", "effective", "healthy",
                      "split", "rescue"}
  /\ ReadFirst
  /\ sender.effective \in {"split", "redundant", "roundrobin"}
  /\ sender.split \subseteq Paths
  /\ sender.split \cap sender.rescue = {} \/ Cardinality(sender.split) <= 1
  /\ IF sender.mode = "auto" /\ sender.effective = "split"
     THEN sender.active \subseteq sender.healthy \cup sender.rescue
     ELSE sender.healthy = Paths

SenderInv ==
  \/ sender = Idle
  \/ sender.step = "strategy" /\ ReadFirst
  \/ sender.step = "send" /\ ReadAll
  \/ sender.step = "idle" /\ ReadAll /\ RescueCovers /\ NothingDropped /\ EveryByteOnce

PolicyInv == SharedTyped /\ sequence \in Nat /\ SenderInv

-----------------------------------------------------------------------------
(* Paths in order, sums of their shares and largest numbers. *)

(* A set of paths has as many members in order as it has members. *)
LEMMA InOrderDomain ==
  ASSUME NEW n \in Nat, NEW S \in SUBSET (1..n)
  PROVE  /\ Cardinality(S) \in Nat
         /\ DOMAIN InOrder(S) = 1..Cardinality(S)
         /\ S # {} => Cardinality(S) >= 1
<1>1. IsFiniteSet(1..n)
  BY FS_Interval
<1>2. IsFiniteSet(S)
  BY <1>1, FS_Subset
<1>3. Cardinality(S) \in Nat /\ (Cardinality(S) = 0 <=> S = {})
  BY <1>2, FS_CardinalityType, FS_EmptySet
<1>4. DOMAIN InOrder(S) = 1..Cardinality(S)
  BY Zenon DEF InOrder
<1>5. ASSUME S # {} PROVE Cardinality(S) >= 1
  <2>1. Cardinality(S) # 0 /\ Cardinality(S) \in Nat
    BY <1>3, <1>5, Zenon
  <2> QED BY <2>1
<1> QED BY <1>3, <1>4, <1>5, Zenon

(* The members of a set of paths in order: each of them once. *)
LEMMA InOrderEnumerates ==
  ASSUME NEW n \in Nat, NEW S \in SUBSET (1..n)
  PROVE  /\ Cardinality(S) <= n
         /\ \A i \in 1..Cardinality(S) : InOrder(S)[i] \in S
         /\ \A i, j \in 1..Cardinality(S) : i < j => InOrder(S)[i] < InOrder(S)[j]
         /\ \A p \in S : \E i \in 1..Cardinality(S) : InOrder(S)[i] = p
<1> DEFINE c    == Cardinality(S)
           B(p) == {u \in S : u < p}
           r    == [p \in S |-> Cardinality(B(p))]
           q    == InOrder(S)
<1>0. \A x \in S : x \in Int
  OBVIOUS
<1>1. IsFiniteSet(S) /\ c \in Nat /\ c <= n
  <2>1. IsFiniteSet(1..n) /\ Cardinality(1..n) = n
    BY FS_Interval
  <2>2. IsFiniteSet(S) /\ c <= n
    BY <2>1, FS_Subset
  <2> QED BY <2>2, FS_CardinalityType
<1>2. ASSUME NEW p \in S PROVE r[p] \in 0..(c - 1)
  <2>1. B(p) \in SUBSET S /\ p \notin B(p)
    OBVIOUS
  <2>2. IsFiniteSet(B(p)) /\ Cardinality(B(p)) <= c /\ Cardinality(B(p)) # c
    BY <1>1, <2>1, FS_Subset
  <2>3. Cardinality(B(p)) \in Nat
    BY <2>2, FS_CardinalityType
  <2>4. r[p] = Cardinality(B(p))
    OBVIOUS
  <2> HIDE DEF B, r, c
  <2> QED BY <1>1, <2>2, <2>3, <2>4
<1>3. ASSUME NEW p \in S, NEW u \in S, p < u PROVE r[p] < r[u]
  <2>1. B(p) \in SUBSET B(u) /\ p \in B(u) /\ p \notin B(p) /\ B(u) \in SUBSET S
    <3>1. p \in Int /\ u \in Int
      BY <1>0
    <3>2. \A x \in S : x < p => x < u
      BY <1>0, <1>3, <3>1
    <3>3. ~(p < p)
      BY <3>1
    <3> QED BY <1>3, <3>2, <3>3, Zenon
  <2>2. IsFiniteSet(B(u))
    BY <1>1, <2>1, FS_Subset
  <2>3. Cardinality(B(p)) <= Cardinality(B(u)) /\ Cardinality(B(p)) # Cardinality(B(u))
    BY <2>1, <2>2, FS_Subset
  <2>4. r[p] \in Nat /\ r[u] \in Nat
    BY <1>1, <1>2
  <2>5. r[p] = Cardinality(B(p)) /\ r[u] = Cardinality(B(u))
    OBVIOUS
  <2> HIDE DEF B, r
  <2> QED BY <2>3, <2>4, <2>5
<1> DEFINE T == 0..(c - 1)
<1>4. r \in [S -> T]
  BY <1>2
<1>5. ASSUME NEW p \in S, NEW u \in S, r[p] = r[u] PROVE p = u
  <2>1. ~(p < u) /\ ~(u < p)
    <3>1. r[p] \in Int /\ r[u] \in Int
      BY <1>1, <1>2
    <3> HIDE DEF r
    <3> QED BY <1>3, <1>5, <3>1
  <2> QED BY <2>1
<1>6. \A k \in T : \E p \in S : r[p] = k
  <2> HIDE DEF c
  <2>1. IsFiniteSet(T) /\ Cardinality(T) = c
    <3>1. c - 1 \in Int /\ (0 > c - 1 => c = 0)
      BY <1>1
    <3>2. Cardinality(T) = IF 0 > c - 1 THEN 0 ELSE (c - 1) - 0 + 1
      BY <3>1, FS_Interval
    <3>3. IsFiniteSet(T)
      BY <3>1, FS_Interval
    <3> HIDE DEF T
    <3> QED BY <1>1, <3>1, <3>2, <3>3
  <2> HIDE DEF r, T
  <2>2. r \in Injection(S, T)
    BY <1>4, <1>5 DEF Injection, IsInjective
  <2>3. r \in Surjection(S, T)
    BY <2>1, <2>2, FS_Injection DEF c
  <2> QED BY <2>3 DEF Surjection
<1>7. ASSUME NEW i \in 1..c PROVE q[i] \in S /\ r[q[i]] = i - 1
  <2>1. i - 1 \in T
    BY <1>1
  <2>2. PICK p \in S : r[p] = i - 1
    BY <1>6, <2>1
  <2>3. p \in S /\ Cardinality({u \in S : u < p}) = i - 1
    BY <2>2
  <2>4. q[i] = CHOOSE x \in S : Cardinality({u \in S : u < x}) = i - 1
    BY DEF InOrder
  <2>5. q[i] \in S /\ Cardinality({u \in S : u < q[i]}) = i - 1
    BY <2>3, <2>4, Zenon
  <2> HIDE DEF q
  <2> QED BY <2>5
<1> HIDE DEF q, r, c, T
<1>8. ASSUME NEW i \in 1..c, NEW j \in 1..c, i < j PROVE q[i] < q[j]
  <2>1. /\ q[i] \in S /\ r[q[i]] = i - 1
        /\ q[j] \in S /\ r[q[j]] = j - 1
    BY <1>7
  <2>2. ~(r[q[j]] < r[q[i]]) /\ r[q[i]] # r[q[j]]
    BY <1>8, <2>1
  <2>3. ~(q[j] < q[i]) /\ q[i] # q[j]
    BY <1>3, <2>1, <2>2
  <2>4. q[i] \in Int /\ q[j] \in Int
    BY <1>0, <2>1, Zenon
  <2> QED BY <2>3, <2>4
<1>9. ASSUME NEW p \in S PROVE \E i \in 1..c : q[i] = p
  <2>1. r[p] \in 0..(c - 1)
    BY <1>2
  <2> DEFINE i == r[p] + 1
  <2>2. i \in 1..c /\ i - 1 = r[p]
    BY <1>1, <2>1
  <2>3. q[i] \in S /\ r[q[i]] = r[p]
    BY <1>7, <2>2
  <2> QED BY <1>5, <2>2, <2>3
<1> QED BY <1>1, <1>7, <1>8, <1>9 DEF q, c

Sums == INSTANCE Induction WITH Op <- +

(* A total is a fold of +. *)
LEMMA Summed ==
  ASSUME NEW s
  PROVE  Sums!Folded(0, s) = Total(s)
BY DEF Sums!Folded, Total, Sums!FoldLeft, FoldLeft, Sums!MapThenFoldSet, MapThenFoldSet,
       Sums!Max, Max

(* The sum of the first i shares. *)
Prefix(shares, i) == Total(SubSeq(shares, 1, i))

(* It grows with i, up to the total. *)
LEMMA PrefixSums ==
  ASSUME NEW n \in Nat, NEW shares \in [1..n -> Nat]
  PROVE  /\ Prefix(shares, n) = Total(shares)
         /\ Total(shares) \in Nat
         /\ \A i, j \in 0..n : i <= j =>
              /\ Prefix(shares, i) \in Nat /\ Prefix(shares, j) \in Nat
              /\ Prefix(shares, i) <= Prefix(shares, j)
<1> DEFINE g == Sums!Trace(n, 0, shares)
<1>1. /\ DOMAIN g = 0..n /\ g[0] = 0
      /\ g[n] = Total(shares)
      /\ \A k \in 1..n : g[k] = g[k - 1] + shares[k]
  <2>1. Sums!IsTrace(g, n, 0, shares)
    BY Sums!FoldTrace
  <2> HIDE DEF g
  <2> QED BY <2>1, Summed, Zenon DEF Sums!IsTrace
<1> HIDE DEF g
<1>2. ASSUME NEW i \in 0..n PROVE Prefix(shares, i) = g[i]
  <2> DEFINE s == SubSeq(shares, 1, i)
             h == Sums!Trace(i, 0, s)
  <2>1. DOMAIN s = 1..i /\ \A k \in 1..i : s[k] = shares[k]
    <3>1. shares \in Seq(Nat) /\ Len(shares) = n
      OBVIOUS
    <3> QED BY <3>1
  <2> HIDE DEF s
  <2>2. /\ DOMAIN h = 0..i /\ h[0] = 0
        /\ h[i] = Total(s)
        /\ \A k \in 1..i : h[k] = h[k - 1] + s[k]
    <3>1. Sums!IsTrace(h, i, 0, s)
      BY <2>1, Sums!FoldTrace
    <3> HIDE DEF h
    <3> QED BY <3>1, Summed, Zenon DEF Sums!IsTrace
  <2> HIDE DEF h
  <2> DEFINE H == {k \in 0..i : h[k] = g[k]}
  <2>3. 0 \in H
    BY <1>1, <2>2
  <2>4. ASSUME NEW k \in 0..(i - 1), k \in H PROVE k + 1 \in H
    <3>1. k + 1 \in 1..i /\ k + 1 \in 1..n /\ (k + 1) - 1 = k /\ k + 1 \in 0..i
      OBVIOUS
    <3>2. h[k + 1] = h[k] + s[k + 1] /\ g[k + 1] = g[k] + shares[k + 1]
      <4>1. h[k + 1] = h[(k + 1) - 1] + s[k + 1] /\ g[k + 1] = g[(k + 1) - 1] + shares[k + 1]
        BY <1>1, <2>2, <3>1, Zenon
      <4> QED BY <3>1, <4>1
    <3> QED BY <2>1, <2>4, <3>1, <3>2
  <2>5. 0..i \subseteq H
    <3>1. i \in Nat /\ H \in SUBSET Nat
      OBVIOUS
    <3> HIDE DEF H
    <3> QED BY <2>3, <2>4, <3>1, UpTo
  <2> QED BY <2>2, <2>5 DEF Prefix, s
<1> DEFINE N == {k \in 0..n : g[k] \in Nat /\ \A i \in 0..k : g[i] \in Nat /\ g[i] <= g[k]}
<1>3. 0 \in N
  BY <1>1
<1>4. ASSUME NEW k \in 0..(n - 1), k \in N PROVE k + 1 \in N
  <2>1. k + 1 \in 1..n /\ (k + 1) - 1 = k /\ k + 1 \in 0..n
    OBVIOUS
  <2>2. g[k + 1] = g[k] + shares[k + 1] /\ shares[k + 1] \in Nat
    <3>1. g[k + 1] = g[(k + 1) - 1] + shares[k + 1]
      BY <1>1, <2>1, Zenon
    <3> QED BY <2>1, <3>1
  <2>3. \A i \in 0..(k + 1) : i \in 0..k \/ i = k + 1
    OBVIOUS
  <2> QED BY <1>4, <2>1, <2>2, <2>3
<1>5. 0..n \subseteq N
  <2>1. N \in SUBSET Nat
    OBVIOUS
  <2> HIDE DEF N
  <2> QED BY <1>3, <1>4, <2>1, UpTo
<1>6. \A j \in 0..n : g[j] \in Nat /\ \A i \in 0..j : g[i] \in Nat /\ g[i] <= g[j]
  BY <1>5
<1>7. n \in 0..n /\ \A i, j \in 0..n : i <= j => i \in 0..j
  OBVIOUS
<1> QED BY <1>1, <1>2, <1>6, <1>7

(* Among the numbers of some paths and one more there is a largest. *)
LEMMA LargestNumber ==
  ASSUME NEW n \in Nat, NEW S \in SUBSET (1..n), NEW f, \A p \in S : f[p] \in Int,
         NEW b \in Int
  PROVE  Max({b} \cup {f[p] : p \in S}) \in {b} \cup {f[p] : p \in S}
<1> DEFINE T(k) == {b} \cup {f[p] : p \in S \cap (1..k)}
           H == {k \in 0..n : \E x \in T(k) : \A y \in T(k) : x >= y}
<1>1. 0 \in H
  <2>1. T(0) = {b}
    OBVIOUS
  <2> QED BY <2>1
<1>2. ASSUME NEW k \in 0..(n - 1), k \in H PROVE k + 1 \in H
  <2>1. k + 1 \in 0..n
    OBVIOUS
  <2>2. PICK x \in T(k) : \A y \in T(k) : x >= y
    BY <1>2
  <2>3. x \in Int /\ \A y \in T(k) : y \in Int
    OBVIOUS
  <2>4. CASE k + 1 \in S
    <3>1. T(k + 1) = T(k) \cup {f[k + 1]}
      BY <2>4
    <3>2. f[k + 1] \in Int
      BY <2>4
    <3> HIDE DEF T
    <3>3. \E z \in T(k + 1) : \A y \in T(k + 1) : z >= y
      <4>1. CASE x >= f[k + 1]
        BY <2>2, <3>1, <4>1
      <4>2. CASE ~(x >= f[k + 1])
        <5>1. f[k + 1] \in T(k + 1) /\ \A y \in T(k + 1) : f[k + 1] >= y
          BY <2>2, <2>3, <3>1, <3>2, <4>2
        <5> QED BY <5>1
      <4> QED BY <4>1, <4>2
    <3> QED BY <2>1, <3>3
  <2>5. CASE k + 1 \notin S
    <3>1. T(k + 1) = T(k)
      BY <2>5
    <3> HIDE DEF T
    <3> QED BY <2>1, <2>2, <3>1
  <2> QED BY <2>4, <2>5
<1>3. n \in H
  <2>1. H \in SUBSET Nat
    OBVIOUS
  <2> HIDE DEF H
  <2>2. 0..n \subseteq H
    BY <1>1, <1>2, <2>1, UpTo
  <2> QED BY <2>2
<1>4. T(n) = {b} \cup {f[p] : p \in S}
  OBVIOUS
<1> QED BY <1>3, <1>4, Zenon DEF Max

(* The largest and the least of two numbers. *)
LEMMA OfTwo ==
  ASSUME NEW a \in Int, NEW b \in Int
  PROVE  /\ Max({a, b}) = IF a >= b THEN a ELSE b
         /\ Min({a, b}) = IF a <= b THEN a ELSE b
<1>1. \A x \in {a, b} : (\A y \in {a, b} : x >= y) <=> x = (IF a >= b THEN a ELSE b)
  OBVIOUS
<1>2. \A x \in {a, b} : (\A y \in {a, b} : x <= y) <=> x = (IF a <= b THEN a ELSE b)
  OBVIOUS
<1>3. (IF a >= b THEN a ELSE b) \in {a, b} /\ (IF a <= b THEN a ELSE b) \in {a, b}
  OBVIOUS
<1> QED BY <1>1, <1>2, <1>3 DEF Max, Min

-----------------------------------------------------------------------------
(* The plan. *)

(* The points at which the weighted ranges cut: in order, and the last at  *)
(* the end of the payload.                                                 *)
LEMMA CutPoints ==
  ASSUME NEW len \in Nat, NEW n \in Nat \ {0}, NEW shares \in [1..n -> Nat]
  PROVE  /\ End(len, shares, n) = len
         /\ \A i, j \in 1..n : i <= j =>
              /\ End(len, shares, i) \in Nat /\ End(len, shares, j) \in Nat
              /\ End(len, shares, i) <= End(len, shares, j)
<1> DEFINE total == Max({1, Total(shares)})
           T(i)  == Prefix(shares, i)
           N(i)  == 2 * len * T(i) + total
           d     == 2 * total
           E(i)  == End(len, shares, i)
<1>1. /\ Total(shares) \in Nat
      /\ \A i, j \in 0..n : i <= j => T(i) \in Nat /\ T(j) \in Nat /\ T(i) <= T(j)
      /\ T(n) = Total(shares)
  BY PrefixSums
<1>2. total \in Nat \ {0} /\ Total(shares) <= total
  BY <1>1, OfTwo
<1>3. Len(shares) = n
  OBVIOUS
<1>4. E(n) = len
  BY <1>3 DEF End
<1>5. \A i \in 1..n : i # n => E(i) = N(i) \div d
  BY <1>3 DEF End, Prefix
<1> HIDE DEF E, T, total
<1>6. d \in Nat \ {0}
  BY <1>2
<1>7. ASSUME NEW a \in Nat, NEW b \in Nat, a <= b
      PROVE  /\ 2 * len * a + total \in Nat /\ 2 * len * b + total \in Nat
             /\ 2 * len * a + total <= 2 * len * b + total
  <2>1. PICK e \in Nat : b = a + e
    <3>1. b - a \in Nat /\ b = a + (b - a)
      BY <1>7
    <3> QED BY <3>1
  <2>2. 2 * len * b = 2 * len * a + 2 * len * e
    BY <2>1
  <2>3. 2 * len * a \in Nat /\ 2 * len * e \in Nat
    BY <2>1
  <2> QED BY <1>2, <2>2, <2>3
<1>8. (2 * len * total + total) \div d = len
  <2>1. 2 * len * total + total = total + d * len
    BY <1>2
  <2>2. total \in 0..(d - 1)
    BY <1>2
  <2> HIDE DEF d
  <2> QED BY <1>6, <2>1, <2>2, QuotientAndRest
<1>9. ASSUME NEW i \in 1..n, i # n PROVE E(i) \in Nat /\ E(i) <= len
  <2>1. T(i) \in Nat /\ T(i) <= total
    <3>1. i \in 0..n /\ n \in 0..n /\ i <= n
      OBVIOUS
    <3>2. T(i) \in Nat /\ T(n) \in Nat /\ T(i) <= T(n)
      BY <1>1, <3>1
    <3> QED BY <1>1, <1>2, <3>2
  <2>2. /\ N(i) \in Nat /\ 2 * len * total + total \in Nat
        /\ N(i) <= 2 * len * total + total
    BY <1>2, <1>7, <2>1
  <2> HIDE DEF N, d
  <2>3. N(i) \div d \in Nat /\ N(i) \div d <= (2 * len * total + total) \div d
    BY <1>6, <2>2, QuotientGrows
  <2> QED BY <1>5, <1>8, <1>9, <2>3
<1>10. ASSUME NEW i \in 1..n, NEW j \in 1..n, i <= j
       PROVE  E(i) \in Nat /\ E(j) \in Nat /\ E(i) <= E(j)
  <2>1. CASE j = n
    BY <1>4, <1>9, <2>1
  <2>2. CASE j # n
    <3>1. i # n /\ i \in 0..n /\ j \in 0..n
      BY <1>10, <2>2
    <3>2. T(i) \in Nat /\ T(j) \in Nat /\ T(i) <= T(j)
      BY <1>1, <1>10, <3>1
    <3>3. N(i) \in Nat /\ N(j) \in Nat /\ N(i) <= N(j)
      BY <1>7, <3>2
    <3> HIDE DEF N, d
    <3>4. N(i) \div d <= N(j) \div d
      BY <1>6, <3>3, QuotientGrows
    <3> QED BY <1>5, <1>9, <2>2, <3>1, <3>4
  <2> QED BY <2>1, <2>2
<1> QED BY <1>4, <1>10 DEF E

(* R cuts len bytes into m ranges, in order and without gap or overlap. *)
Tiles(R, m, len) ==
  /\ \A i \in 1..m :
       /\ R[i].from \in Nat /\ R[i].to \in Nat
       /\ R[i].from <= R[i].to /\ R[i].to <= len
  /\ \A i, j \in 1..m : i < j => R[i].to <= R[j].from
  /\ \A b \in 0..(len - 1) : \E i \in 1..m : R[i].from <= b /\ b < R[i].to

(* The ranges between these points. *)
LEMMA WeightedTiles ==
  ASSUME NEW len \in Nat, NEW n \in Nat \ {0}, NEW shares \in [1..n -> Nat]
  PROVE  Tiles(WeightedRanges(len, shares), n, len)
<1> DEFINE E(i) == End(len, shares, i)
           R    == WeightedRanges(len, shares)
<1>1. /\ E(n) = len
      /\ \A i, j \in 1..n : i <= j => E(i) \in Nat /\ E(j) \in Nat /\ E(i) <= E(j)
  BY CutPoints
<1>2. \A i \in 1..n : R[i].from = (IF i = 1 THEN 0 ELSE E(i - 1)) /\ R[i].to = E(i)
  BY DEF WeightedRanges, Between
<1> HIDE DEF E, R
<1>3. \A i \in 1..n : i <= i /\ i <= n /\ n \in 1..n
  OBVIOUS
<1>4. \A i \in 1..n : i # 1 => i - 1 \in 1..n /\ i - 1 <= i
  OBVIOUS
<1>5. \A i \in 1..n : E(i) \in Nat /\ E(i) <= len
  BY <1>1, <1>3
<1>6. \A i \in 1..n : i # 1 => E(i - 1) <= E(i)
  BY <1>1, <1>4
<1>7. ASSUME NEW i \in 1..n
      PROVE  /\ R[i].from \in Nat /\ R[i].to \in Nat
             /\ R[i].from <= R[i].to /\ R[i].to <= len
  <2>1. E(i) \in Nat /\ E(i) <= len
    BY <1>5
  <2>2. R[i].to = E(i)
    BY <1>2
  <2>3. CASE i = 1
    <3>1. R[i].from = 0
      BY <1>2, <2>3
    <3> QED BY <2>1, <2>2, <3>1
  <2>4. CASE i # 1
    <3>1. R[i].from = E(i - 1)
      BY <1>2, <2>4
    <3>2. E(i - 1) \in Nat /\ E(i - 1) <= E(i)
      BY <1>4, <1>5, <1>6, <2>4
    <3> QED BY <2>1, <2>2, <3>1, <3>2
  <2> QED BY <2>3, <2>4
<1>8. ASSUME NEW i \in 1..n, NEW j \in 1..n, i < j PROVE R[i].to <= R[j].from
  <2>1. j # 1 /\ j - 1 \in 1..n /\ i <= j - 1
    BY <1>8
  <2>2. E(i) <= E(j - 1)
    BY <1>1, <2>1
  <2> QED BY <1>2, <2>1, <2>2
<1>9. ASSUME NEW b \in 0..(len - 1) PROVE \E i \in 1..n : R[i].from <= b /\ b < R[i].to
  <2> DEFINE S == {i \in 1..n : b < E(i)}
  <2>1. S \in SUBSET Nat /\ S # {}
    <3>1. n \in 1..n /\ b < E(n)
      BY <1>1, <1>3
    <3> QED BY <3>1
  <2>2. PICK i \in S : \A j \in S : i <= j
    BY <2>1, LeastNatural
  <2>3. i \in 1..n /\ b < E(i)
    BY <2>2
  <2>4. CASE i = 1
    <3>1. R[i].from = 0 /\ R[i].to = E(i) /\ 0 <= b
      BY <1>2, <2>3, <2>4
    <3> QED BY <2>3, <3>1
  <2>5. CASE i # 1
    <3>1. i - 1 \in 1..n /\ ~(i <= i - 1)
      BY <2>3, <2>5
    <3>2. ~(b < E(i - 1))
      BY <2>2, <3>1
    <3>3. E(i - 1) <= b
      BY <1>5, <3>1, <3>2
    <3> QED BY <1>2, <2>3, <2>5, <3>3
  <2> QED BY <2>4, <2>5
<1> QED BY <1>7, <1>8, <1>9 DEF Tiles, R

(* The pieces of size bytes. *)
LEMMA ChunkTiles ==
  ASSUME NEW len \in Nat, NEW size \in Nat \ {0}
  PROVE  LET R == Chunks(len, size)
         IN  /\ Len(R) \in Nat /\ DOMAIN R = 1..Len(R)
             /\ Tiles(R, Len(R), len)
             /\ \A j \in 1..Len(R) : R[j].to - R[j].from <= size
<1> DEFINE m == (len + size - 1) \div size
           R == Chunks(len, size)
<1>1. m \in Nat
  <2>1. len + size - 1 \in Nat
    OBVIOUS
  <2> QED BY <2>1, QuotientGrows
<1>2. m * size <= len + size - 1
  <2> DEFINE r == (len + size - 1) % size
  <2>1. r \in 0..(size - 1) /\ len + size - 1 = size * m + r
    OBVIOUS
  <2> HIDE DEF r, m
  <2>2. size * m = m * size
    BY <1>1
  <2>3. m * size \in Int
    BY <1>1
  <2> QED BY <2>1, <2>2, <2>3
<1>3. DOMAIN R = 1..m /\ \A j \in 1..m : R[j].from = (j - 1) * size /\ R[j].to = Min({j * size, len})
  BY DEF Chunks, Between
<1>4. R = [j \in 1..m |-> R[j]]
  BY DEF Chunks
<1> HIDE DEF m, R
<1>5. Len(R) = m
  BY <1>1, <1>4
<1>6. ASSUME NEW j \in 1..m
      PROVE  /\ (j - 1) * size \in Nat /\ j * size \in Nat
             /\ j * size = (j - 1) * size + size
             /\ (j - 1) * size < len
  <2>1. PICK e \in Nat : m = j + e
    <3>1. m - j \in Nat /\ m = j + (m - j)
      BY <1>1
    <3> QED BY <3>1
  <2>2. m * size = j * size + e * size /\ e * size \in Nat /\ j * size \in Nat
    BY <2>1
  <2>3. j - 1 \in Nat
    OBVIOUS
  <2>4. j * size = (j - 1) * size + size /\ (j - 1) * size \in Nat
    BY <2>3
  <2> QED BY <1>2, <2>2, <2>4
<1>7. ASSUME NEW j \in 1..m
      PROVE  /\ R[j].from = (j - 1) * size /\ R[j].from \in Nat
             /\ R[j].to = IF j * size <= len THEN j * size ELSE len
  <2>1. j * size \in Int /\ len \in Int
    BY <1>6
  <2>2. R[j].to = IF j * size <= len THEN j * size ELSE len
    BY <1>3, <2>1, OfTwo
  <2> QED BY <1>3, <1>6, <2>2
<1>8. ASSUME NEW j \in 1..m
      PROVE  /\ R[j].from \in Nat /\ R[j].to \in Nat
             /\ R[j].from <= R[j].to /\ R[j].to <= len
             /\ R[j].to - R[j].from <= size
  <2> DEFINE x == (j - 1) * size
             y == j * size
  <2>1. x \in Nat /\ y \in Nat /\ y = x + size /\ x < len
    BY <1>6
  <2>2. R[j].from = x /\ R[j].to = IF y <= len THEN y ELSE len
    BY <1>7
  <2> HIDE DEF x, y
  <2> QED BY <2>1, <2>2
<1>9. ASSUME NEW i \in 1..m, NEW j \in 1..m, i < j PROVE R[i].to <= R[j].from
  <2>1. PICK e \in Nat : j - 1 = i + e
    <3>1. j - 1 - i \in Nat /\ j - 1 = i + (j - 1 - i)
      BY <1>9
    <3> QED BY <3>1
  <2>2. (j - 1) * size = i * size + e * size /\ e * size \in Nat
    BY <2>1
  <2> DEFINE x == i * size
             y == (j - 1) * size
  <2>3. x \in Nat /\ x <= y
    BY <1>6, <2>2
  <2>4. R[i].to = (IF x <= len THEN x ELSE len) /\ R[j].from = y /\ y \in Nat
    BY <1>7
  <2> HIDE DEF x, y
  <2> QED BY <2>3, <2>4
<1>10. ASSUME NEW b \in 0..(len - 1) PROVE \E j \in 1..m : R[j].from <= b /\ b < R[j].to
  <2> DEFINE k == b \div size
             r == b % size
  <2>1. r \in 0..(size - 1) /\ b = size * k + r
    OBVIOUS
  <2>2. k \in Nat
    BY QuotientGrows
  <2> HIDE DEF k, r
  <2>3. (b + size) \div size = k + 1
    <3>1. b + size = r + size * (k + 1) /\ k + 1 \in Nat
      BY <2>1, <2>2
    <3> QED BY <2>1, <3>1, QuotientAndRest
  <2>4. k + 1 <= m
    <3>1. b + size \in Nat /\ len + size - 1 \in Nat /\ b + size <= len + size - 1
      OBVIOUS
    <3>2. (b + size) \div size <= (len + size - 1) \div size
      BY <3>1, QuotientGrows
    <3> QED BY <2>3, <3>2 DEF m
  <2> DEFINE j == k + 1
  <2>5. j \in 1..m /\ (j - 1) * size = size * k /\ j * size = size * k + size
    BY <1>1, <2>2, <2>4
  <2>6. size * k \in Nat
    BY <2>2
  <2> HIDE DEF j
  <2> QED BY <1>7, <2>1, <2>5, <2>6
<1>11. Tiles(R, m, len)
  BY <1>8, <1>9, <1>10 DEF Tiles
<1> QED BY <1>1, <1>3, <1>5, <1>8, <1>11 DEF R

(* The ranges of a packet: they tile it, and there are no more of them     *)
(* than paths, or than pieces of the MTU.                                  *)
LEMMA PacketTiles ==
  ASSUME NEW len \in Nat, NEW n \in Nat \ {0}, n <= MaxFragments,
         NEW shares \in [1..n -> Nat], ~TooManyFragments(len)
  PROVE  LET R == PacketRanges(len, shares)
         IN  /\ Len(R) \in Nat /\ Len(R) <= MaxFragments
             /\ DOMAIN R = 1..Len(R)
             /\ Tiles(R, Len(R), len)
             /\ \A i \in 1..Len(R) : R[i].to - R[i].from <= Mtu
             /\ ~ExceedsMtu(len) => \A i \in 1..Len(R) : R[i].path \in 1..n
<1> DEFINE R == PacketRanges(len, shares)
<1>1. shares # << >> /\ DOMAIN shares = 1..n
  OBVIOUS
<1>2. CASE ExceedsMtu(len)
  <2> DEFINE C == Chunks(len, Mtu)
             m == Len(C)
  <2>1. m \in Nat /\ DOMAIN C = 1..m /\ Tiles(C, m, len)
        /\ \A j \in 1..m : C[j].to - C[j].from <= Mtu
    BY ChunkTiles, PlanAssumption
  <2>2. m <= MaxFragments
    <3>1. ~(m > MaxFragments)
      BY <1>2 DEF TooManyFragments
    <3> QED BY <2>1, <3>1, PlanAssumption
  <2>3. R = Dealt(C, shares)
    BY <1>1, <1>2 DEF PacketRanges
  <2> HIDE DEF C, R, m
  <2>4. DOMAIN R = 1..m /\ \A j \in 1..m : R[j].from = C[j].from /\ R[j].to = C[j].to
    BY <2>1, <2>3 DEF Dealt
  <2>5. R = [j \in 1..m |-> R[j]]
    BY <2>1, <2>3 DEF Dealt
  <2>6. Len(R) = m
    BY <2>1, <2>5
  <2>7. Tiles(R, m, len)
    BY <2>1, <2>4 DEF Tiles
  <2> QED BY <1>2, <2>1, <2>2, <2>4, <2>6, <2>7 DEF R
<1>3. CASE ~ExceedsMtu(len)
  <2> DEFINE W    == WeightedRanges(len, shares)
             K    == {i \in 1..n : W[i].from # W[i].to}
             kept == InOrder(K)
             m    == Cardinality(K)
  <2>1. Tiles(W, n, len)
    BY WeightedTiles
  <2>2. R = [j \in DOMAIN kept |->
               [path |-> kept[j], from |-> W[kept[j]].from, to |-> W[kept[j]].to]]
    BY <1>1, <1>3 DEF PacketRanges
  <2>3. K \in SUBSET (1..n)
    OBVIOUS
  <2> HIDE DEF W, K, R
  <2>4. m \in Nat /\ DOMAIN kept = 1..m /\ m <= n
    BY <2>3, InOrderDomain, InOrderEnumerates
  <2>5. /\ \A i \in 1..m : kept[i] \in K
        /\ \A i, j \in 1..m : i < j => kept[i] < kept[j]
        /\ \A p \in K : \E i \in 1..m : kept[i] = p
    BY <2>3, InOrderEnumerates
  <2> HIDE DEF kept, m
  <2>6. DOMAIN R = 1..m
        /\ \A j \in 1..m : /\ R[j].path = kept[j]
                           /\ R[j].from = W[kept[j]].from
                           /\ R[j].to = W[kept[j]].to
    BY <2>2, <2>4
  <2>7. R = [j \in 1..m |-> R[j]]
    BY <2>2, <2>4
  <2>8. Len(R) = m
    BY <2>4, <2>7
  <2>9. \A j \in 1..m : kept[j] \in 1..n
    BY <2>3, <2>5
  <2>10. ASSUME NEW j \in 1..m
         PROVE  /\ R[j].from \in Nat /\ R[j].to \in Nat
                /\ R[j].from <= R[j].to /\ R[j].to <= len
    BY <2>1, <2>6, <2>9 DEF Tiles
  <2>11. ASSUME NEW i \in 1..m, NEW j \in 1..m, i < j PROVE R[i].to <= R[j].from
    <3>1. kept[i] \in 1..n /\ kept[j] \in 1..n /\ kept[i] < kept[j]
      BY <2>5, <2>9, <2>11
    <3>2. W[kept[i]].to <= W[kept[j]].from
      BY <2>1, <3>1 DEF Tiles
    <3> QED BY <2>6, <3>2
  <2>12. ASSUME NEW b \in 0..(len - 1) PROVE \E j \in 1..m : R[j].from <= b /\ b < R[j].to
    <3>1. PICK p \in 1..n : W[p].from <= b /\ b < W[p].to
      BY <2>1 DEF Tiles
    <3>2. W[p].from \in Nat /\ W[p].to \in Nat
      BY <2>1 DEF Tiles
    <3>3. W[p].from # W[p].to
      BY <3>1, <3>2
    <3>4. p \in K
      BY <3>3 DEF K
    <3>5. PICK j \in 1..m : kept[j] = p
      BY <2>5, <3>4
    <3> QED BY <2>6, <3>1, <3>5
  <2>13. Tiles(R, m, len)
    BY <2>10, <2>11, <2>12 DEF Tiles
  <2>14. \A j \in 1..m : R[j].to - R[j].from <= Mtu
    <3>1. len <= Mtu
      BY <1>3, PlanAssumption DEF ExceedsMtu
    <3> QED BY <2>10, <3>1, PlanAssumption
  <2>15. m <= MaxFragments
    BY <2>4, PlanAssumption
  <2> QED BY <2>4, <2>6, <2>8, <2>9, <2>13, <2>14, <2>15 DEF R
<1> QED BY <1>2, <1>3

(* What the pieces of a payload that go out under one fragment count are.  *)
PiecesOf(D, k) ==
  {[sequence |-> d.sequence, fragment |-> d.fragment, from |-> d.from, to |-> d.to] :
     d \in {e \in D : e.fragments = k}}

(* Each byte is in one of them, in their order. *)
OnceInOrder(X, len) ==
  /\ \A b \in 0..(len - 1) : Cardinality({x \in X : x.from <= b /\ b < x.to}) = 1
  /\ \A x, y \in X : Precedes(x, y) => x.to <= y.from

(* They are the payload, in k fragments. *)
CoversOnce(X, k, len) ==
  /\ k <= MaxFragments
  /\ {x.fragment : x \in X} = 0..(k - 1)
  /\ OnceInOrder(X, len)

Members(f, m) == {f[i] : i \in 1..m}

(* f numbers the ranges R in their order. *)
Numbers(f, R, m) ==
  /\ \A i \in 1..m : /\ f[i].sequence \in Int /\ f[i].fragment \in Int
                     /\ f[i].from = R[i].from /\ f[i].to = R[i].to
  /\ \A i, j \in 1..m : i < j => Precedes(f[i], f[j])

(* Ranges that tile a payload cover each byte once, numbered in any way    *)
(* that keeps their order.                                                 *)
LEMMA TilesCoverOnce ==
  ASSUME NEW len \in Nat, NEW m \in Nat, NEW R, Tiles(R, m, len), NEW f, Numbers(f, R, m)
  PROVE  OnceInOrder(Members(f, m), len)
<1> DEFINE X == Members(f, m)
<1> USE DEF Members
<1>0. /\ \A i \in 1..m : /\ f[i].sequence \in Int /\ f[i].fragment \in Int
                          /\ f[i].from = R[i].from /\ f[i].to = R[i].to
      /\ \A i, j \in 1..m : i < j => Precedes(f[i], f[j])
  BY DEF Numbers
<1>1. ASSUME NEW b \in 0..(len - 1)
      PROVE  Cardinality({x \in X : x.from <= b /\ b < x.to}) = 1
  <2>1. PICK i \in 1..m : R[i].from <= b /\ b < R[i].to
    BY DEF Tiles
  <2>2. ASSUME NEW j \in 1..m, f[j].from <= b, b < f[j].to PROVE j = i
    <3>1. /\ R[j].from <= b /\ b < R[j].to
          /\ R[i].from \in Nat /\ R[i].to \in Nat /\ R[j].from \in Nat /\ R[j].to \in Nat
      BY <1>0, <2>2 DEF Tiles
    <3>2. ~(i < j)
      <4>1. i < j => R[i].to <= R[j].from
        BY DEF Tiles
      <4> QED BY <2>1, <3>1, <4>1
    <3>3. ~(j < i)
      <4>1. j < i => R[j].to <= R[i].from
        BY DEF Tiles
      <4> QED BY <2>1, <3>1, <4>1
    <3> QED BY <3>2, <3>3
  <2>3. f[i].from <= b /\ b < f[i].to
    BY <1>0, <2>1
  <2>4. {x \in X : x.from <= b /\ b < x.to} = {f[i]}
    BY <2>2, <2>3, Zenon
  <2> QED BY <2>4, FS_Singleton
<1>2. ASSUME NEW i \in 1..m, NEW j \in 1..m, Precedes(f[i], f[j]) PROVE f[i].to <= f[j].from
  <2>1. /\ f[i].sequence \in Int /\ f[i].fragment \in Int
        /\ f[j].sequence \in Int /\ f[j].fragment \in Int
    BY <1>0
  <2>2. i # j
    BY <1>2, <2>1 DEF Precedes
  <2>3. ~(j < i)
    <3>1. ~Precedes(f[j], f[i])
      BY <1>2, <2>1 DEF Precedes
    <3> QED BY <1>0, <3>1
  <2>4. i < j
    BY <2>2, <2>3
  <2>5. R[i].to <= R[j].from
    BY <2>4 DEF Tiles
  <2> QED BY <1>0, <2>5
<1> QED BY <1>1, <1>2 DEF OnceInOrder

(* A payload that goes out whole is in one piece. *)
LEMMA WholeCoversOnce ==
  ASSUME NEW len \in Nat, NEW s \in Int
  PROVE  CoversOnce({[sequence |-> s, fragment |-> 0, from |-> 0, to |-> len]}, 1, len)
<1> DEFINE x == [sequence |-> s, fragment |-> 0, from |-> 0, to |-> len]
           X == {x}
<1>1. x.sequence = s /\ x.fragment = 0 /\ x.from = 0 /\ x.to = len
  OBVIOUS
<1> HIDE DEF x
<1>2. 1 <= MaxFragments /\ {y.fragment : y \in X} = 0..(1 - 1)
  BY <1>1, PlanAssumption
<1>3. ASSUME NEW b \in 0..(len - 1)
      PROVE  Cardinality({y \in X : y.from <= b /\ b < y.to}) = 1
  <2>1. {y \in X : y.from <= b /\ b < y.to} = {x}
    BY <1>1
  <2> QED BY <2>1, FS_Singleton
<1>4. ~Precedes(x, x)
  BY <1>1 DEF Precedes
<1>5. CoversOnce(X, 1, len)
  BY <1>2, <1>3, <1>4 DEF CoversOnce, OnceInOrder
<1> QED BY <1>5 DEF x

(* The datagrams of a packet: its ranges as fragments, and copies of it.   *)
Plan(m, R, g, P, len) ==
  {Datagram(g[i], 0, i - 1, m, R[i]) : i \in 1..m}
  \cup {Datagram(p, 0, 0, 1, Between(0, len)) : p \in P}

(* Those of a payload in pieces that are packets of their own, each on the *)
(* paths of its own.                                                       *)
Deal(m, C, Q) == UNION {{Datagram(p, j - 1, 0, 1, C[j]) : p \in Q[j]} : j \in 1..m}

(* Under each fragment count all of the payload goes out, and each of its  *)
(* bytes once per path.                                                    *)
AllOnce(D, len) ==
  /\ \A k \in {d.fragments : d \in D} : CoversOnce(PiecesOf(D, k), k, len)
  /\ \A d, e \in D : d # e /\ d.path = e.path => d.to <= e.from \/ e.to <= d.from

(* The fragments of a packet are the packet, and so is every copy of it;   *)
(* no path has both if none of its copies goes out on a path of a          *)
(* fragment.                                                               *)
LEMMA PlanCovers ==
  ASSUME sequence \in Nat, NEW len \in Nat, NEW m \in Nat, m <= MaxFragments,
         NEW R, m = 0 \/ Tiles(R, m, len),
         NEW g, NEW P, \A i \in 1..m : g[i] \notin P
  PROVE  /\ AllOnce(Plan(m, R, g, P, len), len)
         /\ \A d \in Plan(m, R, g, P, len) : d.sequence = sequence
<1> DEFINE D    == Plan(m, R, g, P, len)
           F(i) == Datagram(g[i], 0, i - 1, m, R[i])
           W(p) == Datagram(p, 0, 0, 1, Between(0, len))
           whole == [sequence |-> sequence, fragment |-> 0, from |-> 0, to |-> len]
           f    == [i \in 1..m |-> [sequence |-> sequence, fragment |-> i - 1,
                                    from |-> R[i].from, to |-> R[i].to]]
<1>1. \A i \in 1..m :
        /\ F(i).path = g[i] /\ F(i).sequence = sequence /\ F(i).fragment = i - 1
        /\ F(i).fragments = m /\ F(i).from = R[i].from /\ F(i).to = R[i].to
  BY DEF Datagram
<1>2. \A p \in P :
        /\ W(p).path = p /\ W(p).sequence = sequence /\ W(p).fragment = 0
        /\ W(p).fragments = 1 /\ W(p).from = 0 /\ W(p).to = len
  BY DEF Datagram, Between
<1>3. \A d : d \in D <=> (\E i \in 1..m : d = F(i)) \/ (\E p \in P : d = W(p))
  BY DEF Plan
<1>4. \A i \in 1..m : /\ f[i].sequence = sequence /\ f[i].fragment = i - 1
                      /\ f[i].from = R[i].from /\ f[i].to = R[i].to
  OBVIOUS
<1>0. \A i \in 1..m : f[i] = [sequence |-> sequence, fragment |-> i - 1,
                               from |-> R[i].from, to |-> R[i].to]
  OBVIOUS
<1> HIDE DEF D, F, W, f
<1>5. \A d \in D : d.sequence = sequence
  BY <1>1, <1>2, <1>3
<1>6. ASSUME NEW i \in 1..m
      PROVE  /\ m # 0 /\ Tiles(R, m, len)
             /\ R[i].from \in Nat /\ R[i].to \in Nat /\ R[i].from <= R[i].to /\ R[i].to <= len
  BY DEF Tiles
<1>7. ASSUME NEW k \in {d.fragments : d \in D}, k # 1 PROVE CoversOnce(PiecesOf(D, k), k, len)
  <2>1. PICK d \in D : d.fragments = k
    OBVIOUS
  <2>2. PICK i \in 1..m : d = F(i)
    BY <1>2, <1>3, <1>7, <2>1
  <2>3. k = m /\ Tiles(R, m, len)
    BY <1>1, <1>6, <2>1, <2>2
  <2>4. PiecesOf(D, k) = {f[j] : j \in 1..m}
    <3>1. \A j \in 1..m : F(j) \in D /\ F(j).fragments = k
      BY <1>1, <1>3, <2>3
    <3>2. \A e \in D : e.fragments = k => \E j \in 1..m : e = F(j)
      BY <1>2, <1>3, <1>7
    <3>3. \A j \in 1..m :
            f[j] = [sequence |-> F(j).sequence, fragment |-> F(j).fragment,
                    from |-> F(j).from, to |-> F(j).to]
      BY <1>0, <1>1
    <3> DEFINE piece(e) == [sequence |-> e.sequence, fragment |-> e.fragment,
                            from |-> e.from, to |-> e.to]
    <3>4. ASSUME NEW x \in PiecesOf(D, k) PROVE x \in {f[j] : j \in 1..m}
      <4>1. PICK e \in D : e.fragments = k /\ x = piece(e)
        BY <3>4 DEF PiecesOf
      <4>2. PICK j \in 1..m : e = F(j)
        BY <3>2, <4>1
      <4> QED BY <3>3, <4>1, <4>2, Zenon
    <3>5. ASSUME NEW j \in 1..m PROVE f[j] \in PiecesOf(D, k)
      <4>1. F(j) \in D /\ F(j).fragments = k /\ f[j] = piece(F(j))
        BY <3>1, <3>3, Zenon
      <4> QED BY <4>1, Zenon DEF PiecesOf
    <3> QED BY <3>4, <3>5, Zenon
  <2> DEFINE X == {f[j] : j \in 1..m}
  <2>5. OnceInOrder(X, len)
    <3>1. \A j \in 1..m : /\ f[j].sequence \in Int /\ f[j].fragment \in Int
                          /\ f[j].from = R[j].from /\ f[j].to = R[j].to
      BY <1>4
    <3>2. \A j, l \in 1..m : j < l => Precedes(f[j], f[l])
      BY <1>4 DEF Precedes
    <3>3. X = Members(f, m)
      BY DEF Members
    <3> HIDE DEF X
    <3>4. Numbers(f, R, m)
      BY <3>1, <3>2 DEF Numbers
    <3> QED BY <2>3, <3>3, <3>4, TilesCoverOnce
  <2>6. {x.fragment : x \in X} = 0..(k - 1)
    <3>1. {x.fragment : x \in X} = {j - 1 : j \in 1..m}
      BY <1>4
    <3>2. {j - 1 : j \in 1..m} = 0..(m - 1)
      <4>1. \A a \in 0..(m - 1) : a + 1 \in 1..m /\ a = (a + 1) - 1
        OBVIOUS
      <4> QED BY <4>1
    <3> QED BY <2>3, <3>1, <3>2
  <2>7. k <= MaxFragments
    BY <2>3
  <2> QED BY <2>4, <2>5, <2>6, <2>7 DEF CoversOnce
<1>8. ASSUME 1 \in {d.fragments : d \in D} PROVE CoversOnce(PiecesOf(D, 1), 1, len)
  <2>1. ASSUME NEW i \in 1..m, m = 1 PROVE i = 1 /\ R[i].from = 0 /\ R[i].to = len
    <3>1. i = 1
      BY <2>1
    <3>2. \A b \in 0..(len - 1) : R[1].from <= b /\ b < R[1].to
      <4>1. \A j \in 1..m : j = 1
        BY <2>1
      <4> QED BY <1>6, <4>1 DEF Tiles
    <3>3. /\ R[1].from \in Nat /\ R[1].to \in Nat
          /\ R[1].from <= R[1].to /\ R[1].to <= len
      BY <1>6, <3>1
    <3>4. CASE len = 0
      BY <3>1, <3>3, <3>4
    <3>5. CASE len # 0
      <4>1. 0 \in 0..(len - 1) /\ len - 1 \in 0..(len - 1)
        BY <3>5
      <4> QED BY <3>1, <3>2, <3>3, <4>1
    <3> QED BY <3>4, <3>5
  <2>2. ASSUME NEW d \in D, d.fragments = 1
        PROVE  d.sequence = sequence /\ d.fragment = 0 /\ d.from = 0 /\ d.to = len
    <3>1. CASE \E i \in 1..m : d = F(i)
      BY <1>1, <2>1, <2>2, <3>1
    <3>2. CASE \E p \in P : d = W(p)
      BY <1>2, <3>2
    <3> QED BY <1>3, <3>1, <3>2, Zenon
  <2>3. PICK d \in D : d.fragments = 1
    BY <1>8
  <2>4. PiecesOf(D, 1) = {whole}
    <3>1. \A e \in D : e.fragments = 1 =>
            [sequence |-> e.sequence, fragment |-> e.fragment, from |-> e.from, to |-> e.to]
              = whole
      BY <2>2
    <3> HIDE DEF whole
    <3> QED BY <2>3, <3>1, Zenon DEF PiecesOf
  <2> QED BY <2>4, WholeCoversOnce
<1>9. ASSUME NEW d \in D, NEW e \in D, d # e, d.path = e.path
      PROVE  d.to <= e.from \/ e.to <= d.from
  <2>1. PICK i \in 1..m : d = F(i)
    <3>1. ASSUME NEW p \in P, d = W(p) PROVE FALSE
      <4>1. ASSUME NEW q \in P, e = W(q) PROVE FALSE
        BY <1>2, <1>9, <3>1, <4>1, Zenon
      <4>2. ASSUME NEW j \in 1..m, e = F(j) PROVE FALSE
        BY <1>1, <1>2, <1>9, <3>1, <4>2, Zenon
      <4> QED BY <1>3, <4>1, <4>2, Zenon
    <3> QED BY <1>3, <3>1, Zenon
  <2>2. PICK j \in 1..m : e = F(j)
    <3>1. ASSUME NEW q \in P, e = W(q) PROVE FALSE
      BY <1>1, <1>2, <1>9, <2>1, <3>1, Zenon
    <3> QED BY <1>3, <3>1, Zenon
  <2>3. i # j
    BY <1>9, <2>1, <2>2
  <2>4. i < j => R[i].to <= R[j].from
    BY <1>6 DEF Tiles
  <2>5. j < i => R[j].to <= R[i].from
    BY <1>6 DEF Tiles
  <2>6. d.from = R[i].from /\ d.to = R[i].to /\ e.from = R[j].from /\ e.to = R[j].to
    BY <1>1, <2>1, <2>2
  <2>7. i < j \/ j < i
    BY <2>3
  <2> QED BY <2>4, <2>5, <2>6, <2>7
<1> QED BY <1>5, <1>7, <1>8, <1>9 DEF AllOnce, D

(* Pieces that are packets of their own are the payload, in the order of   *)
(* their sequences, which leave none out.                                  *)
LEMMA DealCovers ==
  ASSUME sequence \in Nat, NEW len \in Nat, NEW m \in Nat, NEW C, Tiles(C, m, len),
         NEW Q, \A j \in 1..m : Q[j] # {}
  PROVE  /\ AllOnce(Deal(m, C, Q), len)
         /\ {d.sequence : d \in Deal(m, C, Q)} = sequence..(sequence + m - 1)
<1> DEFINE D       == Deal(m, C, Q)
           G(p, j) == Datagram(p, j - 1, 0, 1, C[j])
           f       == [j \in 1..m |-> [sequence |-> sequence + (j - 1), fragment |-> 0,
                                       from |-> C[j].from, to |-> C[j].to]]
<1>1. \A j \in 1..m : \A p \in Q[j] :
        /\ G(p, j).path = p /\ G(p, j).sequence = sequence + (j - 1) /\ G(p, j).fragment = 0
        /\ G(p, j).fragments = 1 /\ G(p, j).from = C[j].from /\ G(p, j).to = C[j].to
  BY DEF Datagram
<1>2. \A d : d \in D <=> \E j \in 1..m : \E p \in Q[j] : d = G(p, j)
  BY DEF Deal
<1>3. \A j \in 1..m : /\ f[j].sequence = sequence + (j - 1) /\ f[j].fragment = 0
                      /\ f[j].from = C[j].from /\ f[j].to = C[j].to
  OBVIOUS
<1>0. \A j \in 1..m : f[j] = [sequence |-> sequence + (j - 1), fragment |-> 0,
                               from |-> C[j].from, to |-> C[j].to]
  OBVIOUS
<1> HIDE DEF D, G, f
<1>4. ASSUME NEW k \in {d.fragments : d \in D} PROVE CoversOnce(PiecesOf(D, k), k, len)
  <2>1. PICK d \in D : d.fragments = k
    OBVIOUS
  <2>2. PICK i \in 1..m : \E p \in Q[i] : d = G(p, i)
    BY <1>2
  <2>3. k = 1
    BY <1>1, <2>1, <2>2
  <2>4. PiecesOf(D, 1) = {f[j] : j \in 1..m}
    <3>1. \A j \in 1..m : \A p \in Q[j] :
            f[j] = [sequence |-> G(p, j).sequence, fragment |-> G(p, j).fragment,
                    from |-> G(p, j).from, to |-> G(p, j).to]
      BY <1>0, <1>1
    <3>2. \A j \in 1..m : \A p \in Q[j] : G(p, j) \in D /\ G(p, j).fragments = 1
      BY <1>1, <1>2, Zenon
    <3> DEFINE piece(e) == [sequence |-> e.sequence, fragment |-> e.fragment,
                            from |-> e.from, to |-> e.to]
    <3>3. ASSUME NEW x \in PiecesOf(D, 1) PROVE x \in {f[j] : j \in 1..m}
      <4>1. PICK e \in D : x = piece(e)
        BY <3>3 DEF PiecesOf
      <4>2. PICK j \in 1..m : \E p \in Q[j] : e = G(p, j)
        BY <1>2
      <4> QED BY <3>1, <4>1, <4>2, Zenon
    <3>4. ASSUME NEW j \in 1..m PROVE f[j] \in PiecesOf(D, 1)
      <4>1. PICK p : p \in Q[j]
        OBVIOUS
      <4>2. G(p, j) \in D /\ G(p, j).fragments = 1 /\ f[j] = piece(G(p, j))
        BY <3>1, <3>2, <4>1, Zenon
      <4> QED BY <4>2, Zenon DEF PiecesOf
    <3> QED BY <3>3, <3>4, Zenon
  <2> DEFINE X == {f[j] : j \in 1..m}
  <2>5. OnceInOrder(X, len)
    <3>1. \A j \in 1..m : /\ f[j].sequence \in Int /\ f[j].fragment \in Int
                          /\ f[j].from = C[j].from /\ f[j].to = C[j].to
      BY <1>3
    <3>2. \A j, l \in 1..m : j < l => Precedes(f[j], f[l])
      BY <1>3 DEF Precedes
    <3>3. X = Members(f, m)
      BY DEF Members
    <3> HIDE DEF X
    <3>4. Numbers(f, C, m)
      BY <3>1, <3>2 DEF Numbers
    <3> QED BY <3>3, <3>4, TilesCoverOnce
  <2>6. {x.fragment : x \in X} = 0..(1 - 1)
    <3>1. \A x \in X : x.fragment = 0
      BY <1>3
    <3>2. f[i] \in X
      OBVIOUS
    <3> HIDE DEF X
    <3>3. {x.fragment : x \in X} = {0}
      BY <3>1, <3>2, Zenon
    <3> QED BY <3>3
  <2>7. 1 <= MaxFragments
    BY PlanAssumption
  <2> QED BY <2>3, <2>4, <2>5, <2>6, <2>7 DEF CoversOnce
<1>5. ASSUME NEW d \in D, NEW e \in D, d # e, d.path = e.path
      PROVE  d.to <= e.from \/ e.to <= d.from
  <2>1. PICK i \in 1..m : \E p \in Q[i] : d = G(p, i)
    BY <1>2
  <2>2. PICK j \in 1..m : \E p \in Q[j] : e = G(p, j)
    BY <1>2
  <2>3. i # j
    BY <1>1, <1>5, <2>1, <2>2
  <2>4. i < j => C[i].to <= C[j].from
    BY DEF Tiles
  <2>5. j < i => C[j].to <= C[i].from
    BY DEF Tiles
  <2>6. d.from = C[i].from /\ d.to = C[i].to
    BY <1>1, <2>1
  <2>7. e.from = C[j].from /\ e.to = C[j].to
    BY <1>1, <2>2
  <2>8. i < j \/ j < i
    BY <2>3
  <2> QED BY <2>4, <2>5, <2>6, <2>7, <2>8
<1>6. {d.sequence : d \in D} = sequence..(sequence + m - 1)
  <2>1. ASSUME NEW d \in D PROVE d.sequence \in sequence..(sequence + m - 1)
    <3>1. PICK j \in 1..m : d.sequence = sequence + (j - 1)
      BY <1>1, <1>2
    <3> QED BY <3>1
  <2>2. ASSUME NEW s \in sequence..(sequence + m - 1) PROVE \E d \in D : d.sequence = s
    <3> DEFINE j == s - sequence + 1
    <3>1. j \in 1..m /\ s = sequence + (j - 1)
      OBVIOUS
    <3> HIDE DEF j
    <3>2. PICK p : p \in Q[j]
      BY <3>1
    <3>3. G(p, j) \in D /\ G(p, j).sequence = sequence + (j - 1)
      BY <1>1, <1>2, <3>1, <3>2, Zenon
    <3> QED BY <3>1, <3>3
  <2> QED BY <2>1, <2>2
<1> QED BY <1>4, <1>5, <1>6 DEF AllOnce, D

(* There is a first piece of anything longer than a piece. *)
LEMMA FirstChunk ==
  ASSUME NEW len \in Nat, NEW size \in Nat \ {0}, len > size
  PROVE  1 \in DOMAIN Chunks(len, size)
<1>1. (len + size - 1) \div size >= 1 /\ (len + size - 1) \div size \in Int
  OBVIOUS
<1> QED BY <1>1 DEF Chunks

(* The first path at which the weighted ranges leave 0 has a range. *)
LEMMA SomeRange ==
  ASSUME NEW len \in Nat, len # 0, NEW n \in Nat \ {0},
         NEW shares, DOMAIN shares = 1..n, Len(shares) = n
  PROVE  \E i \in 1..n : WeightedRanges(len, shares)[i].from # WeightedRanges(len, shares)[i].to
<1> DEFINE E(i) == End(len, shares, i)
           S == {i \in 1..n : E(i) # 0}
           R == WeightedRanges(len, shares)
<1>1. \A i \in 1..n : R[i].from = (IF i = 1 THEN 0 ELSE E(i - 1)) /\ R[i].to = E(i)
  BY DEF WeightedRanges, Between
<1>2. E(n) = len
  BY DEF End
<1> HIDE DEF E, R
<1>3. n \in S /\ S \in SUBSET Nat
  BY <1>2
<1> HIDE DEF S
<1>4. PICK i \in S : \A j \in S : i <= j
  BY <1>3, LeastNatural
<1>5. i \in 1..n /\ E(i) # 0
  BY <1>4 DEF S
<1>6. CASE i = 1
  <2>1. R[i].from = 0 /\ R[i].to = E(i)
    BY <1>1, <1>5, <1>6
  <2> QED BY <1>5, <2>1, Zenon DEF R
<1>7. CASE i # 1
  <2>1. i - 1 \in 1..n /\ ~(i <= i - 1)
    BY <1>5, <1>7
  <2>2. E(i - 1) = 0
    BY <1>4, <2>1 DEF S
  <2>3. R[i].from = E(i - 1) /\ R[i].to = E(i)
    BY <1>1, <1>5, <1>7, Zenon
  <2> QED BY <1>5, <2>2, <2>3, Zenon DEF R
<1> QED BY <1>6, <1>7

(* A packet that is not empty has a range if there is a path to split it   *)
(* over.                                                                   *)
LEMMA FirstPacketRange ==
  ASSUME NEW len \in Nat, len # 0, NEW n \in Nat \ {0},
         NEW shares, DOMAIN shares = 1..n, Len(shares) = n
  PROVE  1 \in DOMAIN PacketRanges(len, shares)
<1>1. shares # << >>
  OBVIOUS
<1>2. CASE ExceedsMtu(len)
  <2>1. 1 \in DOMAIN Chunks(len, Mtu)
    BY <1>2, FirstChunk, PlanAssumption DEF ExceedsMtu
  <2> QED BY <1>1, <1>2, <2>1 DEF PacketRanges, Dealt
<1>3. CASE ~ExceedsMtu(len)
  <2> DEFINE ranges == WeightedRanges(len, shares)
             K == {i \in DOMAIN shares : ranges[i].from # ranges[i].to}
             kept == InOrder(K)
  <2>1. K \in SUBSET (1..n) /\ K # {}
    BY SomeRange
  <2>2. PacketRanges(len, shares)
          = [j \in DOMAIN kept |->
               [path |-> kept[j], from |-> ranges[kept[j]].from, to |-> ranges[kept[j]].to]]
    BY <1>1, <1>3 DEF PacketRanges
  <2> HIDE DEF K
  <2>3. 1 \in DOMAIN kept
    <3>1. Cardinality(K) \in Nat /\ DOMAIN kept = 1..Cardinality(K) /\ Cardinality(K) >= 1
      BY <2>1, InOrderDomain
    <3> QED BY <3>1
  <2> QED BY <2>2, <2>3
<1> QED BY <1>2, <1>3

(* There is a share for each path to split over. *)
LEMMA OneShareEach ==
  ASSUME sender.split \subseteq Paths
  PROVE  /\ Cardinality(sender.split) \in Nat
         /\ sender.split # {} => Cardinality(sender.split) >= 1
         /\ DOMAIN SplitShares = 1..Cardinality(sender.split)
         /\ Len(SplitShares) = Cardinality(sender.split)
<1> DEFINE q == InOrder(sender.split)
           n == Cardinality(sender.split)
<1>1. PathCount \in Nat
  BY PolicyAssumption, PlanAssumption
<1>2. n \in Nat /\ DOMAIN q = 1..n /\ (sender.split # {} => n >= 1)
  BY <1>1, InOrderDomain DEF Paths
<1> HIDE DEF q, n
<1>3. DOMAIN SplitShares = 1..n
  BY <1>2 DEF SplitShares, Shares, q
<1>4. SplitShares = [i \in 1..n |-> SplitShares[i]]
  BY <1>3 DEF SplitShares, Shares
<1>5. Len(SplitShares) = n
  BY <1>2, <1>4
<1> QED BY <1>2, <1>3, <1>5 DEF n

-----------------------------------------------------------------------------
(* The shares. *)

(* A sum of rates is a rate. *)
LEMMA RatesAdd ==
  ASSUME HealthTyped, NEW S \in SUBSET (DOMAIN health)
  PROVE  SumOfRates(health, S) \in Nat
<1> DEFINE q == InOrder(S)
           c == Cardinality(S)
           r == [i \in DOMAIN q |-> health[q[i]].mbps]
<1>1. PathCount \in Nat /\ S \in SUBSET (1..PathCount)
  BY PolicyAssumption, PlanAssumption DEF HealthTyped, Paths
<1>2. c \in Nat /\ DOMAIN q = 1..c /\ \A i \in 1..c : q[i] \in S
  BY <1>1, InOrderDomain, InOrderEnumerates
<1>3. SumOfRates(health, S) = Total(r)
  BY DEF SumOfRates
<1> HIDE DEF q, c
<1>4. \A i \in 1..c : health[q[i]].mbps \in Nat
  BY <1>2 DEF HealthTyped
<1>5. r \in [1..c -> Nat]
  BY <1>2, <1>4
<1> HIDE DEF r
<1> QED BY <1>2, <1>3, <1>5, PrefixSums

(* The best sequence of some paths is a number, if only None. *)
LEMMA BestIsNumber ==
  ASSUME HealthTyped, NEW S
  PROVE  BestSeq(health, S) \in Int
<1> DEFINE K == S \cap DOMAIN health
           f == [p \in K |-> health[p].seq]
           T == {None} \cup {f[p] : p \in K}
<1>1. PathCount \in Nat /\ K \in SUBSET (1..PathCount)
  BY PolicyAssumption, PlanAssumption DEF HealthTyped, Paths
<1>2. \A p \in K : f[p] = health[p].seq /\ f[p] \in Int
  BY DEF HealthTyped, None
<1>3. {f[p] : p \in K} = {health[p].seq : p \in K}
  BY <1>2
<1>4. BestSeq(health, S) = Max(T)
  BY <1>3 DEF BestSeq
<1>5. None \in Int
  BY DEF None
<1> HIDE DEF f, K
<1>6. Max(T) \in T
  BY <1>1, <1>2, <1>5, LargestNumber
<1>7. \A x \in T : x \in Int
  BY <1>2, <1>5
<1> HIDE DEF T
<1> QED BY <1>4, <1>6, <1>7

(* Clamping to naturals makes a natural of any integer. *)
LEMMA Clamped ==
  ASSUME NEW x \in Int, NEW low \in Nat, NEW high \in Nat
  PROVE  Clamp(x, low, high) \in Nat
<1> DEFINE y == Min({x, high})
<1>1. y \in Int
  <2>1. high \in Int
    OBVIOUS
  <2>2. y = IF x <= high THEN x ELSE high
    BY <2>1, OfTwo
  <2> QED BY <2>2
<1> HIDE DEF y
<1>2. Max({low, y}) \in Nat
  BY <1>1, OfTwo
<1> QED BY <1>2 DEF Clamp, y

(* The share that follows the rate is a natural, whatever the rates. *)
LEMMA BlendedTyped ==
  ASSUME HealthTyped, NEW S \in SUBSET (DOMAIN health), NEW p \in S, NEW penalty \in Nat
  PROVE  BlendedShare(health, p, S, penalty) \in Nat
<1> DEFINE sum   == SumOfRates(health, S)
           c     == Cardinality(S)
           x     == (1000 * health[p].mbps * c) \div sum
           ratio == IF sum = 0 THEN 1000 ELSE Clamp(x, 250, 2000)
           y     == ((750 + ratio \div 4) * penalty) \div 1000
<1>1. sum \in Nat
  BY RatesAdd
<1>2. c \in Nat
  <2>1. PathCount \in Nat /\ S \in SUBSET (1..PathCount)
    BY PolicyAssumption, PlanAssumption DEF HealthTyped, Paths
  <2> QED BY <2>1, InOrderDomain
<1>3. health[p].mbps \in Nat
  BY DEF HealthTyped
<1>4. BlendedShare(health, p, S, penalty) = Max({MinShare, y})
  BY DEF BlendedShare
<1> HIDE DEF sum, c
<1>5. sum # 0 => x \in Int
  <2>1. 1000 * health[p].mbps * c \in Int
    BY <1>2, <1>3
  <2> DEFINE z == 1000 * health[p].mbps * c
  <2> HIDE DEF z
  <2>2. z \in Int
    BY <2>1 DEF z
  <2>3. sum # 0 => z \div sum \in Int
    BY <1>1, <2>2
  <2> QED BY <2>3 DEF z
<1> HIDE DEF x
<1>6. ratio \in Nat
  <2>1. ASSUME sum # 0 PROVE Clamp(x, 250, 2000) \in Nat
    <3>1. x \in Int /\ 250 \in Nat /\ 2000 \in Nat
      BY <1>5, <2>1
    <3> QED BY <3>1, Clamped
  <2> QED BY <2>1
<1> HIDE DEF ratio
<1>7. y \in Int
  <2>1. ratio \div 4 \in Int
    BY <1>6
  <2> DEFINE z == (750 + ratio \div 4) * penalty
  <2>2. z \in Int
    BY <2>1
  <2> HIDE DEF z
  <2>3. z \div 1000 \in Int
    BY <2>2
  <2> QED BY <2>3 DEF z
<1> HIDE DEF y
<1>8. Max({MinShare, y}) \in Nat
  BY <1>7, OfTwo DEF MinShare
<1> QED BY <1>4, <1>8

(* So is the share that auto mode gives a path. *)
LEMMA AutoShareTyped ==
  ASSUME HealthTyped, NEW S, NEW p
  PROVE  AutoShare(health, failed, p, S) \in Nat
<1> DEFINE F    == Fresh(health, S \ failed)
           best == BestSeq(health, S)
<1>1. CASE p \in F
  <2>1. F \in SUBSET (DOMAIN health) /\ p \in DOMAIN health
    BY <1>1 DEF Fresh
  <2>2. best \in Int
    BY BestIsNumber
  <2>3. AutoShare(health, failed, p, S)
          = BlendedShare(health, p, F, LagPenalty(health, p, best))
    BY <1>1 DEF AutoShare
  <2> HIDE DEF F, best
  <2>4. LagPenalty(health, p, best) \in Nat
    <3>1. CASE health[p].seq = None
      BY <3>1 DEF LagPenalty
    <3>2. CASE health[p].seq # None
      <4> DEFINE lag == 1000 * (best - health[p].seq)
                 x   == 1000 - lag \div DegradeLag
      <4>1. health[p].seq \in Nat
        BY <2>1, <3>2 DEF HealthTyped
      <4>2. lag \in Int
        BY <2>2, <4>1
      <4> HIDE DEF lag
      <4>3. x \in Int
        <5>1. lag \div DegradeLag \in Int
          BY <4>2, PlanAssumption
        <5> QED BY <5>1
      <4>4. LagPenalty(health, p, best) = Clamp(x, 350, 1000)
        BY <3>2 DEF LagPenalty, lag
      <4> HIDE DEF x
      <4> QED BY <4>3, <4>4, Clamped
    <3> QED BY <3>1, <3>2
  <2> QED BY <1>1, <2>1, <2>3, <2>4, BlendedTyped
<1>2. CASE p \notin F
  BY <1>2 DEF AutoShare, MinShare
<1> QED BY <1>1, <1>2

(* And so is the share of each path to split over, in every mode. *)
LEMMA SharesTyped ==
  ASSUME HealthTyped, sender.split \subseteq Paths
  PROVE  SplitShares \in [1..Cardinality(sender.split) -> Nat]
<1> DEFINE q == InOrder(sender.split)
           n == Cardinality(sender.split)
           b == mode = "auto" /\ weighted
<1>1. DOMAIN q = 1..n
  <2>1. PathCount \in Nat /\ sender.split \in SUBSET (1..PathCount)
    BY PolicyAssumption, PlanAssumption DEF Paths
  <2> HIDE DEF q, n
  <2> QED BY <2>1, InOrderDomain DEF q, n
<1>2. SplitShares = [i \in DOMAIN q |->
                       IF q[i] \in failed THEN 0
                       ELSE IF b THEN AutoShare(health, failed, q[i], Range(q))
                       ELSE 1]
  BY DEF SplitShares, Shares
<1> HIDE DEF q, n, b
<1>3. \A i \in DOMAIN q : AutoShare(health, failed, q[i], Range(q)) \in Nat
  BY AutoShareTyped
<1> QED BY <1>1, <1>2, <1>3 DEF n

-----------------------------------------------------------------------------
(* The datagrams of a payload. *)

(* A payload within the MTU goes whole to every active path that is not    *)
(* relied on in auto mode.                                                 *)
LEMMA RescueIsSent ==
  ASSUME ReadAll, sender.mode = "auto", sender.effective \in {"split", "redundant"},
         ~Chunked(sender.payload), ~ExceedsMtu(sender.payload.len),
         NEW p \in sender.active, p \notin sender.healthy
  PROVE  \E d \in Datagrams : d.path = p /\ Whole(d)
<1> DEFINE d == Datagram(p, 0, 0, 1, Between(0, sender.payload.len))
<1>1. d.path = p /\ Whole(d)
  BY DEF Datagram, Between, Whole
<1>2. p \in sender.rescue
  BY DEF ReadAll, ReadFirst
<1>3. ~TooManyFragments(sender.payload.len)
  BY DEF TooManyFragments
<1>4. CASE Splits
  <2>1. d \in SplitDatagrams
    BY <1>2, <1>3 DEF SplitDatagrams
  <2>2. Datagrams = SplitDatagrams
    BY <1>4 DEF Datagrams
  <2> QED BY <1>1, <2>1, <2>2
<1>5. CASE ~Splits
  <2>1. d \in WholeDatagrams
    BY DEF WholeDatagrams
  <2>2. Datagrams = WholeDatagrams
    BY <1>5 DEF Datagrams
  <2> QED BY <1>1, <2>1, <2>2
<1> QED BY <1>4, <1>5

(* A chunked payload goes out on some path, unless it is to be split and   *)
(* there is no path to split over.                                         *)
LEMMA ChunksAreSent ==
  ASSUME ReadAll, Chunked(sender.payload),
         sender.split # {} \/ sender.effective = "roundrobin"
           \/ "redundant" \in {sender.effective, sender.mode}
  PROVE  ChunkDatagrams # {}
<1> DEFINE chunks   == Chunks(sender.payload.len, ChunkBytes)
           dealt    == Dealt(chunks, SplitShares)
           paths(j) == IF sender.effective = "roundrobin" THEN {Rotated(j - 1)}
                       ELSE IF "redundant" \in {sender.effective, sender.mode} THEN sender.active
                       ELSE {InOrder(sender.split)[dealt[j].path]}
<1>1. 1 \in DOMAIN chunks
  BY FirstChunk, PlanAssumption, PolicyAssumption DEF ReadAll, ReadFirst, Chunked
<1>2. paths(1) # {}
  BY DEF ReadAll, ReadFirst
<1>3. ChunkDatagrams = UNION {{Datagram(p, j - 1, 0, 1, chunks[j]) : p \in paths(j)} :
                                j \in DOMAIN chunks}
  BY DEF ChunkDatagrams
<1> HIDE DEF chunks, paths
<1>4. PICK p : p \in paths(1)
  BY <1>2
<1>5. Datagram(p, 1 - 1, 0, 1, chunks[1]) \in ChunkDatagrams
  BY <1>1, <1>3, <1>4
<1> QED BY <1>5

(* No datagrams are made of a payload only for the reasons that            *)
(* NothingDropped gives.                                                   *)
LEMMA SomethingIsSent ==
  ASSUME ReadAll, Datagrams = {}
  PROVE  \/ TooManyFragments(sender.payload.len)
         \/ sender.payload.len = 0
         \/ /\ ExceedsMtu(sender.payload.len) \/ Chunked(sender.payload)
            /\ sender.split = {}
            /\ \/ sender.mode = "auto" /\ sender.effective = "split"
               \/ sender.healthy = Paths
<1> DEFINE len == sender.payload.len
           n   == Cardinality(sender.split)
           ranges == PacketRanges(len, SplitShares)
<1>1. /\ len \in Nat
      /\ sender.active # {}
      /\ \/ sender.mode = "auto" /\ sender.effective = "split"
         \/ sender.healthy = Paths
      /\ sender.split \subseteq Paths
  BY PolicyAssumption DEF ReadAll, ReadFirst
<1>2. n \in Nat /\ (sender.split # {} => n >= 1)
      /\ DOMAIN SplitShares = 1..n /\ Len(SplitShares) = n
  BY <1>1, OneShareEach
<1>3. CASE Chunked(sender.payload)
  BY <1>1, <1>3, ChunksAreSent DEF Datagrams
<1>4. CASE ~Chunked(sender.payload) /\ Splits /\ ~TooManyFragments(len) /\ len # 0
  <2>1. SplitDatagrams = {}
    BY <1>4 DEF Datagrams
  <2>2. 1 \notin DOMAIN ranges
    <3>1. ASSUME 1 \in DOMAIN ranges PROVE FALSE
      <4>1. Datagram(InOrder(sender.split)[ranges[1].path], 0, 1 - 1, Len(ranges), ranges[1])
              \in SplitDatagrams
        BY <1>4, <3>1 DEF SplitDatagrams
      <4> QED BY <2>1, <4>1
    <3> QED BY <3>1
  <2>3. n = 0
    BY <1>1, <1>2, <1>4, <2>2, FirstPacketRange
  <2>4. sender.split = {}
    BY <1>2, <2>3
  <2>5. ExceedsMtu(len)
    BY <1>4, <2>3 DEF Splits, ShouldSplit
  <2> QED BY <1>1, <2>4, <2>5
<1>5. CASE ~Chunked(sender.payload) /\ ~Splits
  <2>1. WholeDatagrams = {}
    BY <1>5 DEF Datagrams
  <2>2. WholeDatagrams # {}
    BY <1>1 DEF WholeDatagrams
  <2> QED BY <2>1, <2>2
<1> QED BY <1>3, <1>4, <1>5

(* The chunks of a payload are the payload. *)
LEMMA ChunksOnce ==
  ASSUME sequence \in Nat, ReadAll, Chunked(sender.payload)
  PROVE  /\ AllOnce(ChunkDatagrams, sender.payload.len)
         /\ \E m \in Nat : {d.sequence : d \in ChunkDatagrams} = sequence..(sequence + m - 1)
<1> DEFINE len      == sender.payload.len
           C        == Chunks(len, ChunkBytes)
           m        == Len(C)
           dealt    == Dealt(C, SplitShares)
           paths(j) == IF sender.effective = "roundrobin" THEN {Rotated(j - 1)}
                       ELSE IF "redundant" \in {sender.effective, sender.mode} THEN sender.active
                       ELSE {InOrder(sender.split)[dealt[j].path]}
           Q        == [j \in 1..m |-> paths(j)]
<1>1. len \in Nat /\ sender.active # {}
  BY PolicyAssumption DEF ReadAll, ReadFirst
<1>2. m \in Nat /\ DOMAIN C = 1..m /\ Tiles(C, m, len)
  BY <1>1, ChunkTiles, PlanAssumption
<1>3. CASE ChunkDatagrams = {}
  <2>1. AllOnce(ChunkDatagrams, len)
    BY <1>3 DEF AllOnce
  <2>2. sequence..(sequence + 0 - 1) = {}
    OBVIOUS
  <2>3. {d.sequence : d \in ChunkDatagrams} = {}
    BY <1>3
  <2> QED BY <2>1, <2>2, <2>3
<1>4. CASE ChunkDatagrams # {}
  <2>1. ChunkDatagrams = UNION {{Datagram(p, j - 1, 0, 1, C[j]) : p \in paths(j)} : j \in DOMAIN C}
    BY <1>4 DEF ChunkDatagrams
  <2>2. \A j \in 1..m : paths(j) # {}
    BY <1>1
  <2> HIDE DEF paths, C, m
  <2>3. \A j \in 1..m : Q[j] = paths(j) /\ Q[j] # {}
    BY <2>2
  <2> HIDE DEF Q
  <2>4. ChunkDatagrams = Deal(m, C, Q)
    BY <1>2, <2>1, <2>3 DEF Deal
  <2>5. /\ AllOnce(Deal(m, C, Q), len)
        /\ {d.sequence : d \in Deal(m, C, Q)} = sequence..(sequence + m - 1)
    BY <1>1, <1>2, <2>3, DealCovers
  <2> QED BY <1>2, <2>4, <2>5
<1> QED BY <1>3, <1>4

(* The fragments of a packet that splits are the packet. *)
LEMMA FragmentsOnce ==
  ASSUME HealthTyped, sequence \in Nat, ReadAll, ~Chunked(sender.payload), Splits
  PROVE  /\ AllOnce(SplitDatagrams, sender.payload.len)
         /\ \A d \in SplitDatagrams : d.sequence = sequence /\ d.to - d.from <= Mtu
<1> DEFINE len == sender.payload.len
           q   == InOrder(sender.split)
           n   == Cardinality(sender.split)
           R   == PacketRanges(len, SplitShares)
           m   == Len(R)
           P   == IF ExceedsMtu(len) THEN {} ELSE sender.rescue
           g   == [i \in 1..m |-> q[R[i].path]]
<1>1. len \in Nat /\ sender.split \subseteq Paths
  BY PolicyAssumption DEF ReadAll, ReadFirst
<1>2. /\ n \in Nat /\ n <= MaxFragments
      /\ \A i \in 1..n : q[i] \in sender.split
  <2>1. PathCount \in Nat /\ PathCount <= MaxFragments /\ sender.split \in SUBSET (1..PathCount)
    BY <1>1, PolicyAssumption, PlanAssumption DEF Paths
  <2>2. n <= PathCount /\ n \in Nat /\ \A i \in 1..n : q[i] \in sender.split
    BY <2>1, InOrderDomain, InOrderEnumerates
  <2> QED BY <2>1, <2>2, PlanAssumption
<1>3. SplitShares \in [1..n -> Nat]
  BY <1>1, SharesTyped
<1> HIDE DEF n, q
<1>4. CASE TooManyFragments(len)
  <2>1. SplitDatagrams = {}
    BY <1>4 DEF SplitDatagrams
  <2> QED BY <2>1 DEF AllOnce
<1>5. CASE ~TooManyFragments(len)
  <2>1. /\ m \in Nat /\ m <= MaxFragments /\ DOMAIN R = 1..m
        /\ m = 0 \/ Tiles(R, m, len)
        /\ \A i \in 1..m : R[i].to - R[i].from <= Mtu
        /\ ~ExceedsMtu(len) => \A i \in 1..m : R[i].path \in 1..n
    <3>1. CASE n = 0
      <4>1. SplitShares = << >>
        BY <1>3, <3>1
      <4>2. R = << >>
        BY <4>1 DEF PacketRanges
      <4> HIDE DEF R
      <4>3. m = 0 /\ DOMAIN R = 1..0
        BY <4>2
      <4> HIDE DEF m
      <4> QED BY <4>3, PlanAssumption
    <3>2. CASE n # 0
      <4>1. n \in Nat \ {0}
        BY <1>2, <3>2
      <4> QED BY <1>1, <1>2, <1>3, <1>5, <4>1, PacketTiles
    <3> QED BY <3>1, <3>2
  <2>2. SplitDatagrams
          = {Datagram(q[R[i].path], 0, i - 1, m, R[i]) : i \in DOMAIN R}
            \cup {Datagram(p, 0, 0, 1, Between(0, len)) : p \in P}
    BY <1>5 DEF SplitDatagrams, q
  <2> HIDE DEF R, m
  <2>3. \A i \in 1..m : g[i] = q[R[i].path]
    OBVIOUS
  <2>4. ASSUME NEW i \in 1..m PROVE g[i] \notin P
    <3>1. CASE ExceedsMtu(len)
      BY <3>1
    <3>2. CASE ~ExceedsMtu(len)
      <4>1. n > 1
        BY <3>2 DEF Splits, ShouldSplit, n
      <4>2. sender.split \cap sender.rescue = {}
        BY <1>2, <4>1 DEF ReadAll, n
      <4>3. g[i] \in sender.split
        BY <1>2, <2>1, <2>3, <3>2
      <4> QED BY <4>2, <4>3
    <3> QED BY <3>1, <3>2
  <2> HIDE DEF g, P
  <2>5. SplitDatagrams = Plan(m, R, g, P, len)
    BY <2>1, <2>2, <2>3 DEF Plan
  <2>6. AllOnce(Plan(m, R, g, P, len), len) /\ \A d \in Plan(m, R, g, P, len) : d.sequence = sequence
    BY <1>1, <2>1, <2>4, PlanCovers
  <2>7. ASSUME NEW d \in SplitDatagrams PROVE d.to - d.from <= Mtu
    <3>1. CASE \E i \in 1..m : d = Datagram(q[R[i].path], 0, i - 1, m, R[i])
      BY <2>1, <3>1 DEF Datagram
    <3>2. CASE \E p \in P : d = Datagram(p, 0, 0, 1, Between(0, len))
      <4>1. len <= Mtu
        BY <1>1, <3>2, PlanAssumption DEF P, ExceedsMtu
      <4>2. d.from = 0 /\ d.to = len
        BY <3>2 DEF Datagram, Between
      <4> QED BY <1>1, <4>1, <4>2
    <3> QED BY <2>1, <2>2, <3>1, <3>2
  <2> QED BY <2>5, <2>6, <2>7
<1> QED BY <1>4, <1>5

(* A packet that does not split is within the MTU. *)
LEMMA WholeOnce ==
  ASSUME sequence \in Nat, ReadAll, ~Splits
  PROVE  /\ AllOnce(WholeDatagrams, sender.payload.len)
         /\ \A d \in WholeDatagrams : d.sequence = sequence /\ d.to - d.from <= Mtu
<1> DEFINE len == sender.payload.len
           P   == IF sender.effective = "roundrobin" THEN {Rotated(0)} ELSE sender.active
<1>1. len \in Nat
  BY PolicyAssumption DEF ReadAll, ReadFirst
<1>2. len <= Mtu
  BY <1>1, PlanAssumption DEF Splits, ShouldSplit, ExceedsMtu
<1>3. WholeDatagrams = {Datagram(p, 0, 0, 1, Between(0, len)) : p \in P}
  BY DEF WholeDatagrams
<1> HIDE DEF P
<1>4. WholeDatagrams = Plan(0, << >>, << >>, P, len)
  <2>1. 1..0 = {}
    OBVIOUS
  <2> QED BY <1>3, <2>1 DEF Plan
<1>5. /\ AllOnce(Plan(0, << >>, << >>, P, len), len)
      /\ \A d \in Plan(0, << >>, << >>, P, len) : d.sequence = sequence
  <2>1. 0 \in Nat /\ 0 <= MaxFragments /\ \A i \in 1..0 : << >>[i] \notin P
    BY PlanAssumption
  <2> QED BY <1>1, <2>1, PlanCovers
<1>6. ASSUME NEW d \in WholeDatagrams PROVE d.to - d.from <= Mtu
  <2>1. d.from = 0 /\ d.to = len
    BY <1>3 DEF Datagram, Between
  <2> QED BY <1>1, <1>2, <2>1
<1> QED BY <1>4, <1>5, <1>6

(* What goes out of one payload is the whole of it, each byte once, and it *)
(* takes the sequences that it goes out under.                             *)
LEMMA EverythingOnce ==
  ASSUME HealthTyped, sequence \in Nat, ReadAll,
         NEW taken, taken = {d.sequence : d \in Datagrams}
  PROVE  /\ AllOnce(Datagrams, sender.payload.len)
         /\ Chunked(sender.payload) \/ \A d \in Datagrams : d.to - d.from <= Mtu
         /\ SequencesTaken(Datagrams) \in Nat
         /\ LET last == sequence + SequencesTaken(Datagrams)
            IN  taken = (last - Cardinality(taken))..(last - 1)
<1>1. CASE Chunked(sender.payload)
  <2>1. Datagrams = ChunkDatagrams
    BY <1>1 DEF Datagrams
  <2>2. PICK m \in Nat : taken = sequence..(sequence + m - 1)
    BY <1>1, <2>1, ChunksOnce
  <2>3. Cardinality(taken) = m
    <3>1. sequence \in Int /\ sequence + m - 1 \in Int
      OBVIOUS
    <3>2. Cardinality(sequence..(sequence + m - 1))
            = IF sequence > sequence + m - 1 THEN 0 ELSE (sequence + m - 1) - sequence + 1
      BY <3>1, FS_Interval
    <3>3. (IF sequence > sequence + m - 1 THEN 0 ELSE (sequence + m - 1) - sequence + 1) = m
      OBVIOUS
    <3> QED BY <2>2, <3>2, <3>3, Zenon
  <2>4. SequencesTaken(Datagrams) = m
    BY <1>1, <2>3 DEF SequencesTaken
  <2>5. (sequence + m) - m = sequence
    OBVIOUS
  <2>6. taken = ((sequence + m) - Cardinality(taken))..((sequence + m) - 1)
    <3> DEFINE first == (sequence + m) - Cardinality(taken)
               last  == (sequence + m) - 1
    <3>1. first = sequence /\ last = sequence + m - 1
      BY <2>3, <2>5
    <3> HIDE DEF first, last
    <3>2. taken = first..last
      BY <2>2, <3>1
    <3> QED BY <3>2 DEF first, last
  <2>7. AllOnce(Datagrams, sender.payload.len)
    BY <1>1, <2>1, ChunksOnce
  <2> QED BY <1>1, <2>4, <2>6, <2>7
<1>2. CASE ~Chunked(sender.payload)
  <2>1. /\ AllOnce(Datagrams, sender.payload.len)
        /\ \A d \in Datagrams : d.sequence = sequence /\ d.to - d.from <= Mtu
    <3>1. CASE Splits
      <4>1. Datagrams = SplitDatagrams
        BY <1>2, <3>1 DEF Datagrams
      <4> QED BY <1>2, <3>1, <4>1, FragmentsOnce
    <3>2. CASE ~Splits
      <4>1. Datagrams = WholeDatagrams
        BY <1>2, <3>2 DEF Datagrams
      <4> QED BY <3>2, <4>1, WholeOnce
    <3> QED BY <3>1, <3>2
  <2>2. SequencesTaken(Datagrams) = 1
    BY <1>2 DEF SequencesTaken
  <2> DEFINE last == sequence + 1
  <2>3. taken = (last - Cardinality(taken))..(last - 1)
    <3>1. CASE Datagrams = {}
      <4>1. taken = {}
        BY <3>1
      <4>2. Cardinality(taken) = 0
        BY <4>1, FS_EmptySet
      <4>3. (last - 0)..(last - 1) = {}
        OBVIOUS
      <4> QED BY <4>1, <4>2, <4>3
    <3>2. CASE Datagrams # {}
      <4>1. taken = {sequence}
        BY <2>1, <3>2
      <4>2. Cardinality(taken) = 1
        BY <4>1, FS_Singleton
      <4>3. (last - 1)..(last - 1) = {sequence}
        OBVIOUS
      <4> QED BY <4>1, <4>2, <4>3
    <3> QED BY <3>1, <3>2
  <2> QED BY <2>1, <2>2, <2>3
<1> QED BY <1>1, <1>2

-----------------------------------------------------------------------------
(* The invariant. *)

(* The loop and the other tasks leave what the sender has read alone. *)
LEMMA SameSender ==
  ASSUME SenderInv, sender' = sender, sent' = sent, sequence' = sequence
  PROVE  SenderInv'
<1>1. EveryByteOnce => EveryByteOnce'
  BY DEF EveryByteOnce, Done, Pieces, Precedes
<1> QED BY <1>1 DEF SenderInv, ReadFirst, ReadAll, RescueCovers, NothingDropped, Done, Whole

(* Reports and their age leave the health typed. *)
LEMMA HealthStep ==
  ASSUME HealthTyped, [Next]_policyVars
  PROVE  HealthTyped'
<1>1. ASSUME NEW r \in Reports, Report(r) PROVE HealthTyped'
  <2>1. DOMAIN r \subseteq Paths
        /\ \A p \in DOMAIN r : r[p].seq \in Nat \cup {None} /\ r[p].mbps \in Nat
    BY PolicyAssumption
  <2>2. health' = [p \in DOMAIN health \cup DOMAIN r |->
                     IF p \in DOMAIN r
                     THEN [seq |-> r[p].seq, mbps |-> r[p].mbps, fresh |-> TRUE]
                     ELSE health[p]]
    BY <1>1 DEF Report
  <2>3. DOMAIN health' = DOMAIN health \cup DOMAIN r
    BY <2>2
  <2>4. ASSUME NEW p \in DOMAIN health'
        PROVE  health'[p] \in [seq : Nat \cup {None}, mbps : Nat, fresh : BOOLEAN]
    <3>1. CASE p \in DOMAIN r
      BY <2>1, <2>2, <2>3, <3>1
    <3>2. CASE p \notin DOMAIN r
      BY <2>2, <2>3, <3>2 DEF HealthTyped
    <3> QED BY <3>1, <3>2
  <2> QED BY <2>1, <2>3, <2>4 DEF HealthTyped
<1>2. ASSUME NEW p \in Paths, GrowStale(p) PROVE HealthTyped'
  BY <1>2 DEF GrowStale, HealthTyped, Fresh
<1>3. CASE UNCHANGED health
  BY <1>3 DEF HealthTyped
<1>4. CASE OtherTask
  BY <1>1, <1>2, <1>3, <1>4
  DEF OtherTask, Connection, RecordFailure, RecordSuccess, SetMode, ToggleWeighted, Backlog
<1>5. ASSUME NEW x \in Payloads, Ingest(x) PROVE UNCHANGED health
  BY <1>5 DEF Ingest, shared
<1>6. CASE ReadStrategy
  BY <1>3, <1>6 DEF ReadStrategy, shared
<1>7. CASE SendDatagrams
  BY <1>3, <1>7 DEF SendDatagrams, SendOnPaths
<1>8. CASE StrategyLoop
  BY <1>3, <1>8 DEF StrategyLoop, LoopSamples, LoopDegrades, LoopDecides, LoopSplits, shared
<1>9. CASE UNCHANGED policyVars
  BY <1>3, <1>9 DEF policyVars, shared
<1> QED BY <1>3, <1>4, <1>5, <1>6, <1>7, <1>8, <1>9 DEF Next

(* Every step keeps the types of the shared state. *)
LEMMA SharedStep ==
  ASSUME SharedTyped, [Next]_policyVars
  PROVE  SharedTyped'
<1> DEFINE Typed == /\ connected \subseteq Paths
                    /\ mode \in {"auto", "redundant", "split", "roundrobin"}
                    /\ stored \in {"split", "redundant"}
<1>0. HealthTyped' /\ Typed /\ (HealthTyped' /\ Typed' => SharedTyped')
  BY HealthStep DEF SharedTyped
<1> USE DEF Degraded
<1>1. CASE OtherTask
  BY <1>0, <1>1, PolicyAssumption
  DEF OtherTask, Report, GrowStale, Connection, RecordFailure, RecordSuccess, SetMode,
      ToggleWeighted, Backlog
<1>2. ASSUME NEW x \in Payloads, Ingest(x) PROVE SharedTyped'
  BY <1>0, <1>2 DEF Ingest, shared
<1>3. CASE ReadStrategy
  BY <1>0, <1>3 DEF ReadStrategy, shared
<1>4. CASE SendDatagrams
  BY <1>0, <1>4 DEF SendDatagrams, SendOnPaths
<1>5. CASE StrategyLoop
  BY <1>0, <1>5 DEF StrategyLoop, LoopSamples, LoopDegrades, LoopDecides, LoopSplits, shared
<1>6. CASE UNCHANGED policyVars
  BY <1>0, <1>6 DEF policyVars, shared
<1> QED BY <1>1, <1>2, <1>3, <1>4, <1>5, <1>6 DEF Next

(* What the sender reads second agrees with what it read first. *)
LEMMA StrategyRead ==
  ASSUME SharedTyped, sender.step = "strategy", ReadFirst, ReadStrategy
  PROVE  sender'.step = "send" /\ ReadAll'
<1> DEFINE groups == Groups(sender.mode, Effective)
           active == IF Chunked(sender.payload) THEN sender.active ELSE connected
<1>1. sender' = [ step      |-> "send",
                  payload   |-> sender.payload,
                  active    |-> sender.active,
                  mode      |-> sender.mode,
                  effective |-> Effective,
                  healthy   |-> groups.split,
                  split     |-> groups.split \cap active,
                  rescue    |-> groups.rescue \cap sender.active ]
  BY DEF ReadStrategy
<1>2. Effective \in {"split", "redundant", "roundrobin"}
  BY DEF SharedTyped, Effective
<1>3. CASE sender.mode = "auto" /\ Effective = "split"
  <2>1. groups = AutoPathGroups(health, failed, Paths)
    BY <1>3 DEF Groups
  <2>2. Paths \subseteq groups.split \cup groups.rescue
    BY <2>1 DEF AutoPathGroups
  <2> HIDE DEF groups
  <2>3. groups.split \cap active \subseteq Paths
    BY DEF ReadFirst, SharedTyped
  <2>4. \/ (groups.split \cap active) \cap (groups.rescue \cap sender.active) = {}
        \/ Cardinality(groups.split \cap active) <= 1
    <3> DEFINE candidates == Paths \ failed
    <3>1. CASE Cardinality(candidates) < 2
      <4>1. groups.split = candidates
        BY <2>1, <3>1 DEF AutoPathGroups
      <4>2. IsFiniteSet(candidates)
        <5>1. PathCount \in Int
          BY PolicyAssumption, PlanAssumption
        <5>2. IsFiniteSet(1..PathCount)
          BY <5>1, FS_Interval
        <5> QED BY <5>2, FS_Subset DEF Paths
      <4> DEFINE T == groups.split \cap active
      <4>3. T \in SUBSET candidates
        BY <4>1
      <4> HIDE DEF T, candidates
      <4>4. Cardinality(T) <= Cardinality(candidates) /\ IsFiniteSet(T)
        BY <4>2, <4>3, FS_Subset
      <4>5. Cardinality(T) \in Nat /\ Cardinality(candidates) \in Nat
        BY <4>2, <4>4, FS_CardinalityType
      <4>6. Cardinality(T) <= 1
        BY <3>1, <4>4, <4>5
      <4> QED BY <4>6 DEF T
    <3>2. CASE ~(Cardinality(candidates) < 2)
      <4>1. groups.rescue = Paths \ groups.split
        BY <2>1, <3>2 DEF AutoPathGroups
      <4> QED BY <4>1
    <3> QED BY <3>1, <3>2
  <2> QED BY <1>1, <1>2, <1>3, <2>2, <2>3, <2>4 DEF ReadFirst, ReadAll
<1>4. CASE ~(sender.mode = "auto" /\ Effective = "split")
  <2>1. groups.split = Paths /\ groups.rescue = {}
    BY <1>4 DEF Groups
  <2> HIDE DEF groups
  <2> QED BY <1>1, <1>2, <1>4, <2>1 DEF ReadFirst, ReadAll
<1> QED BY <1>3, <1>4

(* What is sent covers the rescue paths, is not nothing, and is the        *)
(* payload.                                                                *)
LEMMA DatagramsSent ==
  ASSUME HealthTyped, sequence \in Nat, ReadAll,
         sender' = [sender EXCEPT !.step = "idle"], sent' = Datagrams,
         sequence' = sequence + SequencesTaken(Datagrams)
  PROVE  /\ sequence' \in Nat
         /\ sender'.step = "idle" /\ ReadAll'
         /\ RescueCovers' /\ NothingDropped' /\ EveryByteOnce'
<1>1. /\ DOMAIN sender' = DOMAIN sender /\ sender'.step = "idle"
      /\ sender'.payload = sender.payload /\ sender'.active = sender.active
      /\ sender'.mode = sender.mode /\ sender'.effective = sender.effective
      /\ sender'.healthy = sender.healthy /\ sender'.split = sender.split
      /\ sender'.rescue = sender.rescue
  BY DEF ReadAll
<1>2. ReadAll'
  BY <1>1 DEF ReadAll, ReadFirst
<1>3. RescueCovers'
  <2> SUFFICES ASSUME sender.mode = "auto", sender.effective \in {"split", "redundant"},
                      ~Chunked(sender.payload), ~ExceedsMtu(sender.payload.len),
                      NEW p \in sender.active, p \notin sender.healthy
               PROVE  \E d \in Datagrams : d.path = p /\ Whole(d)
    BY <1>1 DEF RescueCovers, Whole
  <2> QED BY RescueIsSent
<1>4. NothingDropped'
  BY <1>1, SomethingIsSent DEF NothingDropped
<1> DEFINE taken == {d.sequence : d \in Datagrams}
           len   == sender.payload.len
<1>5. /\ AllOnce(Datagrams, len)
      /\ Chunked(sender.payload) \/ \A d \in Datagrams : d.to - d.from <= Mtu
      /\ SequencesTaken(Datagrams) \in Nat
      /\ taken = (sequence' - Cardinality(taken))..(sequence' - 1)
  BY EverythingOnce
<1>6. sequence' \in Nat
  BY <1>5
<1>7. EveryByteOnce'
  <2>1. \A k : Pieces(k)' = PiecesOf(Datagrams, k)
    BY DEF Pieces, PiecesOf
  <2>2. \A k \in {d.fragments : d \in Datagrams} :
          /\ k <= MaxFragments
          /\ {x.fragment : x \in PiecesOf(Datagrams, k)} = 0..(k - 1)
          /\ \A b \in 0..(len - 1) :
               Cardinality({x \in PiecesOf(Datagrams, k) : x.from <= b /\ b < x.to}) = 1
          /\ \A x, y \in PiecesOf(Datagrams, k) : Precedes(x, y) => x.to <= y.from
    BY <1>5 DEF AllOnce, CoversOnce, OnceInOrder
  <2>3. \A d, e \in Datagrams : d # e /\ d.path = e.path => d.to <= e.from \/ e.to <= d.from
    BY <1>5 DEF AllOnce
  <2> HIDE DEF taken
  <2>4. EveryByteOnce'
    <3>1. sender'.payload = sender.payload
      BY <1>1
    <3>2. taken = {d.sequence : d \in sent'}
      BY DEF taken
    <3> QED BY <1>5, <2>1, <2>2, <2>3, <3>1, <3>2 DEF EveryByteOnce, Precedes
  <2> QED BY <2>4
<1> QED BY <1>1, <1>2, <1>3, <1>4, <1>6, <1>7

(* Whatever the others do in between, each step of the sender rests on     *)
(* what it read before.                                                    *)
LEMMA SenderStep ==
  ASSUME PolicyInv, [Next]_policyVars
  PROVE  sequence' \in Nat /\ SenderInv'
<1>1. CASE OtherTask \/ StrategyLoop \/ UNCHANGED policyVars
  BY <1>1, SameSender
  DEF PolicyInv, OtherTask, StrategyLoop, LoopSamples, LoopDegrades, LoopDecides, LoopSplits,
      senderVars, policyVars
<1>2. ASSUME NEW x \in Payloads, Ingest(x) PROVE sequence' \in Nat /\ SenderInv'
  <2>1. CASE connected = {}
    BY <1>2, <2>1 DEF Ingest, SenderInv, PolicyInv
  <2>2. CASE connected # {}
    <3>1. /\ sender' = [step |-> "strategy", payload |-> x, active |-> connected, mode |-> mode]
          /\ sequence' = sequence
      BY <1>2, <2>2 DEF Ingest
    <3> QED BY <2>2, <3>1 DEF SenderInv, ReadFirst, PolicyInv, SharedTyped
  <2> QED BY <2>1, <2>2
<1>3. CASE ReadStrategy
  <2>1. sender.step = "strategy" /\ ReadFirst
    BY <1>3 DEF ReadStrategy, PolicyInv, SenderInv, Idle
  <2>2. sequence' = sequence
    BY <1>3 DEF ReadStrategy
  <2> QED BY <1>3, <2>1, <2>2, StrategyRead DEF PolicyInv, SenderInv
<1>4. CASE SendDatagrams
  <2>1. /\ sender' = [sender EXCEPT !.step = "idle"] /\ sent' = Datagrams
        /\ sequence' = sequence + SequencesTaken(Datagrams)
    BY <1>4 DEF SendDatagrams, SendOnPaths
  <2>2. ReadAll
    BY <1>4 DEF SendDatagrams, PolicyInv, SenderInv, Idle
  <2> QED BY <2>1, <2>2, DatagramsSent DEF SenderInv, PolicyInv, SharedTyped
<1> QED BY <1>1, <1>2, <1>3, <1>4 DEF Next

(* The invariant holds throughout. *)
LEMMA PolicyHolds == Spec => []PolicyInv
<1>1. Init => PolicyInv
  BY DEF Init, PolicyInv, SharedTyped, HealthTyped, SenderInv
<1>2. PolicyInv /\ [Next]_policyVars => PolicyInv'
  BY SharedStep, SenderStep DEF PolicyInv
<1> QED BY <1>1, <1>2, PTL DEF Spec

-----------------------------------------------------------------------------
(* The theorems. *)

(* In auto mode a path that is not known to be healthy is never relied on: *)
(* it carries a payload within the MTU whole, or not at all if it had lost *)
(* its connection when the payload came in.                                *)
THEOREM RescuePathsCovered == Spec => []RescueCovers
<1>1. PolicyInv => RescueCovers
  BY DEF PolicyInv, SenderInv, RescueCovers, Done
<1> QED BY <1>1, PolicyHolds, PTL

(* Whatever other tasks change while a payload is being sent, what goes    *)
(* out of it under any fragment count is the whole payload: every byte is  *)
(* in exactly one piece, in the order of sequences and fragments, in no    *)
(* more fragments than a header can count and none above the MTU; no path  *)
(* gets a byte twice; and the sequences used are those just taken.         *)
THEOREM PayloadsSentOnce == Spec => []EveryByteOnce
<1>1. PolicyInv => EveryByteOnce
  BY DEF PolicyInv, SenderInv, EveryByteOnce, Done
<1> QED BY <1>1, PolicyHolds, PTL

(* A payload that finds a path is sent on one, but for three cases: it     *)
(* needs more fragments than a header can count; it is empty and cut to    *)
(* pieces; or it must be cut or chunked, and auto mode has no healthy path *)
(* to split over, or every path lost its connection meanwhile.             *)
THEOREM PayloadsNotDropped == Spec => []NothingDropped
<1>1. PolicyInv => NothingDropped
  BY DEF PolicyInv, SenderInv, NothingDropped, Done
<1> QED BY <1>1, PolicyHolds, PTL
=============================================================================
