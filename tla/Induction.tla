------------------------------ MODULE Induction ------------------------------
(***************************************************************************)
(* Facts about recursion and about digits that the proofs need.            *)
(*                                                                         *)
(* Min of the community modules is a CHOOSE: what it returns is known only *)
(* once a least element is known to exist.  The proofs about the window,   *)
(* whose drain stops at the first missing sequence, and about the repair   *)
(* cache, whose expiry stops at the first fresh entry, all need that.      *)
(*                                                                         *)
(* FoldLeft is a recursive function on sets of indices, and so a CHOOSE as *)
(* well.  FoldTrace unrolls it to one value per element, over which a      *)
(* property is carried by induction on a natural number.  It is stated for *)
(* an operator Op of which nothing is assumed; a module that folds has     *)
(* INSTANCE Induction WITH Op <- the operator that it folds with.          *)
(***************************************************************************)
EXTENDS Integers, Sequences, SequencesExt, WellFoundedInduction, TLAPS

CONSTANT Op(_, _)

NatLess == {p \in Nat \X Nat : p[1] < p[2]}

(* Every nonempty set of naturals has a least element. *)
LEMMA LeastNatural ==
  ASSUME NEW S \in SUBSET Nat, S # {}
  PROVE  \E x \in S : \A y \in S : x <= y
<1>1. IsWellFoundedOn(NatLess, Nat)
  <2>1. OpToRel(<, Nat) = NatLess
    BY SMT DEF OpToRel, NatLess
  <2> QED BY <2>1, NatLessThanWellFounded, Zenon
<1>2. PICK x \in S : \A y \in S : ~(<<y, x>> \in NatLess)
  BY <1>1, WFMin, Zenon
<1>3. ASSUME NEW y \in S, y < x PROVE FALSE
  <2>1. x \in Nat /\ y \in Nat
    OBVIOUS
  <2>2. <<y, x>> \in NatLess
    BY <1>3, <2>1, SMT DEF NatLess
  <2> QED BY <1>2, <2>2, Zenon
<1> QED BY <1>3, SMT

(* Min picks that element. *)
LEMMA MinOfNaturals ==
  ASSUME NEW S \in SUBSET Nat, S # {}
  PROVE  Min(S) \in S /\ \A y \in S : Min(S) <= y
BY LeastNatural DEF Min

(* What holds at 0 and goes from each number to the next holds up to n.    *)
LEMMA UpTo ==
  ASSUME NEW n \in Nat, NEW H \in SUBSET Nat, 0 \in H,
         \A k \in 0..(n - 1) : k \in H => k + 1 \in H
  PROVE  0..n \subseteq H
<1> DEFINE B == (0..n) \ H
<1> SUFFICES ASSUME B # {} PROVE FALSE
  BY Zenon
<1>1. B \in SUBSET Nat
  OBVIOUS
<1>2. PICK x \in B : \A y \in B : x <= y
  BY <1>1, LeastNatural
<1>3. x \in 0..n /\ x \notin H /\ x # 0
  BY <1>2
<1>4. x - 1 \in 0..(n - 1) /\ (x - 1) + 1 = x /\ ~(x <= x - 1) /\ x - 1 \in 0..n
  BY <1>3
<1>5. x - 1 \in H
  BY <1>2, <1>4
<1> QED BY <1>3, <1>4, <1>5

-----------------------------------------------------------------------------
(* Digits. *)

(* A number put together from a quotient and a remainder comes apart. *)
LEMMA QuotientAndRest ==
  ASSUME NEW m \in Nat \ {0}, NEW q \in Nat, NEW s \in 0..(m - 1)
  PROVE  (s + m * q) % m = s /\ (s + m * q) \div m = q
<1> DEFINE x == s + m * q
           d == x \div m
           r == x % m
<1>1. x \in Nat /\ r \in 0..(m - 1) /\ d \in Int /\ x = m * d + r
  OBVIOUS
<1>2. x = s + m * q
  OBVIOUS
<1> HIDE DEF x, d, r
<1>3. ASSUME d > q PROVE FALSE
  <2>1. d - q - 1 \in Nat /\ d = q + 1 + (d - q - 1)
    BY <1>1, <1>3
  <2>2. PICK e \in Nat : d = q + 1 + e
    BY <2>1
  <2>3. m * d = m * q + m + m * e
    BY <2>2
  <2>4. m * q \in Nat /\ m * d \in Int /\ m * e \in Nat
    BY <2>2, <1>1
  <2> QED BY <1>1, <1>2, <2>3, <2>4
<1>4. ASSUME d < q PROVE FALSE
  <2>1. q - d - 1 \in Nat /\ q = d + 1 + (q - d - 1)
    BY <1>1, <1>4
  <2>2. PICK e \in Nat : q = d + 1 + e
    BY <2>1
  <2>3. m * q = m * d + m + m * e
    BY <2>2, <1>1
  <2>4. m * q \in Nat /\ m * d \in Int /\ m * e \in Nat
    BY <2>2, <1>1
  <2> QED BY <1>1, <1>2, <2>3, <2>4
<1>5. d = q
  BY <1>1, <1>3, <1>4
<1>6. r = s
  BY <1>1, <1>2, <1>5
<1> QED BY <1>5, <1>6 DEF x, d, r

(* A larger number has no smaller quotient. *)
LEMMA QuotientGrows ==
  ASSUME NEW d \in Nat \ {0}, NEW a \in Nat, NEW b \in Nat, a <= b
  PROVE  /\ a \div d \in Nat /\ b \div d \in Nat
         /\ a \div d <= b \div d
<1> DEFINE q == a \div d
           r == a % d
           u == b \div d
           v == b % d
<1>1. /\ q \in Int /\ r \in 0..(d - 1) /\ a = d * q + r
      /\ u \in Int /\ v \in 0..(d - 1) /\ b = d * u + v
  OBVIOUS
<1> HIDE DEF q, r, u, v
<1>2. ASSUME NEW x \in Int, NEW y \in 0..(d - 1), d * x + y >= 0 PROVE x >= 0
  <2>1. CASE x < 0
    <3>1. PICK e \in Nat : x = -1 - e
      <4>1. -1 - x \in Nat /\ x = -1 - (-1 - x)
        BY <2>1
      <4> QED BY <4>1
    <3>2. d * x = -d - d * e /\ d * e \in Nat
      BY <3>1
    <3> QED BY <1>2, <3>2
  <2> QED BY <2>1
<1>3. q \in Nat /\ u \in Nat
  <2>1. q >= 0 /\ u >= 0
    BY <1>1, <1>2
  <2> QED BY <1>1, <2>1
<1>4. ASSUME q > u PROVE FALSE
  <2>1. PICK e \in Nat : q = u + 1 + e
    <3>1. q - u - 1 \in Nat /\ q = u + 1 + (q - u - 1)
      BY <1>3, <1>4
    <3> QED BY <3>1
  <2>2. d * q = d * u + d + d * e /\ d * e \in Nat /\ d * u \in Nat
    BY <1>3, <2>1
  <2> QED BY <1>1, <2>2
<1>5. q <= u
  BY <1>3, <1>4
<1> QED BY <1>3, <1>5 DEF q, u

(* Three numbers packed into one come apart. *)
LEMMA ThreeDigits ==
  ASSUME NEW S \in Nat \ {0}, NEW F \in Nat \ {0},
         NEW s \in 0..(S - 1), NEW f \in 0..(F - 1), NEW n \in Nat
  PROVE  LET word == s + S * (f + F * n)
         IN  word % S = s /\ (word \div S) % F = f /\ word \div (S * F) = n
<1> DEFINE q == f + F * n
           word == s + S * q
<1>1. q \in Nat
  OBVIOUS
<1>2. word % S = s /\ word \div S = q
  BY <1>1, QuotientAndRest
<1>3. q % F = f
  BY QuotientAndRest
<1>4. word \div (S * F) = n
  <2> DEFINE r == s + S * f
  <2>1. word = r + (S * F) * n
    OBVIOUS
  <2>2. S * F \in Nat \ {0}
    OBVIOUS
  <2>3. r \in 0..(S * F - 1)
    <3>1. PICK e \in Nat : F = f + 1 + e
      <4>1. F - f - 1 \in Nat /\ F = f + 1 + (F - f - 1)
        OBVIOUS
      <4> QED BY <4>1
    <3>2. S * F = S * f + S + S * e
      BY <3>1
    <3>3. S * f \in Nat /\ S * e \in Nat
      BY <3>1
    <3> QED BY <3>2, <3>3
  <2> HIDE DEF r, word
  <2> QED BY <2>1, <2>2, <2>3, QuotientAndRest
<1> QED BY <1>2, <1>3, <1>4

-----------------------------------------------------------------------------
(* Folding a sequence. *)

Folded(base, s) == FoldLeft(Op, base, s)

(* The recursion of FoldLeft over the sets S of indices. *)
FoldStep(h, S, base, s) == IF S = {} THEN base ELSE Op(h[S \ {Max(S)}], s[Max(S)])

IsFold(h, n, base, s) == h = [S \in SUBSET (1..n) |-> FoldStep(h, S, base, s)]

(* A function that satisfies the recursion exists. *)
LEMMA FoldExists ==
  ASSUME NEW n \in Nat, NEW base, NEW s
  PROVE  \E h : IsFold(h, n, base, s)
<1> DEFINE H == {k \in Nat : \E h : IsFold(h, k, base, s)}
<1>1. 0 \in H
  <2> DEFINE h == [S \in SUBSET (1..0) |-> base]
  <2>1. \A S \in SUBSET (1..0) : S = {}
    OBVIOUS
  <2>2. IsFold(h, 0, base, s)
    BY <2>1 DEF IsFold, FoldStep
  <2> QED BY <2>2
<1>2. ASSUME NEW k \in Nat, k \in H PROVE k + 1 \in H
  <2>1. PICK h : IsFold(h, k, base, s)
    BY <1>2
  <2> DEFINE g == [S \in SUBSET (1..(k + 1)) |->
                     IF k + 1 \in S THEN Op(h[S \ {k + 1}], s[k + 1]) ELSE h[S]]
  <2>2. ASSUME NEW S \in SUBSET (1..(k + 1)), k + 1 \in S
        PROVE  g[S] = FoldStep(g, S, base, s)
    <3>1. Max(S) = k + 1
      <4>1. \A x \in S : x <= k + 1 /\ x \in Int
        OBVIOUS
      <4>2. \A x \in S : (\A y \in S : x >= y) <=> x = k + 1
        BY <2>2, <4>1
      <4> QED BY <2>2, <4>2 DEF Max
    <3>2. S \ {k + 1} \in SUBSET (1..(k + 1)) /\ k + 1 \notin S \ {k + 1}
      OBVIOUS
    <3>3. g[S \ {k + 1}] = h[S \ {k + 1}]
      BY <3>2
    <3>4. g[S] = Op(h[S \ {k + 1}], s[k + 1])
      BY <2>2
    <3> HIDE DEF g
    <3> QED BY <2>2, <3>1, <3>3, <3>4 DEF FoldStep
  <2>3. ASSUME NEW S \in SUBSET (1..(k + 1)), k + 1 \notin S
        PROVE  g[S] = FoldStep(g, S, base, s)
    <3>1. S \in SUBSET (1..k)
      BY <2>3
    <3>2. g[S] = h[S] /\ h[S] = FoldStep(h, S, base, s)
      <4>1. g[S] = h[S]
        BY <2>3
      <4> HIDE DEF g
      <4> QED BY <2>1, <3>1, <4>1 DEF IsFold
    <3>3. S \ {Max(S)} \in SUBSET (1..(k + 1)) /\ k + 1 \notin S \ {Max(S)}
      BY <2>3
    <3>4. g[S \ {Max(S)}] = h[S \ {Max(S)}]
      BY <3>3
    <3> HIDE DEF g
    <3> QED BY <3>2, <3>4 DEF FoldStep
  <2>4. g = [S \in SUBSET (1..(k + 1)) |-> g[S]]
    OBVIOUS
  <2> HIDE DEF g
  <2>5. g = [S \in SUBSET (1..(k + 1)) |-> FoldStep(g, S, base, s)]
    BY <2>2, <2>3, <2>4
  <2> QED BY <2>5 DEF IsFold
<1> HIDE DEF H
<1>3. H \in SUBSET Nat /\ 0..n \subseteq H
  BY <1>1, <1>2, UpTo DEF H
<1> QED BY <1>3 DEF H

(* The values that folding s goes through, one per element. *)
IsTrace(g, n, base, s) ==
  /\ DOMAIN g = 0..n
  /\ g[0] = base
  /\ g[n] = Folded(base, s)
  /\ \A k \in 1..n : g[k] = Op(g[k - 1], s[k])

Trace(n, base, s) == CHOOSE g : IsTrace(g, n, base, s)

(* Folding s takes one application of Op for each element of s in turn.    *)
THEOREM FoldTrace ==
  ASSUME NEW n \in Nat, NEW base, NEW s, DOMAIN s = 1..n
  PROVE  IsTrace(Trace(n, base, s), n, base, s)
<1> DEFINE h == CHOOSE f : IsFold(f, n, base, s)
<1>1. IsFold(h, n, base, s)
  BY FoldExists
<1>2. Folded(base, s) = h[1..n]
  BY DEF Folded, FoldLeft, MapThenFoldSet, IsFold, FoldStep
<1> HIDE DEF h
<1> DEFINE g == [k \in 0..n |-> h[1..k]]
<1>3. \A k \in 0..n : 1..k \in SUBSET (1..n)
  OBVIOUS
<1>4. g[0] = base
  <2>1. 1..0 = {}
    OBVIOUS
  <2> QED BY <1>1, <1>3, <2>1 DEF IsFold, FoldStep
<1>5. ASSUME NEW k \in 1..n PROVE g[k] = Op(g[k - 1], s[k])
  <2>1. k \in 0..n /\ k - 1 \in 0..n /\ 1..k # {} /\ (1..k) \ {k} = 1..(k - 1)
    <3>1. k \in 0..n /\ k - 1 \in 0..n /\ k \in 1..k
      OBVIOUS
    <3>2. (1..k) \ {k} = 1..(k - 1)
      OBVIOUS
    <3> QED BY <3>1, <3>2
  <2>2. Max(1..k) = k
    <3>1. \A x \in 1..k : (\A y \in 1..k : x >= y) <=> x = k
      OBVIOUS
    <3>2. k \in 1..k
      OBVIOUS
    <3> QED BY <3>1, <3>2 DEF Max
  <2>3. h[1..k] = FoldStep(h, 1..k, base, s)
    BY <1>1, <1>3, <2>1 DEF IsFold
  <2>4. FoldStep(h, 1..k, base, s) = Op(h[1..(k - 1)], s[k])
    BY <2>1, <2>2 DEF FoldStep
  <2> QED BY <2>1, <2>3, <2>4
<1>6. DOMAIN g = 0..n /\ g[n] = Folded(base, s)
  BY <1>2
<1>7. \A k \in 1..n : g[k] = Op(g[k - 1], s[k])
  BY <1>5
<1> HIDE DEF g
<1>8. IsTrace(g, n, base, s)
  BY <1>4, <1>6, <1>7 DEF IsTrace
<1> QED BY <1>8 DEF Trace
=============================================================================
