------------------------------ MODULE FecProofs ------------------------------
(***************************************************************************)
(* Theorems about Fec.tla and FecState.tla, for every value of the         *)
(* constants: the parity frames fit, the caches of the server agree, what  *)
(* is forwarded is what was sent, a single loss never waits, and recovery  *)
(* does to the window what Window.tla allows.                              *)
(***************************************************************************)
EXTENDS Fec, WindowProofs

-----------------------------------------------------------------------------
(* Sequences. *)

(* One lap of a modulus. *)
LEMMA ModuloOnce ==
  ASSUME NEW m \in Nat \ {0}, NEW x \in 0..(2 * m - 1)
  PROVE  x % m = IF x < m THEN x ELSE x - m
OBVIOUS

(* n sequences after s, wrapping at most once. *)
LEMMA AfterWraps ==
  ASSUME NEW s \in MediaSequences, NEW n \in 0..(MaxMediaSequence + 1)
  PROVE  /\ SequenceAfter(s, n) = IF s + n <= MaxMediaSequence THEN s + n
                                  ELSE s + n - (MaxMediaSequence + 1)
         /\ SequenceAfter(s, n) \in MediaSequences
<1> DEFINE m == MaxMediaSequence + 1
           x == s + n
<1>1. m \in Nat \ {0} /\ x \in 0..(2 * m - 1)
  BY WindowAssumption DEF MediaSequences
<1>2. x % m = IF x < m THEN x ELSE x - m
  BY <1>1, ModuloOnce
<1> QED BY <1>1, <1>2, WindowAssumption DEF SequenceAfter, MediaSequences

(* Packet k has the sequence k - 1 after the first. *)
LEMMA SentWraps ==
  ASSUME NEW k \in DOMAIN LengthOf
  PROVE  /\ k \in Nat /\ k >= 1 /\ k <= Len(LengthOf)
         /\ k - 1 \in 0..(MaxMediaSequence + 1)
         /\ SentSequence(k) = IF First + k - 1 <= MaxMediaSequence THEN First + k - 1
                              ELSE First + k - 1 - (MaxMediaSequence + 1)
         /\ SentSequence(k) \in MediaSequences
<1>1. k \in Nat /\ k >= 1 /\ k <= Len(LengthOf) /\ Len(LengthOf) <= MaxMediaSequence + 1
  BY FecAssumption
<1>2. k - 1 \in 0..(MaxMediaSequence + 1) /\ First \in MediaSequences
  BY <1>1, FecAssumption, WindowAssumption
<1>3. First \in Nat
  BY <1>2, WindowAssumption DEF MediaSequences
<1> QED BY <1>1, <1>2, <1>3, AfterWraps, WindowAssumption DEF SentSequence

(* No two packets share a sequence. *)
LEMMA SentOnce ==
  ASSUME NEW j \in DOMAIN LengthOf, NEW k \in DOMAIN LengthOf,
         SentSequence(j) = SentSequence(k)
  PROVE  j = k
<1>1. Len(LengthOf) <= MaxMediaSequence + 1 /\ First \in Nat /\ MaxMediaSequence \in Nat
  BY FecAssumption, WindowAssumption DEF MediaSequences
<1>2. Len(LengthOf) \in Nat
  BY FecAssumption
<1>3. /\ j \in Nat /\ k \in Nat /\ j >= 1 /\ k >= 1
      /\ j <= Len(LengthOf) /\ k <= Len(LengthOf)
  BY SentWraps
<1> DEFINE m == MaxMediaSequence + 1
<1>4. SentSequence(j) = First + j - 1 \/ SentSequence(j) = First + j - 1 - m
  BY SentWraps
<1>5. SentSequence(k) = First + k - 1 \/ SentSequence(k) = First + k - 1 - m
  BY SentWraps
<1>6. j <= MaxMediaSequence + 1 /\ k <= MaxMediaSequence + 1
  BY <1>1, <1>2, <1>3
<1>7. m \in Nat /\ j <= m /\ k <= m
  BY <1>1, <1>6
<1> HIDE DEF m
<1>8. \/ First + j - 1 = First + k - 1
      \/ First + j - 1 = First + k - 1 - m
      \/ First + j - 1 - m = First + k - 1
      \/ First + j - 1 - m = First + k - 1 - m
  BY <1>4, <1>5, Zenon
<1> QED BY <1>1, <1>3, <1>7, <1>8

(* i packets on is i sequences on. *)
LEMMA SentAfter ==
  ASSUME NEW j \in DOMAIN LengthOf, NEW i \in 0..MaxMediaSequence, j + i <= MaxMediaSequence + 1
  PROVE  SequenceAfter(SentSequence(j), i) = SentSequence(j + i)
<1>1. /\ First \in MediaSequences /\ First \in Nat /\ MaxMediaSequence \in Nat
      /\ First <= MaxMediaSequence
  BY FecAssumption, WindowAssumption DEF MediaSequences
<1>2. /\ j \in Nat /\ j >= 1
      /\ SentSequence(j) = IF First + j - 1 <= MaxMediaSequence THEN First + j - 1
                           ELSE First + j - 1 - (MaxMediaSequence + 1)
      /\ SentSequence(j) \in MediaSequences
  BY SentWraps
<1>3. SequenceAfter(SentSequence(j), i) =
        IF SentSequence(j) + i <= MaxMediaSequence THEN SentSequence(j) + i
        ELSE SentSequence(j) + i - (MaxMediaSequence + 1)
  BY <1>1, <1>2, AfterWraps
<1>4. SentSequence(j + i) = IF First + (j + i - 1) <= MaxMediaSequence THEN First + (j + i - 1)
                            ELSE First + (j + i - 1) - (MaxMediaSequence + 1)
  BY <1>1, <1>2, AfterWraps DEF SentSequence
<1>5. SentSequence(j) \in Int /\ j + i - 1 = j - 1 + i
  BY <1>1, <1>2
<1> HIDE DEF SentSequence
<1> QED BY <1>1, <1>2, <1>3, <1>4, <1>5

(* The packet whose sequence follows that of j is j + 1. *)
LEMMA NextSent ==
  ASSUME NEW j \in DOMAIN LengthOf, NEW k \in DOMAIN LengthOf, j < k,
         SequenceAfter(SentSequence(j), 1) = SentSequence(k)
  PROVE  k = j + 1
<1>1. /\ j \in Nat /\ k \in Nat /\ j >= 1 /\ k <= Len(LengthOf)
      /\ Len(LengthOf) \in Nat /\ Len(LengthOf) <= MaxMediaSequence + 1
      /\ DOMAIN LengthOf = 1..Len(LengthOf) /\ MaxMediaSequence \in Nat
  BY SentWraps, FecAssumption, WindowAssumption
<1>2. 1 \in 0..MaxMediaSequence /\ j + 1 <= MaxMediaSequence + 1 /\ j + 1 \in DOMAIN LengthOf
  BY <1>1
<1>3. SentSequence(j + 1) = SentSequence(k)
  BY <1>2, SentAfter
<1> QED BY <1>2, <1>3, SentOnce

(* What was sent under the sequence of packet k is packet k. *)
LEMMA SentIsProtected ==
  ASSUME NEW k \in DOMAIN LengthOf
  PROVE  SentSequence(k) \in DOMAIN FecPayload /\ FecPayload[SentSequence(k)] = k
<1>1. FecPayload = [s \in {SentSequence(j) : j \in DOMAIN LengthOf} |->
                      CHOOSE j \in DOMAIN LengthOf : SentSequence(j) = s]
  BY FecAssumption
<1>2. /\ SentSequence(k) \in DOMAIN FecPayload
      /\ FecPayload[SentSequence(k)]
           = CHOOSE j \in DOMAIN LengthOf : SentSequence(j) = SentSequence(k)
  BY <1>1
<1>3. \A j \in DOMAIN LengthOf : SentSequence(j) = SentSequence(k) => j = k
  BY SentOnce
<1> HIDE DEF SentSequence
<1> QED BY <1>2, <1>3

-----------------------------------------------------------------------------
(* Datagrams. *)

Headers ==
  [sequence : 0..(MaxMediaSequence + 1), fragment : 0..MaxFragments, fragments : Nat]

(* The fields of a header come out of its word as they went in. *)
LEMMA HeaderSurvives ==
  ASSUME NEW h \in Headers
  PROVE  W!Unpack(W!Pack(h)) = h
<1> DEFINE S == MaxMediaSequence + 2
           F == MaxFragments + 1
           word == h.sequence + S * (h.fragment + F * h.fragments)
<1>1. /\ h.sequence \in 0..(S - 1) /\ h.fragment \in 0..(F - 1) /\ h.fragments \in Nat
      /\ S \in Nat \ {0} /\ F \in Nat \ {0}
      /\ h = [sequence |-> h.sequence, fragment |-> h.fragment, fragments |-> h.fragments]
  BY WindowAssumption DEF Headers
<1>2. W!Unpack(W!Pack(h)) =
        [sequence |-> word % S, fragment |-> (word \div S) % F, fragments |-> word \div (S * F)]
  BY DEF W!Unpack, W!Pack, W!FragmentValues
<1> HIDE DEF S, F
<1>3. /\ word % S = h.sequence /\ (word \div S) % F = h.fragment
      /\ word \div (S * F) = h.fragments
  BY <1>1, ThreeDigits
<1> QED BY <1>1, <1>2, <1>3

(* The server reads from a media datagram the packet that the client sent. *)
LEMMA MediaDecodes ==
  ASSUME NEW k \in DOMAIN LengthOf
  PROVE  /\ W!DecodePacket(Media(k)).header.sequence = SentSequence(k)
         /\ W!DecodePacket(Media(k)).body = <<{k}>>
         /\ SentSequence(k) # W!FecSequence
<1> DEFINE h == [sequence |-> SentSequence(k), fragment |-> 0, fragments |-> 1]
<1>1. SentSequence(k) \in MediaSequences
  BY SentWraps
<1>2. SentSequence(k) \in 0..(MaxMediaSequence + 1) /\ SentSequence(k) # MaxMediaSequence + 1
  BY <1>1, WindowAssumption DEF MediaSequences
<1>3. h \in Headers
  BY <1>2, WindowAssumption DEF Headers
<1>4. W!Unpack(W!Pack(h)) = h /\ h.fragment < h.fragments /\ h.sequence = SentSequence(k)
  BY <1>3, HeaderSurvives
<1>5. Media(k) = [word |-> W!Pack(h), body |-> <<{k}>>]
  BY DEF Media, W!EncodePacket
<1> HIDE DEF h
<1>6. W!DecodePacket(Media(k)) = [header |-> h, body |-> <<{k}>>]
  BY <1>4, <1>5 DEF W!DecodePacket
<1>7. W!FecSequence = MaxMediaSequence + 1
  BY WindowAssumption DEF W!FecSequence
<1> QED BY <1>2, <1>4, <1>6, <1>7

(* One of finitely many numbers is the greatest. *)
LEMMA GreatestOfRange ==
  ASSUME NEW n \in Nat \ {0}, NEW s \in [1..n -> Nat]
  PROVE  /\ Max(Range(s)) \in Range(s)
         /\ \A i \in 1..n : s[i] <= Max(Range(s))
<1> DEFINE Above(m, k) == \A i \in 1..k : s[i] <= s[m]
           H == {k \in 0..(n - 1) : \E m \in 1..(k + 1) : Above(m, k + 1)}
<1>1. 0 \in H
  <2>1. Above(1, 1) /\ 1 \in 1..(0 + 1) /\ 0 + 1 = 1
    OBVIOUS
  <2>2. 0 \in 0..(n - 1)
    OBVIOUS
  <2> HIDE DEF Above
  <2> QED BY <2>1, <2>2
<1>2. ASSUME NEW k \in 0..(n - 1 - 1), k \in H PROVE k + 1 \in H
  <2>1. PICK m \in 1..(k + 1) : Above(m, k + 1)
    BY <1>2
  <2>2. CASE s[k + 2] <= s[m]
    <3>1. Above(m, k + 2)
      BY <2>1, <2>2
    <3> QED BY <3>1
  <2>3. CASE ~(s[k + 2] <= s[m])
    <3>1. Above(k + 2, k + 2)
      <4>1. s[k + 2] \in Nat /\ s[m] \in Nat
        OBVIOUS
      <4>2. ASSUME NEW i \in 1..(k + 2) PROVE s[i] <= s[k + 2]
        BY <2>1, <2>3, <4>1
      <4> QED BY <4>2
    <3> QED BY <3>1
  <2> QED BY <2>2, <2>3
<1>3. H \in SUBSET Nat
  OBVIOUS
<1>4. n - 1 \in H
  <2> DEFINE t == n - 1
  <2>1. t \in Nat /\ \A k \in 0..(t - 1) : k \in H => k + 1 \in H
    BY <1>2
  <2> HIDE DEF H, t
  <2>2. 0..t \subseteq H
    BY <1>1, <1>3, <2>1, UpTo
  <2>3. t \in H
    BY <2>1, <2>2
  <2> QED BY <2>3 DEF t
<1>5. PICK m \in 1..n : \A i \in 1..n : s[i] <= s[m]
  BY <1>4
<1>6. Range(s) = {s[i] : i \in 1..n}
  BY DEF Range
<1>7. s[m] \in Range(s) /\ \A y \in Range(s) : s[m] >= y
  BY <1>5, <1>6
<1>8. Max(Range(s)) \in Range(s) /\ \A y \in Range(s) : Max(Range(s)) >= y
  BY <1>7 DEF Max
<1> QED BY <1>6, <1>8

Members == [packet : DOMAIN LengthOf, room : GroupSizes]

(* A group of consecutive packets, each of which fitted when it was added. *)
IsGroup(g) ==
  /\ g \in Seq(Members)
  /\ Len(g) \in 1..MaxFecGroupPackets
  /\ \A i \in 1..Len(g) : g[i].packet = g[1].packet + i - 1
  /\ \A i \in 1..Len(g) : LengthOf[g[i].packet] + 10 + 2 * g[i].room <= Mtu

(* The parity frame of a group. *)
ParityFrame(g) ==
  [ base    |-> SentSequence(g[1].packet),
    lengths |-> Lengths(g),
    parity  |-> Xor([i \in DOMAIN g |-> {g[i].packet}]),
    size    |-> Max(Range(Lengths(g))) ]

(* The lengths of a group are numbers, one per packet. *)
LEMMA LengthsOfGroup ==
  ASSUME NEW g, IsGroup(g)
  PROVE  /\ Len(g) \in Nat \ {0} /\ DOMAIN g = 1..Len(g)
         /\ \A i \in 1..Len(g) : g[i].packet \in DOMAIN LengthOf /\ g[i].room \in GroupSizes
         /\ Lengths(g) \in [1..Len(g) -> Nat]
         /\ Lengths(g) \in Seq(Nat) /\ Len(Lengths(g)) = Len(g)
         /\ \A i \in 1..Len(g) : Lengths(g)[i] = LengthOf[g[i].packet]
<1>1. Len(g) \in Nat \ {0} /\ DOMAIN g = 1..Len(g) /\ g \in Seq(Members)
  BY DEF IsGroup
<1>2. \A i \in 1..Len(g) : g[i].packet \in DOMAIN LengthOf /\ g[i].room \in GroupSizes
  <2>1. \A i \in 1..Len(g) : g[i] \in Members
    BY <1>1
  <2> QED BY <2>1 DEF Members
<1>3. \A k \in DOMAIN LengthOf : LengthOf[k] \in Nat
  BY FecAssumption
<1>4. Lengths(g) \in [1..Len(g) -> Nat]
  BY <1>1, <1>2, <1>3 DEF Lengths
<1>5. \A i \in 1..Len(g) : Lengths(g)[i] = LengthOf[g[i].packet]
  BY <1>1 DEF Lengths
<1> HIDE DEF Lengths
<1>6. Lengths(g) \in Seq(Nat) /\ Len(Lengths(g)) = Len(g)
  BY <1>1, <1>4
<1> QED BY <1>1, <1>2, <1>4, <1>5, <1>6

(* The server reads from a parity datagram the frame that the client sent. *)
LEMMA ParityDecodes ==
  ASSUME NEW g, IsGroup(g)
  PROVE  /\ W!DecodePacket(Parity(g)).header.sequence = W!FecSequence
         /\ W!DecodeFec(Parity(g)) = ParityFrame(g)
<1> DEFINE n == Len(g)
           f == ParityFrame(g)
           l == f.lengths
           body == <<f.base, Len(l)>> \o l \o <<f.parity, f.size>>
           h == W!FecHeader
           d == Parity(g)
<1>1. W!FecSequence = MaxMediaSequence + 1 /\ W!LastMediaSequence = MaxMediaSequence
  BY WindowAssumption DEF W!FecSequence, W!LastMediaSequence
<1>2. h = [sequence |-> MaxMediaSequence + 1, fragment |-> 0, fragments |-> 1]
  BY <1>1 DEF W!FecHeader
<1>3. h \in Headers
  BY <1>2, WindowAssumption DEF Headers
<1>4. W!Unpack(W!Pack(h)) = h /\ h.fragment < h.fragments
  BY <1>2, <1>3, HeaderSurvives
<1>5. d = [word |-> W!Pack(h), body |-> body]
  BY DEF Parity, ParityFrame, W!EncodeFec, W!EncodePacket
<1>6. /\ l \in Seq(Nat) /\ Len(l) = n /\ n \in 1..MaxFecGroupPackets /\ n \in Nat \ {0}
      /\ l \in [1..n -> Nat] /\ DOMAIN l = 1..n
  BY LengthsOfGroup DEF ParityFrame, IsGroup
<1>7. \A i \in 1..n : l[i] <= f.size
  BY <1>6, GreatestOfRange DEF ParityFrame
<1>8. f.base <= MaxMediaSequence
  <2>1. g[1].packet \in DOMAIN LengthOf
    BY LengthsOfGroup
  <2>2. SentSequence(g[1].packet) \in MediaSequences
    BY <2>1, SentWraps
  <2> QED BY <2>2, WindowAssumption DEF MediaSequences, ParityFrame
<1>9. f = [base |-> f.base, lengths |-> l, parity |-> f.parity, size |-> f.size]
  BY DEF ParityFrame
<1> HIDE DEF f, h
<1> DEFINE b == f.base
           p == f.parity
           z == f.size
<1>10. /\ body[1] = b /\ body[2] = n /\ body[n + 3] = p /\ body[n + 4] = z
       /\ Len(body) = n + 4
       /\ \A i \in 1..n : body[i + 2] = l[i]
  <2> HIDE DEF b, p, z, l, n
  <2> QED BY <1>6 DEF b, p, z
<1>11. SubSeq(body, 3, n + 2) = l
  <2> HIDE DEF body, n, l
  <2>1. SubSeq(body, 3, n + 2) = [i \in 1..n |-> body[i + 2]]
    BY <1>6
  <2> QED BY <1>6, <1>10, <2>1
<1> HIDE DEF body, l, d, n
<1>12. W!DecodePacket(d) = [header |-> h, body |-> body]
  BY <1>4, <1>5 DEF W!DecodePacket
<1>13. W!DecodeFec(d) = f
  <2>1. d.body = body
    BY <1>5
  <2> DEFINE x == [base |-> body[1], lengths |-> SubSeq(body, 3, body[2] + 2),
                   parity |-> body[body[2] + 3], size |-> body[body[2] + 4]]
  <2>2. x = f
    BY <1>9, <1>10, <1>11
  <2>3. /\ W!DecodePacket(d).header = W!FecHeader
        /\ Len(body) >= body[2] + 4
        /\ x.base <= W!LastMediaSequence
        /\ body[2] \in 1..MaxFecGroupPackets
        /\ \A i \in 1..body[2] : x.lengths[i] <= x.size
    <3>1. W!DecodePacket(d).header = W!FecHeader
      BY <1>12 DEF h
    <3> QED BY <1>1, <1>6, <1>7, <1>8, <1>10, <2>2, <3>1 DEF l, n
  <2>4. W!DecodeFec(d) = x
    BY <2>1, <2>3 DEF W!DecodeFec
  <2> QED BY <2>2, <2>4
<1> QED BY <1>1, <1>2, <1>12, <1>13 DEF d, f

-----------------------------------------------------------------------------
(* The encoder. *)

(* A group in progress: it has room for another packet, and its last one   *)
(* is packet k.                                                            *)
InProgress(g, k) ==
  g = << >> \/ (IsGroup(g) /\ Len(g) < MaxFecGroupPackets /\ Last(g).packet = k)

(* The next packet that fits extends a group. *)
LEMMA GroupExtended ==
  ASSUME NEW g, NEW k \in DOMAIN LengthOf, InProgress(g, k - 1),
         NEW size \in GroupSizes, LengthOf[k] + 10 + 2 * size <= Mtu
  PROVE  LET longer == Append(g, [packet |-> k, room |-> size])
         IN  IsGroup(longer) /\ Last(longer).packet = k
<1> DEFINE m == [packet |-> k, room |-> size]
           longer == Append(g, m)
           n == Len(g)
<1>1. m \in Members /\ m.packet = k /\ m.room = size
  BY DEF Members
<1>2. k \in Nat /\ k >= 1
  BY SentWraps
<1>3. size \in 2..MaxFecGroupPackets /\ MaxFecGroupPackets \in Nat
  BY FecAssumption
<1> HIDE DEF m
<1>4. CASE g = << >>
  <2>1. longer = <<m>>
    BY <1>4
  <2>2. longer \in Seq(Members) /\ Len(longer) = 1 /\ longer[1] = m
    BY <1>1, <2>1
  <2> HIDE DEF longer
  <2>3. IsGroup(longer)
    BY <1>1, <1>2, <1>3, <2>2 DEF IsGroup
  <2>4. Last(longer).packet = k
    BY <1>1, <2>2 DEF Last
  <2> QED BY <2>3, <2>4 DEF longer, m
<1>5. CASE IsGroup(g) /\ n < MaxFecGroupPackets /\ Last(g).packet = k - 1
  <2>1. g \in Seq(Members) /\ n \in Nat /\ n >= 1 /\ n <= MaxFecGroupPackets
    BY <1>3, <1>5 DEF IsGroup
  <2>2. /\ longer \in Seq(Members) /\ Len(longer) = n + 1 /\ longer[n + 1] = m
        /\ \A i \in 1..n : longer[i] = g[i]
    BY <1>1, <2>1
  <2>3. g[n].packet = k - 1 /\ n \in 1..n /\ 1 \in 1..n
    BY <1>5, <2>1 DEF Last
  <2>4. g[n].packet = g[1].packet + n - 1
    BY <1>5, <2>3 DEF IsGroup
  <2>5. g[1].packet \in Nat
    <3>1. g[1].packet \in DOMAIN LengthOf
      BY <1>5, <2>3, LengthsOfGroup
    <3> QED BY <3>1, SentWraps
  <2> HIDE DEF longer
  <2>6. ASSUME NEW i \in 1..(n + 1)
        PROVE  /\ longer[i].packet = longer[1].packet + i - 1
               /\ LengthOf[longer[i].packet] + 10 + 2 * longer[i].room <= Mtu
    <3>1. longer[1] = g[1]
      BY <2>2, <2>3
    <3>2. CASE i = n + 1
      <4>1. longer[i].packet = k /\ longer[i].room = size
        BY <1>1, <2>2, <3>2
      <4> QED BY <1>2, <2>1, <2>3, <2>4, <2>5, <3>1, <3>2, <4>1
    <3>3. CASE i # n + 1
      <4>1. i \in 1..n /\ longer[i] = g[i]
        BY <2>1, <2>2, <3>3
      <4> QED BY <1>5, <3>1, <4>1 DEF IsGroup
    <3> QED BY <3>2, <3>3
  <2>7. Len(longer) \in 1..MaxFecGroupPackets
    BY <1>3, <1>5, <2>1, <2>2
  <2>8. IsGroup(longer)
    BY <2>2, <2>6, <2>7 DEF IsGroup
  <2>9. Last(longer).packet = k
    BY <1>1, <2>2 DEF Last
  <2> QED BY <2>8, <2>9 DEF longer, m
<1> QED BY <1>4, <1>5 DEF InProgress

(* Recording a packet flushes groups and leaves one in progress. *)
LEMMA RecordGroups ==
  ASSUME NEW k \in DOMAIN LengthOf, NEW j \in Nat, j < k, InProgress(group, j),
         NEW size \in GroupSizes
  PROVE  LET r == Record(k, size)
         IN  /\ r.group = << >> \/ InProgress(r.group, k)
             /\ \A g \in r.flushed : IsGroup(g)
<1> DEFINE fits == PayloadFits(LengthOf[k], size)
           ends == ~fits \/ Breaks(k)
           early == IF ends THEN FlushedOrCleared(group) ELSE {}
           before == IF ends THEN << >> ELSE group
           m == [packet |-> k, room |-> size]
           longer == Append(before, m)
           r == Record(k, size)
<1>1. r = IF ~fits THEN [group |-> << >>, flushed |-> early]
          ELSE IF Len(longer) >= size
               THEN [group |-> << >>, flushed |-> early \cup Flushed(longer)]
               ELSE [group |-> longer, flushed |-> early]
  BY DEF Record
<1>2. ASSUME NEW g \in early PROVE IsGroup(g)
  <2>1. g = group /\ Len(group) >= 2
    BY <1>2 DEF FlushedOrCleared, Flushed
  <2>2. group # << >>
    BY <2>1
  <2> QED BY <2>1, <2>2 DEF InProgress
<1>3. \A g \in Flushed(longer) : g = longer
  BY DEF Flushed
<1>4. ASSUME fits PROVE IsGroup(longer) /\ Last(longer).packet = k
  <2>1. LengthOf[k] + 10 + 2 * size <= Mtu
    <3>1. LengthOf[k] <= Mtu - (10 + 2 * size)
      BY <1>4 DEF PayloadFits
    <3>2. LengthOf[k] \in Nat /\ Mtu \in Nat /\ size \in Nat
      BY FecAssumption
    <3> QED BY <3>1, <3>2
  <2>2. InProgress(before, k - 1)
    <3>1. CASE before = << >>
      BY <3>1 DEF InProgress
    <3>2. CASE before # << >>
      <4>1. before = group /\ ~Breaks(k) /\ group # << >>
        BY <3>2
      <4>2. IsGroup(group) /\ Len(group) < MaxFecGroupPackets /\ Last(group).packet = j
        BY <4>1 DEF InProgress
      <4>3. SequenceAfter(SentSequence(j), 1) = SentSequence(k)
        BY <4>1, <4>2 DEF Breaks
      <4>4. j \in DOMAIN LengthOf
        <5>1. Len(group) \in 1..Len(group)
          BY <4>2, LengthsOfGroup
        <5>2. Last(group) = group[Len(group)]
          BY DEF Last
        <5> QED BY <4>2, <5>1, <5>2, LengthsOfGroup
      <4>5. k = j + 1
        BY <4>3, <4>4, NextSent
      <4>6. k - 1 = j
        BY <4>5
      <4> QED BY <4>1, <4>6
    <3> QED BY <3>1, <3>2
  <2> HIDE DEF before
  <2> QED BY <2>1, <2>2, GroupExtended
<1> HIDE DEF fits, early, longer, r
<1>5. CASE ~fits
  <2>1. r.group = << >> /\ r.flushed = early
    BY <1>1, <1>5
  <2> QED BY <1>2, <2>1 DEF r
<1>6. CASE fits /\ Len(longer) >= size
  <2>1. r.group = << >> /\ r.flushed = early \cup Flushed(longer)
    BY <1>1, <1>6
  <2> QED BY <1>2, <1>3, <1>4, <1>6, <2>1 DEF r
<1>7. CASE fits /\ ~(Len(longer) >= size)
  <2>1. r.group = longer /\ r.flushed = early
    BY <1>1, <1>7
  <2>2. Len(longer) < MaxFecGroupPackets
    <3>1. Len(longer) \in Nat
      BY <1>4, <1>7, LengthsOfGroup
    <3>2. size \in 2..MaxFecGroupPackets /\ MaxFecGroupPackets \in Nat
      BY FecAssumption
    <3> QED BY <1>7, <3>1, <3>2
  <2>3. InProgress(longer, k)
    BY <1>4, <1>7, <2>2 DEF InProgress
  <2> QED BY <1>2, <2>1, <2>3 DEF r
<1> QED BY <1>5, <1>6, <1>7

(* A parity frame whose members were all admitted under at least its size  *)
(* fits the MTU.                                                           *)
LEMMA GroupFits ==
  ASSUME NEW g, IsGroup(g), \A i \in DOMAIN g : Len(g) <= g[i].room
  PROVE  5 + 4 + 1 + 2 * Len(g) + Max(Range(Lengths(g))) <= Mtu
<1> DEFINE n == Len(g)
           l == Lengths(g)
<1>1. n \in Nat \ {0} /\ l \in [1..n -> Nat] /\ DOMAIN g = 1..n
  BY LengthsOfGroup
<1>2. Max(Range(l)) \in Range(l)
  BY <1>1, GreatestOfRange
<1>3. PICK i \in 1..n : Max(Range(l)) = l[i]
  BY <1>1, <1>2 DEF Range
<1>4. l[i] = LengthOf[g[i].packet] /\ g[i].room \in GroupSizes
  BY LengthsOfGroup
<1>5. l[i] + 10 + 2 * g[i].room <= Mtu
  BY <1>4 DEF IsGroup
<1>6. n <= g[i].room /\ g[i].room \in Nat /\ l[i] \in Nat /\ Mtu \in Nat
  <2>1. n <= g[i].room
    BY <1>1
  <2>2. g[i].room \in 2..MaxFecGroupPackets /\ Mtu \in Nat
    BY <1>4, FecAssumption
  <2> HIDE DEF l
  <2>3. l[i] \in Nat
    BY <1>1
  <2> QED BY <2>1, <2>2, <2>3
<1>7. 5 + 4 + 1 + 2 * n + l[i] <= Mtu
  <2> HIDE DEF n, l
  <2> QED BY <1>1, <1>5, <1>6
<1> QED BY <1>3, <1>7

(* The encoder's groups and what it put on the network. *)
SenderInv ==
  /\ sent \in Nat
  /\ \E j \in Nat : j <= sent /\ InProgress(group, j)
  /\ \A g \in parity : IsGroup(g)
  /\ \A d \in DOMAIN network : \/ \E k \in DOMAIN LengthOf : d = Media(k)
                               \/ \E g : IsGroup(g) /\ d = Parity(g)

(* The encoder starts with an empty group. *)
LEMMA InitSender == FecInit => SenderInv
<1> SUFFICES ASSUME FecInit PROVE SenderInv
  OBVIOUS
<1>1. sent = 0 /\ group = << >> /\ parity = {} /\ network = << >>
  BY DEF FecInit
<1>2. InProgress(group, 0)
  BY <1>1 DEF InProgress
<1> QED BY <1>1, <1>2 DEF SenderInv

(* Whatever is flushed is a group, and the datagrams are what was sent. *)
LEMMA NextSender == SenderInv /\ [FecNext]_fecVars => SenderInv'
<1> SUFFICES ASSUME SenderInv, [FecNext]_fecVars PROVE SenderInv'
  OBVIOUS
<1>1. PICK j \in Nat : j <= sent /\ InProgress(group, j)
  BY DEF SenderInv
<1>2. sent \in Nat /\ \A g \in parity : IsGroup(g)
  BY DEF SenderInv
<1>3. ASSUME UNCHANGED clientVars, DOMAIN network' \subseteq DOMAIN network PROVE SenderInv'
  <2>1. sent' = sent /\ group' = group /\ parity' = parity
    BY <1>3 DEF clientVars
  <2>2. InProgress(group', j)
    BY <1>1, <2>1
  <2> QED BY <1>1, <1>2, <1>3, <2>1, <2>2 DEF SenderInv
<1>4. ASSUME NEW k \in DOMAIN LengthOf, Number(k), NEW F, \A g \in F : IsGroup(g),
             Emit(k, F), NEW i \in Nat, i <= k, InProgress(group', i)
      PROVE  SenderInv'
  <2>1. sent' = k /\ k \in Nat
    BY <1>4, SentWraps DEF Number
  <2>2. parity' = parity \cup F
    BY <1>4 DEF Emit
  <2>3. DOMAIN network' = DOMAIN network \cup {Media(k)} \cup {Parity(g) : g \in F}
    BY <1>4 DEF Emit, With
  <2>4. ASSUME NEW d \in DOMAIN network'
        PROVE  \/ \E h \in DOMAIN LengthOf : d = Media(h)
               \/ \E g : IsGroup(g) /\ d = Parity(g)
    BY <1>4, <2>3 DEF SenderInv
  <2> QED BY <1>2, <1>4, <2>1, <2>2, <2>4 DEF SenderInv
<1>5. ASSUME NEW k \in DOMAIN LengthOf, Send(k) PROVE SenderInv'
  <2>1. Number(k) /\ k \in Nat /\ k = sent + 1 /\ j <= k /\ j < k
    BY <1>1, <1>2, <1>5 DEF Send, Number
  <2>2. CASE Emit(k, {}) /\ group' = group
    BY <1>1, <1>4, <2>1, <2>2
  <2>3. CASE \E size \in GroupSizes :
               LET r == Record(k, size) IN Emit(k, r.flushed) /\ group' = r.group
    <3>1. PICK size \in GroupSizes :
            Emit(k, Record(k, size).flushed) /\ group' = Record(k, size).group
      BY <2>3
    <3> DEFINE r == Record(k, size)
    <3>2. (r.group = << >> \/ InProgress(r.group, k)) /\ \A g \in r.flushed : IsGroup(g)
      BY <1>1, <2>1, RecordGroups
    <3>3. InProgress(group', k)
      BY <3>1, <3>2 DEF InProgress
    <3> HIDE DEF r
    <3> QED BY <1>4, <2>1, <3>1, <3>2, <3>3 DEF r
  <2> QED BY <1>5, <2>2, <2>3 DEF Send
<1>6. ASSUME NEW k \in DOMAIN LengthOf, Skip(k) PROVE SenderInv'
  <2>1. /\ sent' = k /\ k = sent + 1
        /\ group' = group /\ parity' = parity /\ network' = network
    BY <1>6 DEF Skip, Number
  <2>2. InProgress(group', j) /\ k \in Nat /\ j <= k
    BY <1>1, <1>2, <2>1
  <2> QED BY <1>2, <2>1, <2>2 DEF SenderInv
<1>7. ASSUME NEW d \in DOMAIN network, Deliver(d) PROVE SenderInv'
  <2>1. Take(d) /\ UNCHANGED clientVars
    BY <1>7 DEF Deliver
  <2>2. DOMAIN network' \subseteq DOMAIN network
    BY <2>1 DEF Take, Without, Restrict
  <2> QED BY <1>3, <2>1, <2>2
<1>8. CASE Tick \/ TimeoutAdvance \/ TimeoutIdle \/ UNCHANGED fecVars
  <2>1. UNCHANGED clientVars /\ network' = network
    BY <1>8 DEF Tick, TimeoutAdvance, TimeoutIdle, fecVars
  <2> QED BY <1>3, <2>1
<1> QED BY <1>5, <1>6, <1>7, <1>8 DEF FecNext

(* A parity frame of no more packets than its members were admitted for    *)
(* fits the MTU.  In adaptive mode a group may grow beyond that.           *)
THEOREM ParityFramesFit == FecSpec => []ParityFits
<1>1. SenderInv => ParityFits
  BY GroupFits DEF SenderInv, ParityFits
<1> QED BY <1>1, InitSender, NextSender, PTL DEF FecSpec

-----------------------------------------------------------------------------
(* The caches of FecState. *)

(* The packet that was sent under a sequence, as it is forwarded. *)
Forwarded == {[sequence |-> s, payload |-> {FecPayload[s]}] : s \in MediaSequences}

(* Every frame and payload is queued, payloads once, within their limits. *)
Queued(f) ==
  /\ DOMAIN f = {"frames", "frame_order", "payloads", "payload_order"}
  /\ f.frame_order \in Seq(MediaSequences)
  /\ f.payload_order \in Seq(MediaSequences)
  /\ Cardinality(DOMAIN f.frames) <= FrameLimit
  /\ Cardinality(DOMAIN f.payloads) <= PayloadLimit
  /\ DOMAIN f.frames \subseteq Range(f.frame_order)
  /\ DOMAIN f.payloads = Range(f.payload_order)
  /\ IsInjective(f.payload_order)

(* The frames are those of groups, the payloads what was sent. *)
Genuine(f) ==
  /\ \A b \in DOMAIN f.frames :
       \E g : IsGroup(g) /\ f.frames[b] = ParityFrame(g) /\ b = ParityFrame(g).base
  /\ \A s \in DOMAIN f.payloads : f.payloads[s] = {FecPayload[s]}

Good(f) == Queued(f) /\ Genuine(f)

(* There are finitely many sequences. *)
LEMMA SequencesAreFinite ==
  ASSUME NEW S \in SUBSET MediaSequences
  PROVE  IsFiniteSet(S) /\ Cardinality(S) \in Nat
<1>1. IsFiniteSet(MediaSequences)
  BY FS_Interval, WindowAssumption DEF MediaSequences
<1> QED BY <1>1, FS_Subset, FS_CardinalityType

(* The elements of a sequence are those of its first n and of the rest. *)
LEMMA SplitRange ==
  ASSUME NEW S, NEW order \in Seq(S), NEW n \in 0..Len(order)
  PROVE  LET front == SubSeq(order, 1, n)
             rest  == SubSeq(order, n + 1, Len(order))
         IN  /\ rest \in Seq(S)
             /\ Range(order) = Range(front) \cup Range(rest)
             /\ Range(order) \subseteq S
             /\ IsInjective(order) => IsInjective(rest) /\ Range(front) \cap Range(rest) = {}
<1> DEFINE k == Len(order)
           front == SubSeq(order, 1, n)
           rest == SubSeq(order, n + 1, k)
<1>1. /\ k \in Nat /\ n \in Nat /\ n <= k /\ DOMAIN order = 1..k
      /\ \A i \in 1..k : order[i] \in S
  OBVIOUS
<1>2. DOMAIN front = 1..n /\ \A i \in 1..n : front[i] = order[i]
  OBVIOUS
<1>3. /\ rest \in Seq(S)
      /\ DOMAIN rest = 1..(k - n) /\ \A i \in 1..(k - n) : rest[i] = order[n + i]
  OBVIOUS
<1> HIDE DEF front, rest, k
<1>4. /\ Range(order) = {order[i] : i \in 1..k}
      /\ Range(front) = {order[i] : i \in 1..n}
      /\ Range(rest) = {order[n + i] : i \in 1..(k - n)}
  BY <1>1, <1>2, <1>3 DEF Range
<1>5. ASSUME NEW i \in (n + 1)..k PROVE i - n \in 1..(k - n) /\ n + (i - n) = i
  BY <1>1
<1>6. Range(order) = Range(front) \cup Range(rest)
  <2>1. ASSUME NEW x \in Range(order) PROVE x \in Range(front) \cup Range(rest)
    <3>1. PICK i \in 1..k : x = order[i]
      BY <1>4
    <3>2. CASE i <= n
      BY <1>1, <1>4, <3>1, <3>2
    <3>3. CASE ~(i <= n)
      <4>1. i \in (n + 1)..k
        BY <1>1, <3>3
      <4> QED BY <1>4, <1>5, <3>1, <4>1
    <3> QED BY <3>2, <3>3
  <2>2. \A i \in 1..n : i \in 1..k
    BY <1>1
  <2>3. \A i \in 1..(k - n) : n + i \in 1..k
    BY <1>1
  <2> QED BY <1>4, <2>1, <2>2, <2>3
<1>7. ASSUME IsInjective(order) PROVE IsInjective(rest) /\ Range(front) \cap Range(rest) = {}
  <2>1. \A a, b \in 1..k : order[a] = order[b] => a = b
    BY <1>1, <1>7 DEF IsInjective
  <2>2. \A i \in 1..(k - n) : n + i \in 1..k
    BY <1>1
  <2>3. IsInjective(rest)
    <3> SUFFICES ASSUME NEW a \in 1..(k - n), NEW b \in 1..(k - n), rest[a] = rest[b]
                 PROVE  a = b
      BY <1>3 DEF IsInjective
    <3>1. n + a = n + b
      BY <1>3, <2>1, <2>2
    <3> QED BY <1>1, <3>1
  <2>4. ASSUME NEW x \in Range(front), x \in Range(rest) PROVE FALSE
    <3>1. PICK i \in 1..n : x = order[i]
      BY <1>4
    <3>2. PICK j \in 1..(k - n) : x = order[n + j]
      BY <1>4, <2>4
    <3>3. i \in 1..k /\ n + j \in 1..k /\ i # n + j
      BY <1>1
    <3> QED BY <2>1, <3>1, <3>2, <3>3
  <2> QED BY <2>3, <2>4
<1>8. Range(order) \subseteq S
  BY <1>1, <1>4
<1> QED BY <1>3, <1>6, <1>7, <1>8 DEF front, rest, k

(* Popping the front of the queue brings a map within its limit. *)
LEMMA Evicted ==
  ASSUME NEW held, NEW order \in Seq(MediaSequences), DOMAIN held \subseteq Range(order),
         NEW limit \in Nat
  PROVE  LET n    == Excess(held, order, limit)
             kept == Without(held, Range(SubSeq(order, 1, n)))
             rest == SubSeq(order, n + 1, Len(order))
         IN  /\ rest \in Seq(MediaSequences)
             /\ DOMAIN kept \subseteq DOMAIN held
             /\ \A s \in DOMAIN kept : kept[s] = held[s]
             /\ DOMAIN kept \subseteq Range(rest)
             /\ Cardinality(DOMAIN kept) <= limit
             /\ DOMAIN held = Range(order) /\ IsInjective(order)
                  => DOMAIN kept = Range(rest) /\ IsInjective(rest)
<1> DEFINE T == {n \in 0..Len(order) :
                   \/ n = Len(order)
                   \/ Cardinality(DOMAIN held \ Range(SubSeq(order, 1, n))) <= limit}
           n == Excess(held, order, limit)
           front == SubSeq(order, 1, n)
           kept == Without(held, Range(front))
           rest == SubSeq(order, n + 1, Len(order))
<1>1. T \in SUBSET Nat /\ Len(order) \in T
  <2>1. Len(order) \in Nat
    OBVIOUS
  <2> QED BY <2>1
<1>2. n \in T
  <2> HIDE DEF T
  <2>1. Min(T) \in T
    BY <1>1, MinOfNaturals
  <2> QED BY <2>1 DEF T, Excess
<1>3. n \in 0..Len(order)
  BY <1>2
<1>4. n = Len(order) \/ Cardinality(DOMAIN held \ Range(front)) <= limit
  BY <1>2
<1> HIDE DEF T, n
<1>5. /\ rest \in Seq(MediaSequences)
      /\ Range(order) = Range(front) \cup Range(rest)
      /\ IsInjective(order) => IsInjective(rest) /\ Range(front) \cap Range(rest) = {}
  BY <1>3, SplitRange
<1>6. n = Len(order) => Range(rest) = {}
  <2>1. ASSUME n = Len(order) PROVE DOMAIN rest = {}
    <3>1. Len(order) \in Nat
      OBVIOUS
    <3> QED BY <2>1, <3>1
  <2> QED BY <2>1 DEF Range
<1> HIDE DEF front, rest
<1>7. /\ DOMAIN kept = DOMAIN held \ Range(front)
      /\ \A s \in DOMAIN kept : kept[s] = held[s]
  BY DEF Without, Restrict
<1> HIDE DEF kept
<1>8. DOMAIN kept \subseteq Range(rest)
  BY <1>5, <1>7
<1>9. Cardinality(DOMAIN kept) <= limit
  <2>1. CASE n = Len(order)
    <3>1. DOMAIN kept = {}
      BY <1>6, <1>8, <2>1
    <3>2. Cardinality(DOMAIN kept) = 0
      BY <3>1, FS_EmptySet
    <3> QED BY <3>2
  <2>2. CASE n # Len(order)
    BY <1>4, <1>7, <2>2
  <2> QED BY <2>1, <2>2
<1>10. ASSUME DOMAIN held = Range(order), IsInjective(order)
       PROVE  DOMAIN kept = Range(rest) /\ IsInjective(rest)
  BY <1>5, <1>7, <1>10
<1> QED BY <1>5, <1>7, <1>8, <1>9, <1>10 DEF kept, rest, front, n

(* Appending to a queue adds its element. *)
LEMMA QueueGrows ==
  ASSUME NEW order \in Seq(MediaSequences), NEW s \in MediaSequences
  PROVE  /\ Append(order, s) \in Seq(MediaSequences)
         /\ Range(Append(order, s)) = Range(order) \cup {s}
         /\ IsInjective(order) /\ s \notin Range(order) => IsInjective(Append(order, s))
<1> DEFINE k == Len(order)
           o == Append(order, s)
<1>1. /\ k \in Nat /\ DOMAIN order = 1..k /\ o \in Seq(MediaSequences)
      /\ DOMAIN o = 1..(k + 1) /\ o[k + 1] = s
      /\ \A i \in 1..k : o[i] = order[i]
  OBVIOUS
<1> HIDE DEF o, k
<1>2. Range(order) = {order[i] : i \in 1..k} /\ Range(o) = {o[i] : i \in 1..(k + 1)}
  BY <1>1 DEF Range
<1>3. \A i \in 1..(k + 1) : i \in 1..k \/ i = k + 1
  BY <1>1
<1>4. \A i \in 1..k : i \in 1..(k + 1)
  BY <1>1
<1>5. k + 1 \in 1..(k + 1)
  BY <1>1
<1>6. Range(o) = Range(order) \cup {s}
  <2>1. Range(o) \subseteq Range(order) \cup {s}
    BY <1>1, <1>2, <1>3
  <2>2. Range(order) \subseteq Range(o)
    BY <1>1, <1>2, <1>4
  <2>3. s \in Range(o)
    BY <1>1, <1>2, <1>5
  <2> QED BY <2>1, <2>2, <2>3
<1>7. ASSUME IsInjective(order), s \notin Range(order) PROVE IsInjective(o)
  <2>1. \A a, b \in 1..k : order[a] = order[b] => a = b
    BY <1>1, <1>7 DEF IsInjective
  <2>2. \A a \in 1..k : order[a] # s
    BY <1>2, <1>7
  <2> SUFFICES ASSUME NEW a \in 1..(k + 1), NEW b \in 1..(k + 1), o[a] = o[b] PROVE a = b
    BY <1>1 DEF IsInjective
  <2> QED BY <1>1, <1>3, <2>1, <2>2
<1> QED BY <1>1, <1>6, <1>7 DEF o

(* Storing the frame of a group keeps the caches good. *)
LEMMA InsertFrameGood ==
  ASSUME NEW f, Good(f), NEW g, IsGroup(g)
  PROVE  Good(InsertFrame(f, ParityFrame(g)))
<1> DEFINE frame == ParityFrame(g)
           frames == With(f.frames, [b \in {frame.base} |-> frame])
           order == IF frame.base \in DOMAIN f.frames THEN f.frame_order
                    ELSE Append(f.frame_order, frame.base)
           n == Excess(frames, order, FrameLimit)
           kept == Without(frames, Range(SubSeq(order, 1, n)))
           rest == SubSeq(order, n + 1, Len(order))
           r == InsertFrame(f, frame)
<1>1. frame.base \in MediaSequences
  <2>1. g[1].packet \in DOMAIN LengthOf
    BY LengthsOfGroup
  <2> QED BY <2>1, SentWraps DEF ParityFrame
<1>2. r = [f EXCEPT !.frames = kept, !.frame_order = rest]
  BY DEF InsertFrame
<1> HIDE DEF frame
<1>3. /\ DOMAIN frames = DOMAIN f.frames \cup {frame.base}
      /\ \A b \in DOMAIN frames : frames[b] = IF b = frame.base THEN frame ELSE f.frames[b]
  BY DEF With
<1>4. order \in Seq(MediaSequences) /\ DOMAIN frames \subseteq Range(order)
  <2>1. CASE frame.base \in DOMAIN f.frames
    BY <1>3, <2>1 DEF Good, Queued
  <2>2. CASE frame.base \notin DOMAIN f.frames
    <3>1. f.frame_order \in Seq(MediaSequences) /\ DOMAIN f.frames \subseteq Range(f.frame_order)
      BY DEF Good, Queued
    <3> QED BY <1>1, <1>3, <2>2, <3>1, QueueGrows
  <2> QED BY <2>1, <2>2
<1>5. FrameLimit \in Nat
  BY FecStateAssumption
<1> HIDE DEF frames, order
<1>6. /\ rest \in Seq(MediaSequences)
      /\ DOMAIN kept \subseteq DOMAIN frames
      /\ \A s \in DOMAIN kept : kept[s] = frames[s]
      /\ DOMAIN kept \subseteq Range(rest)
      /\ Cardinality(DOMAIN kept) <= FrameLimit
  BY <1>4, <1>5, Evicted
<1> HIDE DEF kept, rest, r
<1>7. /\ DOMAIN r = {"frames", "frame_order", "payloads", "payload_order"}
      /\ r.frames = kept /\ r.frame_order = rest
      /\ r.payloads = f.payloads /\ r.payload_order = f.payload_order
  BY <1>2 DEF Good, Queued
<1>8. Queued(r)
  BY <1>6, <1>7 DEF Good, Queued
<1>9. ASSUME NEW b \in DOMAIN r.frames
      PROVE  \E h : IsGroup(h) /\ r.frames[b] = ParityFrame(h) /\ b = ParityFrame(h).base
  <2>1. b \in DOMAIN frames /\ r.frames[b] = frames[b]
    BY <1>6, <1>7, <1>9
  <2>2. CASE b = frame.base
    BY <1>3, <2>1, <2>2 DEF frame
  <2>3. CASE b # frame.base
    BY <1>3, <2>1, <2>3 DEF Good, Genuine
  <2> QED BY <2>2, <2>3
<1>10. Genuine(r)
  BY <1>7, <1>9 DEF Good, Genuine
<1> QED BY <1>8, <1>10 DEF Good, r, frame

(* Storing what was sent keeps them good. *)
LEMMA InsertPayloadGood ==
  ASSUME NEW f, Good(f), NEW s \in MediaSequences, NEW payload, payload = {FecPayload[s]}
  PROVE  LET r == InsertPayload(f, s, payload)
         IN  /\ Good(r) /\ r.frames = f.frames
             /\ DOMAIN r.payloads \subseteq DOMAIN f.payloads \cup {s}
<1> DEFINE payloads == With(f.payloads, [t \in {s} |-> payload])
           order == Append(f.payload_order, s)
           n == Excess(payloads, order, PayloadLimit)
           kept == Without(payloads, Range(SubSeq(order, 1, n)))
           rest == SubSeq(order, n + 1, Len(order))
           r == InsertPayload(f, s, payload)
<1>1. CASE s \in DOMAIN f.payloads
  <2>1. r = f
    BY <1>1 DEF InsertPayload
  <2> QED BY <2>1
<1>2. CASE s \notin DOMAIN f.payloads
  <2>1. r = [f EXCEPT !.payloads = kept, !.payload_order = rest]
    BY <1>2 DEF InsertPayload
  <2>2. /\ DOMAIN payloads = DOMAIN f.payloads \cup {s}
        /\ \A t \in DOMAIN payloads : payloads[t] = IF t = s THEN payload ELSE f.payloads[t]
    BY DEF With
  <2>3. /\ f.payload_order \in Seq(MediaSequences) /\ IsInjective(f.payload_order)
        /\ DOMAIN f.payloads = Range(f.payload_order)
    BY DEF Good, Queued
  <2>4. /\ order \in Seq(MediaSequences) /\ Range(order) = Range(f.payload_order) \cup {s}
        /\ IsInjective(order)
    BY <1>2, <2>3, QueueGrows
  <2>5. DOMAIN payloads = Range(order) /\ PayloadLimit \in Nat
    BY <2>2, <2>3, <2>4, FecStateAssumption
  <2> HIDE DEF payloads, order
  <2>6. /\ rest \in Seq(MediaSequences)
        /\ DOMAIN kept \subseteq DOMAIN payloads
        /\ \A t \in DOMAIN kept : kept[t] = payloads[t]
        /\ Cardinality(DOMAIN kept) <= PayloadLimit
        /\ DOMAIN kept = Range(rest) /\ IsInjective(rest)
    BY <2>4, <2>5, Evicted
  <2> HIDE DEF kept, rest, r
  <2>7. /\ DOMAIN r = {"frames", "frame_order", "payloads", "payload_order"}
        /\ r.payloads = kept /\ r.payload_order = rest
        /\ r.frames = f.frames /\ r.frame_order = f.frame_order
    BY <2>1 DEF Good, Queued
  <2>8. Queued(r)
    BY <2>6, <2>7 DEF Good, Queued
  <2>9. \A t \in DOMAIN r.payloads : r.payloads[t] = {FecPayload[t]}
    BY <2>2, <2>6, <2>7 DEF Good, Genuine
  <2>10. Genuine(r)
    BY <2>7, <2>9 DEF Good, Genuine
  <2>11. DOMAIN r.payloads \subseteq DOMAIN f.payloads \cup {s}
    BY <2>2, <2>6, <2>7
  <2> QED BY <2>7, <2>8, <2>10, <2>11 DEF Good, r
<1> QED BY <1>1, <1>2

Stores == INSTANCE Induction WITH Op <- Store

(* So does storing everything that is forwarded. *)
LEMMA StoreAllGood ==
  ASSUME NEW f, Good(f), NEW q \in Seq(Forwarded)
  PROVE  LET r == FoldLeft(Store, f, q)
         IN  /\ Good(r) /\ r.frames = f.frames
             /\ DOMAIN r.payloads \subseteq DOMAIN f.payloads \cup {q[i].sequence : i \in 1..Len(q)}
<1> DEFINE n == Len(q)
           S == {q[i].sequence : i \in 1..n}
           h == Stores!Trace(n, f, q)
<1>1. n \in Nat /\ DOMAIN q = 1..n /\ \A i \in 1..n : q[i] \in Forwarded
  OBVIOUS
<1>2. Stores!Folded(f, q) = FoldLeft(Store, f, q)
  BY DEF Stores!Folded, Stores!FoldLeft, FoldLeft, Stores!MapThenFoldSet, MapThenFoldSet,
         Stores!Max, Max
<1>3. /\ h[0] = f
      /\ h[n] = Stores!Folded(f, q)
      /\ \A k \in 1..n : h[k] = Store(h[k - 1], q[k])
  <2>1. Stores!IsTrace(Stores!Trace(n, f, q), n, f, q)
    BY <1>1, Stores!FoldTrace
  <2> QED BY <2>1 DEF Stores!IsTrace
<1> HIDE DEF n, h
<1> DEFINE Fine(r) == /\ Good(r) /\ r.frames = f.frames
                      /\ DOMAIN r.payloads \subseteq DOMAIN f.payloads \cup S
           H == {k \in 0..n : Fine(h[k])}
<1>4. 0 \in H
  BY <1>1, <1>3
<1>5. ASSUME NEW k \in 0..(n - 1), k \in H PROVE k + 1 \in H
  <2>1. k + 1 \in 1..n /\ k + 1 \in 0..n /\ (k + 1) - 1 = k
    BY <1>1
  <2> DEFINE o == q[k + 1]
             b == h[k]
  <2>2. h[k + 1] = InsertPayload(b, o.sequence, o.payload)
    BY <1>3, <2>1 DEF Store
  <2>3. o.sequence \in MediaSequences /\ o.payload = {FecPayload[o.sequence]} /\ o.sequence \in S
    BY <1>1, <2>1 DEF Forwarded
  <2>4. Fine(b)
    BY <1>5
  <2> HIDE DEF b, o, S
  <2>5. Fine(InsertPayload(b, o.sequence, o.payload))
    BY <2>3, <2>4, InsertPayloadGood
  <2> HIDE DEF Fine
  <2> QED BY <2>1, <2>2, <2>5
<1>6. H \in SUBSET Nat
  OBVIOUS
<1> HIDE DEF H
<1>7. 0..n \subseteq H
  BY <1>1, <1>4, <1>5, <1>6, UpTo
<1>8. Fine(h[n])
  BY <1>1, <1>7 DEF H
<1> QED BY <1>2, <1>3, <1>8 DEF n

-----------------------------------------------------------------------------
(* Parity. *)

Values(n, p) == {p[i] : i \in 1..n}

(* The exclusive or of different packets is all of them. *)
LEMMA XorOfDifferent ==
  ASSUME NEW n \in Nat, NEW p, \A a \in 1..n : \A b \in 1..n : p[a] = p[b] => a = b,
         NEW f, DOMAIN f = 1..n, \A i \in 1..n : f[i] = {p[i]}
  PROVE  Xor(f) = Values(n, p)
<1>1. UNION {f[i] : i \in DOMAIN f} = {p[i] : i \in 1..n}
  OBVIOUS
<1>2. ASSUME NEW i \in 1..n PROVE Cardinality({a \in DOMAIN f : p[i] \in f[a]}) % 2 = 1
  <2>1. {a \in DOMAIN f : p[i] \in f[a]} = {i}
    OBVIOUS
  <2>2. Cardinality({i}) = 1
    BY FS_Singleton
  <2>3. 1 % 2 = 1
    OBVIOUS
  <2> QED BY <2>1, <2>2, <2>3
<1>3. \A k \in {p[i] : i \in 1..n} : Cardinality({a \in DOMAIN f : k \in f[a]}) % 2 = 1
  BY <1>2
<1>4. Xor(f) = {k \in {p[i] : i \in 1..n} : Cardinality({a \in DOMAIN f : k \in f[a]}) % 2 = 1}
  BY <1>1, Zenon DEF Xor
<1> QED BY <1>3, <1>4, Zenon DEF Values

(* f[0] is the parity of n different packets p[i], the others of f are all *)
(* of those packets but p[j].                                              *)
AllButOne(n, p, j, f) ==
  /\ n \in Nat /\ j \in 1..n
  /\ \A a \in 1..n : \A b \in 1..n : p[a] = p[b] => a = b
  /\ DOMAIN f = ((1..n) \ {j}) \cup {0}
  /\ f[0] = Values(n, p)
  /\ \A i \in (1..n) \ {j} : f[i] = {p[i]}

(* The parity of a group and all of its packets but one give that one. *)
LEMMA XorLeavesOne ==
  ASSUME NEW n, NEW p, NEW j, NEW f, AllButOne(n, p, j, f)
  PROVE  Xor(f) = {p[j]}
<1> USE DEF AllButOne
<1> DEFINE U == Values(n, p)
           Odd(k) == Cardinality({a \in DOMAIN f : k \in f[a]}) % 2 = 1
<1>1. UNION {f[i] : i \in DOMAIN f} = U
  <2>1. \A a \in DOMAIN f : f[a] \subseteq U
    BY DEF Values
  <2>2. 0 \in DOMAIN f /\ f[0] = U
    OBVIOUS
  <2> HIDE DEF U
  <2> QED BY <2>1, <2>2
<1>2. Odd(p[j])
  <2>1. {a \in DOMAIN f : p[j] \in f[a]} = {0}
    BY DEF Values
  <2>2. Cardinality({0}) = 1
    BY FS_Singleton
  <2>3. 1 % 2 = 1
    OBVIOUS
  <2> QED BY <2>1, <2>2, <2>3
<1>3. ASSUME NEW i \in (1..n) \ {j} PROVE ~Odd(p[i])
  <2>1. {a \in DOMAIN f : p[i] \in f[a]} = {0} \cup {i} /\ i # 0
    BY DEF Values
  <2>2. Cardinality({0} \cup {i}) = 2
    <3> DEFINE S == {0}
    <3>1. IsFiniteSet(S) /\ Cardinality(S) = 1 /\ i \notin S
      BY <2>1, FS_Singleton
    <3> HIDE DEF S
    <3>2. Cardinality(S \cup {i}) = Cardinality(S) + 1
      BY <3>1, FS_AddElement
    <3>3. Cardinality(S \cup {i}) = 2
      BY <3>1, <3>2
    <3> QED BY <3>3 DEF S
  <2>3. 2 % 2 = 0 /\ 0 # 1
    OBVIOUS
  <2>4. Cardinality({a \in DOMAIN f : p[i] \in f[a]}) % 2 = 0
    BY <2>1, <2>2, <2>3, Zenon
  <2> QED BY <2>3, <2>4, Zenon
<1>4. Xor(f) = {k \in U : Odd(k)}
  BY <1>1, Zenon DEF Xor
<1> HIDE DEF Odd
<1> QED BY <1>2, <1>3, <1>4 DEF Values

(* The i-th packet of a parity frame is the i-th packet of its group. *)
LEMMA FrameSequences ==
  ASSUME NEW g, IsGroup(g)
  PROVE  /\ Indices(ParityFrame(g)) = 1..Len(g)
         /\ \A i \in 1..Len(g) :
              SequenceAt(ParityFrame(g), i) = SentSequence(g[i].packet)
         /\ \A a \in 1..Len(g) : \A b \in 1..Len(g) : g[a].packet = g[b].packet => a = b
<1> DEFINE n == Len(g)
           k == g[1].packet
<1>1. /\ n \in Nat \ {0} /\ DOMAIN g = 1..n
      /\ \A i \in 1..n : g[i].packet \in DOMAIN LengthOf
      /\ DOMAIN Lengths(g) = 1..n
  BY LengthsOfGroup
<1>2. \A i \in 1..n : g[i].packet = k + i - 1
  BY DEF IsGroup
<1>3. k \in DOMAIN LengthOf /\ k \in Nat /\ k >= 1
  BY <1>1, SentWraps
<1>4. Indices(ParityFrame(g)) = 1..n
  BY <1>1 DEF Indices, ParityFrame
<1>5. ParityFrame(g).base = SentSequence(k)
  BY DEF ParityFrame
<1> HIDE DEF n, k
<1>6. ASSUME NEW i \in 1..n
      PROVE  SequenceAt(ParityFrame(g), i) = SentSequence(g[i].packet)
  <2>1. g[i].packet = k + (i - 1) /\ g[i].packet \in DOMAIN LengthOf
    BY <1>1, <1>2, <1>3
  <2>2. g[i].packet <= Len(LengthOf)
    BY <2>1, SentWraps
  <2>3. Len(LengthOf) \in Nat /\ Len(LengthOf) <= MaxMediaSequence + 1 /\ MaxMediaSequence \in Nat
    BY FecAssumption, WindowAssumption
  <2>4. i - 1 \in 0..MaxMediaSequence /\ k + (i - 1) <= MaxMediaSequence + 1
    BY <1>1, <1>3, <2>1, <2>2, <2>3
  <2>5. SequenceAfter(SentSequence(k), i - 1) = SentSequence(k + (i - 1))
    BY <1>3, <2>4, SentAfter
  <2> QED BY <1>5, <2>1, <2>5 DEF SequenceAt
<1>7. ASSUME NEW a \in 1..n, NEW b \in 1..n, g[a].packet = g[b].packet PROVE a = b
  BY <1>1, <1>2, <1>3, <1>7
<1> QED BY <1>4, <1>6, <1>7 DEF n

(* What is buffered and forwarded is what was sent. *)
Holds(w) ==
  /\ w.out \in Seq(Forwarded)
  /\ \A s \in DOMAIN w.buffered : w.buffered[s].payload = {FecPayload[s]}

(* What the scan knows of a group is what was sent. *)
LEMMA KnownIsSent ==
  ASSUME NEW f, Genuine(f), NEW w, Holds(w), NEW k \in DOMAIN LengthOf,
         Known(f, w, SentSequence(k))
  PROVE  PayloadFor(f, w, SentSequence(k)) = {k}
<1>1. FecPayload[SentSequence(k)] = k
  BY SentIsProtected
<1>2. PayloadFor(f, w, SentSequence(k)) = {FecPayload[SentSequence(k)]}
  BY DEF Genuine, Holds, Known, PayloadFor
<1> QED BY <1>1, <1>2

(* What a frame gives is the packet that was sent. *)
LEMMA RecoveredIsSent ==
  ASSUME NEW f, Genuine(f), NEW w, Holds(w), NEW b \in DOMAIN f.frames,
         NEW r \in RecoveredFrom(f, w, b)
  PROVE  r \in Forwarded
<1>1. PICK g : IsGroup(g) /\ f.frames[b] = ParityFrame(g)
  BY DEF Genuine
<1> DEFINE frame == ParityFrame(g)
           n == Len(g)
           absent == AbsentFrom(f, w, frame)
<1>2. PICK j \in absent :
        /\ absent = {j}
        /\ r = [sequence |-> SequenceAt(frame, j), payload |-> Combined(f, w, frame)]
  BY <1>1 DEF RecoveredFrom
<1>3. /\ Indices(frame) = 1..n
      /\ \A i \in 1..n : SequenceAt(frame, i) = SentSequence(g[i].packet)
      /\ \A x \in 1..n : \A y \in 1..n : g[x].packet = g[y].packet => x = y
  BY <1>1, FrameSequences
<1>4. n \in Nat /\ DOMAIN g = 1..n /\ \A i \in 1..n : g[i].packet \in DOMAIN LengthOf
  BY <1>1, LengthsOfGroup
<1>5. absent = {i \in 1..n : ~Known(f, w, SequenceAt(frame, i))}
  BY <1>3 DEF AbsentFrom
<1>6. j \in 1..n
  BY <1>2, <1>5
<1> DEFINE p == [i \in 1..n |-> g[i].packet]
           c == [i \in ((1..n) \ absent) \cup {0} |->
                   IF i = 0 THEN frame.parity ELSE PayloadFor(f, w, SequenceAt(frame, i))]
<1>7. Combined(f, w, frame) = Xor(c)
  BY <1>3 DEF Combined
<1>8. frame.parity = Values(n, p)
  <2> DEFINE q == [i \in DOMAIN g |-> {g[i].packet}]
  <2>1. DOMAIN q = 1..n /\ \A i \in 1..n : q[i] = {p[i]}
    BY <1>4
  <2>2. \A i \in 1..n : \A k \in 1..n : p[i] = p[k] => i = k
    BY <1>3
  <2>3. frame.parity = Xor(q)
    BY DEF ParityFrame
  <2> HIDE DEF q, p, n
  <2>4. Xor(q) = Values(n, p)
    BY <1>4, <2>1, <2>2, XorOfDifferent
  <2> QED BY <2>3, <2>4, Zenon
<1>9. \A i \in (1..n) \ {j} : PayloadFor(f, w, SequenceAt(frame, i)) = {p[i]}
  <2> SUFFICES ASSUME NEW i \in (1..n) \ {j}
               PROVE  PayloadFor(f, w, SequenceAt(frame, i)) = {p[i]}
    OBVIOUS
  <2>1. SequenceAt(frame, i) = SentSequence(g[i].packet) /\ g[i].packet \in DOMAIN LengthOf
    BY <1>3, <1>4
  <2>2. Known(f, w, SequenceAt(frame, i))
    BY <1>2, <1>5
  <2>3. p[i] = g[i].packet
    OBVIOUS
  <2> HIDE DEF frame, p
  <2> QED BY <2>1, <2>2, <2>3, KnownIsSent
<1>10. DOMAIN c = ((1..n) \ {j}) \cup {0} /\ c[0] = frame.parity
       /\ \A i \in (1..n) \ {j} : c[i] = PayloadFor(f, w, SequenceAt(frame, i))
  <2> HIDE DEF absent, frame, n
  <2>1. \A i \in (1..n) \ {j} : i # 0
    BY <1>4
  <2> QED BY <1>2, <2>1
<1>11. \A y \in 1..n : \A z \in 1..n : p[y] = p[z] => y = z
  BY <1>3
<1>12. p[j] = g[j].packet
  BY <1>6
<1> HIDE DEF c, p, n, frame, absent
<1>13. Xor(c) = {p[j]}
  <2>1. c[0] = Values(n, p) /\ \A i \in (1..n) \ {j} : c[i] = {p[i]}
    BY <1>8, <1>9, <1>10, Zenon
  <2>2. AllButOne(n, p, j, c)
    BY <1>4, <1>6, <1>10, <1>11, <2>1 DEF AllButOne
  <2> QED BY <2>2, XorLeavesOne
<1>14. /\ SequenceAt(frame, j) = SentSequence(g[j].packet)
       /\ g[j].packet \in DOMAIN LengthOf
  BY <1>3, <1>4, <1>6
<1>15. FecPayload[SequenceAt(frame, j)] = g[j].packet /\ SequenceAt(frame, j) \in MediaSequences
  BY <1>14, SentIsProtected, SentWraps
<1> QED BY <1>2, <1>7, <1>12, <1>13, <1>15 DEF Forwarded

-----------------------------------------------------------------------------
(* The window and the caches together. *)

(* What draining forwards. *)
RunOf(w) ==
  [i \in 1..(RunEnd(w) - w.next) |->
     [sequence |-> w.next + i - 1, payload |-> w.buffered[w.next + i - 1].payload]]

Sequences(run) == {run[i].sequence : i \in 1..Len(run)}

(* Draining forwards what is buffered. *)
LEMMA DrainHolds ==
  ASSUME NEW w, Sound(w), Holds(w)
  PROVE  /\ Holds(Drain(w))
         /\ RunOf(w) \in Seq(Forwarded)
         /\ Drain(w).out = w.out \o RunOf(w)
         /\ Sequences(RunOf(w)) \subseteq DOMAIN w.buffered
         /\ DOMAIN Drain(w).buffered \subseteq DOMAIN w.buffered
<1> DEFINE end == RunEnd(w)
           n == end - w.next
           run == RunOf(w)
           v == Drain(w)
<1>1. /\ end \in w.next..(MaxMediaSequence + 1)
      /\ w.next..(end - 1) \subseteq DOMAIN w.buffered
  BY RunEndIsFirstMissing
<1>2. /\ DOMAIN w = WindowFields
      /\ w.next \in Nat /\ MaxMediaSequence \in Nat
      /\ DOMAIN w.buffered \subseteq w.next..MaxMediaSequence
  BY WindowAssumption DEF Sound, MediaSequences
<1>3. /\ v.buffered = Without(w.buffered, w.next..(end - 1))
      /\ v.out = w.out \o run
  BY <1>2, DrainFields DEF RunOf
<1>4. /\ DOMAIN v.buffered \subseteq DOMAIN w.buffered
      /\ \A s \in DOMAIN v.buffered : v.buffered[s] = w.buffered[s]
  <2> HIDE DEF v
  <2> QED BY <1>3 DEF Without, Restrict
<1>5. n \in Nat
  BY <1>1, <1>2
<1>6. ASSUME NEW i \in 1..n
      PROVE  /\ w.next + i - 1 \in DOMAIN w.buffered
             /\ w.next + i - 1 \in MediaSequences
             /\ run[i] = [sequence |-> w.next + i - 1,
                          payload |-> {FecPayload[w.next + i - 1]}]
  <2>1. w.next + i - 1 \in w.next..(end - 1)
    BY <1>1, <1>2
  <2>2. w.next + i - 1 \in DOMAIN w.buffered
    BY <1>1, <2>1
  <2>3. w.buffered[w.next + i - 1].payload = {FecPayload[w.next + i - 1]}
    BY <2>2 DEF Holds
  <2>4. w.next + i - 1 \in MediaSequences
    BY <1>2, <2>2 DEF MediaSequences
  <2>5. run[i] = [sequence |-> w.next + i - 1, payload |-> w.buffered[w.next + i - 1].payload]
    BY DEF RunOf
  <2> HIDE DEF run, n
  <2> QED BY <2>2, <2>3, <2>4, <2>5
<1>7. DOMAIN run = 1..n
  BY DEF RunOf
<1> HIDE DEF run, n, v
<1>8. ASSUME NEW i \in 1..n
      PROVE  run[i] \in Forwarded /\ run[i].sequence \in DOMAIN w.buffered
  <2> DEFINE s == w.next + i - 1
  <2>1. /\ s \in DOMAIN w.buffered /\ s \in MediaSequences
        /\ run[i] = [sequence |-> s, payload |-> {FecPayload[s]}]
    BY <1>6
  <2> HIDE DEF s
  <2> QED BY <2>1 DEF Forwarded
<1>9. run \in [1..n -> Forwarded]
  <2>1. run = [i \in 1..n |-> run[i]]
    BY <1>7 DEF run, RunOf, n
  <2> QED BY <1>8, <2>1
<1>10. run \in Seq(Forwarded) /\ Len(run) = n
  BY <1>5, <1>9
<1>11. Sequences(run) \subseteq DOMAIN w.buffered
  BY <1>8, <1>10 DEF Sequences
<1>12. v.out \in Seq(Forwarded)
  BY <1>3, <1>10 DEF Holds
<1>13. Holds(v)
  BY <1>4, <1>12 DEF Holds
<1> QED BY <1>3, <1>4, <1>10, <1>11, <1>13 DEF run, v

(* Window w has forwarded run since that of v. *)
Moves(v, w, run) ==
  /\ Good(v.fec)
  /\ v.window.out \in Seq(Forwarded) /\ run \in Seq(Forwarded)
  /\ w.out = v.window.out \o run

(* Storing what a move of the window forwarded keeps the caches good. *)
LEMMA MovedGood ==
  ASSUME NEW v, NEW w, NEW run, Moves(v, w, run)
  PROVE  LET u == Moved(v, w)
         IN  /\ DOMAIN u = {"window", "fec"} /\ u.window = w
             /\ Good(u.fec) /\ u.fec.frames = v.fec.frames
             /\ DOMAIN u.fec.payloads \subseteq DOMAIN v.fec.payloads \cup Sequences(run)
<1> DEFINE before == v.window.out
           q == SubSeq(w.out, Len(before) + 1, Len(w.out))
           r == FoldLeft(Store, v.fec, q)
<1>1. q = run
  <2> HIDE DEF before
  <2>1. before \in Seq(Forwarded) /\ run \in Seq(Forwarded) /\ w.out = before \o run
    BY DEF before, Moves
  <2>2. Len(w.out) = Len(before) + Len(run) /\ Len(before) \in Nat /\ Len(run) \in Nat
    BY <2>1
  <2>3. q = [i \in 1..Len(run) |-> run[i]]
    BY <2>1, <2>2
  <2> QED BY <2>1, <2>3
<1>2. Moved(v, w) = [window |-> w, fec |-> r]
  BY DEF Moved
<1> HIDE DEF q
<1>3. /\ Good(r) /\ r.frames = v.fec.frames
      /\ DOMAIN r.payloads \subseteq DOMAIN v.fec.payloads \cup Sequences(run)
  BY <1>1, StoreAllGood DEF Sequences, Moves
<1> HIDE DEF r
<1> QED BY <1>2, <1>3

(* A window at rest and the caches, both holding what was sent. *)
Pair(v) ==
  /\ DOMAIN v = {"window", "fec"}
  /\ AtRest(v.window) /\ Holds(v.window)
  /\ Good(v.fec)

(* Accepting what was sent keeps both. *)
LEMMA AcceptPayloadGood ==
  ASSUME NEW v, Pair(v), NEW s \in v.window.next..MaxMediaSequence,
         NEW payload, payload = {FecPayload[s]}
  PROVE  Pair(AcceptPayload(v, s, payload))
         /\ AcceptPayload(v, s, payload).fec.frames = v.fec.frames
<1> DEFINE w == v.window
           P == [t \in {s} |-> payload]
           B == [t \in DOMAIN P |-> [payload |-> P[t], age |-> 0]]
           x == [w EXCEPT !.buffered  = With(@, B),
                          !.fragments = Without(@, DOMAIN P),
                          !.seen      = @ \cup DOMAIN P]
           f == InsertPayload(v.fec, s, payload)
           y == [v EXCEPT !.fec = f]
<1>1. Sound(w) /\ Holds(w) /\ Good(v.fec) /\ DOMAIN v = {"window", "fec"}
  BY DEF Pair, AtRest
<1>2. /\ DOMAIN x = WindowFields
      /\ x.next = w.next
      /\ x.buffered = With(w.buffered, B)
      /\ x.fragments = Without(w.fragments, DOMAIN P)
      /\ x.seen = w.seen \cup DOMAIN P
      /\ x.gap = w.gap
      /\ x.out = w.out
  <2> HIDE DEF w, B, P
  <2> QED BY <1>1 DEF Sound, WindowFields
<1>3. /\ DOMAIN P = {s} /\ DOMAIN B = {s} /\ B[s].payload = {FecPayload[s]}
  OBVIOUS
<1>4. Accept(w, P) = Drain(x)
  BY DEF Accept
<1>5. y.window = w /\ y.fec = f
  BY <1>1
<1>6. AcceptPayload(v, s, payload) = Moved(y, Drain(x))
  BY <1>4 DEF AcceptPayload
<1>7. s \in MediaSequences
  BY <1>1, WindowAssumption DEF Sound, MediaSequences
<1>8. s \in w.next..MaxMediaSequence
  OBVIOUS
<1> HIDE DEF x, B, P, y, w
<1>9. /\ DOMAIN x.buffered = DOMAIN w.buffered \cup DOMAIN P
      /\ DOMAIN x.fragments = DOMAIN w.fragments \ DOMAIN P
      /\ \A t \in DOMAIN x.buffered : x.buffered[t] = IF t = s THEN B[s] ELSE w.buffered[t]
  BY <1>2, <1>3 DEF With, Without, Restrict
<1>10. Sound(x)
  BY <1>1, <1>2, <1>3, <1>8, <1>9 DEF Sound
<1>11. Holds(x)
  BY <1>1, <1>2, <1>3, <1>9 DEF Holds
<1>12. Good(f) /\ f.frames = v.fec.frames
  BY <1>1, <1>7, InsertPayloadGood
<1> HIDE DEF f
<1>13. AtRest(Drain(x)) /\ Holds(Drain(x)) /\ RunOf(x) \in Seq(Forwarded)
       /\ Drain(x).out = x.out \o RunOf(x)
  BY <1>10, <1>11, DrainSound, DrainHolds
<1>14. w.out \in Seq(Forwarded)
  BY <1>1 DEF Holds
<1> DEFINE u == Moved(y, Drain(x))
<1>15. /\ DOMAIN u = {"window", "fec"} /\ u.window = Drain(x)
       /\ Good(u.fec) /\ u.fec.frames = y.fec.frames
  <2> DEFINE z == Drain(x)
             run == RunOf(x)
  <2>1. Moves(y, z, run)
    BY <1>2, <1>5, <1>12, <1>13, <1>14 DEF Moves
  <2> HIDE DEF z, run
  <2>2. /\ DOMAIN Moved(y, z) = {"window", "fec"} /\ Moved(y, z).window = z
        /\ Good(Moved(y, z).fec) /\ Moved(y, z).fec.frames = y.fec.frames
    BY <2>1, MovedGood
  <2> QED BY <2>2 DEF z
<1> HIDE DEF u
<1> QED BY <1>5, <1>6, <1>12, <1>13, <1>15 DEF Pair, u

(* Accepting what a frame gave keeps both, and the frames. *)
LEMMA AcceptRecoveredGood ==
  ASSUME NEW v, Pair(v), NEW given \in SUBSET Forwarded
  PROVE  /\ Pair(AcceptRecovered(v, given))
         /\ AcceptRecovered(v, given).fec.frames = v.fec.frames
<1> DEFINE w == v.window
           accepted == {r \in given : /\ r.sequence >= w.next
                                      /\ r.sequence \notin w.seen \cup DOMAIN w.buffered}
           r == CHOOSE x \in accepted : TRUE
<1>1. AcceptRecovered(v, given) =
        IF accepted = {} THEN v ELSE AcceptPayload(v, r.sequence, r.payload)
  BY DEF AcceptRecovered
<1>2. CASE accepted = {}
  BY <1>1, <1>2
<1>3. CASE accepted # {}
  <2>1. r \in accepted
    BY <1>3
  <2>2. r \in Forwarded /\ r.sequence >= w.next
    BY <2>1
  <2> HIDE DEF r, accepted
  <2>3. r.sequence \in MediaSequences /\ r.payload = {FecPayload[r.sequence]}
    BY <2>2 DEF Forwarded
  <2>4. w.next \in MediaSequences
    BY DEF Pair, AtRest, Sound
  <2>5. r.sequence \in w.next..MaxMediaSequence
    BY <2>2, <2>3, <2>4, WindowAssumption DEF MediaSequences
  <2>6. AcceptRecovered(v, given) = AcceptPayload(v, r.sequence, r.payload)
    BY <1>1, <1>3
  <2> QED BY <2>3, <2>5, <2>6, AcceptPayloadGood
<1> QED BY <1>2, <1>3

(* Every frame waits for more than one packet. *)
Settled(v) ==
  \A b \in DOMAIN v.fec.frames : Waits(v.fec, v.window, v.fec.frames[b])

Waiting(v) ==
  {b \in DOMAIN v.fec.frames : Waits(v.fec, v.window, v.fec.frames[b])}

(* The caches without the frames that do not wait. *)
Trimmed(v) ==
  [v.fec EXCEPT !.frames = [b \in Waiting(v) |-> v.fec.frames[b]]]

(* They are as good as before, and what waited still waits. *)
LEMMA TrimmedGood ==
  ASSUME NEW v, Pair(v)
  PROVE  LET u == [v EXCEPT !.fec = Trimmed(v)]
         IN  /\ Pair(u) /\ u.window = v.window /\ u.fec = Trimmed(v)
             /\ DOMAIN Trimmed(v).frames = Waiting(v)
             /\ Settled(v) => Settled(u)
<1> DEFINE f == v.fec
           w == v.window
           kept == [b \in Waiting(v) |-> f.frames[b]]
           e == Trimmed(v)
           u == [v EXCEPT !.fec = e]
<1>1. Good(f) /\ DOMAIN v = {"window", "fec"}
  BY DEF Pair
<1>2. u.window = w /\ u.fec = e /\ DOMAIN u = {"window", "fec"}
  BY <1>1
<1>3. Waiting(v) \subseteq DOMAIN f.frames
  BY DEF Waiting
<1>4. DOMAIN kept = Waiting(v) /\ \A b \in Waiting(v) : kept[b] = f.frames[b]
  OBVIOUS
<1>5. e = [f EXCEPT !.frames = kept]
  BY DEF Trimmed
<1> HIDE DEF kept, e, u
<1>6. /\ DOMAIN e = {"frames", "frame_order", "payloads", "payload_order"}
      /\ e.frames = kept /\ e.frame_order = f.frame_order
      /\ e.payloads = f.payloads /\ e.payload_order = f.payload_order
  <2> HIDE DEF f
  <2> QED BY <1>1, <1>5 DEF Good, Queued
<1>7. Cardinality(Waiting(v)) <= FrameLimit
  <2>1. DOMAIN f.frames \subseteq Range(f.frame_order) /\ f.frame_order \in Seq(MediaSequences)
        /\ Cardinality(DOMAIN f.frames) <= FrameLimit
    BY <1>1 DEF Good, Queued
  <2>2. DOMAIN f.frames \in SUBSET MediaSequences
    BY <2>1 DEF Range
  <2>3. /\ IsFiniteSet(DOMAIN f.frames) /\ Cardinality(DOMAIN f.frames) \in Nat
        /\ Cardinality(Waiting(v)) \in Nat
    BY <1>3, <2>2, SequencesAreFinite
  <2>4. Cardinality(Waiting(v)) <= Cardinality(DOMAIN f.frames)
    BY <1>3, <2>3, FS_Subset
  <2> QED BY <2>1, <2>3, <2>4, FecStateAssumption
<1>8. Good(e)
  BY <1>1, <1>3, <1>4, <1>6, <1>7 DEF Good, Queued, Genuine
<1>9. Pair(u)
  BY <1>2, <1>8 DEF Pair
<1>10. ASSUME Settled(v) PROVE Settled(u)
  <2>1. Waiting(v) = DOMAIN f.frames
    BY <1>10 DEF Settled, Waiting
  <2>2. ASSUME NEW b \in DOMAIN kept PROVE Waits(e, w, kept[b])
    <3>1. Waits(f, w, kept[b])
      BY <1>4, <2>2 DEF Waiting
    <3> QED BY <1>6, <3>1 DEF Waits, Unusable, AbsentFrom, Known, PayloadFor
  <2> QED BY <1>2, <1>6, <2>2 DEF Settled
<1> QED BY <1>2, <1>4, <1>6, <1>9, <1>10 DEF u, e

Accepts == INSTANCE Induction WITH Op <- AcceptRecovered

(* A pass removes the frames that do not wait; a pass that finds all of    *)
(* them waiting changes nothing.                                           *)
LEMMA OnePassGood ==
  ASSUME NEW v, Pair(v)
  PROVE  /\ Pair(OnePass(v))
         /\ DOMAIN OnePass(v).fec.frames = Waiting(v)
         /\ Settled(v) => Settled(OnePass(v))
<1> DEFINE f == v.fec
           w == v.window
           n == MaxMediaSequence + 1
           given == [i \in 1..n |->
                       IF i - 1 \in DOMAIN f.frames THEN RecoveredFrom(f, w, i - 1) ELSE {}]
           u == [v EXCEPT !.fec = Trimmed(v)]
           h == Accepts!Trace(n, u, given)
<1>1. OnePass(v) = FoldLeft(AcceptRecovered, u, given)
  BY DEF OnePass, RecoverReady, Trimmed, Waiting
<1>2. /\ Pair(u) /\ u.window = v.window /\ u.fec = Trimmed(v)
      /\ DOMAIN Trimmed(v).frames = Waiting(v)
      /\ Settled(v) => Settled(u)
  BY TrimmedGood
<1>3. n \in Nat /\ DOMAIN given = 1..n
  BY WindowAssumption
<1>4. ASSUME NEW i \in 1..n PROVE given[i] \in SUBSET Forwarded
  <2>1. Genuine(f) /\ Holds(w)
    BY DEF Pair, Good
  <2> HIDE DEF f, w
  <2> QED BY <2>1, RecoveredIsSent
<1>5. ASSUME Settled(v), NEW i \in 1..n PROVE given[i] = {}
  <2>1. CASE i - 1 \in DOMAIN f.frames
    <3> DEFINE absent == AbsentFrom(f, w, f.frames[i - 1])
    <3>1. Cardinality(absent) > 1
      BY <1>5, <2>1 DEF Settled, Waits
    <3>2. ASSUME NEW j, absent = {j} PROVE FALSE
      BY <3>1, <3>2, FS_Singleton
    <3>3. RecoveredFrom(f, w, i - 1) = {}
      BY <3>2 DEF RecoveredFrom
    <3> QED BY <2>1, <3>3
  <2> QED BY <2>1
<1> HIDE DEF given, u, n
<1>6. Accepts!Folded(u, given) = FoldLeft(AcceptRecovered, u, given)
  BY DEF Accepts!Folded, Accepts!FoldLeft, FoldLeft, Accepts!MapThenFoldSet, MapThenFoldSet,
         Accepts!Max, Max
<1>7. /\ h[0] = u
      /\ h[n] = Accepts!Folded(u, given)
      /\ \A k \in 1..n : h[k] = AcceptRecovered(h[k - 1], given[k])
  <2>1. Accepts!IsTrace(Accepts!Trace(n, u, given), n, u, given)
    BY <1>3, Accepts!FoldTrace
  <2> QED BY <2>1 DEF Accepts!IsTrace
<1> HIDE DEF h
<1> DEFINE Fine(x) == /\ Pair(x) /\ x.fec.frames = Trimmed(v).frames
                      /\ Settled(v) => x = u
           H == {k \in 0..n : Fine(h[k])}
<1>8. 0 \in H
  BY <1>2, <1>3, <1>7
<1>9. ASSUME NEW k \in 0..(n - 1), k \in H PROVE k + 1 \in H
  <2>1. k + 1 \in 1..n /\ k + 1 \in 0..n /\ (k + 1) - 1 = k
    BY <1>3
  <2> DEFINE x == h[k]
             g == given[k + 1]
  <2>2. h[k + 1] = AcceptRecovered(x, g)
    BY <1>7, <2>1
  <2>3. Fine(x)
    BY <1>9
  <2>4. g \in SUBSET Forwarded /\ (Settled(v) => g = {})
    BY <1>4, <1>5, <2>1
  <2> HIDE DEF x, g
  <2>5. /\ Pair(AcceptRecovered(x, g))
        /\ AcceptRecovered(x, g).fec.frames = x.fec.frames
    BY <2>3, <2>4, AcceptRecoveredGood
  <2>6. g = {} => AcceptRecovered(x, g) = x
    BY DEF AcceptRecovered
  <2>7. Fine(AcceptRecovered(x, g))
    BY <2>3, <2>4, <2>5, <2>6
  <2> HIDE DEF Fine
  <2> QED BY <2>1, <2>2, <2>7
<1>10. H \in SUBSET Nat
  BY <1>3
<1> HIDE DEF H
<1>11. 0..n \subseteq H
  BY <1>3, <1>8, <1>9, <1>10, UpTo
<1>12. Fine(h[n])
  BY <1>3, <1>11 DEF H
<1> QED BY <1>1, <1>2, <1>6, <1>7, <1>12

Passes == INSTANCE Induction WITH Op <- Pass

(* As many passes as there are frames leave only frames that wait: a pass  *)
(* either finds all of them waiting or removes one.                        *)
LEMMA RecoverAllGood ==
  ASSUME NEW v, Pair(v)
  PROVE  Pair(RecoverAll(v)) /\ Settled(RecoverAll(v))
<1> DEFINE n == Cardinality(DOMAIN v.fec.frames)
           l == [i \in 1..n |-> i]
           h == Passes!Trace(n, v, l)
<1>1. RecoverAll(v) = FoldLeft(Pass, v, l)
  BY DEF RecoverAll
<1>2. ASSUME NEW x, Pair(x)
      PROVE  IsFiniteSet(DOMAIN x.fec.frames) /\ Cardinality(DOMAIN x.fec.frames) \in Nat
  <2>1. DOMAIN x.fec.frames \subseteq Range(x.fec.frame_order)
        /\ x.fec.frame_order \in Seq(MediaSequences)
    BY <1>2 DEF Pair, Good, Queued
  <2>2. DOMAIN x.fec.frames \in SUBSET MediaSequences
    BY <2>1 DEF Range
  <2> QED BY <2>2, SequencesAreFinite
<1>3. n \in Nat
  BY <1>2
<1> HIDE DEF n
<1>4. DOMAIN l = 1..n
  OBVIOUS
<1> HIDE DEF l
<1>5. Passes!Folded(v, l) = FoldLeft(Pass, v, l)
  BY DEF Passes!Folded, Passes!FoldLeft, FoldLeft, Passes!MapThenFoldSet, MapThenFoldSet,
         Passes!Max, Max
<1>6. /\ h[0] = v
      /\ h[n] = Passes!Folded(v, l)
      /\ \A k \in 1..n : h[k] = Pass(h[k - 1], l[k])
  <2>1. Passes!IsTrace(Passes!Trace(n, v, l), n, v, l)
    BY <1>3, <1>4, Passes!FoldTrace
  <2> QED BY <2>1 DEF Passes!IsTrace
<1> HIDE DEF h
<1> DEFINE Count(x) == Cardinality(DOMAIN x.fec.frames)
           Fine(k, x) == Pair(x) /\ (Settled(x) \/ Count(x) <= n - k)
           H == {k \in 0..n : Fine(k, h[k])}
<1>7. 0 \in H
  <2>1. Count(v) = n
    BY DEF n
  <2> HIDE DEF Count
  <2> QED BY <1>3, <1>6, <2>1
<1>8. ASSUME NEW k \in 0..(n - 1), k \in H PROVE k + 1 \in H
  <2>1. k + 1 \in 1..n /\ k + 1 \in 0..n /\ (k + 1) - 1 = k
    BY <1>3
  <2> DEFINE x == h[k]
             y == OnePass(x)
  <2>2. h[k + 1] = y
    BY <1>6, <2>1 DEF Pass
  <2>3. Fine(k, x)
    BY <1>8
  <2> HIDE DEF x, y
  <2>4. Pair(y) /\ DOMAIN y.fec.frames = Waiting(x) /\ (Settled(x) => Settled(y))
    BY <2>3, OnePassGood DEF y
  <2>5. ASSUME ~Settled(x) PROVE Count(y) <= n - (k + 1)
    <3>1. Waiting(x) \subseteq DOMAIN x.fec.frames /\ Waiting(x) # DOMAIN x.fec.frames
      BY <2>5 DEF Waiting, Settled
    <3>2. IsFiniteSet(DOMAIN x.fec.frames) /\ Count(x) \in Nat /\ Count(y) \in Nat
      BY <1>2, <2>3, <2>4
    <3>3. Count(y) <= Count(x) /\ Count(y) # Count(x)
      <4> DEFINE S == DOMAIN x.fec.frames
                 T == Waiting(x)
      <4>1. T \in SUBSET S /\ T # S /\ IsFiniteSet(S)
        BY <3>1, <3>2
      <4>2. Count(x) = Cardinality(S) /\ Count(y) = Cardinality(T)
        BY <2>4
      <4> HIDE DEF S, T, Count
      <4> QED BY <4>1, <4>2, FS_Subset
    <3>4. Count(x) <= n - k
      BY <2>3, <2>5
    <3> HIDE DEF Count
    <3> QED BY <1>3, <3>2, <3>3, <3>4
  <2>6. Fine(k + 1, y)
    BY <2>4, <2>5
  <2> HIDE DEF Fine
  <2> QED BY <2>1, <2>2, <2>6
<1>9. H \in SUBSET Nat
  BY <1>3
<1> HIDE DEF H
<1>10. 0..n \subseteq H
  BY <1>3, <1>7, <1>8, <1>9, UpTo
<1>11. Fine(n, h[n])
  BY <1>3, <1>10 DEF H
<1>12. ASSUME NEW x, Pair(x), Count(x) <= n - n PROVE Settled(x)
  <2>1. Count(x) \in Nat /\ IsFiniteSet(DOMAIN x.fec.frames)
    BY <1>2, <1>12
  <2>2. Count(x) = 0
    <3> HIDE DEF Count
    <3> QED BY <1>3, <1>12, <2>1
  <2>3. DOMAIN x.fec.frames = {}
    BY <2>1, <2>2, FS_EmptySet
  <2> QED BY <2>3 DEF Settled
<1>13. Pair(h[n]) /\ Settled(h[n])
  BY <1>11, <1>12
<1> QED BY <1>1, <1>5, <1>6, <1>13

(* Two packets of every frame are absent. *)
Scarce(v) ==
  \A b \in DOMAIN v.fec.frames :
    Cardinality(AbsentFrom(v.fec, v.window, v.fec.frames[b])) >= 2

(* What is known less of is absent still. *)
LEMMA StillScarce ==
  ASSUME NEW f, Genuine(f), NEW w, NEW e, NEW x,
         e.frames = f.frames,
         DOMAIN e.payloads \cup DOMAIN x.buffered
           \subseteq DOMAIN f.payloads \cup DOMAIN w.buffered,
         NEW b \in DOMAIN f.frames,
         Cardinality(AbsentFrom(f, w, f.frames[b])) > 1
  PROVE  Cardinality(AbsentFrom(e, x, e.frames[b])) >= 2
<1> DEFINE frame == f.frames[b]
           A == AbsentFrom(f, w, frame)
           B == AbsentFrom(e, x, frame)
<1>1. PICK g : IsGroup(g) /\ frame = ParityFrame(g)
  BY DEF Genuine
<1>2. Indices(frame) = 1..Len(g) /\ Len(g) \in Nat
  BY <1>1, FrameSequences, LengthsOfGroup
<1>3. IsFiniteSet(Indices(frame))
  <2> DEFINE n == Len(g)
  <2>1. 1 \in Int /\ n \in Int
    BY <1>2
  <2> HIDE DEF n
  <2>2. IsFiniteSet(1..n)
    BY <2>1, FS_Interval
  <2> QED BY <1>2, <2>2 DEF n
<1>4. A \subseteq B /\ B \subseteq Indices(frame)
  BY DEF AbsentFrom, Known
<1> HIDE DEF A, B
<1>5. IsFiniteSet(B)
  BY <1>3, <1>4, FS_Subset
<1>6. IsFiniteSet(A) /\ Cardinality(A) <= Cardinality(B)
  BY <1>4, <1>5, FS_Subset
<1>7. Cardinality(A) \in Nat /\ Cardinality(B) \in Nat
  BY <1>5, <1>6, FS_CardinalityType
<1>8. Cardinality(A) > 1
  BY DEF A
<1>9. Cardinality(B) >= 2
  BY <1>6, <1>7, <1>8
<1> QED BY <1>9 DEF B

(* A turn that ends with recovery and expiry leaves nothing to recover. *)
LEMMA AdvanceGood ==
  ASSUME NEW v, Pair(v)
  PROVE  /\ Pair(AdvanceWithFec(v)) /\ Scarce(AdvanceWithFec(v))
         /\ AdvanceWithFec(v).fec.frames = RecoverAll(v).fec.frames
<1> DEFINE u == RecoverAll(v)
           w == u.window
           x == Expire(w)
           y == Drain(x)
           run == RunOf(x)
           r == Moved(u, y)
<1>1. AdvanceWithFec(v) = r
  BY DEF AdvanceWithFec
<1>2. Pair(u) /\ Settled(u)
  BY RecoverAllGood
<1> HIDE DEF u
<1>3. AtRest(w) /\ Sound(w) /\ Holds(w) /\ Good(u.fec) /\ DOMAIN w = WindowFields
  BY <1>2 DEF Pair, AtRest, Sound
<1> HIDE DEF w
<1>4. x.buffered = w.buffered /\ x.out = w.out /\ Sound(x)
  BY <1>3, ExpireFields, ExpireSound
<1>5. Holds(x)
  BY <1>3, <1>4 DEF Holds
<1> HIDE DEF x
<1>6. /\ AtRest(y) /\ Holds(y)
      /\ run \in Seq(Forwarded) /\ y.out = x.out \o run
      /\ Sequences(run) \subseteq DOMAIN x.buffered
      /\ DOMAIN y.buffered \subseteq DOMAIN x.buffered
  BY <1>4, <1>5, DrainSound, DrainHolds
<1> HIDE DEF y, run
<1>7. Moves(u, y, run)
  BY <1>3, <1>4, <1>6 DEF Moves, Holds, w
<1>8. /\ DOMAIN r = {"window", "fec"} /\ r.window = y
      /\ Good(r.fec) /\ r.fec.frames = u.fec.frames
      /\ DOMAIN r.fec.payloads \subseteq DOMAIN u.fec.payloads \cup Sequences(run)
  BY <1>7, MovedGood
<1> HIDE DEF r
<1>9. Pair(r)
  BY <1>6, <1>8 DEF Pair
<1>10. ASSUME NEW b \in DOMAIN u.fec.frames
       PROVE  Cardinality(AbsentFrom(r.fec, y, r.fec.frames[b])) >= 2
  <2>1. Genuine(u.fec) /\ Cardinality(AbsentFrom(u.fec, w, u.fec.frames[b])) > 1
    BY <1>2, <1>3 DEF Settled, Waits, Good, w
  <2>2. DOMAIN r.fec.payloads \cup DOMAIN y.buffered
          \subseteq DOMAIN u.fec.payloads \cup DOMAIN w.buffered
    BY <1>4, <1>6, <1>8
  <2> QED BY <1>8, <2>1, <2>2, StillScarce
<1>11. Scarce(r)
  BY <1>8, <1>10 DEF Scarce
<1> QED BY <1>1, <1>8, <1>9, <1>11 DEF u

-----------------------------------------------------------------------------
(* The server. *)

(* The window is at rest between turns, an idle one is empty, and window   *)
(* and caches hold only what was sent.                                     *)
ServerInv ==
  /\ initialized \in BOOLEAN
  /\ initialized = FALSE => window = EmptyWindow(0)
  /\ Pair([window |-> window, fec |-> fec])
  /\ NothingLeftToRecover

(* What the server does to its state in a turn. *)
LEMMA TurnTaken ==
  ASSUME NEW v, Turn(v), Pair(v), initialized' \in BOOLEAN,
         initialized' = FALSE => window' = EmptyWindow(0),
         initialized' = TRUE => Scarce(v)
  PROVE  ServerInv'
<1>1. window' = v.window /\ fec' = v.fec
  BY DEF Turn
<1>2. Pair([window |-> window, fec |-> fec])'
  <2> DEFINE u == [window |-> window', fec |-> fec']
  <2>1. DOMAIN u = {"window", "fec"} /\ u.window = v.window /\ u.fec = v.fec
    BY <1>1
  <2> HIDE DEF u
  <2>2. Pair(u)
    BY <2>1 DEF Pair
  <2> QED BY <2>2 DEF u
<1>3. NothingLeftToRecover'
  BY <1>1 DEF NothingLeftToRecover, Scarce
<1> QED BY <1>2, <1>3 DEF ServerInv

(* An empty pair. *)
LEMMA EmptyPair == Pair([window |-> EmptyWindow(0), fec |-> EmptyFec])
<1> DEFINE w == EmptyWindow(0)
           f == EmptyFec
<1>1. 0 \in MediaSequences
  BY WindowAssumption DEF MediaSequences
<1>2. AtRest(w)
  BY <1>1, EmptyWindowSound
<1>3. w.out = << >> /\ DOMAIN w.buffered = {}
  BY DEF EmptyWindow
<1>4. Holds(w)
  <2> HIDE DEF w
  <2> QED BY <1>3 DEF Holds
<1>5. /\ DOMAIN f = {"frames", "frame_order", "payloads", "payload_order"}
      /\ DOMAIN f.frames = {} /\ DOMAIN f.payloads = {}
      /\ f.frame_order = << >> /\ f.payload_order = << >>
  BY DEF EmptyFec
<1> HIDE DEF f
<1>6. Cardinality({}) = 0 /\ FrameLimit \in Nat /\ PayloadLimit \in Nat
  BY FS_EmptySet, FecStateAssumption
<1>7. Range(<< >>) = {} /\ IsInjective(<< >>)
  BY DEF Range, IsInjective
<1>8. Queued(f)
  BY <1>5, <1>6, <1>7 DEF Queued
<1>9. Genuine(f)
  BY <1>5 DEF Genuine
<1> HIDE DEF w
<1> QED BY <1>2, <1>4, <1>8, <1>9 DEF Pair, Good, w, f

(* Between turns nothing is forwarded. *)
LEMMA FreshPair ==
  ASSUME ServerInv
  PROVE  /\ Pair([window |-> Fresh, fec |-> fec])
         /\ Fresh.buffered = window.buffered /\ Fresh.next = window.next
         /\ Fresh.seen = window.seen
<1> DEFINE w == window
           v == [window |-> w, fec |-> fec]
           x == Fresh
           u == [window |-> x, fec |-> fec]
<1>1. DOMAIN w = WindowFields /\ AtRest(w) /\ Holds(w) /\ Good(fec)
  <2>1. Pair(v) /\ v.window = w /\ v.fec = fec
    BY DEF ServerInv
  <2> HIDE DEF v, w
  <2> QED BY <2>1 DEF Pair, AtRest, Sound
<1>2. /\ DOMAIN x = WindowFields /\ x.out = << >>
      /\ x.next = w.next /\ x.buffered = w.buffered /\ x.fragments = w.fragments
      /\ x.seen = w.seen /\ x.gap = w.gap
  BY <1>1 DEF Fresh, WindowFields
<1> HIDE DEF x, w
<1>3. AtRest(x)
  BY <1>1, <1>2 DEF AtRest, Sound
<1>4. Holds(x)
  BY <1>1, <1>2 DEF Holds
<1>5. Pair(u)
  BY <1>1, <1>3, <1>4 DEF Pair
<1> QED BY <1>2, <1>5 DEF x, w

(* The server starts with nothing. *)
LEMMA InitServer == FecInit => ServerInv
<1> SUFFICES ASSUME FecInit PROVE ServerInv
  OBVIOUS
<1>1. initialized = FALSE /\ window = EmptyWindow(0) /\ fec = EmptyFec
  BY DEF FecInit
<1>2. Pair([window |-> window, fec |-> fec])
  BY <1>1, EmptyPair
<1> QED BY <1>1, <1>2 DEF ServerInv, NothingLeftToRecover

(* A media packet that the client sent arrives. *)
LEMMA ReceiveGood ==
  ASSUME ServerInv, NEW s \in MediaSequences,
         NEW packet, packet.header.sequence = s, packet.body[1] = {FecPayload[s]},
         Receive(packet)
  PROVE  ServerInv'
<1> DEFINE w == IF initialized THEN Fresh ELSE [Fresh EXCEPT !.next = s, !.start = s]
           v == [window |-> w, fec |-> fec]
           old == s < w.next \/ s \in w.seen \cup DOMAIN w.buffered
<1>1. /\ initialized' = TRUE
      /\ old => Turn(v)
      /\ ~old => Turn(AdvanceWithFec(AcceptPayload(v, s, {FecPayload[s]})))
  BY DEF Receive
<1>2. Pair(v) /\ (old => Scarce(v))
  <2>1. CASE initialized
    <3>1. w = Fresh /\ Fresh.buffered = window.buffered
      BY <2>1, FreshPair
    <3>2. Pair(v)
      BY <3>1, FreshPair
    <3>3. DOMAIN v.window.buffered = DOMAIN window.buffered /\ v.fec = fec
      BY <3>1
    <3> HIDE DEF v
    <3>4. Scarce(v)
      BY <2>1, <3>3 DEF ServerInv, NothingLeftToRecover, Scarce, AbsentFrom, Known
    <3> QED BY <3>2, <3>4
  <2>2. CASE ~initialized
    <3>1. window = EmptyWindow(0)
      BY <2>2 DEF ServerInv
    <3>2. w = EmptyWindow(s)
      BY <2>2, <3>1 DEF Fresh, EmptyWindow
    <3> DEFINE z == EmptyWindow(s)
    <3>3. AtRest(z)
      BY EmptyWindowSound
    <3>4. z.out = << >> /\ DOMAIN z.buffered = {} /\ z.seen = {} /\ z.next = s
      BY DEF EmptyWindow
    <3> HIDE DEF z, w
    <3>5. Holds(z)
      BY <3>4 DEF Holds
    <3>6. Good(fec)
      BY DEF ServerInv, Pair
    <3>7. Pair(v)
      BY <3>2, <3>3, <3>5, <3>6 DEF Pair, z
    <3>8. s \in Nat
      BY WindowAssumption DEF MediaSequences
    <3>9. ~old
      BY <3>2, <3>4, <3>8 DEF z
    <3> QED BY <3>7, <3>9
  <2> QED BY <2>1, <2>2
<1>3. v.window = w
  OBVIOUS
<1> HIDE DEF v
<1>4. CASE old
  <2> HIDE DEF old
  <2> QED BY <1>1, <1>2, <1>4, TurnTaken
<1>5. CASE ~old
  <2>1. w.next \in Nat /\ s \in Nat /\ s <= MaxMediaSequence /\ MaxMediaSequence \in Nat
    BY <1>2, <1>3, WindowAssumption DEF Pair, AtRest, Sound, MediaSequences
  <2>2. s \in v.window.next..MaxMediaSequence
    <3> HIDE DEF w
    <3> QED BY <1>3, <1>5, <2>1
  <2> DEFINE u == AcceptPayload(v, s, {FecPayload[s]})
             r == AdvanceWithFec(u)
  <2>3. Pair(u)
    BY <1>2, <2>2, AcceptPayloadGood
  <2> HIDE DEF u
  <2>4. Pair(r) /\ Scarce(r)
    BY <2>3, AdvanceGood
  <2>5. Turn(r)
    BY <1>1, <1>5 DEF u
  <2> HIDE DEF r
  <2> QED BY <1>1, <2>4, <2>5, TurnTaken
<1> QED BY <1>4, <1>5

(* A parity frame that the client sent arrives. *)
LEMMA ReceiveFecGood ==
  ASSUME ServerInv, NEW g, IsGroup(g), ReceiveFec(ParityFrame(g))
  PROVE  ServerInv'
<1> DEFINE f == InsertFrame(fec, ParityFrame(g))
           v == [window |-> Fresh, fec |-> f]
           r == AdvanceWithFec(v)
<1>1. /\ initialized' = initialized
      /\ initialized => Turn(r)
      /\ ~initialized => Turn(v)
  BY DEF ReceiveFec
<1>2. Pair([window |-> Fresh, fec |-> fec])
  BY FreshPair
<1>3. Good(fec) /\ AtRest(Fresh) /\ Holds(Fresh)
  BY <1>2 DEF Pair
<1>4. Good(f)
  BY <1>3, InsertFrameGood
<1> HIDE DEF f
<1>5. Pair(v)
  BY <1>3, <1>4 DEF Pair
<1>6. initialized \in BOOLEAN /\ (initialized = FALSE => window = EmptyWindow(0))
  BY DEF ServerInv
<1>7. CASE initialized
  <2> HIDE DEF v
  <2>1. Pair(r) /\ Scarce(r)
    BY <1>5, AdvanceGood
  <2> HIDE DEF r
  <2> QED BY <1>1, <1>6, <1>7, <2>1, TurnTaken
<1>8. CASE ~initialized
  <2>1. window' = EmptyWindow(0)
    <3>1. window' = Fresh
      BY <1>1, <1>8 DEF Turn
    <3>2. window = EmptyWindow(0)
      BY <1>6, <1>8
    <3> QED BY <3>1, <3>2 DEF Fresh, EmptyWindow
  <2> HIDE DEF v
  <2> QED BY <1>1, <1>5, <1>6, <1>8, <2>1, TurnTaken
<1> QED BY <1>7, <1>8

(* Time passes. *)
LEMMA TickGood ==
  ASSUME ServerInv, Tick
  PROVE  ServerInv'
<1> DEFINE x == Fresh
           a == Aged(x)
           v == [window |-> a, fec |-> fec]
<1>1. window' = a /\ fec' = fec /\ initialized' = initialized
  BY DEF Tick
<1>2. Pair([window |-> x, fec |-> fec]) /\ x.buffered = window.buffered
  BY FreshPair
<1>3. AtRest(x) /\ Holds(x) /\ Good(fec) /\ DOMAIN x = WindowFields
  BY <1>2 DEF Pair, AtRest, Sound
<1> HIDE DEF x
<1>4. AtRest(a)
  BY <1>3, AgedSound
<1>5. a.out = x.out /\ a.buffered = [s \in DOMAIN x.buffered |-> OlderPacket(x.buffered[s])]
  BY <1>3 DEF Aged, WindowFields
<1> HIDE DEF a
<1>6. /\ DOMAIN a.buffered = DOMAIN x.buffered
      /\ \A s \in DOMAIN a.buffered : a.buffered[s].payload = x.buffered[s].payload
  BY <1>5 DEF OlderPacket
<1>7. Holds(a)
  BY <1>3, <1>5, <1>6 DEF Holds
<1>8. Pair(v) /\ v.window = a /\ v.fec = fec
  BY <1>3, <1>4, <1>7 DEF Pair
<1> HIDE DEF v
<1>9. Turn(v)
  BY <1>1, <1>8 DEF Turn
<1>10. initialized = TRUE => Scarce(v)
  BY <1>2, <1>6, <1>8 DEF ServerInv, NothingLeftToRecover, Scarce, AbsentFrom, Known
<1>11. initialized \in BOOLEAN /\ (initialized = FALSE => window = EmptyWindow(0))
  BY DEF ServerInv
<1>12. initialized' = TRUE
  <2>1. DOMAIN window.buffered # {}
    BY DEF Tick
  <2>2. DOMAIN EmptyWindow(0).buffered = {}
    BY DEF EmptyWindow
  <2>3. initialized # FALSE
    BY <1>11, <2>1, <2>2
  <2> QED BY <1>1, <1>11, <2>3
<1> QED BY <1>1, <1>8, <1>9, <1>10, <1>12, TurnTaken

(* Every step keeps the server's state, given what the client sent. *)
LEMMA NextServer == SenderInv /\ ServerInv /\ [FecNext]_fecVars => ServerInv'
<1> SUFFICES ASSUME SenderInv, ServerInv, [FecNext]_fecVars PROVE ServerInv'
  OBVIOUS
<1>1. ASSUME UNCHANGED serverVars PROVE ServerInv'
  <2>1. initialized' = initialized /\ window' = window /\ fec' = fec
    BY <1>1 DEF serverVars
  <2> QED BY <2>1 DEF ServerInv, NothingLeftToRecover
<1>2. ASSUME NEW k \in DOMAIN LengthOf, Send(k) \/ Skip(k) PROVE ServerInv'
  BY <1>1, <1>2 DEF Send, Skip
<1>3. ASSUME NEW d \in DOMAIN network, Deliver(d) PROVE ServerInv'
  <2> DEFINE packet == W!DecodePacket(d)
  <2>1. IF packet.header.sequence = W!FecSequence
        THEN ReceiveFec(W!DecodeFec(d))
        ELSE Receive(packet)
    BY <1>3 DEF Deliver
  <2>2. ASSUME NEW k \in DOMAIN LengthOf, d = Media(k) PROVE ServerInv'
    <3> DEFINE s == SentSequence(k)
    <3>1. packet.header.sequence = s /\ packet.body = <<{k}>> /\ s # W!FecSequence
      BY <2>2, MediaDecodes
    <3>2. s \in MediaSequences /\ FecPayload[s] = k
      BY SentWraps, SentIsProtected
    <3> HIDE DEF packet, s
    <3>3. Receive(packet) /\ packet.body[1] = {FecPayload[s]}
      BY <2>1, <3>1, <3>2 DEF packet
    <3> QED BY <3>1, <3>2, <3>3, ReceiveGood
  <2>3. ASSUME NEW g, IsGroup(g), d = Parity(g) PROVE ServerInv'
    <3>1. packet.header.sequence = W!FecSequence /\ W!DecodeFec(d) = ParityFrame(g)
      BY <2>3, ParityDecodes
    <3>2. ReceiveFec(ParityFrame(g))
      BY <2>1, <3>1
    <3> QED BY <2>3, <3>2, ReceiveFecGood
  <2> QED BY <2>2, <2>3 DEF SenderInv
<1>4. ASSUME TimeoutAdvance PROVE ServerInv'
  <2> DEFINE v == [window |-> Fresh, fec |-> fec]
             r == AdvanceWithFec(v)
  <2>1. Turn(r) /\ initialized' = initialized /\ HasPendingState(window)
    BY <1>4 DEF TimeoutAdvance
  <2>2. Pair(v)
    BY FreshPair
  <2> HIDE DEF v
  <2>3. Pair(r) /\ Scarce(r)
    BY <2>2, AdvanceGood
  <2> HIDE DEF r
  <2>4. initialized = TRUE
    <3>1. initialized \in BOOLEAN /\ (initialized = FALSE => window = EmptyWindow(0))
      BY DEF ServerInv
    <3>2. ~HasPendingState(EmptyWindow(0))
      BY DEF HasPendingState, Pending, EmptyWindow
    <3> QED BY <2>1, <3>1, <3>2
  <2> QED BY <2>1, <2>3, <2>4, TurnTaken
<1>5. ASSUME TimeoutIdle PROVE ServerInv'
  <2>1. initialized' = FALSE /\ window' = EmptyWindow(0) /\ fec' = EmptyFec
    BY <1>5 DEF TimeoutIdle
  <2> QED BY <2>1, EmptyPair DEF ServerInv, NothingLeftToRecover
<1>6. ASSUME UNCHANGED fecVars PROVE ServerInv'
  BY <1>1, <1>6 DEF fecVars
<1> QED BY <1>2, <1>3, <1>4, <1>5, <1>6, TickGood DEF FecNext

(* The queues and maps of FecState agree within their limits: every frame  *)
(* and every payload can still be evicted, and no payload is queued twice. *)
THEOREM QueuesMatchMaps == FecSpec => []CachesAgree
<1>1. ServerInv => CachesAgree
  <2> SUFFICES ASSUME ServerInv PROVE CachesAgree
    OBVIOUS
  <2>1. Queued(fec)
    BY DEF ServerInv, Pair, Good
  <2> QED BY <2>1 DEF Queued, CachesAgree
<1> QED BY <1>1, InitSender, NextSender, InitServer, NextServer, PTL DEF FecSpec

(* Whatever is forwarded, buffered or kept under a sequence is the packet  *)
(* that was sent under it, be it received or reconstructed from parity.    *)
THEOREM WhatIsSentArrives == FecSpec => []PayloadsIntact
<1>1. ServerInv => PayloadsIntact
  <2> SUFFICES ASSUME ServerInv PROVE PayloadsIntact
    OBVIOUS
  <2>1. Genuine(fec) /\ Holds(window)
    BY DEF ServerInv, Pair, Good
  <2>2. ASSUME NEW i \in DOMAIN window.out
        PROVE  window.out[i].payload = {FecPayload[window.out[i].sequence]}
    <3>1. window.out[i] \in Forwarded
      BY <2>1 DEF Holds
    <3> QED BY <3>1 DEF Forwarded
  <2> QED BY <2>1, <2>2 DEF Genuine, Holds, PayloadsIntact
<1> QED BY <1>1, InitSender, NextSender, InitServer, NextServer, PTL DEF FecSpec

(* Between turns of a flow a frame is kept only while two of its packets   *)
(* are absent: a single loss never waits for anything else to arrive.      *)
THEOREM SingleLossNeverWaits == FecSpec => []NothingLeftToRecover
<1>1. ServerInv => NothingLeftToRecover
  BY DEF ServerInv
<1> QED BY <1>1, InitSender, NextSender, InitServer, NextServer, PTL DEF FecSpec

-----------------------------------------------------------------------------
(* The passes of a turn are steps of the window.  The packets recovered in *)
(* a turn come from frames G, one from each frame at most and no packet    *)
(* from two, of which F are still to give one.                             *)

Covers(frame) == {SequenceAt(frame, i) : i \in Indices(frame)}

(* No packet is in two of the frames, and no frame is of a single packet.  *)
Disjoint(G) ==
  /\ \A b \in DOMAIN G : Covers(G[b]) \subseteq DOMAIN FecPayload
  /\ \A b \in DOMAIN G : \A c \in DOMAIN G : b # c => Covers(G[b]) \cap Covers(G[c]) = {}
  /\ \A b \in DOMAIN G : \A s : \E t \in Covers(G[b]) : t # s

(* Until next wraps, all that was recovered is as if accepted at once, and *)
(* each frame left has a packet that is still missing.                     *)
SameLap(w, G, F, x) ==
  \E R \in SUBSET Recoverable(w) :
    /\ x = Accept(w, Reconstructed(R))
    /\ AcceptEnd(w, R) <= MaxMediaSequence
    /\ \A c \in F : \E t \in Covers(G[c]) : t \notin DOMAIN w.buffered \cup R

(* In the lap that follows, all that was recovered in it is as if accepted *)
(* at once, and a packet that no frame will give keeps next from wrapping  *)
(* again.  If the turn began at 0, all frames were used up by then.        *)
NextLap(w, G, F, x) ==
  \E R \in SUBSET Recoverable(w) : \E u :
    /\ u = Accept(w, Reconstructed(R))
    /\ AcceptEnd(w, R) > MaxMediaSequence
    /\ w.next = 0 => F = {} /\ x = u
    /\ \E S \in SUBSET Recoverable(u) :
         /\ x = Accept(u, Reconstructed(S))
         /\ S = {} \/ \E t \in MediaSequences : t \notin S /\ \A c \in F : t \notin Covers(G[c])

Recovering(w, G, F, x) == SameLap(w, G, F, x) \/ NextLap(w, G, F, x)

(* What is recoverable is in the window. *)
LEMMA RecoverableAhead ==
  ASSUME NEW w, Sound(w), NEW R \in SUBSET Recoverable(w)
  PROVE  R \in SUBSET (w.next..MaxMediaSequence)
BY WindowAssumption DEF Recoverable, Sound, MediaSequences

(* A window whose next has wrapped is empty. *)
LEMMA WrappedIsEmpty ==
  ASSUME NEW w, AtRest(w), Formed(w), NEW R \in SUBSET Recoverable(w),
         AcceptEnd(w, R) > MaxMediaSequence,
         NEW u, u = Accept(w, Reconstructed(R))
  PROVE  /\ AtRest(u) /\ Formed(u) /\ u.next = 0 /\ DOMAIN u.buffered = {}
         /\ w.next..MaxMediaSequence \subseteq DOMAIN w.buffered \cup R
<1> DEFINE e == AcceptEnd(w, R)
           m == MaxMediaSequence
           B == DOMAIN w.buffered
<1>1. /\ Sound(w) /\ DOMAIN w = WindowFields
      /\ w.next \in Nat /\ m \in Nat /\ w.next <= m /\ B \subseteq w.next..m
  BY WindowAssumption DEF AtRest, Sound, MediaSequences
<1>2. R \in SUBSET (w.next..m)
  BY <1>1, RecoverableAhead
<1>3. e \in w.next..(m + 1) /\ w.next..(e - 1) \subseteq B \cup R
  BY <1>1, <1>2, AcceptEndIsFirstMissing
<1>4. e > m
  OBVIOUS
<1>5. IsAccept(u, w, R)
  BY <1>1, AcceptFields
<1> HIDE DEF e
<1>6. e = m + 1 /\ e - 1 = m
  BY <1>1, <1>3, <1>4
<1>7. u.next = 0
  BY <1>1, <1>4, <1>5 DEF IsAccept, Wrap, e
<1>8. DOMAIN u.buffered = {}
  <2>1. u.buffered = Without(BufferedWith(w, R), w.next..m)
    BY <1>5, <1>6 DEF IsAccept, AcceptRun, e
  <2>2. DOMAIN BufferedWith(w, R) = B \cup R
    BY DEF BufferedWith, With
  <2>3. (B \cup R) \ (w.next..m) = {}
    BY <1>1, <1>2
  <2> QED BY <2>1, <2>2, <2>3 DEF Without, Restrict
<1>9. DOMAIN Reconstructed(R) = R
  BY DEF Reconstructed
<1>10. AtRest(u) /\ Formed(u)
  BY <1>1, <1>2, <1>9, AcceptSound, AcceptFormed
<1> QED BY <1>3, <1>6, <1>7, <1>8, <1>10

(* Fewer frames are left. *)
LEMMA FewerFramesLeft ==
  ASSUME NEW w, NEW G, NEW F, NEW x, Recovering(w, G, F, x), NEW E \in SUBSET F
  PROVE  Recovering(w, G, E, x)
BY DEF Recovering, SameLap, NextLap

(* A frame that was left gives its packet. *)
LEMMA RecoverOne ==
  ASSUME NEW w, AtRest(w), Formed(w), NEW G, Disjoint(G), NEW F \in SUBSET DOMAIN G,
         NEW x, Recovering(w, G, F, x),
         NEW c \in F, NEW s \in Covers(G[c]), s \in Recoverable(x)
  PROVE  Recovering(w, G, F \ {c}, Accept(x, Reconstructed({s})))
<1> DEFINE y == Accept(x, Reconstructed({s}))
           E == F \ {c}
           m == MaxMediaSequence
           B == DOMAIN w.buffered
<1>1. /\ Sound(w) /\ w.next \in Nat /\ m \in Nat /\ w.next <= m /\ B \subseteq w.next..m
  BY WindowAssumption DEF AtRest, Sound, MediaSequences
<1>2. \A d \in E : s \notin Covers(G[d])
  BY DEF Disjoint
<1>3. \A d \in E : Covers(G[d]) \subseteq MediaSequences
  BY WindowAssumption DEF Disjoint, MediaSequences
<1>4. CASE SameLap(w, G, F, x)
  <2>1. PICK R \in SUBSET Recoverable(w) :
          /\ x = Accept(w, Reconstructed(R))
          /\ AcceptEnd(w, R) <= m
          /\ \A d \in F : \E t \in Covers(G[d]) : t \notin B \cup R
    BY <1>4 DEF SameLap
  <2> DEFINE Q == R \cup {s}
  <2>2. Q \in SUBSET Recoverable(w) /\ y = Accept(w, Reconstructed(Q))
    BY <2>1, AcceptOneMore
  <2>3. \A d \in E : \E t \in Covers(G[d]) : t \notin B \cup Q
    BY <1>2, <2>1
  <2>4. Q \in SUBSET (w.next..m)
    BY <1>1, <2>2, RecoverableAhead
  <2> HIDE DEF Q, y
  <2>5. CASE AcceptEnd(w, Q) <= m
    <3>1. SameLap(w, G, E, y)
      BY <2>2, <2>3, <2>5 DEF SameLap
    <3> QED BY <3>1 DEF Recovering, y
  <2>6. CASE ~(AcceptEnd(w, Q) <= m)
    <3>1. AcceptEnd(w, Q) > m
      <4>1. AcceptEnd(w, Q) \in w.next..(m + 1)
        BY <1>1, <2>4, AcceptEndIsFirstMissing
      <4> QED BY <1>1, <2>6, <4>1
    <3>2. /\ AtRest(y) /\ Formed(y) /\ w.next..m \subseteq B \cup Q
      BY <2>2, <3>1, WrappedIsEmpty
    <3>3. y = Accept(y, Reconstructed({}))
      BY <3>2, AcceptNothing
    <3>4. w.next = 0 => E = {}
      <4> SUFFICES ASSUME w.next = 0, NEW d \in E PROVE FALSE
        OBVIOUS
      <4>1. PICK t \in Covers(G[d]) : t \notin B \cup Q
        BY <2>3
      <4>2. t \in 0..m
        BY <1>3, <4>1 DEF MediaSequences
      <4> QED BY <3>2, <4>1, <4>2
    <3>5. NextLap(w, G, E, y)
      <4>1. {} \in SUBSET Recoverable(y)
        OBVIOUS
      <4> HIDE DEF E
      <4> QED BY <2>2, <3>1, <3>3, <3>4, <4>1 DEF NextLap
    <3> QED BY <3>5 DEF Recovering, y
  <2> QED BY <2>5, <2>6 DEF y
<1>5. CASE NextLap(w, G, F, x)
  <2>1. PICK R, u :
          /\ R \in SUBSET Recoverable(w)
          /\ u = Accept(w, Reconstructed(R))
          /\ AcceptEnd(w, R) > m
          /\ w.next = 0 => F = {} /\ x = u
          /\ \E S \in SUBSET Recoverable(u) :
               /\ x = Accept(u, Reconstructed(S))
               /\ S = {} \/ \E t \in MediaSequences :
                              t \notin S /\ \A d \in F : t \notin Covers(G[d])
    BY <1>5 DEF NextLap
  <2>2. PICK S \in SUBSET Recoverable(u) :
          /\ x = Accept(u, Reconstructed(S))
          /\ S = {} \/ \E t \in MediaSequences : t \notin S /\ \A d \in F : t \notin Covers(G[d])
    BY <2>1
  <2>3. AtRest(u) /\ Formed(u) /\ u.next = 0 /\ DOMAIN u.buffered = {}
    BY <2>1, WrappedIsEmpty
  <2> DEFINE Q == S \cup {s}
  <2>4. PICK t \in MediaSequences : t \notin Q /\ \A d \in E : t \notin Covers(G[d])
    <3>1. CASE S = {}
      <4>1. PICK t \in Covers(G[c]) : t # s
        BY DEF Disjoint
      <4>2. t \in MediaSequences
        BY <4>1, WindowAssumption DEF Disjoint, MediaSequences
      <4>3. \A d \in E : t \notin Covers(G[d])
        BY <4>1 DEF Disjoint
      <4> QED BY <3>1, <4>1, <4>2, <4>3
    <3>2. CASE S # {}
      <4>1. PICK t \in MediaSequences : t \notin S /\ \A d \in F : t \notin Covers(G[d])
        BY <2>2, <3>2
      <4> QED BY <4>1
    <3> QED BY <3>1, <3>2
  <2>5. AcceptEnd(u, S) <= m
    <3>1. S \in SUBSET (u.next..m) /\ Sound(u)
      BY <2>3, RecoverableAhead DEF AtRest
    <3>2. t \in u.next..(m + 1) /\ t <= m /\ t \in Nat
      BY <1>1, <2>3 DEF MediaSequences
    <3>3. t \notin DOMAIN u.buffered \cup S
      BY <2>3, <2>4
    <3>4. AcceptEnd(u, S) <= t /\ AcceptEnd(u, S) \in u.next..(m + 1)
      BY <3>1, <3>2, <3>3, AcceptEndIsFirstMissing
    <3> QED BY <1>1, <2>3, <3>2, <3>4
  <2>6. Q \in SUBSET Recoverable(u) /\ y = Accept(u, Reconstructed(Q))
    BY <2>2, <2>3, <2>5, AcceptOneMore
  <2>7. w.next # 0
    BY <2>1
  <2> HIDE DEF Q, y, E
  <2>8. NextLap(w, G, E, y)
    BY <2>1, <2>4, <2>6, <2>7 DEF NextLap
  <2> QED BY <2>8 DEF Recovering, y, E
<1> QED BY <1>4, <1>5 DEF Recovering

(* A turn that began at w recovers what Window.tla allows. *)
LEMMA RecoveringIsReady ==
  ASSUME NEW w, AtRest(w), Formed(w), NEW G, NEW F, NEW x, Recovering(w, G, F, x)
  PROVE  x \in RecoverFecReady(w)
<1>1. CASE SameLap(w, G, F, x)
  <2>1. x \in RecoverPass(w)
    BY <1>1 DEF SameLap, RecoverPass, Reconstructed
  <2> QED BY <2>1 DEF RecoverFecReady
<1>2. CASE NextLap(w, G, F, x)
  <2>1. PICK R, u :
          /\ R \in SUBSET Recoverable(w)
          /\ u = Accept(w, Reconstructed(R))
          /\ AcceptEnd(w, R) > MaxMediaSequence
          /\ w.next = 0 => F = {} /\ x = u
          /\ \E S \in SUBSET Recoverable(u) : x = Accept(u, Reconstructed(S))
    BY <1>2 DEF NextLap
  <2>2. u \in RecoverPass(w)
    BY <2>1 DEF RecoverPass, Reconstructed
  <2>3. x \in RecoverPass(u)
    BY <2>1 DEF RecoverPass, Reconstructed
  <2>4. u.next = 0 /\ w.next \in Nat
    BY <2>1, WrappedIsEmpty, WindowAssumption DEF AtRest, Sound, MediaSequences
  <2>5. CASE w.next = 0
    BY <2>1, <2>2, <2>5 DEF RecoverFecReady
  <2>6. CASE w.next # 0
    <3>1. u.next < w.next
      BY <2>4, <2>6
    <3> QED BY <2>2, <2>3, <3>1 DEF RecoverFecReady
  <2> QED BY <2>5, <2>6
<1> QED BY <1>1, <1>2 DEF Recovering

(* Accepting what a frame that was left gave uses the frame up. *)
LEMMA AcceptRecoveredUses ==
  ASSUME NEW w, AtRest(w), Formed(w), NEW G, Disjoint(G), NEW F \in SUBSET DOMAIN G,
         NEW v, Pair(v), Recovering(w, G, F, v.window),
         NEW c \in F, NEW given \in SUBSET Forwarded,
         \A r \in given : r.sequence \in Covers(G[c])
  PROVE  Recovering(w, G, F \ {c}, AcceptRecovered(v, given).window)
<1> DEFINE x == v.window
           accepted == {r \in given : /\ r.sequence >= x.next
                                      /\ r.sequence \notin x.seen \cup DOMAIN x.buffered}
           r == CHOOSE r \in accepted : TRUE
<1>1. AcceptRecovered(v, given) =
        IF accepted = {} THEN v ELSE AcceptPayload(v, r.sequence, r.payload)
  BY DEF AcceptRecovered
<1>2. CASE accepted = {}
  BY <1>1, <1>2, FewerFramesLeft
<1>3. CASE accepted # {}
  <2>1. r \in accepted
    BY <1>3
  <2> HIDE DEF r
  <2>2. /\ r \in Forwarded /\ r.sequence \in Covers(G[c])
        /\ r.sequence >= x.next /\ r.sequence \notin x.seen \cup DOMAIN x.buffered
    BY <2>1
  <2> DEFINE s == r.sequence
  <2>3. r.payload = {FecPayload[s]}
    BY <2>2 DEF Forwarded
  <2>4. s \in DOMAIN FecPayload
    BY <2>2 DEF Disjoint
  <2>5. s \in Recoverable(x)
    BY <2>2, <2>4 DEF Recoverable
  <2>6. AcceptRecovered(v, given).window = Accept(x, Reconstructed({s}))
    <3>1. AcceptRecovered(v, given) = AcceptPayload(v, s, r.payload)
      BY <1>1, <1>3
    <3>2. [t \in {s} |-> r.payload] = Reconstructed({s})
      BY <2>3 DEF Reconstructed
    <3>3. AcceptPayload(v, s, r.payload).window = Accept(v.window, [t \in {s} |-> r.payload])
      <4>1. [v EXCEPT !.fec = InsertPayload(@, s, r.payload)].window = v.window
        BY DEF Pair
      <4> QED BY <4>1 DEF AcceptPayload, Moved
    <3> QED BY <3>1, <3>2, <3>3
  <2> HIDE DEF s
  <2> QED BY <2>2, <2>5, <2>6, RecoverOne DEF s
<1> QED BY <1>2, <1>3

(* The frames of v are among G. *)
FramesFrom(v, G) ==
  DOMAIN v.fec.frames \subseteq DOMAIN G /\ \A b \in DOMAIN v.fec.frames : v.fec.frames[b] = G[b]

(* A pass uses up the frames that do not wait. *)
LEMMA OnePassUses ==
  ASSUME NEW w, AtRest(w), Formed(w), NEW G, Disjoint(G),
         NEW v, Pair(v), FramesFrom(v, G),
         v.window = w \/ Recovering(w, G, DOMAIN v.fec.frames, v.window)
  PROVE  LET x == OnePass(v)
         IN  Recovering(w, G, DOMAIN x.fec.frames, x.window) /\ FramesFrom(x, G)
<1> DEFINE f == v.fec
           m == MaxMediaSequence
           n == m + 1
           given == [i \in 1..n |->
                       IF i - 1 \in DOMAIN f.frames THEN RecoveredFrom(f, v.window, i - 1) ELSE {}]
           u == [v EXCEPT !.fec = Trimmed(v)]
           h == Accepts!Trace(n, u, given)
           Left(k) == Waiting(v) \cup {b \in DOMAIN f.frames : b >= k /\ given[b + 1] # {}}
<1>1. OnePass(v) = FoldLeft(AcceptRecovered, u, given)
  BY DEF OnePass, RecoverReady, Trimmed, Waiting
<1>2. /\ Pair(u) /\ u.window = v.window /\ u.fec = Trimmed(v)
      /\ DOMAIN Trimmed(v).frames = Waiting(v)
  BY TrimmedGood
<1>3. m \in Nat /\ n \in Nat /\ DOMAIN given = 1..n
  BY WindowAssumption
<1>4. /\ Genuine(f) /\ Holds(v.window) /\ DOMAIN f.frames \subseteq 0..m
  <2>1. /\ Genuine(f) /\ Holds(v.window) /\ DOMAIN f.frames \subseteq Range(f.frame_order)
        /\ f.frame_order \in Seq(MediaSequences)
    BY DEF Pair, Good, Queued
  <2> HIDE DEF f
  <2>2. Range(f.frame_order) \subseteq MediaSequences
    BY <2>1 DEF Range
  <2> QED BY <2>1, <2>2 DEF MediaSequences
<1>5. Waiting(v) \subseteq DOMAIN f.frames
  BY DEF Waiting
<1>6. ASSUME NEW k \in 0..(n - 1), given[k + 1] # {}
      PROVE  /\ k \in DOMAIN f.frames /\ k \notin Waiting(v)
             /\ \E i \in AbsentFrom(f, v.window, f.frames[k]) : TRUE
             /\ given[k + 1] \in SUBSET Forwarded
             /\ \A r \in given[k + 1] : r.sequence \in Covers(G[k])
  <2>1. k + 1 \in 1..n /\ (k + 1) - 1 = k
    BY <1>3
  <2>2. k \in DOMAIN f.frames /\ given[k + 1] = RecoveredFrom(f, v.window, k)
    BY <1>6, <2>1
  <2> DEFINE absent == AbsentFrom(f, v.window, f.frames[k])
  <2>3. \A r \in RecoveredFrom(f, v.window, k) : \E j \in absent :
          absent = {j} /\ r.sequence = SequenceAt(f.frames[k], j)
    BY DEF RecoveredFrom
  <2>4. PICK j \in absent : absent = {j}
    BY <1>6, <2>2, <2>3
  <2>5. k \notin Waiting(v)
    <3>1. Cardinality(absent) = 1
      <4> HIDE DEF absent
      <4> QED BY <2>4, FS_Singleton
    <3>2. ~Waits(f, v.window, f.frames[k])
      BY <3>1 DEF Waits
    <3> QED BY <3>2 DEF Waiting
  <2>6. given[k + 1] \in SUBSET Forwarded
    <3> HIDE DEF given, f
    <3> QED BY <1>4, <2>2, RecoveredIsSent
  <2>7. \A r \in given[k + 1] : r.sequence \in Covers(G[k])
    <3>1. absent \subseteq Indices(f.frames[k])
      BY DEF AbsentFrom
    <3>2. f.frames[k] = G[k]
      BY <2>2 DEF FramesFrom
    <3> HIDE DEF given, f, absent
    <3> QED BY <2>2, <2>3, <3>1, <3>2 DEF Covers
  <2> QED BY <2>2, <2>4, <2>5, <2>6, <2>7
<1> HIDE DEF given, u
<1>7. Accepts!Folded(u, given) = FoldLeft(AcceptRecovered, u, given)
  BY DEF Accepts!Folded, Accepts!FoldLeft, FoldLeft, Accepts!MapThenFoldSet, MapThenFoldSet,
         Accepts!Max, Max
<1> HIDE DEF n
<1>8. /\ h[0] = u
      /\ h[n] = Accepts!Folded(u, given)
      /\ \A k \in 1..n : h[k] = AcceptRecovered(h[k - 1], given[k])
  <2>1. Accepts!IsTrace(Accepts!Trace(n, u, given), n, u, given)
    BY <1>3, Accepts!FoldTrace
  <2> QED BY <2>1 DEF Accepts!IsTrace
<1> HIDE DEF h
<1>9. \A k \in 0..n : Left(k) \in SUBSET DOMAIN f.frames /\ Left(k) \in SUBSET DOMAIN G
  BY <1>5 DEF FramesFrom
<1>10. Recovering(w, G, Left(0), v.window)
  <2>1. CASE Recovering(w, G, DOMAIN f.frames, v.window)
    <3>1. Left(0) \in SUBSET DOMAIN f.frames
      BY <1>3, <1>9
    <3> HIDE DEF Left
    <3> QED BY <2>1, <3>1, FewerFramesLeft
  <2>2. CASE v.window = w
    <3>1. {} \in SUBSET Recoverable(w)
      OBVIOUS
    <3>2. w = Accept(w, Reconstructed({}))
      BY AcceptNothing
    <3>3. AcceptEnd(w, {}) <= m
      <4>1. /\ Sound(w) /\ w.next \in Nat /\ w.next <= m /\ w.next \notin DOMAIN w.buffered
        BY WindowAssumption DEF AtRest, Sound, MediaSequences
      <4>2. w.next \in w.next..(m + 1) /\ {} \in SUBSET (w.next..m)
        BY <1>3, <4>1
      <4>3. AcceptEnd(w, {}) <= w.next /\ AcceptEnd(w, {}) \in w.next..(m + 1)
        BY <4>1, <4>2, AcceptEndIsFirstMissing
      <4> QED BY <1>3, <4>1, <4>3
    <3>4. ASSUME NEW c \in Left(0) PROVE \E t \in Covers(G[c]) : t \notin DOMAIN w.buffered \cup {}
      <4>1. c \in DOMAIN f.frames /\ f.frames[c] = G[c]
        BY <1>5 DEF FramesFrom
      <4>2. PICK i \in AbsentFrom(f, w, f.frames[c]) : TRUE
        <5>1. CASE c \in Waiting(v)
          <6>1. Cardinality(AbsentFrom(f, w, f.frames[c])) > 1
            BY <2>2, <5>1 DEF Waiting, Waits
          <6>2. AbsentFrom(f, w, f.frames[c]) # {}
            BY <6>1, FS_EmptySet
          <6> QED BY <6>2
        <5>2. CASE c \notin Waiting(v)
          <6>1. c \in 0..(n - 1) /\ given[c + 1] # {}
            BY <1>3, <1>4, <4>1, <5>2 DEF n
          <6> QED BY <1>6, <2>2, <6>1
        <5> QED BY <5>1, <5>2
      <4>3. /\ i \in Indices(G[c]) /\ SequenceAt(G[c], i) \notin DOMAIN w.buffered
        BY <4>1, <4>2 DEF AbsentFrom, Known
      <4> QED BY <4>3 DEF Covers
    <3>5. SameLap(w, G, Left(0), w)
      <4> HIDE DEF Left
      <4> QED BY <3>1, <3>2, <3>3, <3>4 DEF SameLap
    <3> QED BY <2>2, <3>5 DEF Recovering
  <2> QED BY <2>1, <2>2
<1> DEFINE Fine(k, x) == /\ Pair(x) /\ x.fec.frames = Trimmed(v).frames
                         /\ Recovering(w, G, Left(k), x.window)
           H == {k \in 0..n : Fine(k, h[k])}
<1>11. 0 \in H
  <2> HIDE DEF Left
  <2>1. Fine(0, u)
    BY <1>2, <1>10
  <2> QED BY <1>3, <1>8, <2>1
<1>12. ASSUME NEW k \in 0..(n - 1), k \in H PROVE k + 1 \in H
  <2>1. k + 1 \in 1..n /\ k + 1 \in 0..n /\ (k + 1) - 1 = k /\ k \in 0..n /\ k \in Nat
    BY <1>3
  <2> DEFINE x == h[k]
             g == given[k + 1]
  <2>2. h[k + 1] = AcceptRecovered(x, g)
    BY <1>8, <2>1
  <2>3. Fine(k, x)
    BY <1>12
  <2>4. g \in SUBSET Forwarded
    BY <1>6
  <2> HIDE DEF x
  <2>5. /\ Pair(AcceptRecovered(x, g))
        /\ AcceptRecovered(x, g).fec.frames = x.fec.frames
    BY <2>3, <2>4, AcceptRecoveredGood
  <2>6. Recovering(w, G, Left(k + 1), AcceptRecovered(x, g).window)
    <3>1. CASE g = {}
      <4>1. AcceptRecovered(x, g) = x
        BY <3>1 DEF AcceptRecovered
      <4>2. Left(k + 1) \in SUBSET Left(k)
        BY <1>4, <2>1
      <4> HIDE DEF Left, g
      <4> QED BY <2>3, <4>1, <4>2, FewerFramesLeft
    <3>2. CASE g # {}
      <4>1. /\ k \in DOMAIN f.frames /\ k \notin Waiting(v)
            /\ \A r \in g : r.sequence \in Covers(G[k])
        BY <1>6, <3>2
      <4>2. k \in Left(k) /\ Left(k) \in SUBSET DOMAIN G
        BY <1>9, <2>1, <3>2, <4>1
      <4>3. Left(k + 1) \in SUBSET (Left(k) \ {k})
        BY <1>4, <2>1, <4>1
      <4> HIDE DEF Left, g
      <4>4. Recovering(w, G, Left(k) \ {k}, AcceptRecovered(x, g).window)
        BY <2>3, <2>4, <4>1, <4>2, AcceptRecoveredUses
      <4> QED BY <4>3, <4>4, FewerFramesLeft
    <3> QED BY <3>1, <3>2
  <2> HIDE DEF Left
  <2>7. Fine(k + 1, AcceptRecovered(x, g))
    BY <2>3, <2>5, <2>6
  <2> HIDE DEF Fine
  <2> QED BY <2>1, <2>2, <2>7
<1>13. H \in SUBSET Nat
  BY <1>3
<1> HIDE DEF H
<1>14. 0..n \subseteq H
  BY <1>3, <1>11, <1>12, <1>13, UpTo
<1>15. Fine(n, h[n])
  <2>1. n \in H
    BY <1>3, <1>14
  <2> HIDE DEF Left
  <2> QED BY <2>1 DEF H
<1>16. Left(n) = Waiting(v)
  BY <1>3, <1>4 DEF n
<1> HIDE DEF Left
<1> DEFINE x == OnePass(v)
<1>17. /\ x.fec.frames = Trimmed(v).frames /\ DOMAIN x.fec.frames = Waiting(v)
       /\ Recovering(w, G, Waiting(v), x.window)
  BY <1>1, <1>2, <1>7, <1>8, <1>15, <1>16
<1> HIDE DEF x
<1>18. FramesFrom(x, G)
  <2>1. Trimmed(v).frames = [b \in Waiting(v) |-> f.frames[b]]
    BY DEF Trimmed, Pair, Good, Queued
  <2> QED BY <1>5, <1>17, <2>1 DEF FramesFrom
<1> QED BY <1>17, <1>18 DEF x

(* All the passes of a turn together do what Window.tla allows. *)
LEMMA RecoverAllReady ==
  ASSUME NEW v, Pair(v), Formed(v.window), Disjoint(v.fec.frames)
  PROVE  /\ RecoverAll(v).window \in RecoverFecReady(v.window)
         /\ FramesFrom(RecoverAll(v), v.fec.frames)
<1> DEFINE w == v.window
           G == v.fec.frames
           n == Cardinality(DOMAIN G)
           l == [i \in 1..n |-> i]
           h == Passes!Trace(n, v, l)
<1>1. RecoverAll(v) = FoldLeft(Pass, v, l)
  BY DEF RecoverAll
<1>2. AtRest(w) /\ Formed(w)
  BY DEF Pair
<1>3. n \in Nat
  <2>1. DOMAIN G \subseteq Range(v.fec.frame_order) /\ v.fec.frame_order \in Seq(MediaSequences)
    BY DEF Pair, Good, Queued
  <2>2. DOMAIN G \in SUBSET MediaSequences
    BY <2>1 DEF Range
  <2> QED BY <2>2, SequencesAreFinite
<1> HIDE DEF n
<1>4. DOMAIN l = 1..n
  OBVIOUS
<1> HIDE DEF l
<1>5. Passes!Folded(v, l) = FoldLeft(Pass, v, l)
  BY DEF Passes!Folded, Passes!FoldLeft, FoldLeft, Passes!MapThenFoldSet, MapThenFoldSet,
         Passes!Max, Max
<1>6. /\ h[0] = v
      /\ h[n] = Passes!Folded(v, l)
      /\ \A k \in 1..n : h[k] = Pass(h[k - 1], l[k])
  <2>1. Passes!IsTrace(Passes!Trace(n, v, l), n, v, l)
    BY <1>3, <1>4, Passes!FoldTrace
  <2> QED BY <2>1 DEF Passes!IsTrace
<1> HIDE DEF h
<1> DEFINE Fine(x) == /\ Pair(x) /\ FramesFrom(x, G)
                      /\ x.window = w \/ Recovering(w, G, DOMAIN x.fec.frames, x.window)
           H == {k \in 0..n : Fine(h[k])}
<1>7. 0 \in H
  BY <1>3, <1>6 DEF FramesFrom
<1>8. ASSUME NEW k \in 0..(n - 1), k \in H PROVE k + 1 \in H
  <2>1. k + 1 \in 1..n /\ k + 1 \in 0..n /\ (k + 1) - 1 = k
    BY <1>3
  <2> DEFINE x == h[k]
             y == OnePass(x)
  <2>2. h[k + 1] = y
    BY <1>6, <2>1 DEF Pass
  <2>3. Fine(x)
    BY <1>8
  <2> HIDE DEF x, w, G
  <2>4. Recovering(w, G, DOMAIN y.fec.frames, y.window) /\ FramesFrom(y, G)
    BY <1>2, <2>3, OnePassUses DEF G
  <2>5. Pair(y)
    BY <2>3, OnePassGood
  <2> HIDE DEF y
  <2>6. Fine(y)
    BY <2>4, <2>5
  <2> HIDE DEF Fine
  <2> QED BY <2>1, <2>2, <2>6
<1>9. H \in SUBSET Nat
  BY <1>3
<1> HIDE DEF H
<1>10. 0..n \subseteq H
  BY <1>3, <1>7, <1>8, <1>9, UpTo
<1>11. Fine(h[n])
  BY <1>3, <1>10 DEF H
<1> DEFINE x == RecoverAll(v)
<1>12. Fine(x)
  BY <1>1, <1>5, <1>6, <1>11
<1> HIDE DEF x
<1>13. w \in RecoverFecReady(w)
  <2>1. {} \in SUBSET Recoverable(w) /\ w = Accept(w, Reconstructed({}))
    BY <1>2, AcceptNothing
  <2>2. w \in RecoverPass(w)
    <3> HIDE DEF w
    <3> QED BY <2>1 DEF RecoverPass, Reconstructed
  <2> QED BY <2>2 DEF RecoverFecReady
<1> HIDE DEF w
<1>14. x.window \in RecoverFecReady(w)
  BY <1>2, <1>12, <1>13, RecoveringIsReady
<1> QED BY <1>12, <1>14 DEF x, w

(* So does a whole turn. *)
LEMMA AdvanceAllowed ==
  ASSUME NEW v, Pair(v), Formed(v.window), Disjoint(v.fec.frames)
  PROVE  LET x == AdvanceWithFec(v)
         IN  /\ x.window \in Advance({v.window})
             /\ Formed(x.window) /\ FramesFrom(x, v.fec.frames)
<1> DEFINE w == v.window
           G == v.fec.frames
           u == RecoverAll(v).window
           x == AdvanceWithFec(v)
<1>1. u \in RecoverFecReady(w) /\ FramesFrom(RecoverAll(v), G)
  BY RecoverAllReady
<1>2. x.window = Drain(Expire(u)) /\ x.fec.frames = RecoverAll(v).fec.frames
  BY AdvanceGood DEF AdvanceWithFec, Moved
<1>3. AtRest(w) /\ Formed(w)
  BY DEF Pair
<1> HIDE DEF u, x, w, G
<1>4. x.window \in Advance({w})
  <2>1. RepairsAsked(UNION {RecoverFecReady(a) : a \in {w}}) = RecoverFecReady(w)
    BY FecAssumption DEF RepairsAsked
  <2> QED BY <1>1, <1>2, <2>1 DEF Advance
<1>5. ASSUME NEW a, AtRest(a), Formed(a), NEW b \in RecoverPass(a)
      PROVE  AtRest(b) /\ Formed(b)
  <2>1. PICK R \in SUBSET Recoverable(a) : b = Accept(a, Reconstructed(R))
    BY <1>5 DEF RecoverPass, Reconstructed
  <2>2. Sound(a) /\ R \in SUBSET (a.next..MaxMediaSequence)
    BY <1>5, RecoverableAhead DEF AtRest
  <2>3. Formed(b)
    BY <1>5, <2>1, <2>2, AcceptFormed
  <2> QED BY <1>5, <2>2, <2>3, RecoverPassSound
<1>6. AtRest(u) /\ Formed(u)
  <2>1. CASE u \in RecoverPass(w)
    BY <1>3, <1>5, <2>1
  <2>2. CASE u \notin RecoverPass(w)
    <3>1. PICK a \in RecoverPass(w) : u \in RecoverPass(a)
      BY <1>1, <2>2 DEF RecoverFecReady
    <3>2. AtRest(a) /\ Formed(a)
      BY <1>3, <1>5, <3>1
    <3> QED BY <1>5, <3>1, <3>2
  <2> QED BY <2>1, <2>2
<1>7. Formed(x.window)
  <2>1. Sound(u) /\ DOMAIN u = WindowFields
    BY <1>6 DEF AtRest, Sound
  <2>2. Sound(Expire(u)) /\ Formed(Expire(u))
    BY <1>6, <2>1, ExpireSound, ExpireFormed
  <2> QED BY <1>2, <2>2, DrainFormed
<1>8. FramesFrom(x, G)
  BY <1>1, <1>2 DEF FramesFrom
<1> QED BY <1>4, <1>7, <1>8 DEF x, w, G

(* The sender puts each packet in one parity frame at most. *)
PacketsOf(g) == {g[i].packet : i \in DOMAIN g}

GroupsApart ==
  /\ \A g \in parity : Len(g) >= 2
  /\ \A g \in parity : \A h \in parity : g # h => PacketsOf(g) \cap PacketsOf(h) = {}
  /\ \A g \in parity : \A k \in PacketsOf(g) : k <= sent /\ \A j \in PacketsOf(group) : k < j
  /\ \A j \in PacketsOf(group) : j <= sent

(* Frames f are of groups that were flushed, each under its base. *)
FramesSent(f) ==
  \A b \in DOMAIN f : \E g \in parity : f[b] = ParityFrame(g) /\ b = ParityFrame(g).base

(* What arrives was sent, and the window is as a flow leaves it. *)
FlowInv ==
  /\ GroupsApart
  /\ \A d \in DOMAIN network : \/ \E k \in DOMAIN LengthOf : d = Media(k)
                               \/ \E g \in parity : d = Parity(g)
  /\ FramesSent(fec.frames)
  /\ Formed(window)

(* What recording a packet flushes are packets up to it, once, of one      *)
(* group, and what stays in the encoder comes after.                       *)
LEMMA RecordApart ==
  ASSUME NEW k \in DOMAIN LengthOf, NEW j \in Nat, j < k, InProgress(group, j),
         \A p \in PacketsOf(group) : p < k,
         NEW size \in GroupSizes
  PROVE  LET r == Record(k, size)
         IN  /\ \A g \in r.flushed : Len(g) >= 2 /\ PacketsOf(g) \subseteq PacketsOf(group) \cup {k}
             /\ \A g \in r.flushed : \A h \in r.flushed : g = h
             /\ \A g \in r.flushed : \A p \in PacketsOf(g) : \A q \in PacketsOf(r.group) : p < q
             /\ PacketsOf(r.group) \subseteq PacketsOf(group) \cup {k}
<1> DEFINE fits == PayloadFits(LengthOf[k], size)
           ends == ~fits \/ Breaks(k)
           early == IF ends THEN FlushedOrCleared(group) ELSE {}
           before == IF ends THEN << >> ELSE group
           m == [packet |-> k, room |-> size]
           longer == Append(before, m)
           r == Record(k, size)
<1>1. r = IF ~fits THEN [group |-> << >>, flushed |-> early]
          ELSE IF Len(longer) >= size
               THEN [group |-> << >>, flushed |-> early \cup Flushed(longer)]
               ELSE [group |-> longer, flushed |-> early]
  BY DEF Record
<1>2. \A g \in early : g = group /\ Len(g) >= 2 /\ ends
  BY DEF FlushedOrCleared, Flushed
<1>3. \A g \in Flushed(longer) : g = longer
  BY DEF Flushed
<1>4. size \in Nat /\ size >= 2
  BY FecAssumption
<1>5. PacketsOf(<< >>) = {}
  BY DEF PacketsOf
<1>6. before \in Seq(Members)
  <2>1. group \in Seq(Members)
    <3>1. CASE group = << >>
      BY <3>1
    <3>2. CASE IsGroup(group)
      BY <3>2 DEF IsGroup
    <3> QED BY <3>1, <3>2 DEF InProgress
  <2>2. << >> \in Seq(Members)
    OBVIOUS
  <2> QED BY <2>1, <2>2
<1>7. m.packet = k /\ m \in Members
  BY DEF Members
<1>8. PacketsOf(longer) = PacketsOf(before) \cup {k}
  <2> HIDE DEF before, m
  <2>1. /\ DOMAIN longer = 1..(Len(before) + 1) /\ Len(before) \in Nat
        /\ DOMAIN before = 1..Len(before)
        /\ longer[Len(before) + 1] = m
        /\ \A i \in 1..Len(before) : longer[i] = before[i]
    BY <1>6, <1>7
  <2> HIDE DEF longer
  <2>2. 1..(Len(before) + 1) = (1..Len(before)) \cup {Len(before) + 1}
    BY <2>1
  <2> QED BY <1>7, <2>1, <2>2 DEF PacketsOf
<1>9. PacketsOf(before) \subseteq PacketsOf(group)
  BY <1>5
<1>10. ends => PacketsOf(longer) = {k} /\ Len(longer) = 1
  BY <1>5, <1>7, <1>8
<1> HIDE DEF fits, ends, early, before, longer, m, r
<1>11. CASE ~fits
  <2>1. r.group = << >> /\ r.flushed = early
    BY <1>1, <1>11
  <2> QED BY <1>2, <1>5, <2>1 DEF r
<1>12. CASE fits /\ Len(longer) >= size
  <2>1. r.group = << >> /\ r.flushed = early \cup Flushed(longer)
    BY <1>1, <1>12
  <2>2. ~ends
    <3>1. SUFFICES ASSUME ends PROVE FALSE
      OBVIOUS
    <3>2. Len(longer) = 1
      BY <1>10, <3>1
    <3>3. 1 >= size
      BY <1>12, <3>2
    <3> QED BY <1>4, <3>3
  <2>3. early = {}
    BY <1>2, <2>2
  <2>4. Len(longer) >= 2
    <3>1. Len(longer) \in Nat
      BY <1>6, <1>7 DEF longer
    <3> QED BY <1>4, <1>12, <3>1
  <2> QED BY <1>3, <1>5, <1>8, <1>9, <2>1, <2>3, <2>4 DEF r
<1>13. CASE fits /\ ~(Len(longer) >= size)
  <2>1. r.group = longer /\ r.flushed = early
    BY <1>1, <1>13
  <2>2. ASSUME NEW g \in early, NEW p \in PacketsOf(g), NEW q \in PacketsOf(longer) PROVE p < q
    <3>1. g = group /\ PacketsOf(longer) = {k}
      BY <1>2, <1>10
    <3> QED BY <2>2, <3>1
  <2> QED BY <1>2, <1>8, <1>9, <2>1, <2>2 DEF r
<1> QED BY <1>11, <1>12, <1>13

(* Groups that are apart give frames that are. *)
LEMMA FramesDisjoint ==
  ASSUME SenderInv, GroupsApart, NEW f, FramesSent(f)
  PROVE  Disjoint(f)
<1>1. ASSUME NEW g \in parity
      PROVE  /\ Covers(ParityFrame(g)) = {SentSequence(k) : k \in PacketsOf(g)}
             /\ PacketsOf(g) \subseteq DOMAIN LengthOf
             /\ \A s : \E t \in Covers(ParityFrame(g)) : t # s
  <2> DEFINE n == Len(g)
             frame == ParityFrame(g)
  <2>1. IsGroup(g) /\ n >= 2
    BY DEF SenderInv, GroupsApart
  <2>2. /\ n \in Nat /\ DOMAIN g = 1..n
        /\ \A i \in 1..n : g[i].packet \in DOMAIN LengthOf
    BY <2>1, LengthsOfGroup
  <2>3. /\ Indices(frame) = 1..n
        /\ \A i \in 1..n : SequenceAt(frame, i) = SentSequence(g[i].packet)
        /\ \A a \in 1..n : \A b \in 1..n : g[a].packet = g[b].packet => a = b
    BY <2>1, FrameSequences
  <2> HIDE DEF n, frame
  <2>4. Covers(frame) = {SentSequence(k) : k \in PacketsOf(g)}
    BY <2>2, <2>3 DEF Covers, PacketsOf
  <2>5. PacketsOf(g) \subseteq DOMAIN LengthOf
    BY <2>2 DEF PacketsOf
  <2>6. 1 \in 1..n /\ 2 \in 1..n
    BY <2>1, <2>2
  <2>7. SequenceAt(frame, 1) # SequenceAt(frame, 2)
    <3>1. g[1].packet # g[2].packet
      BY <2>3, <2>6
    <3> QED BY <2>2, <2>3, <2>6, <3>1, SentOnce
  <2>8. \A s : \E t \in Covers(frame) : t # s
    BY <2>3, <2>6, <2>7 DEF Covers
  <2> QED BY <2>4, <2>5, <2>8 DEF frame
<1>2. ASSUME NEW b \in DOMAIN f
      PROVE  Covers(f[b]) \subseteq DOMAIN FecPayload /\ \A s : \E t \in Covers(f[b]) : t # s
  <2>1. PICK g \in parity : f[b] = ParityFrame(g)
    BY DEF FramesSent
  <2> QED BY <1>1, <2>1, SentIsProtected
<1>3. ASSUME NEW b \in DOMAIN f, NEW c \in DOMAIN f, b # c
      PROVE  Covers(f[b]) \cap Covers(f[c]) = {}
  <2>1. PICK g \in parity : f[b] = ParityFrame(g) /\ b = ParityFrame(g).base
    BY DEF FramesSent
  <2>2. PICK h \in parity : f[c] = ParityFrame(h) /\ c = ParityFrame(h).base
    BY DEF FramesSent
  <2>3. g # h
    BY <1>3, <2>1, <2>2
  <2>4. PacketsOf(g) \cap PacketsOf(h) = {}
    BY <2>3 DEF GroupsApart
  <2>5. ASSUME NEW s \in Covers(f[b]), s \in Covers(f[c]) PROVE FALSE
    <3>1. PICK i \in PacketsOf(g) : s = SentSequence(i)
      BY <1>1, <2>1
    <3>2. PICK j \in PacketsOf(h) : s = SentSequence(j)
      BY <1>1, <2>2, <2>5
    <3>3. i \in DOMAIN LengthOf /\ j \in DOMAIN LengthOf
      BY <1>1
    <3>4. i = j
      BY <3>1, <3>2, <3>3, SentOnce
    <3> QED BY <2>4, <3>4
  <2> QED BY <2>5
<1> QED BY <1>2, <1>3 DEF Disjoint

(* Nothing has been flushed, and the window is empty. *)
LEMMA InitFlow == FecInit => FlowInv
<1> SUFFICES ASSUME FecInit PROVE FlowInv
  OBVIOUS
<1>1. /\ sent = 0 /\ group = << >> /\ parity = {} /\ network = << >>
      /\ window = EmptyWindow(0) /\ fec = EmptyFec
  BY DEF FecInit
<1>2. PacketsOf(group) = {}
  BY <1>1 DEF PacketsOf
<1>3. GroupsApart
  BY <1>1, <1>2 DEF GroupsApart
<1>4. FramesSent(fec.frames)
  BY <1>1 DEF EmptyFec, FramesSent
<1>5. Formed(window)
  BY <1>1, EmptyWindowFormed
<1> QED BY <1>1, <1>3, <1>4, <1>5 DEF FlowInv

(* What the server does leaves the sender's part as it is. *)
LEMMA ServerFlow ==
  ASSUME FlowInv, UNCHANGED clientVars, DOMAIN network' \subseteq DOMAIN network,
         FramesSent(fec'.frames), Formed(window')
  PROVE  FlowInv'
<1>1. sent' = sent /\ group' = group /\ parity' = parity
  BY DEF clientVars
<1>2. GroupsApart'
  BY <1>1 DEF FlowInv, GroupsApart
<1>3. \A d \in DOMAIN network' : \/ \E k \in DOMAIN LengthOf : d = Media(k)
                                 \/ \E g \in parity' : d = Parity(g)
  BY <1>1 DEF FlowInv
<1>4. FramesSent(fec.frames)'
  BY <1>1 DEF FramesSent
<1> QED BY <1>2, <1>3, <1>4 DEF FlowInv

(* Groups that are flushed with packet k, all earlier packets having gone  *)
(* to other groups.                                                        *)
LEMMA EmitFlow ==
  ASSUME SenderInv, FlowInv, NEW k \in DOMAIN LengthOf, Number(k), UNCHANGED serverVars,
         NEW F, Emit(k, F),
         \A g \in F : Len(g) >= 2 /\ PacketsOf(g) \subseteq PacketsOf(group) \cup {k},
         \A g \in F : \A h \in F : g = h,
         \A g \in F : \A p \in PacketsOf(g) : \A q \in PacketsOf(group') : p < q,
         PacketsOf(group') \subseteq PacketsOf(group) \cup {k}
  PROVE  FlowInv'
<1>1. /\ sent' = k /\ k = sent + 1 /\ sent \in Nat
      /\ parity' = parity \cup F /\ window' = window /\ fec' = fec
  BY DEF Number, Emit, serverVars, SenderInv
<1>2. GroupsApart
  BY DEF FlowInv
<1>3. PacketsOf(group) \subseteq Nat /\ \A g \in parity : PacketsOf(g) \subseteq Nat
  <2>1. ASSUME NEW g, IsGroup(g) PROVE PacketsOf(g) \subseteq Nat
    <3>1. \A i \in DOMAIN g : g[i].packet \in DOMAIN LengthOf
      BY <2>1, LengthsOfGroup
    <3>2. DOMAIN LengthOf \subseteq Nat
      BY SentWraps
    <3> QED BY <3>1, <3>2 DEF PacketsOf
  <2>2. group = << >> \/ IsGroup(group)
    BY DEF SenderInv, InProgress
  <2>3. PacketsOf(<< >>) = {}
    BY DEF PacketsOf
  <2> QED BY <2>1, <2>2, <2>3 DEF SenderInv
<1>4. ASSUME NEW p \in PacketsOf(group) \cup {k}
      PROVE  /\ p <= k
             /\ \A g \in parity : \A q \in PacketsOf(g) : q < p
  <2>1. CASE p \in PacketsOf(group)
    <3>1. p \in Nat /\ p <= sent /\ \A g \in parity : \A q \in PacketsOf(g) : q < p
      BY <1>2, <1>3, <2>1 DEF GroupsApart
    <3> QED BY <1>1, <3>1
  <2>2. CASE p = k
    <3>1. ASSUME NEW g \in parity, NEW q \in PacketsOf(g) PROVE q < p
      <4>1. q \in Nat /\ q <= sent
        BY <1>2, <1>3 DEF GroupsApart
      <4> QED BY <1>1, <2>2, <4>1
    <3> QED BY <1>1, <2>2, <3>1
  <2> QED BY <1>4, <2>1, <2>2
<1>5. ASSUME NEW g \in parity' PROVE Len(g) >= 2
  BY <1>1, <1>2 DEF GroupsApart
<1>6. ASSUME NEW g \in parity', NEW h \in parity', g # h
      PROVE  PacketsOf(g) \cap PacketsOf(h) = {}
  <2>1. ASSUME NEW a \in parity, NEW b \in F PROVE PacketsOf(a) \cap PacketsOf(b) = {}
    <3>1. ASSUME NEW p \in PacketsOf(b), p \in PacketsOf(a) PROVE FALSE
      <4>1. p \in PacketsOf(group) \cup {k} /\ p \in Nat
        BY <1>3, <3>1
      <4>2. p < p
        BY <1>4, <3>1, <4>1
      <4> QED BY <4>1, <4>2
    <3> QED BY <3>1
  <2>2. g \in parity \cup F /\ h \in parity \cup F /\ ~(g \in F /\ h \in F)
    BY <1>1, <1>6
  <2>3. CASE g \in parity /\ h \in parity
    BY <1>2, <1>6, <2>3 DEF GroupsApart
  <2>4. CASE g \in parity /\ h \in F
    BY <2>1, <2>4
  <2>5. CASE g \in F /\ h \in parity
    BY <2>1, <2>5
  <2> QED BY <2>2, <2>3, <2>4, <2>5
<1>7. ASSUME NEW g \in parity', NEW p \in PacketsOf(g)
      PROVE  p <= k /\ \A q \in PacketsOf(group') : p < q
  <2>1. CASE g \in parity
    <3>1. p \in Nat /\ p <= sent
      BY <1>2, <1>3, <2>1 DEF GroupsApart
    <3>2. p <= k
      BY <1>1, <3>1
    <3>3. \A q \in PacketsOf(group') : p < q
      BY <1>4, <2>1
    <3> QED BY <3>2, <3>3
  <2>2. CASE g \in F
    BY <1>4, <2>2
  <2> QED BY <1>1, <2>1, <2>2
<1>8. \A q \in PacketsOf(group') : q <= k
  BY <1>4
<1>9. GroupsApart'
  BY <1>1, <1>5, <1>6, <1>7, <1>8 DEF GroupsApart
<1>10. \A d \in DOMAIN network' : \/ \E i \in DOMAIN LengthOf : d = Media(i)
                                  \/ \E g \in parity' : d = Parity(g)
  <2>1. DOMAIN network' = DOMAIN network \cup {Media(k)} \cup {Parity(g) : g \in F}
    BY DEF Emit, With
  <2> QED BY <1>1, <2>1 DEF FlowInv
<1>11. FramesSent(fec.frames)'
  <2>1. FramesSent(fec.frames)
    BY DEF FlowInv
  <2> QED BY <1>1, <2>1 DEF FramesSent
<1>12. Formed(window)'
  BY <1>1 DEF FlowInv
<1> QED BY <1>9, <1>10, <1>11, <1>12 DEF FlowInv

(* The client sends a packet, or gives it up. *)
LEMMA ClientFlow ==
  ASSUME SenderInv, FlowInv, NEW k \in DOMAIN LengthOf, Send(k) \/ Skip(k)
  PROVE  FlowInv' /\ window' = window
<1>1. PICK j \in Nat : j <= sent /\ InProgress(group, j)
  BY DEF SenderInv
<1>2. Number(k) /\ UNCHANGED serverVars
  BY DEF Send, Skip
<1>3. sent \in Nat /\ k \in Nat /\ k = sent + 1 /\ j < k /\ sent' = k
  BY <1>1, <1>2, SentWraps DEF SenderInv, Number
<1>4. \A p \in PacketsOf(group) : p < k /\ p <= k
  <2> SUFFICES ASSUME NEW p \in PacketsOf(group) PROVE p < k /\ p <= k
    OBVIOUS
  <2>1. PICK i \in DOMAIN group : p = group[i].packet
    BY DEF PacketsOf
  <2>2. IsGroup(group)
    BY <1>1, <2>1 DEF InProgress
  <2>3. p \in DOMAIN LengthOf
    BY <2>1, <2>2, LengthsOfGroup
  <2>4. p \in Nat /\ p <= sent
    BY <2>3, SentWraps DEF FlowInv, GroupsApart
  <2> QED BY <1>3, <2>4
<1>5. window' = window
  BY <1>2 DEF serverVars
<1>6. CASE Skip(k)
  <2>1. /\ group' = group /\ parity' = parity /\ network' = network
        /\ window' = window /\ fec' = fec
    BY <1>6 DEF Skip, serverVars
  <2>2. \A g \in parity : \A p \in PacketsOf(g) : p <= k
    <3> SUFFICES ASSUME NEW g \in parity, NEW p \in PacketsOf(g) PROVE p <= k
      OBVIOUS
    <3>1. IsGroup(g) /\ p <= sent
      BY DEF SenderInv, FlowInv, GroupsApart
    <3>2. p \in Nat
      BY <3>1, LengthsOfGroup, SentWraps DEF PacketsOf
    <3> QED BY <1>3, <3>1, <3>2
  <2>3. GroupsApart'
    BY <1>3, <1>4, <2>1, <2>2 DEF FlowInv, GroupsApart
  <2>4. FramesSent(fec.frames)'
    BY <2>1 DEF FlowInv, FramesSent
  <2> QED BY <1>5, <2>1, <2>3, <2>4 DEF FlowInv
<1>7. CASE Send(k)
  <2>1. CASE Emit(k, {}) /\ group' = group
    <3>1. FlowInv'
      BY <1>2, <1>4, <2>1, EmitFlow
    <3> QED BY <1>5, <3>1
  <2>2. CASE \E size \in GroupSizes :
               LET r == Record(k, size) IN Emit(k, r.flushed) /\ group' = r.group
    <3>1. PICK size \in GroupSizes :
            Emit(k, Record(k, size).flushed) /\ group' = Record(k, size).group
      BY <2>2
    <3> DEFINE r == Record(k, size)
    <3>2. /\ \A g \in r.flushed : Len(g) >= 2 /\ PacketsOf(g) \subseteq PacketsOf(group) \cup {k}
          /\ \A g \in r.flushed : \A h \in r.flushed : g = h
          /\ \A g \in r.flushed : \A p \in PacketsOf(g) : \A q \in PacketsOf(r.group) : p < q
          /\ PacketsOf(r.group) \subseteq PacketsOf(group) \cup {k}
      BY <1>1, <1>3, <1>4, RecordApart
    <3> HIDE DEF r
    <3>3. Emit(k, r.flushed) /\ group' = r.group
      BY <3>1 DEF r
    <3>4. FlowInv'
      BY <1>2, <3>2, <3>3, EmitFlow
    <3> QED BY <1>5, <3>4
  <2> QED BY <1>7, <2>1, <2>2 DEF Send
<1> QED BY <1>6, <1>7

-----------------------------------------------------------------------------
(* The server's turns, in a flow. *)

(* What a turn starts from. *)
LEMMA FreshFormed ==
  ASSUME FlowInv, ServerInv
  PROVE  /\ Formed(Fresh)
         /\ ~initialized => \A s \in MediaSequences : [Fresh EXCEPT !.next = s, !.start = s] = EmptyWindow(s)
<1> DEFINE w == window
           x == Fresh
<1>1. Formed(w)
  BY DEF FlowInv
<1>2. w = [field \in WindowFields |-> w[field]]
  BY <1>1 DEF Formed
<1>3. /\ x = [field \in WindowFields |-> x[field]]
      /\ x.out = << >> /\ x.buffered = w.buffered /\ x.fragments = w.fragments
      /\ x.gap = w.gap /\ x.wrapped = w.wrapped
      /\ x.delivered = w.delivered /\ x.skips = w.skips
  BY <1>2 DEF Fresh, WindowFields
<1>4. << >> \in Seq({})
  OBVIOUS
<1> HIDE DEF x, w
<1>5. Formed(x)
  BY <1>1, <1>3, <1>4 DEF Formed
<1>6. ASSUME ~initialized, NEW s \in MediaSequences
      PROVE  [Fresh EXCEPT !.next = s, !.start = s] = EmptyWindow(s)
  <2>1. window = EmptyWindow(0)
    BY <1>6 DEF ServerInv
  <2> DEFINE z == EmptyWindow(0)
             y == [Fresh EXCEPT !.next = s, !.start = s]
             e == EmptyWindow(s)
  <2>2. Fresh = z /\ z = [field \in WindowFields |-> z[field]]
    BY <2>1, EmptyWindowFormed DEF Fresh, EmptyWindow, Formed
  <2>3. e = [field \in WindowFields |-> e[field]]
    BY EmptyWindowFormed DEF Formed
  <2>4. /\ e.next = s /\ e.start = s
        /\ e.buffered = z.buffered /\ e.fragments = z.fragments
        /\ e.seen = z.seen /\ e.skipped = z.skipped /\ e.gap = z.gap /\ e.out = z.out
        /\ e.requests = z.requests /\ e.delivered = z.delivered /\ e.skips = z.skips
        /\ e.wrapped = z.wrapped
    BY DEF EmptyWindow
  <2> HIDE DEF z, e
  <2>5. /\ y = [field \in WindowFields |-> y[field]]
        /\ y.next = s /\ y.start = s
        /\ y.buffered = z.buffered /\ y.fragments = z.fragments
        /\ y.seen = z.seen /\ y.skipped = z.skipped /\ y.gap = z.gap /\ y.out = z.out
        /\ y.requests = z.requests /\ y.delivered = z.delivered /\ y.skips = z.skips
        /\ y.wrapped = z.wrapped
    BY <2>2 DEF WindowFields
  <2> HIDE DEF y
  <2>6. y = e
    BY <2>3, <2>4, <2>5, SameWindow
  <2> QED BY <2>6 DEF y, e
<1> QED BY <1>5, <1>6 DEF x

(* A media packet that was sent arrives. *)
LEMMA ReceiveFlow ==
  ASSUME SenderInv, ServerInv, FlowInv, NEW s \in DOMAIN FecPayload,
         NEW packet, packet.header.sequence = s, packet.body[1] = {FecPayload[s]},
         Receive(packet)
  PROVE  FramesSent(fec'.frames) /\ Formed(window') /\ WindowTurn
<1> DEFINE w == IF initialized THEN Fresh ELSE [Fresh EXCEPT !.next = s, !.start = s]
           v == [window |-> w, fec |-> fec]
           old == s < w.next \/ s \in w.seen \cup DOMAIN w.buffered
           u == AcceptPayload(v, s, {FecPayload[s]})
           r == AdvanceWithFec(u)
<1>1. (old => Turn(v)) /\ (~old => Turn(r))
  BY DEF Receive
<1>2. s \in MediaSequences /\ s \in Nat /\ s <= MaxMediaSequence
  BY WindowAssumption DEF MediaSequences
<1>3. Pair(v) /\ Formed(w)
  <2>1. CASE initialized
    <3>1. w = Fresh
      BY <2>1
    <3> HIDE DEF w
    <3> QED BY <3>1, FreshPair, FreshFormed
  <2>2. CASE ~initialized
    <3>1. w = EmptyWindow(s)
      BY <1>2, <2>2, FreshFormed
    <3> DEFINE z == EmptyWindow(s)
    <3>2. AtRest(z) /\ Formed(z)
      BY <1>2, EmptyWindowSound, EmptyWindowFormed
    <3>3. z.out = << >> /\ DOMAIN z.buffered = {}
      BY DEF EmptyWindow
    <3> HIDE DEF z, w
    <3>4. Holds(z)
      BY <3>3 DEF Holds
    <3>5. Good(fec)
      BY DEF ServerInv, Pair
    <3> QED BY <3>1, <3>2, <3>4, <3>5 DEF Pair, z
  <2> QED BY <2>1, <2>2
<1>4. v.window = w /\ v.fec = fec
  OBVIOUS
<1>5. FramesSent(fec.frames)
  BY DEF FlowInv
<1>6. WindowTurn <=> \/ window' \in {Fresh, Aged(Fresh), EmptyWindow(0)}
                     \/ initialized /\ window' \in Advance({Fresh})
                     \/ \E t \in DOMAIN FecPayload :
                          LET x == IF initialized THEN Fresh
                                   ELSE [Fresh EXCEPT !.next = t, !.start = t]
                          IN  window' \in {x} \cup Advance({Accept(x, [i \in {t} |-> {FecPayload[t]}])})
  BY DEF WindowTurn
<1>7. window' \in {w} \cup Advance({Accept(w, [t \in {s} |-> {FecPayload[s]}])}) => WindowTurn
  BY <1>6
<1> HIDE DEF v
<1>8. CASE old
  <2>1. window' = w /\ fec' = fec
    BY <1>1, <1>4, <1>8 DEF Turn
  <2> HIDE DEF w
  <2> QED BY <1>3, <1>5, <1>7, <2>1
<1>9. CASE ~old
  <2>1. w.next \in Nat /\ MaxMediaSequence \in Nat
    BY <1>3, <1>4, WindowAssumption DEF Pair, AtRest, Sound, MediaSequences
  <2>2. s \in w.next..MaxMediaSequence
    <3> HIDE DEF w
    <3> QED BY <1>2, <1>9, <2>1
  <2>3. window' = r.window /\ fec' = r.fec
    BY <1>1, <1>9 DEF Turn
  <2> HIDE DEF w, old
  <2> DEFINE a == Accept(w, [t \in {s} |-> {FecPayload[s]}])
  <2>4. u.window = a
    BY <1>4 DEF AcceptPayload, Moved
  <2>5. Pair(u) /\ u.fec.frames = fec.frames
    BY <1>3, <1>4, <2>2, AcceptPayloadGood
  <2>6. [t \in {s} |-> {FecPayload[s]}] = Reconstructed({s})
    BY DEF Reconstructed
  <2>7. Formed(a)
    <3>1. Sound(w) /\ {s} \in SUBSET (w.next..MaxMediaSequence)
      BY <1>3, <1>4, <2>2 DEF Pair, AtRest
    <3> QED BY <1>3, <2>6, <3>1, AcceptFormed
  <2>8. Disjoint(u.fec.frames)
    BY <1>5, <2>5, FramesDisjoint DEF FlowInv
  <2> HIDE DEF u, a
  <2>9. r.window \in Advance({a}) /\ Formed(r.window) /\ FramesFrom(r, fec.frames)
    BY <2>4, <2>5, <2>7, <2>8, AdvanceAllowed
  <2> HIDE DEF r
  <2>10. FramesSent(r.fec.frames)
    BY <1>5, <2>9 DEF FramesFrom, FramesSent
  <2> QED BY <1>7, <2>3, <2>9, <2>10 DEF a
<1> QED BY <1>8, <1>9

(* A parity frame that was sent arrives. *)
LEMMA ReceiveFecFlow ==
  ASSUME SenderInv, ServerInv, FlowInv, NEW g \in parity, ReceiveFec(ParityFrame(g))
  PROVE  FramesSent(fec'.frames) /\ Formed(window') /\ WindowTurn
<1> DEFINE f == InsertFrame(fec, ParityFrame(g))
           v == [window |-> Fresh, fec |-> f]
           r == AdvanceWithFec(v)
<1>1. (initialized => Turn(r)) /\ (~initialized => Turn(v))
  BY DEF ReceiveFec
<1>2. Pair([window |-> Fresh, fec |-> fec]) /\ Formed(Fresh)
  BY FreshPair, FreshFormed
<1>3. Good(fec) /\ AtRest(Fresh) /\ Holds(Fresh)
  BY <1>2 DEF Pair
<1>4. Good(f)
  <2>1. IsGroup(g)
    BY DEF SenderInv
  <2> QED BY <1>3, <2>1, InsertFrameGood
<1>5. FramesSent(f.frames)
  <2> DEFINE frame == ParityFrame(g)
             frames == With(fec.frames, [b \in {frame.base} |-> frame])
             S == Range(SubSeq(IF frame.base \in DOMAIN fec.frames THEN fec.frame_order
                               ELSE Append(fec.frame_order, frame.base), 1,
                               Excess(frames,
                                      IF frame.base \in DOMAIN fec.frames THEN fec.frame_order
                                      ELSE Append(fec.frame_order, frame.base), FrameLimit)))
  <2>1. DOMAIN fec = {"frames", "frame_order", "payloads", "payload_order"}
    BY <1>3 DEF Good, Queued
  <2>2. f.frames = Without(frames, S)
    BY <2>1 DEF InsertFrame
  <2> HIDE DEF S, f
  <2>3. FramesSent(frames)
    <3>1. DOMAIN frames = DOMAIN fec.frames \cup {frame.base}
      BY DEF With
    <3>2. \A b \in DOMAIN frames : frames[b] = IF b = frame.base THEN frame ELSE fec.frames[b]
      BY DEF With
    <3> HIDE DEF frames
    <3>3. FramesSent(fec.frames)
      BY DEF FlowInv
    <3> QED BY <3>1, <3>2, <3>3 DEF FramesSent
  <2> HIDE DEF frames
  <2>4. /\ DOMAIN Without(frames, S) \subseteq DOMAIN frames
        /\ \A b \in DOMAIN Without(frames, S) : Without(frames, S)[b] = frames[b]
    BY DEF Without, Restrict
  <2> QED BY <2>2, <2>3, <2>4 DEF FramesSent
<1> HIDE DEF f
<1>6. Pair(v) /\ v.window = Fresh /\ v.fec = f
  BY <1>3, <1>4 DEF Pair
<1> HIDE DEF v
<1>7. CASE initialized
  <2>1. Disjoint(f.frames)
    BY <1>5, FramesDisjoint DEF FlowInv
  <2>2. r.window \in Advance({Fresh}) /\ Formed(r.window) /\ FramesFrom(r, f.frames)
    BY <1>2, <1>6, <2>1, AdvanceAllowed
  <2> HIDE DEF r
  <2>3. FramesSent(r.fec.frames)
    BY <1>5, <2>2 DEF FramesFrom, FramesSent
  <2>4. window' = r.window /\ fec' = r.fec
    BY <1>1, <1>7 DEF Turn
  <2> QED BY <1>7, <2>2, <2>3, <2>4 DEF WindowTurn
<1>8. CASE ~initialized
  <2>1. window' = Fresh /\ fec' = f
    BY <1>1, <1>6, <1>8 DEF Turn
  <2> QED BY <1>2, <1>5, <2>1 DEF WindowTurn
<1> QED BY <1>7, <1>8

(* A step of the flow is a turn of the window, or leaves it as it is. *)
LEMMA NextFlow ==
  SenderInv /\ ServerInv /\ FlowInv /\ [FecNext]_fecVars => FlowInv' /\ [WindowTurn]_window
<1> SUFFICES ASSUME SenderInv, ServerInv, FlowInv, [FecNext]_fecVars
             PROVE  FlowInv' /\ (WindowTurn \/ window' = window)
  OBVIOUS
<1>1. FramesSent(fec.frames) /\ Formed(window)
  BY DEF FlowInv
<1>2. ASSUME NEW k \in DOMAIN LengthOf, Send(k) \/ Skip(k)
      PROVE  FlowInv' /\ window' = window
  BY <1>2, ClientFlow
<1>3. ASSUME NEW d \in DOMAIN network, Deliver(d)
      PROVE  FlowInv' /\ WindowTurn
  <2> DEFINE packet == W!DecodePacket(d)
  <2>1. /\ UNCHANGED clientVars
        /\ DOMAIN network' \subseteq DOMAIN network
        /\ IF packet.header.sequence = W!FecSequence
           THEN ReceiveFec(W!DecodeFec(d))
           ELSE Receive(packet)
    BY <1>3 DEF Deliver, Take, Without, Restrict
  <2>2. ASSUME NEW k \in DOMAIN LengthOf, d = Media(k)
        PROVE  FramesSent(fec'.frames) /\ Formed(window') /\ WindowTurn
    <3> DEFINE s == SentSequence(k)
    <3>1. packet.header.sequence = s /\ packet.body = <<{k}>> /\ s # W!FecSequence
      BY <2>2, MediaDecodes
    <3>2. s \in DOMAIN FecPayload /\ FecPayload[s] = k
      BY SentIsProtected
    <3> HIDE DEF packet, s
    <3>3. Receive(packet) /\ packet.body[1] = {FecPayload[s]}
      BY <2>1, <3>1, <3>2 DEF packet
    <3> QED BY <3>1, <3>2, <3>3, ReceiveFlow
  <2>3. ASSUME NEW g \in parity, d = Parity(g)
        PROVE  FramesSent(fec'.frames) /\ Formed(window') /\ WindowTurn
    <3>1. packet.header.sequence = W!FecSequence /\ W!DecodeFec(d) = ParityFrame(g)
      BY <2>3, ParityDecodes DEF SenderInv
    <3>2. ReceiveFec(ParityFrame(g))
      BY <2>1, <3>1
    <3> QED BY <3>2, ReceiveFecFlow
  <2>4. FramesSent(fec'.frames) /\ Formed(window') /\ WindowTurn
    BY <2>2, <2>3 DEF FlowInv
  <2> QED BY <2>1, <2>4, ServerFlow
<1>4. ASSUME Tick PROVE FlowInv' /\ WindowTurn
  <2>1. window' = Aged(Fresh) /\ fec' = fec /\ UNCHANGED clientVars /\ network' = network
    BY <1>4 DEF Tick
  <2>2. Formed(Fresh) /\ DOMAIN Fresh = WindowFields
    BY FreshFormed DEF Formed
  <2>3. Formed(window')
    BY <2>1, <2>2, AgedFormed
  <2>4. FlowInv'
    BY <1>1, <2>1, <2>3, ServerFlow
  <2> QED BY <2>1, <2>4 DEF WindowTurn
<1>5. ASSUME TimeoutAdvance PROVE FlowInv' /\ WindowTurn
  <2> DEFINE v == [window |-> Fresh, fec |-> fec]
             r == AdvanceWithFec(v)
  <2>1. /\ window' = r.window /\ fec' = r.fec /\ HasPendingState(window)
        /\ UNCHANGED clientVars /\ network' = network
    BY <1>5 DEF TimeoutAdvance, Turn
  <2>2. Pair(v) /\ v.window = Fresh /\ v.fec = fec /\ Formed(Fresh)
    BY FreshPair, FreshFormed
  <2>3. Disjoint(fec.frames)
    BY <1>1, FramesDisjoint DEF FlowInv
  <2> HIDE DEF v
  <2>4. r.window \in Advance({Fresh}) /\ Formed(r.window) /\ FramesFrom(r, fec.frames)
    BY <2>2, <2>3, AdvanceAllowed
  <2> HIDE DEF r
  <2>5. FramesSent(r.fec.frames)
    BY <1>1, <2>4 DEF FramesFrom, FramesSent
  <2>6. FlowInv'
    BY <2>1, <2>4, <2>5, ServerFlow
  <2>7. initialized
    <3>1. initialized \in BOOLEAN /\ (initialized = FALSE => window = EmptyWindow(0))
      BY DEF ServerInv
    <3>2. ~HasPendingState(EmptyWindow(0))
      BY DEF HasPendingState, Pending, EmptyWindow
    <3> QED BY <2>1, <3>1, <3>2
  <2> QED BY <2>1, <2>4, <2>6, <2>7 DEF WindowTurn
<1>6. ASSUME TimeoutIdle PROVE FlowInv' /\ WindowTurn
  <2>1. /\ window' = EmptyWindow(0) /\ fec' = EmptyFec
        /\ UNCHANGED clientVars /\ network' = network
    BY <1>6 DEF TimeoutIdle
  <2>2. FramesSent(fec'.frames)
    BY <2>1 DEF EmptyFec, FramesSent
  <2>3. FlowInv'
    BY <2>1, <2>2, EmptyWindowFormed, ServerFlow
  <2> QED BY <2>1, <2>3 DEF WindowTurn
<1>7. ASSUME UNCHANGED fecVars PROVE FlowInv' /\ window' = window
  <2>1. /\ window' = window /\ fec' = fec /\ UNCHANGED clientVars /\ network' = network
    BY <1>7 DEF fecVars, serverVars
  <2> QED BY <1>1, <2>1, ServerFlow
<1> QED BY <1>2, <1>3, <1>4, <1>5, <1>6, <1>7 DEF FecNext

(* FecState recovers nothing that Window.tla does not allow: whatever a    *)
(* datagram brings, the window makes one of its turns.                     *)
THEOREM RecoveryIsWithinWindow == FecSpec => RecoversWithinWindow
BY InitSender, NextSender, InitServer, NextServer, InitFlow, NextFlow, PTL
   DEF FecSpec, RecoversWithinWindow
==============================================================================
