------------------------------ MODULE UdtLemmas -----------------------------
(***************************************************************************)
(* Facts that the proofs about several parts of UDT rest on: the functions *)
(* of UdtSeqNo on numbers a known distance apart, for every width of       *)
(* packet numbers; remainders, which are the slots of rings; least numbers *)
(* and induction; and sequences in which nothing comes twice.              *)
(***************************************************************************)
EXTENDS UdtSeqNo, SequencesExt, FiniteSetTheorems, SequenceTheorems, WellFoundedInduction, TLAPS

-----------------------------------------------------------------------------
(***************************************************************************)
(* Packet numbers                                                          *)
(***************************************************************************)
\* b lies d places after a on the ring, with or without a wrap.
Lapped(a, b, d) == b = a + d \/ b = a + d - (MaxSeqNo + 1)

\* seqoff measures the distance on the ring, both ways.
LEMMA OffsetOnRing ==
  ASSUME NEW a \in SeqNo, NEW b \in SeqNo, NEW d \in 0..(SeqNoTH - 1), Lapped(a, b, d)
  PROVE  seqoff(a, b) = d /\ seqoff(b, a) = -d
<1> USE SeqNoAssumption DEF SeqNo, Lapped, seqoff, Int32, Abs32
<1>1. CASE b = a + d
  BY <1>1
<1>2. CASE b = a + d - (MaxSeqNo + 1)
  BY <1>2
<1> QED BY <1>1, <1>2

\* The sign of seqcmp follows the distance.
LEMMA CompareOnRing ==
  ASSUME NEW a \in SeqNo, NEW b \in SeqNo, NEW d \in 0..(SeqNoTH - 1), Lapped(a, b, d)
  PROVE  /\ seqcmp(b, a) > 0 <=> d > 0
         /\ seqcmp(a, b) < 0 <=> d > 0
         /\ seqcmp(a, b) = 0 <=> d = 0
<1> USE SeqNoAssumption DEF SeqNo, Lapped, seqcmp, Int32, Abs32
<1>1. CASE b = a + d
  BY <1>1
<1>2. CASE b = a + d - (MaxSeqNo + 1)
  BY <1>2
<1> QED BY <1>1, <1>2

\* seqlen counts both ends.
LEMMA LengthOnRing ==
  ASSUME NEW a \in SeqNo, NEW b \in SeqNo, NEW d \in 0..(SeqNoTH - 1), Lapped(a, b, d)
  PROVE  seqlen(a, b) = d + 1
BY SeqNoAssumption DEF SeqNo, Lapped, seqlen, Int32

\* incseq and decseq move one place along the ring and undo one another.
LEMMA StepOnRing ==
  ASSUME NEW a \in SeqNo
  PROVE  /\ incseq(a) \in SeqNo /\ Lapped(a, incseq(a), 1)
         /\ decseq(a) \in SeqNo /\ Lapped(decseq(a), a, 1)
         /\ decseq(incseq(a)) = a /\ incseq(decseq(a)) = a
BY SeqNoAssumption DEF SeqNo, Lapped, incseq, decseq

\* incseq with an increment moves that many places.
LEMMA LeapOnRing ==
  ASSUME NEW a \in SeqNo, NEW n \in 0..MaxSeqNo
  PROVE  incseqBy(a, n) \in SeqNo /\ Lapped(a, incseqBy(a, n), n)
BY SeqNoAssumption DEF SeqNo, Lapped, incseqBy

-----------------------------------------------------------------------------
(***************************************************************************)
(* Numbers and slots of rings                                              *)
(***************************************************************************)
\* A set of natural numbers that is not empty has a least element.
LEMMA LeastNatural ==
  ASSUME NEW S \in SUBSET Nat, S # {}
  PROVE  \E m \in S : \A k \in S : m <= k
<1>1. PICK m \in S : \A k \in S : ~(<<k, m>> \in OpToRel(<, Nat))
  BY NatLessThanWellFounded, WFMin
<1>2. ASSUME NEW k \in S, ~(m <= k) PROVE FALSE
  <2>1. <<k, m>> \in Nat \X Nat /\ <<k, m>>[1] < <<k, m>>[2]
    BY <1>2
  <2>2. <<k, m>> \in OpToRel(<, Nat)
    BY ONLY <2>1, Zenon DEF OpToRel
  <2> QED BY <1>1, <2>2
<1> QED BY <1>2

\* Induction, as a fact about sets.
LEMMA InductiveSet ==
  ASSUME NEW S \in SUBSET Nat, 0 \in S, \A n \in S : n + 1 \in S
  PROVE  S = Nat
<1> SUFFICES ASSUME Nat \ S # {} PROVE FALSE
  OBVIOUS
<1>1. PICK m \in Nat \ S : \A k \in Nat \ S : m <= k
  BY LeastNatural
<1>2. m - 1 \in S
  BY <1>1
<1> QED BY <1>1, <1>2

\* A remainder is a slot.
LEMMA RemainderIsSlot ==
  ASSUME NEW r \in Nat \ {0}, NEW x \in Nat
  PROVE  x % r \in 0..(r - 1)
OBVIOUS

\* A number is its remainder and so many rounds.
LEMMA Quotient ==
  ASSUME NEW r \in Nat \ {0}, NEW x \in Nat
  PROVE  x \div r \in Nat /\ x = (x % r) + r * (x \div r)
OBVIOUS

\* Payloads less than a buffer apart are in different slots of it.
LEMMA SlotsDiffer ==
  ASSUME NEW r \in Nat \ {0}, NEW x \in Nat, NEW y \in Nat, x <= y, y < x + r, x % r = y % r
  PROVE  x = y
<1>1. y - x = r * (y \div r) - r * (x \div r)
  BY Quotient
<1>2. \A p \in Nat, q \in Nat : y - x = r * p - r * q => p = q
  OBVIOUS
<1>3. x \div r \in Nat /\ y \div r \in Nat
  BY Quotient
<1>4. y \div r = x \div r
  BY <1>1, <1>2, <1>3
<1> QED BY Quotient, <1>1, <1>4

\* A number is written in one way as rounds and a remainder.
LEMMA OneQuotient ==
  ASSUME NEW r \in Nat \ {0}, NEW q \in Nat, NEW s \in 0..(r - 1)
  PROVE  (r * q + s) % r = s /\ (r * q + s) \div r = q
<1> DEFINE x == r * q + s
           p == x \div r
           m == x % r
<1>0. x \in Nat
  OBVIOUS
<1>1. x \in Nat /\ p \in Nat /\ x = m + r * p /\ m \in 0..(r - 1)
  BY <1>0, Quotient, RemainderIsSlot
<1> HIDE DEF p, m
<1>3. p = q
  <2>1. ASSUME NEW a \in Nat, NEW b \in Nat, a + 1 <= b PROVE r * a + r <= r * b
    <3>1. r * (a + 1) <= r * b
      BY <2>1
    <3> QED BY <3>1
  <2>2. r * p \in Int /\ r * q \in Int /\ r * q + s = m + r * p
    BY <1>1
  <2>3. ~(p + 1 <= q)
    BY <1>1, <2>1, <2>2
  <2>4. ~(q + 1 <= p)
    BY <1>1, <2>1, <2>2
  <2> QED BY <1>1, <2>3, <2>4
<1>4. m = s
  BY <1>1, <1>3
<1> QED BY <1>3, <1>4 DEF p, m

\* What is left of whole rounds is the remainder.
LEMMA RemainderIsUnique ==
  ASSUME NEW r \in Nat \ {0}, NEW q \in Nat, NEW s \in 0..(r-1)
  PROVE  (r * q + s) % r = s
BY OneQuotient

\* Walking on from a slot ends in the slot of the sum.
LEMMA SlotSum ==
  ASSUME NEW r \in Nat \ {0}, NEW x \in Nat, NEW y \in Nat
  PROVE  ((x % r) + y) % r = (x + y) % r
<1> DEFINE q == x \div r
           m == x % r
           s == (m + y) % r
           t == (m + y) \div r
<1>1. q \in Nat /\ x = m + r * q /\ m \in 0..(r-1)
  BY Quotient, RemainderIsSlot
<1> HIDE DEF q, m
<1>2. m + y = s + r * t /\ s \in 0..(r-1) /\ t \in Nat
  BY <1>1, Quotient, RemainderIsSlot
<1> HIDE DEF s, t
<1>3. r * (q + t) = r * q + r * t /\ r * q \in Nat /\ r * t \in Nat /\ q + t \in Nat
  BY <1>1, <1>2
<1>4. x + y = r * (q + t) + s
  BY <1>1, <1>2, <1>3
<1>5. (x + y) % r = s
  <2>1. PICK z \in Nat : z = q + t
    BY <1>3
  <2>2. (r * z + s) % r = s
    BY <1>2, <2>1, OneQuotient
  <2> QED BY <1>4, <2>1, <2>2
<1> QED BY <1>5 DEF s, m

\* The distance between two numbers less than a round apart, from their slots.
LEMMA RingDistance ==
  ASSUME NEW r \in Nat \ {0}, NEW x \in Nat, NEW y \in Nat, x <= y, y < x + r
  PROVE  /\ x % r <= y % r => y - x = (y % r) - (x % r)
         /\ x % r > y % r => y - x = r + (y % r) - (x % r)
<1>1. PICK m \in 0..(r - 1), n \in 0..(r - 1) : m = x % r /\ n = y % r
  BY RemainderIsSlot
<1>2. PICK p \in Nat, q \in Nat : x = m + r * p /\ y = n + r * q
  BY <1>1, Quotient
<1>3. ASSUME NEW a \in Nat, NEW b \in Nat, a + 1 <= b PROVE r * a + r <= r * b
  <2>1. r * (a + 1) <= r * b
    BY <1>3
  <2> QED BY <2>1
<1>4. PICK u \in Nat, v \in Nat : u = r * p /\ v = r * q /\ x = m + u /\ y = n + v
  BY <1>2
<1>a. x = m + u /\ y = n + v
  BY <1>4
<1>5. ~(q + 1 <= p)
  <2>1. q + 1 <= p => v + r <= u
    BY <1>3, <1>4
  <2> QED BY ONLY <2>1, <1>1, <1>a, x <= y, r \in Nat \ {0}, x \in Nat, y \in Nat
<1>6. ~(p + 2 <= q)
  <2>1. PICK w \in Nat : w = r * (p + 1)
    OBVIOUS
  <2>2. p + 1 \in Nat /\ u + r <= w
    BY <1>3, <1>4, <2>1
  <2>3. p + 2 <= q => w + r <= v
    <3>1. PICK a \in Nat : a = p + 1
      BY <2>2
    <3>2. p + 2 <= q => a + 1 <= q
      BY ONLY <3>1, p \in Nat, q \in Nat
    <3>3. p + 2 <= q => r * a + r <= r * q
      BY <1>3, <3>2
    <3>4. r * a = w
      BY <2>1, <3>1
    <3> QED BY ONLY <1>4, <3>3, <3>4, Zenon
  <2> QED BY ONLY <2>1, <2>2, <2>3, <1>1, <1>a, y < x + r, r \in Nat \ {0}, x \in Nat, y \in Nat
<1>7. CASE q = p
  <2>1. u = v
    BY <1>4, <1>7
  <2> QED BY ONLY <1>1, <2>1, <1>a, x <= y, r \in Nat \ {0}, x \in Nat, y \in Nat
<1>8. CASE q = p + 1
  <2>1. v = u + r
    <3>1. \A a \in Nat : r * (a + 1) = r * a + r
      OBVIOUS
    <3> QED BY ONLY <1>4, <1>8, <3>1, p \in Nat, Zenon
  <2> QED BY ONLY <1>1, <1>a, <2>1, y < x + r, r \in Nat \ {0}, x \in Nat, y \in Nat
<1> QED BY ONLY <1>5, <1>6, <1>7, <1>8, p \in Nat, q \in Nat

\* Less than two rounds: a position goes round at most once.
LEMMA Folded ==
  ASSUME NEW r \in Nat \ {0}, NEW x \in Nat, x < r + r
  PROVE  x % r = IF x < r THEN x ELSE x - r
<1>1. CASE x < r
  <2>1. (r * 0 + x) % r = x
    BY <1>1, OneQuotient
  <2> QED BY <1>1, <2>1
<1>2. CASE r <= x
  <2>1. PICK y \in 0..(r - 1) : y = x - r
    BY <1>2
  <2>2. (r * 1 + y) % r = y
    BY OneQuotient
  <2>3. r * 1 + y = x
    BY <2>1
  <2> QED BY <1>2, <2>1, <2>2, <2>3
<1> QED BY <1>1, <1>2

\* The distance of two slots in the ring, when the second is ahead.
LEMMA SlotDistance ==
  ASSUME NEW r \in Nat \ {0}, NEW x \in Nat, NEW y \in Nat, x <= y, y < x + r
  PROVE  (IF y % r >= x % r THEN (y % r) - (x % r) ELSE r + (y % r) - (x % r)) = y - x
<1> DEFINE s == x % r
           d == y - x
           t == y % r
<1> SUFFICES (IF t >= s THEN t - s ELSE r + t - s) = d
  OBVIOUS
<1>1. s \in 0..(r - 1) /\ d \in 0..(r - 1)
  BY RemainderIsSlot
<1>2. t = (s + d) % r
  <2>1. x + d = y /\ d \in Nat
    OBVIOUS
  <2> HIDE DEF d
  <2>2. ((x % r) + d) % r = (x + d) % r
    BY <2>1, SlotSum
  <2> QED BY <2>1, <2>2
<1> HIDE DEF s, d, t
<1>3. CASE s + d < r
  <2>1. (r * 0 + (s + d)) % r = s + d /\ r * 0 + (s + d) = s + d
    BY <1>1, <1>3, RemainderIsUnique
  <2>2. t = s + d /\ t >= s
    BY <1>1, <1>2, <2>1
  <2> QED BY <1>1, <2>2
<1>4. CASE s + d >= r
  <2>1. s + d - r \in 0..(r - 1) /\ r * 1 + (s + d - r) = s + d
    BY <1>1, <1>4
  <2>2. (r * 1 + (s + d - r)) % r = s + d - r
    BY <2>1, RemainderIsUnique
  <2>3. t = s + d - r /\ ~(t >= s)
    BY <1>1, <1>2, <2>1, <2>2
  <2> QED BY <1>1, <2>3
<1> QED BY <1>1, <1>3, <1>4

\* A buffer later it is the same slot.
LEMMA SlotRepeats ==
  ASSUME NEW r \in Nat \ {0}, NEW x \in Nat
  PROVE  (x + r) % r = x % r
<1> DEFINE q == x \div r
           s == x % r
<1>1. q \in Nat /\ x = s + r * q /\ s \in 0..(r - 1)
  BY Quotient, RemainderIsSlot
<1> SUFFICES (x + r) % r = s
  OBVIOUS
<1> HIDE DEF q, s
<1>2. r * (q + 1) = r * q + r /\ q + 1 \in Nat
  BY <1>1
<1>3. x + r = r * (q + 1) + s
  BY <1>1, <1>2
<1> QED BY <1>1, <1>2, <1>3, RemainderIsUnique

-----------------------------------------------------------------------------
(***************************************************************************)
(* Packets sent one after the other, as long as they are fewer than half   *)
(* the ring: what the functions of UdtSeqNo say of their numbers.          *)
(***************************************************************************)
Half == SeqNoTH - 1

\* The number of the packet after k others; -1 is the one before the first.
NumOf(isn, k) == IF k = -1 THEN isn - 1 ELSE incseqBy(isn, k)

\* Numbers of packets are sequence numbers, and the first is Isn.
LEMMA NumberIsSeqNo ==
  ASSUME NEW isn \in SeqNo, NEW k \in 0..Half
  PROVE  NumOf(isn, k) \in SeqNo /\ NumOf(isn, 0) = isn
BY SeqNoAssumption DEF Half, SeqNo, NumOf, incseqBy

\* Numbers of packets are as far apart as the packets, or that and a round of the ring.
Apart(a, b, d) ==
  \/ a - b = d
  \/ b >= 0 /\ (a - b = d + (MaxSeqNo + 1) \/ a - b = d - (MaxSeqNo + 1))

\* The numbers of two packets are Apart.
LEMMA NumbersApart ==
  ASSUME NEW isn \in SeqNo, NEW i \in 0..Half, NEW j \in -1..Half
  PROVE  Apart(NumOf(isn, i), NumOf(isn, j), i - j) /\ NumOf(isn, j) \in -1..MaxSeqNo
<1> USE SeqNoAssumption DEF Half, SeqNo, NumOf, incseqBy, Apart
<1>1. CASE j = -1
  BY <1>1
<1>2. CASE j # -1
  BY <1>2
<1> QED BY <1>1, <1>2

\* seqcmp tells which of two numbers is later, also across the wrap.
LEMMA ComparingApart ==
  ASSUME NEW a \in SeqNo, NEW b \in -1..MaxSeqNo, NEW d \in (-SeqNoTH + 1)..(SeqNoTH - 1),
         Apart(a, b, d)
  PROVE  /\ seqcmp(a, b) > 0 <=> d > 0
         /\ seqcmp(a, b) < 0 <=> d < 0
         /\ seqcmp(a, b) \in Int
<1> USE SeqNoAssumption DEF SeqNo, Apart, seqcmp, Int32, Abs32
<1>1. CASE a - b = d
  BY <1>1
<1>2. CASE b >= 0 /\ a - b = d + (MaxSeqNo + 1)
  BY <1>2
<1>3. CASE b >= 0 /\ a - b = d - (MaxSeqNo + 1)
  BY <1>3
<1> QED BY <1>1, <1>2, <1>3

\* seqcmp orders packets as they are sent.
LEMMA ComparingNumbers ==
  ASSUME NEW isn \in SeqNo, NEW i \in 0..Half, NEW j \in -1..Half, i - j <= Half
  PROVE  /\ seqcmp(NumOf(isn, i), NumOf(isn, j)) > 0 <=> i > j
         /\ seqcmp(NumOf(isn, i), NumOf(isn, j)) < 0 <=> i < j
         /\ seqcmp(NumOf(isn, i), NumOf(isn, j)) \in Int
<1>1. i - j \in (-SeqNoTH + 1)..(SeqNoTH - 1) /\ i \in Int /\ j \in Int
  BY SeqNoAssumption DEF Half
<1>2. /\ seqcmp(NumOf(isn, i), NumOf(isn, j)) > 0 <=> i - j > 0
      /\ seqcmp(NumOf(isn, i), NumOf(isn, j)) < 0 <=> i - j < 0
      /\ seqcmp(NumOf(isn, i), NumOf(isn, j)) \in Int
  BY <1>1, NumbersApart, NumberIsSeqNo, ComparingApart, SMTT(30)
<1> QED BY <1>1, <1>2

\* The number before the first packet is older than any.
LEMMA FirstIsOldest ==
  ASSUME NEW isn \in SeqNo, NEW k \in -1..(Half - 1)
  PROVE  seqcmp(NumOf(isn, -1), NumOf(isn, k)) <= 0
<1> USE SeqNoAssumption DEF Half, SeqNo, NumOf, incseqBy, seqcmp, Int32, Abs32
<1>1. CASE k = -1
  BY <1>1
<1>2. CASE k # -1
  BY <1>2, SMTT(60)
<1> QED BY <1>1, <1>2

\* seqoff counts the packets between.
LEMMA OffsetOfNumbers ==
  ASSUME NEW isn \in SeqNo, NEW i \in 0..Half, NEW j \in -1..Half, i - j <= Half
  PROVE  seqoff(NumOf(isn, i), NumOf(isn, j)) = j - i
<1> USE SeqNoAssumption DEF Half, SeqNo, NumOf, incseqBy, seqoff, Int32, Abs32
<1>1. CASE j = -1
  BY <1>1
<1>2. CASE j # -1
  BY <1>2
<1> QED BY <1>1, <1>2

\* seqlen counts the packets, both ends included.
LEMMA LengthOfNumbers ==
  ASSUME NEW isn \in SeqNo, NEW i \in 0..Half, NEW j \in i..Half
  PROVE  seqlen(NumOf(isn, i), NumOf(isn, j)) = j - i + 1
BY SeqNoAssumption DEF Half, SeqNo, NumOf, incseqBy, seqlen, Int32

\* incseq is the next packet.
LEMMA NextNumber ==
  ASSUME NEW isn \in SeqNo, NEW k \in -1..(Half - 1)
  PROVE  incseq(NumOf(isn, k)) = NumOf(isn, k + 1)
BY SeqNoAssumption DEF Half, SeqNo, NumOf, incseqBy, incseq

\* decseq is the one before.
LEMMA PreviousNumber ==
  ASSUME NEW isn \in SeqNo, NEW k \in 1..Half
  PROVE  decseq(NumOf(isn, k)) = NumOf(isn, k - 1)
BY SeqNoAssumption DEF Half, SeqNo, NumOf, incseqBy, decseq

\* Packets less than half the ring apart do not share a number.
LEMMA NumbersDiffer ==
  ASSUME NEW isn \in SeqNo, NEW i \in -1..Half, NEW j \in -1..Half,
         NumOf(isn, i) = NumOf(isn, j)
  PROVE  i = j
BY SeqNoAssumption DEF Half, SeqNo, NumOf, incseqBy

\* incseqBy moves on by that many packets.
LEMMA AddToNumber ==
  ASSUME NEW isn \in SeqNo, NEW i \in 0..Half, NEW k \in 0..(Half - i)
  PROVE  incseqBy(NumOf(isn, i), k) = NumOf(isn, i + k)
BY SeqNoAssumption DEF Half, SeqNo, NumOf, incseqBy

\* The packets of K, by their numbers.
NumsOf(isn, K) == {NumOf(isn, k) : k \in K}

\* The numbers of a range of packets.
LEMMA SpanOfNumbers ==
  ASSUME NEW isn \in SeqNo, NEW i \in 0..Half, NEW j \in (i - 1)..Half, SeqNoTH > 1
  PROVE  {incseqBy(NumOf(isn, i), k) : k \in 0..seqoff(NumOf(isn, i), NumOf(isn, j))}
           = NumsOf(isn, i..j)
<1>0. Half \in Nat /\ i \in Nat /\ j \in -1..Half /\ i - j <= Half
  BY SeqNoAssumption DEF Half
<1>1. seqoff(NumOf(isn, i), NumOf(isn, j)) = j - i
  BY <1>0, OffsetOfNumbers
<1>3. ASSUME NEW k \in 0..(j - i)
      PROVE  incseqBy(NumOf(isn, i), k) = NumOf(isn, i + k) /\ i + k \in i..j
  <2>1. k \in 0..(Half - i) /\ i + k \in i..j
    BY <1>0
  <2> QED BY <2>1, AddToNumber
<1>4. ASSUME NEW m \in i..j
      PROVE  NumOf(isn, m) = incseqBy(NumOf(isn, i), m - i) /\ m - i \in 0..(j - i)
  <2>1. m - i \in 0..(Half - i) /\ m - i \in 0..(j - i) /\ i + (m - i) = m
    BY <1>0
  <2> QED BY <2>1, AddToNumber
<1> QED BY <1>1, <1>3, <1>4 DEF NumsOf

\* The oldest of some numbers is that of the packet sent first.
LEMMA OldestOfNumbers ==
  ASSUME NEW isn \in SeqNo, NEW K \in SUBSET (0..Half), K # {}
  PROVE  \E m \in K :
           /\ \A k \in K : m <= k
           /\ (CHOOSE s \in NumsOf(isn, K) : \A t \in NumsOf(isn, K) : seqcmp(s, t) <= 0)
                = NumOf(isn, m)
<1>0. Half \in Nat /\ K \subseteq Nat
  BY SeqNoAssumption DEF Half
<1>2. PICK m \in K : \A k \in K : m <= k
  BY <1>0, LeastNatural
<1>3. \A k \in K : seqcmp(NumOf(isn, m), NumOf(isn, k)) <= 0
  <2> SUFFICES ASSUME NEW k \in K PROVE seqcmp(NumOf(isn, m), NumOf(isn, k)) <= 0
    OBVIOUS
  <2>1. /\ m \in 0..Half /\ k \in -1..Half /\ m - k <= Half
        /\ m \in Int /\ k \in Int /\ ~(m > k)
    BY <1>0, <1>2
  <2> QED BY <2>1, ComparingNumbers
<1>4. ASSUME NEW s \in NumsOf(isn, K), \A t \in NumsOf(isn, K) : seqcmp(s, t) <= 0
      PROVE  s = NumOf(isn, m)
  <2>1. PICK j \in K : s = NumOf(isn, j)
    BY DEF NumsOf
  <2>2. seqcmp(s, NumOf(isn, m)) <= 0
    BY <1>4 DEF NumsOf
  <2>3. j <= m
    <3>1. /\ j \in 0..Half /\ m \in -1..Half /\ j - m <= Half
          /\ m \in Int /\ j \in Int
      BY <1>0
    <3> QED BY <2>1, <2>2, <3>1, ComparingNumbers
  <2> QED BY <1>2, <2>1, <2>3
<1>5. NumOf(isn, m) \in NumsOf(isn, K) /\ \A t \in NumsOf(isn, K) : seqcmp(NumOf(isn, m), t) <= 0
  BY <1>3 DEF NumsOf
<1>6. (CHOOSE s \in NumsOf(isn, K) : \A t \in NumsOf(isn, K) : seqcmp(s, t) <= 0)
        = NumOf(isn, m)
  BY <1>4, <1>5
<1> QED BY <1>2, <1>6

\* Taking out a number takes out its packet.
LEMMA NumbersWithout ==
  ASSUME NEW isn \in SeqNo, NEW A \in SUBSET (0..Half), NEW k \in 0..Half
  PROVE  NumsOf(isn, A) \ {NumOf(isn, k)} = NumsOf(isn, A \ {k})
<1>1. \A a \in A : NumOf(isn, a) = NumOf(isn, k) => a = k
  <2>1. \A a \in A : a \in -1..Half
    BY SeqNoAssumption DEF Half
  <2>2. k \in -1..Half
    BY SeqNoAssumption DEF Half
  <2> QED BY <2>1, <2>2, NumbersDiffer
<1> QED BY <1>1 DEF NumsOf

-----------------------------------------------------------------------------
(***************************************************************************)
(* Sequences                                                               *)
(***************************************************************************)
\* Sequences in which nothing comes twice.
Once(s) == \A i \in 1..Len(s) : \A j \in 1..Len(s) : s[i] = s[j] => i = j

\* The sequence without its p-th element.
Without(s, p) == [i \in 1..(Len(s) - 1) |-> IF i < p THEN s[i] ELSE s[i + 1]]

\* What is appended comes last, and all else stays.
LEMMA AppendIs ==
  ASSUME NEW S, NEW s \in Seq(S), NEW e \in S
  PROVE  /\ Append(s, e) \in Seq(S) /\ Len(Append(s, e)) = Len(s) + 1
         /\ \A i \in 1..Len(s) : Append(s, e)[i] = s[i]
         /\ Append(s, e)[Len(s) + 1] = e
         /\ \A v : Contains(Append(s, e), v) <=> Contains(s, v) \/ v = e
         /\ Once(s) /\ ~Contains(s, e) => Once(Append(s, e))
<1> DEFINE t == Append(s, e)
<1>1. t \in Seq(S) /\ Len(t) = Len(s) + 1 /\ Len(s) \in Nat
  OBVIOUS
<1>2. (\A i \in 1..Len(s) : t[i] = s[i]) /\ t[Len(s) + 1] = e
  OBVIOUS
<1> HIDE DEF t
<1>3. ASSUME NEW i \in 1..Len(t) PROVE (i \in 1..Len(s) /\ t[i] = s[i]) \/ (i = Len(s) + 1 /\ t[i] = e)
  BY <1>1, <1>2
<1>4. ASSUME NEW v PROVE Contains(t, v) <=> Contains(s, v) \/ v = e
  <2>1. ASSUME NEW i \in 1..Len(t), t[i] = v PROVE Contains(s, v) \/ v = e
    BY <1>3, <2>1 DEF Contains
  <2>2. ASSUME NEW i \in 1..Len(s), s[i] = v PROVE Contains(t, v)
    <3>1. i \in 1..Len(t)
      BY <1>1
    <3> QED BY <1>2, <2>2, <3>1 DEF Contains
  <2>3. Contains(t, e)
    <3>1. Len(s) + 1 \in 1..Len(t)
      BY <1>1
    <3> QED BY <1>2, <3>1 DEF Contains
  <2> QED BY <2>1, <2>2, <2>3 DEF Contains
<1>5. ASSUME Once(s), ~Contains(s, e) PROVE Once(t)
  <2> SUFFICES ASSUME NEW i \in 1..Len(t), NEW j \in 1..Len(t), t[i] = t[j] PROVE i = j
    BY DEF Once
  <2> QED BY <1>3, <1>5 DEF Once, Contains
<1> QED BY <1>1, <1>2, <1>4, <1>5 DEF t

\* What is left of a sequence in which nothing comes twice.
LEMMA WithoutIs ==
  ASSUME NEW S, NEW s \in Seq(S), NEW p \in 1..Len(s), Once(s)
  PROVE  /\ Without(s, p) \in Seq(S) /\ Len(Without(s, p)) = Len(s) - 1
         /\ \A i \in 1..(Len(s) - 1) : Without(s, p)[i] = IF i < p THEN s[i] ELSE s[i + 1]
         /\ \A v : Contains(Without(s, p), v) <=> Contains(s, v) /\ v # s[p]
         /\ Once(Without(s, p))
<1> DEFINE n == Len(s)
           t == Without(s, p)
<1>0. n \in Nat /\ n >= 1 /\ p \in 1..n
  OBVIOUS
<1>1. ASSUME NEW i \in 1..(n - 1) PROVE t[i] = IF i < p THEN s[i] ELSE s[i + 1]
  BY DEF Without
<1>2. ASSUME NEW i \in 1..(n - 1)
      PROVE  \E j \in 1..n : j # p /\ t[i] = s[j] /\ j = IF i < p THEN i ELSE i + 1
  <2>1. CASE i < p
    BY <1>0, <1>1, <2>1
  <2>2. CASE ~(i < p)
    <3>1. i + 1 \in 1..n /\ i + 1 # p
      BY <1>0, <2>2
    <3> QED BY <1>1, <2>2, <3>1
  <2> QED BY <2>1, <2>2
<1>3. t \in Seq(S) /\ Len(t) = n - 1
  <2>1. \A j \in 1..n : s[j] \in S
    OBVIOUS
  <2>2. t \in [1..(n - 1) -> S]
    BY <1>2, <2>1 DEF Without
  <2>3. n - 1 \in Nat
    BY <1>0
  <2> QED BY <2>2, <2>3
<1> HIDE DEF n, t
<1>4. ASSUME NEW v PROVE Contains(t, v) <=> Contains(s, v) /\ v # s[p]
  <2>1. ASSUME NEW i \in 1..(n - 1), t[i] = v PROVE Contains(s, v) /\ v # s[p]
    <3>1. PICK j \in 1..n : j # p /\ t[i] = s[j]
      BY <1>2
    <3>2. s[j] # s[p]
      BY <1>0, <3>1 DEF Once, n
    <3> QED BY <2>1, <3>1, <3>2 DEF Contains, n
  <2>2. ASSUME NEW j \in 1..n, s[j] = v, j # p PROVE \E i \in 1..(n - 1) : t[i] = v
    <3>1. CASE j < p
      <4>1. j \in 1..(n - 1)
        BY <1>0, <3>1
      <4> QED BY <1>1, <2>2, <3>1, <4>1
    <3>2. CASE ~(j < p)
      <4>1. j - 1 \in 1..(n - 1) /\ ~(j - 1 < p) /\ j - 1 + 1 = j
        BY <1>0, <2>2, <3>2
      <4> QED BY <1>1, <2>2, <4>1
    <3> QED BY <3>1, <3>2
  <2> QED BY <1>3, <2>1, <2>2 DEF Contains, n
<1>5. Once(t)
  <2> SUFFICES ASSUME NEW i \in 1..(n - 1), NEW j \in 1..(n - 1), t[i] = t[j] PROVE i = j
    BY <1>3 DEF Once
  <2>1. PICK k \in 1..n : t[i] = s[k] /\ k = IF i < p THEN i ELSE i + 1
    BY <1>2
  <2>2. PICK l \in 1..n : t[j] = s[l] /\ l = IF j < p THEN j ELSE j + 1
    BY <1>2
  <2>3. k = l
    BY <2>1, <2>2 DEF Once, n
  <2> QED BY <1>0, <2>1, <2>2, <2>3
<1> QED BY <1>1, <1>3, <1>4, <1>5 DEF n, t

\* RemoveFirst takes one element out, if it is there.
LEMMA RemoveFirstIs ==
  ASSUME NEW S, NEW s \in Seq(S), Once(s), NEW e
  PROVE  /\ RemoveFirst(s, e) \in Seq(S) /\ Once(RemoveFirst(s, e))
         /\ \A v : Contains(RemoveFirst(s, e), v) <=> Contains(s, v) /\ v # e
         /\ Contains(s, e) => \E p \in 1..Len(s) : RemoveFirst(s, e) = Without(s, p)
<1>1. CASE ~\E i \in 1..Len(s) : s[i] = e
  BY <1>1 DEF RemoveFirst, Contains
<1>2. CASE \E i \in 1..Len(s) : s[i] = e
  <2>1. PICK p \in 1..Len(s) : s[p] = e
    BY <1>2
  <2>2. {i \in 1..Len(s) : s[i] = e} = {p}
    BY <2>1 DEF Once
  <2>3. SelectInSeq(s, LAMBDA v : v = e) = p
    BY <2>2 DEF SelectInSeq, Min
  <2>4. RemoveFirst(s, e) = SubSeq(s, 1, p - 1) \o SubSeq(s, p + 1, Len(s))
    BY <1>2, <2>3 DEF RemoveFirst, RemoveAt
  <2>5. PICK n \in Nat : n = Len(s) /\ p \in 1..n
    OBVIOUS
  <2>6. \A i \in 1..n : s[i] \in S
    BY <2>5
  <2>7. PICK a \in Seq(S) : a = SubSeq(s, 1, p - 1) /\ Len(a) = p - 1 /\ \A i \in 1..(p - 1) : a[i] = s[i]
    <3>1. \A i \in 1..(p - 1) : s[i] \in S
      BY <2>5, <2>6
    <3>2. /\ SubSeq(s, 1, p - 1) \in Seq(S)
          /\ Len(SubSeq(s, 1, p - 1)) = IF 1 <= p - 1 THEN p - 1 - 1 + 1 ELSE 0
          /\ \A i \in 1..(p - 1 - 1 + 1) : SubSeq(s, 1, p - 1)[i] = s[1 + i - 1]
      BY <3>1, SubSeqProperties
    <3>3. \A i \in 1..(p - 1) : SubSeq(s, 1, p - 1)[i] = s[i]
      <4> SUFFICES ASSUME NEW i \in 1..(p - 1) PROVE SubSeq(s, 1, p - 1)[i] = s[i]
        OBVIOUS
      <4>1. i \in 1..(p - 1 - 1 + 1) /\ 1 + i - 1 = i
        BY <2>5
      <4> QED BY <3>2, <4>1
    <3>4. Len(SubSeq(s, 1, p - 1)) = p - 1
      BY <2>5, <3>2
    <3> QED BY <3>2, <3>3, <3>4
  <2>8. PICK b \in Seq(S) : b = SubSeq(s, p + 1, n) /\ Len(b) = n - p /\ \A i \in 1..(n - p) : b[i] = s[p + i]
    <3>1. \A i \in (p + 1)..n : s[i] \in S
      BY <2>5, <2>6
    <3>2. /\ SubSeq(s, p + 1, n) \in Seq(S)
          /\ Len(SubSeq(s, p + 1, n)) = IF p + 1 <= n THEN n - (p + 1) + 1 ELSE 0
          /\ \A i \in 1..(n - (p + 1) + 1) : SubSeq(s, p + 1, n)[i] = s[p + 1 + i - 1]
      BY <3>1, SubSeqProperties
    <3>3. \A i \in 1..(n - p) : SubSeq(s, p + 1, n)[i] = s[p + i]
      <4> SUFFICES ASSUME NEW i \in 1..(n - p) PROVE SubSeq(s, p + 1, n)[i] = s[p + i]
        OBVIOUS
      <4>1. i \in 1..(n - (p + 1) + 1) /\ p + 1 + i - 1 = p + i
        BY <2>5
      <4> QED BY <3>2, <4>1
    <3>4. Len(SubSeq(s, p + 1, n)) = n - p
      BY <2>5, <3>2
    <3> QED BY <3>2, <3>3, <3>4
  <2>9. RemoveFirst(s, e) = a \o b
    BY <2>4, <2>5, <2>7, <2>8
  <2>10. /\ a \o b \in Seq(S) /\ Len(a \o b) = Len(a) + Len(b)
         /\ \A i \in 1..(Len(a) + Len(b)) : (a \o b)[i] = IF i <= Len(a) THEN a[i] ELSE b[i - Len(a)]
    BY ConcatProperties
  <2>11. Without(s, p) = a \o b
    <3>1. Without(s, p) \in Seq(S) /\ Len(Without(s, p)) = n - 1
          /\ \A i \in 1..(n - 1) : Without(s, p)[i] = IF i < p THEN s[i] ELSE s[i + 1]
      BY <2>5, WithoutIs
    <3>2. Len(a) + Len(b) = n - 1
      <4>1. Len(a) = p - 1 /\ Len(b) = n - p
        BY <2>7, <2>8
      <4>2. p - 1 + (n - p) = n - 1
        BY <2>5
      <4> QED BY <4>1, <4>2
    <3>3. ASSUME NEW i \in 1..(n - 1) PROVE Without(s, p)[i] = (a \o b)[i]
      <4>0. (a \o b)[i] = IF i <= Len(a) THEN a[i] ELSE b[i - Len(a)]
        BY <2>10, <3>2
      <4>1. CASE i < p
        <5>1. i <= Len(a) /\ i \in 1..(p - 1)
          BY <2>5, <2>7, <4>1
        <5> QED BY <2>7, <3>1, <4>0, <4>1, <5>1
      <4>2. CASE ~(i < p)
        <5>1. ~(i <= Len(a)) /\ i - Len(a) \in 1..(n - p) /\ p + (i - Len(a)) = i + 1
          BY <2>5, <2>7, <4>2
        <5> QED BY <2>8, <3>1, <4>0, <4>2, <5>1
      <4> QED BY <4>1, <4>2
    <3>4. Len(a \o b) = n - 1
      BY <2>10, <3>2
    <3> QED BY <2>10, <3>1, <3>3, <3>4, SeqEqual
  <2>12. RemoveFirst(s, e) = Without(s, p)
    BY <2>9, <2>11
  <2>13. /\ Without(s, p) \in Seq(S) /\ Once(Without(s, p))
         /\ \A v : Contains(Without(s, p), v) <=> Contains(s, v) /\ v # e
    BY <2>1, WithoutIs
  <2> QED BY <2>12, <2>13
<1> QED BY <1>1, <1>2

\* What is put in front comes first, and all else moves by one.
LEMMA PrependIs ==
  ASSUME NEW S, NEW s \in Seq(S), NEW e \in S
  PROVE  /\ <<e>> \o s \in Seq(S) /\ Len(<<e>> \o s) = Len(s) + 1
         /\ (<<e>> \o s)[1] = e /\ \A i \in 1..Len(s) : (<<e>> \o s)[i + 1] = s[i]
         /\ \A v : Contains(<<e>> \o s, v) <=> Contains(s, v) \/ v = e
         /\ Once(s) /\ ~Contains(s, e) => Once(<<e>> \o s)
<1>1. PICK t : t = <<e>> \o s
  OBVIOUS
<1>2. PICK n \in Nat : n = Len(s)
  OBVIOUS
<1>3. t \in Seq(S) /\ Len(t) = n + 1 /\ t[1] = e /\ \A i \in 1..n : t[i + 1] = s[i]
  BY <1>1, <1>2
<1>4. ASSUME NEW i \in 1..(n + 1) PROVE (i = 1 /\ t[i] = e) \/ (i # 1 /\ i - 1 \in 1..n /\ t[i] = s[i - 1])
  <2>1. CASE i = 1
    BY <1>3, <2>1
  <2>2. CASE i # 1
    <3>1. i - 1 \in 1..n /\ i - 1 + 1 = i
      BY <2>2
    <3> QED BY <1>3, <2>2, <3>1
  <2> QED BY <2>1, <2>2
<1>5. ASSUME Once(s), ~Contains(s, e) PROVE Once(t)
  <2> SUFFICES ASSUME NEW i \in 1..(n + 1), NEW j \in 1..(n + 1), t[i] = t[j] PROVE i = j
    BY <1>3 DEF Once
  <2>1. CASE i = 1 /\ j = 1
    BY <2>1
  <2>2. CASE i = 1 /\ j # 1
    BY <1>2, <1>4, <1>5, <2>2 DEF Contains
  <2>3. CASE i # 1 /\ j = 1
    BY <1>2, <1>4, <1>5, <2>3 DEF Contains
  <2>4. CASE i # 1 /\ j # 1
    <3>1. i - 1 \in 1..n /\ j - 1 \in 1..n /\ s[i - 1] = s[j - 1]
      BY <1>4, <2>4
    <3>2. i - 1 = j - 1
      BY <1>2, <1>5, <3>1 DEF Once
    <3> QED BY <3>2
  <2> QED BY <2>1, <2>2, <2>3, <2>4
<1>6. ASSUME NEW v PROVE Contains(t, v) <=> Contains(s, v) \/ v = e
  <2>1. Contains(t, v) => Contains(s, v) \/ v = e
    BY <1>2, <1>3, <1>4 DEF Contains
  <2>2. Contains(t, e)
    <3>1. 1 \in 1..(n + 1)
      OBVIOUS
    <3> QED BY <1>3, <3>1 DEF Contains
  <2>3. ASSUME NEW i \in 1..n, s[i] = v PROVE Contains(t, v)
    <3>1. i + 1 \in 1..(n + 1)
      OBVIOUS
    <3> QED BY <1>3, <2>3, <3>1 DEF Contains
  <2> QED BY <1>2, <2>1, <2>2, <2>3 DEF Contains
<1> QED BY <1>1, <1>2, <1>3, <1>5, <1>6

\* Front is the sequence without its last element.
LEMMA FrontIs ==
  ASSUME NEW S, NEW s \in Seq(S), Len(s) # 0, Once(s) PROVE Front(s) = Without(s, Len(s)) /\ Last(s) = s[Len(s)]
<1>1. PICK n \in Nat : n = Len(s) /\ n >= 1
  OBVIOUS
<1>2. \A i \in 1..(n - 1) : s[i] \in S
  BY <1>1
<1>3. /\ SubSeq(s, 1, n - 1) \in Seq(S) /\ Len(SubSeq(s, 1, n - 1)) = IF 1 <= n - 1 THEN n - 1 - 1 + 1 ELSE 0
      /\ \A i \in 1..(n - 1 - 1 + 1) : SubSeq(s, 1, n - 1)[i] = s[1 + i - 1]
  BY <1>1, <1>2, SubSeqProperties
<1>4. PICK a \in Seq(S) : a = SubSeq(s, 1, n - 1) /\ Len(a) = n - 1 /\ \A i \in 1..(n - 1) : a[i] = s[i]
  <2>1. Len(SubSeq(s, 1, n - 1)) = n - 1
    BY <1>1, <1>3
  <2>2. ASSUME NEW i \in 1..(n - 1) PROVE SubSeq(s, 1, n - 1)[i] = s[i]
    <3>1. i \in 1..(n - 1 - 1 + 1) /\ 1 + i - 1 = i
      BY <1>1
    <3> QED BY <1>3, <3>1
  <2> QED BY <1>3, <2>1, <2>2
<1>5. n \in 1..Len(s)
  BY <1>1
<1>6. /\ Without(s, n) \in Seq(S) /\ Len(Without(s, n)) = n - 1
      /\ \A i \in 1..(n - 1) : Without(s, n)[i] = IF i < n THEN s[i] ELSE s[i + 1]
  <2>1. PICK m \in 1..Len(s) : m = n
    BY <1>5
  <2>2. /\ Without(s, m) \in Seq(S) /\ Len(Without(s, m)) = Len(s) - 1
        /\ \A i \in 1..(Len(s) - 1) : Without(s, m)[i] = IF i < m THEN s[i] ELSE s[i + 1]
    BY WithoutIs
  <2> QED BY <1>1, <2>1, <2>2
<1>7. \A i \in 1..(n - 1) : Without(s, n)[i] = a[i]
  BY <1>1, <1>4, <1>6
<1>8. Without(s, n) = a
  BY <1>4, <1>6, <1>7, SeqEqual
<1> QED BY <1>1, <1>4, <1>8 DEF Front, Last
=============================================================================
