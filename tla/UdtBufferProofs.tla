--------------------------- MODULE UdtBufferProofs --------------------------
(***************************************************************************)
(* The parts that hold packets and packet numbers, for every value of      *)
(* their constants: the window of numbers, the ring of acknowledgements,   *)
(* the two buffers and the units.                                          *)
(*                                                                         *)
(* Each invariant says where on its ring each thing is that the part has   *)
(* to keep; the properties follow.                                         *)
(***************************************************************************)
EXTENDS UdtSeqWindow, UdtAckWindow, UdtSndBuffer, UdtRcvBuffer, UdtUnits, UdtLemmas

-----------------------------------------------------------------------------
(***************************************************************************)
(* UdtSeqWindow                                                            *)
(***************************************************************************)
\* The invariant: last lies gap places after first on the ring.
IInv == TypeOK /\ Lapped(first, last, gap)

\* Steps of one and of many keep it.
LEMMA InductiveInvariant == Spec => []IInv
<1>1. Init => IInv
  BY SeqNoAssumption DEF Init, IInv, TypeOK, Lapped, SeqNo
<1>2. IInv /\ [Next]_vars => IInv'
  <2> SUFFICES ASSUME IInv, [Next]_vars PROVE IInv'
    OBVIOUS
  <2> USE DEF IInv, TypeOK
  <2>1. CASE Grow
    <3>1. incseq(last) \in SeqNo /\ Lapped(last, incseq(last), 1)
      BY StepOnRing
    <3> QED BY <2>1, <3>1, SeqNoAssumption DEF Grow, Lapped, SeqNo
  <2>2. CASE Retire
    <3>1. incseq(first) \in SeqNo /\ Lapped(first, incseq(first), 1)
      BY StepOnRing
    <3> QED BY <2>2, <3>1, SeqNoAssumption DEF Retire, Lapped, SeqNo
  <2>3. CASE Back
    <3>1. decseq(last) \in SeqNo /\ Lapped(decseq(last), last, 1)
      BY StepOnRing
    <3> QED BY <2>3, <3>1, SeqNoAssumption DEF Back, Lapped, SeqNo
  <2>4. ASSUME NEW n \in 1..(SeqNoTH - 1), GrowBy(n) PROVE IInv'
    <3>1. incseqBy(last, n) \in SeqNo /\ Lapped(last, incseqBy(last, n), n)
      BY LeapOnRing, SeqNoAssumption
    <3> QED BY <2>4, <3>1, SeqNoAssumption DEF GrowBy, Lapped, SeqNo
  <2>5. CASE UNCHANGED vars
    BY <2>5 DEF vars, Lapped
  <2> QED BY <2>1, <2>2, <2>3, <2>4, <2>5 DEF Next
<1> QED BY <1>1, <1>2, PTL DEF Spec

\* The ends of the window stay packet numbers: incseq and decseq, which the sender
\* and the receiver step with, never leave the ring.
THEOREM WindowTypeCorrect == Spec => []TypeOK
<1>1. IInv => TypeOK
  BY DEF IInv
<1> QED BY <1>1, InductiveInvariant, PTL

\* seqoff is the distance, on a ring of any size: the indexes that list.cpp and
\* buffer.cpp compute with it are those of the packets meant.
THEOREM OffsetsAreDistances == Spec => []OffsetIsDistance
<1>1. IInv => OffsetIsDistance
  BY OffsetOnRing DEF IInv, TypeOK, OffsetIsDistance
<1> QED BY <1>1, InductiveInvariant, PTL

\* seqcmp orders the packets of a window of up to SeqNoTH packets.
THEOREM ComparisonsAreByAge == Spec => []ComparesByAge
<1>1. IInv => ComparesByAge
  BY CompareOnRing DEF IInv, TypeOK, ComparesByAge
<1> QED BY <1>1, InductiveInvariant, PTL

\* seqlen counts the packets of a window: the flow window test of packData is right
\* across the wrap.
THEOREM LengthsAreCounts == Spec => []LengthIsCount
<1>1. IInv => LengthIsCount
  BY LengthOnRing DEF IInv, TypeOK, LengthIsCount
<1> QED BY <1>1, InductiveInvariant, PTL

\* All four at once: what the other modules take from CSeqNo.
THEOREM WindowsAreRight == Spec => []WindowIsRight
<1>1. TypeOK /\ OffsetIsDistance /\ ComparesByAge /\ LengthIsCount => WindowIsRight
  BY DEF WindowIsRight
<1> QED
  BY <1>1, WindowTypeCorrect, OffsetsAreDistances, ComparisonsAreByAge, LengthsAreCounts, PTL

-----------------------------------------------------------------------------
(***************************************************************************)
(* UdtAckWindow                                                            *)
(***************************************************************************)
\* The invariant: the ring holds the last n acknowledgements that were sent, from ackTail on.
AckWindowTypeOK ==
  /\ ackSeqNo \in [0..(RingSize - 1) -> Int] /\ ackOf \in [0..(RingSize - 1) -> Int]
  /\ ackHead \in 0..(RingSize - 1) /\ ackTail \in 0..(RingSize - 1)
  /\ ackSent \in Nat /\ carried \in Seq(Int) /\ Len(carried) = ackSent
  /\ ackPending \in Seq(Int)

\* The i-th position from ackTail, and the position after k of them.
Place(k) == IF ackTail + k < RingSize THEN ackTail + k ELSE ackTail + k - RingSize

RingHoldsTheLast(n) ==
  /\ n \in 0..(RingSize - 1) /\ n <= ackSent /\ ackHead = Place(n)
  /\ \A i \in 1..n : /\ ackSeqNo[Place(i - 1)] = ackSent - n + i
                     /\ ackOf[Place(i - 1)] = carried[ackSent - n + i]
  /\ Len(ackPending) = n /\ \A i \in 1..n : ackPending[i] = ackSent - n + i

AckWindowInv == AckWindowTypeOK /\ Ack2FindsItsAck /\ \E n \in Nat : RingHoldsTheLast(n)

\* Positions of the ring are remainders.
LEMMA PlaceIsFolded ==
  ASSUME AckWindowTypeOK, NEW k \in 0..RingSize
  PROVE  Place(k) = (ackTail + k) % RingSize /\ Place(k) \in 0..(RingSize - 1)
<1>1. RingSize \in Nat \ {0} /\ ackTail \in 0..(RingSize - 1)
  BY AckWindowAssumption DEF AckWindowTypeOK
<1>2. PICK x \in Nat : x = ackTail + k
  BY <1>1
<1>3. x < RingSize + RingSize
  BY <1>1, <1>2
<1>4. x % RingSize = IF x < RingSize THEN x ELSE x - RingSize
  BY <1>1, <1>3, Folded
<1> QED BY <1>1, <1>2, <1>3, <1>4 DEF Place

\* The invariant implies the property.
LEMMA AckWindowImplies ==
  ASSUME AckWindowInv PROVE AckWindowIsRight
<1> PICK n \in Nat : RingHoldsTheLast(n)
  BY DEF AckWindowInv
<1>0. AckWindowTypeOK /\ RingSize \in Nat \ {0, 1} /\ n \in 0..(RingSize - 1)
  BY AckWindowAssumption DEF AckWindowInv, RingHoldsTheLast
<1>1. (ackHead - ackTail + RingSize) % RingSize = n
  <2>1. ackHead \in Int /\ ackTail \in 0..(RingSize - 1)
        /\ ackHead = IF ackTail + n < RingSize THEN ackTail + n ELSE ackTail + n - RingSize
    BY <1>0 DEF RingHoldsTheLast, Place, AckWindowTypeOK
  <2>2. PICK x \in Nat : x = ackHead - ackTail + RingSize /\ x \in {n, n + RingSize}
    BY <1>0, <2>1
  <2>3. x % RingSize = IF x < RingSize THEN x ELSE x - RingSize
    BY <1>0, <2>2, Folded
  <2> QED BY <1>0, <2>2, <2>3
<1>2. ASSUME NEW i \in 1..n PROVE ackPending[i] = ackSeqNo[(ackTail + i - 1) % RingSize]
  <2>1. i - 1 \in 0..RingSize /\ ackTail + (i - 1) = ackTail + i - 1
    BY <1>0 DEF AckWindowTypeOK
  <2>2. Place(i - 1) = (ackTail + (i - 1)) % RingSize
    BY <1>0, <2>1, PlaceIsFolded
  <2>3. ackPending[i] = ackSeqNo[Place(i - 1)]
    BY DEF RingHoldsTheLast
  <2> QED BY <2>1, <2>2, <2>3
<1>3. ackPending = [i \in 1..n |-> ackSeqNo[(ackTail + i - 1) % RingSize]]
  <2>1. ackPending \in [1..n -> Int]
    BY <1>0 DEF AckWindowTypeOK, RingHoldsTheLast
  <2> QED BY <1>2, <2>1, Zenon
<1> QED BY <1>1, <1>3 DEF AckWindowIsRight, RingIsQueue, AckWindowInv

\* The ring is empty at first.
LEMMA AckWindowStarts == AckWindowInit => AckWindowInv
<1> SUFFICES ASSUME AckWindowInit PROVE AckWindowInv
  OBVIOUS
<1> USE AckWindowAssumption DEF AckWindowInit
<1>1. AckWindowTypeOK
  BY DEF AckWindowTypeOK
<1>2. RingHoldsTheLast(0)
  BY DEF RingHoldsTheLast, Place
<1> QED BY <1>1, <1>2 DEF AckWindowInv, Ack2FindsItsAck

\* An ACK is stored, and on a full ring the oldest goes.
LEMMA StoreAckKeeps ==
  ASSUME AckWindowInv, NEW ack \in Int, StoreAck(ack) PROVE AckWindowInv'
<1> PICK n \in Nat : RingHoldsTheLast(n)
  BY DEF AckWindowInv
<1>0. AckWindowTypeOK /\ RingSize \in Nat \ {0, 1} /\ n \in 0..(RingSize - 1) /\ n <= ackSent /\ ackHead = Place(n)
  BY AckWindowAssumption DEF AckWindowInv, RingHoldsTheLast
<1>1. /\ ackSent' = ackSent + 1
      /\ ackSeqNo' = [ackSeqNo EXCEPT ![ackHead] = ackSent + 1] /\ ackOf' = [ackOf EXCEPT ![ackHead] = ack]
      /\ carried' = Append(carried, ack) /\ ackHead \in 0..(RingSize - 1) /\ ackTail \in 0..(RingSize - 1)
      /\ ackSent \in Nat /\ carried \in Seq(Int) /\ Len(carried) = ackSent
  BY <1>0 DEF AckWindowTypeOK, StoreAck
<1>a. /\ ackHead' = (ackHead + 1) % RingSize
      /\ ackTail' = IF ackHead' = ackTail THEN (ackTail + 1) % RingSize ELSE ackTail
      /\ answered' = answered
  BY DEF StoreAck
<1>c. ackSent \in Nat
  BY <1>1
<1>b. ackPending' = LastOf(Append(ackPending, ackSent + 1), RingSize - 1)
  BY <1>1 DEF StoreAck
<1>2. ackHead' = IF ackHead + 1 < RingSize THEN ackHead + 1 ELSE 0
  <2>1. PICK x \in Nat : x = ackHead + 1 /\ x < RingSize + RingSize /\ x <= RingSize
    BY <1>0, <1>1
  <2>2. x % RingSize = IF x < RingSize THEN x ELSE x - RingSize
    BY <1>0, <2>1, Folded
  <2>3. x - RingSize = 0 \/ x < RingSize
    BY <1>0, <2>1
  <2> QED BY <1>a, <2>1, <2>2, <2>3
<1>3. ackTail' = IF ackHead' # ackTail THEN ackTail ELSE IF ackTail + 1 < RingSize THEN ackTail + 1 ELSE 0
  <2>1. PICK x \in Nat : x = ackTail + 1 /\ x < RingSize + RingSize /\ x <= RingSize
    BY <1>0, <1>1
  <2>2. x % RingSize = IF x < RingSize THEN x ELSE x - RingSize
    BY <1>0, <2>1, Folded
  <2>3. x - RingSize = 0 \/ x < RingSize
    BY <1>0, <2>1
  <2> QED BY <1>a, <2>1, <2>2, <2>3
<1>4. ackHead' = ackTail <=> n = RingSize - 1
  BY <1>0, <1>1, <1>2 DEF Place
<1>5. carried' \in Seq(Int) /\ Len(carried') = ackSent + 1 /\ carried'[ackSent + 1] = ack
      /\ \A k \in 1..ackSent : carried'[k] = carried[k]
  BY <1>1
<1>6. PICK p \in Seq(Int) : p = Append(ackPending, ackSent + 1) /\ Len(p) = n + 1
                            /\ \A i \in 1..(n + 1) : p[i] = ackSent - n + i
  <2>1. ackPending \in Seq(Int) /\ Len(ackPending) = n /\ \A i \in 1..n : ackPending[i] = ackSent - n + i
    BY <1>0 DEF AckWindowTypeOK, RingHoldsTheLast
  <2>2. Append(ackPending, ackSent + 1) \in Seq(Int) /\ Len(Append(ackPending, ackSent + 1)) = n + 1
    BY <1>1, <2>1
  <2>3. ASSUME NEW i \in 1..(n + 1) PROVE Append(ackPending, ackSent + 1)[i] = ackSent - n + i
    <3>1. CASE i = n + 1
      BY <1>1, <2>1, <3>1
    <3>2. CASE i \in 1..n
      BY <1>1, <2>1, <3>2
    <3>3. i = n + 1 \/ i \in 1..n
      OBVIOUS
    <3> QED BY ONLY <3>1, <3>2, <3>3, Zenon
  <2> QED BY <2>2, <2>3
<1>7. ackPending' = LastOf(p, RingSize - 1)
  BY <1>b, <1>6
<1>8. ackHead' \in 0..(RingSize - 1) /\ ackTail' \in 0..(RingSize - 1)
  BY <1>0, <1>1, <1>2, <1>3
<1>9. ASSUME NEW i \in 1..n
      PROVE  /\ ackSeqNo'[Place(i - 1)] = ackSent - n + i
             /\ ackOf'[Place(i - 1)] = carried'[ackSent - n + i]
  <2>1. Place(i - 1) \in 0..(RingSize - 1) /\ Place(i - 1) # ackHead
    BY <1>0, <1>1 DEF Place
  <2>2. ackSeqNo'[Place(i - 1)] = ackSeqNo[Place(i - 1)] /\ ackOf'[Place(i - 1)] = ackOf[Place(i - 1)]
    BY <1>0, <1>1, <2>1 DEF AckWindowTypeOK
  <2>3. ackSent - n + i \in 1..ackSent
    BY <1>0, <1>1
  <2> QED BY <1>5, <2>2, <2>3 DEF RingHoldsTheLast
<1>10. ackSeqNo'[ackHead] = ackSent + 1 /\ ackOf'[ackHead] = carried'[ackSent + 1]
  BY <1>0, <1>1, <1>5 DEF AckWindowTypeOK
<1>11. ackSeqNo' \in [0..(RingSize - 1) -> Int] /\ ackOf' \in [0..(RingSize - 1) -> Int]
  <2>1. ackSeqNo \in [0..(RingSize - 1) -> Int] /\ ackOf \in [0..(RingSize - 1) -> Int]
    BY <1>0, Zenon DEF AckWindowTypeOK
  <2>2. ackSent + 1 \in Int
    <3>1. ackSent \in Nat
      BY <1>0, Zenon DEF AckWindowTypeOK
    <3> QED BY ONLY <3>1
  <2> QED BY <1>1, <2>1, <2>2
<1>12. CASE n = RingSize - 1
  <2>1. ackPending' = SubSeq(p, 2, n + 1)
    <3>1. Len(p) > RingSize - 1 /\ Len(p) - (RingSize - 1) + 1 = 2 /\ Len(p) = n + 1
      BY <1>0, <1>6, <1>12
    <3> QED BY <1>7, <3>1 DEF LastOf
  <2>2. ackPending' \in Seq(Int) /\ Len(ackPending') = n /\ \A i \in 1..n : ackPending'[i] = ackSent + 1 - n + i
    <3>1. \A i \in 2..(n + 1) : p[i] \in Int
      BY <1>1, <1>6
    <3>2. /\ SubSeq(p, 2, n + 1) \in Seq(Int)
          /\ Len(SubSeq(p, 2, n + 1)) = IF 2 <= n + 1 THEN n + 1 - 2 + 1 ELSE 0
          /\ \A i \in 1..(n + 1 - 2 + 1) : SubSeq(p, 2, n + 1)[i] = p[2 + i - 1]
      BY <3>1, SubSeqProperties
    <3>3. Len(ackPending') = n
      BY <1>0, <1>12, <2>1, <3>2
    <3>4. ASSUME NEW i \in 1..n PROVE ackPending'[i] = ackSent + 1 - n + i
      <4>1. i \in 1..(n + 1 - 2 + 1) /\ 2 + i - 1 = i + 1 /\ i + 1 \in 1..(n + 1)
        BY <1>0
      <4>2. ackPending'[i] = p[i + 1]
        BY <2>1, <3>2, <4>1
      <4>3. p[i + 1] = ackSent - n + (i + 1)
        BY <1>6, <4>1
      <4>4. ackSent - n + (i + 1) = ackSent + 1 - n + i
        BY <1>1
      <4> QED BY <4>2, <4>3, <4>4
    <3> QED BY <2>1, <3>2, <3>3, <3>4
  <2>3. ASSUME NEW i \in 1..n
        PROVE  /\ ackSeqNo'[Place(i - 1)'] = ackSent + 1 - n + i
               /\ ackOf'[Place(i - 1)'] = carried'[ackSent + 1 - n + i]
    <3>1. Place(i - 1)' = Place(i)
      BY <1>0, <1>1, <1>3, <1>4, <1>12 DEF Place
    <3>2. CASE i = n
      <4>1. ackSent + 1 - n + i = ackSent + 1 /\ Place(i) = ackHead
        BY <1>0, <1>1, <3>2
      <4> QED BY <1>10, <3>1, <4>1
    <3>3. CASE i + 1 \in 1..n
      <4>1. PICK j \in 1..n : j = i + 1 /\ j - 1 = i
        BY <3>3
      <4>2. ackSent - n + j = ackSent + 1 - n + i
        BY <1>1, <4>1
      <4> QED BY <1>9, <3>1, <4>1, <4>2
    <3>4. i = n \/ i + 1 \in 1..n
      OBVIOUS
    <3> QED BY ONLY <3>2, <3>3, <3>4, Zenon
  <2>4. ackHead' = Place(n)'
    BY <1>0, <1>1, <1>2, <1>3, <1>4, <1>12 DEF Place
  <2>5. RingHoldsTheLast(n)'
    <3>1. n <= ackSent' /\ ackSent' = ackSent + 1
      BY <1>0, <1>1
    <3>2. \A i \in 1..n : /\ ackSeqNo'[Place(i - 1)'] = ackSent' - n + i
                          /\ ackOf'[Place(i - 1)'] = carried'[ackSent' - n + i]
      BY <1>c, <2>3, <3>1
    <3>3. \A i \in 1..n : ackPending'[i] = ackSent' - n + i
      BY <1>c, <2>2, <3>1
    <3> QED BY <1>0, <2>2, <2>4, <3>1, <3>2, <3>3, Zenon DEF RingHoldsTheLast
  <2>6. AckWindowTypeOK'
    BY <1>1, <1>5, <1>8, <1>11, <2>2 DEF AckWindowTypeOK
  <2>7. Ack2FindsItsAck'
    BY <1>a DEF AckWindowInv, Ack2FindsItsAck
  <2> QED BY <2>5, <2>6, <2>7, Zenon DEF AckWindowInv
<1>13. CASE n # RingSize - 1
  <2> DEFINE m == n + 1
  <2>0. m \in 0..(RingSize - 1) /\ m \in Nat
    BY <1>0, <1>13
  <2>1. ackPending' = p
    <3>1. ackPending' = SubSeq(p, 1, Len(p))
      <4>1. ~(Len(p) > RingSize - 1)
        BY <1>0, <1>6, <1>13
      <4> QED BY <1>7, <4>1 DEF LastOf
    <3> QED BY <3>1, SubSeqFull
  <2>2. ackTail' = ackTail
    BY <1>3, <1>4, <1>13
  <2>3. \A i \in Nat : Place(i)' = Place(i)
    BY <2>2 DEF Place
  <2>4. ASSUME NEW i \in 1..m
        PROVE  /\ ackSeqNo'[Place(i - 1)'] = ackSent + 1 - m + i
               /\ ackOf'[Place(i - 1)'] = carried'[ackSent + 1 - m + i]
    <3>0. i - 1 \in Nat /\ ackSent + 1 - m + i = ackSent - n + i
      BY <1>1
    <3>1. Place(i - 1)' = Place(i - 1)
      BY <2>3, <3>0
    <3>2. CASE i = m
      BY <1>0, <1>1, <1>10, <3>0, <3>1, <3>2
    <3>3. CASE i \in 1..n
      BY <1>9, <3>0, <3>1, <3>3
    <3>4. i = m \/ i \in 1..n
      OBVIOUS
    <3> QED BY ONLY <3>2, <3>3, <3>4, Zenon
  <2>5. ackHead' = Place(m)'
    BY <1>0, <1>1, <1>2, <2>0, <2>2 DEF Place
  <2>6. \A i \in 1..m : ackPending'[i] = ackSent + 1 - m + i
    <3> SUFFICES ASSUME NEW i \in 1..m PROVE ackPending'[i] = ackSent + 1 - m + i
      OBVIOUS
    <3>1. i \in 1..(n + 1) /\ ackSent + 1 - m + i = ackSent - n + i
      BY <1>1
    <3> QED BY <1>6, <2>1, <3>1
  <2>7. RingHoldsTheLast(m)'
    <3>1. m <= ackSent' /\ ackSent' = ackSent + 1 /\ Len(ackPending') = m
      BY <1>0, <1>1, <1>6, <2>1
    <3> HIDE DEF m
    <3>2. \A i \in 1..m : /\ ackSeqNo'[Place(i - 1)'] = ackSent' - m + i
                          /\ ackOf'[Place(i - 1)'] = carried'[ackSent' - m + i]
      BY <1>c, <2>4, <3>1
    <3>3. \A i \in 1..m : ackPending'[i] = ackSent' - m + i
      BY <1>c, <2>6, <3>1
    <3> QED BY <2>0, <2>5, <3>1, <3>2, <3>3, Zenon DEF RingHoldsTheLast
  <2>8. AckWindowTypeOK'
    BY <1>1, <1>5, <1>8, <1>11, <2>1 DEF AckWindowTypeOK
  <2>9. Ack2FindsItsAck'
    BY <1>a DEF AckWindowInv, Ack2FindsItsAck
  <2> HIDE DEF m
  <2> QED BY <2>0, <2>7, <2>8, <2>9, Zenon DEF AckWindowInv
<1> QED BY <1>12, <1>13

\* What an ACK2 finds in the ring, and where its acknowledgement is in the queue.
LEMMA FoundIs ==
  ASSUME AckWindowTypeOK, NEW n \in Nat, RingHoldsTheLast(n), NEW seq \in 1..ackSent
  PROVE  /\ seq <= ackSent - n =>
              /\ {j \in Searched : ackSeqNo[j % RingSize] = seq} = {}
              /\ {i \in 1..Len(ackPending) : ackPending[i] = seq} = {}
         /\ seq > ackSent - n =>
              /\ {j \in Searched : ackSeqNo[j % RingSize] = seq} = {ackTail + (seq - ackSent + n) - 1}
              /\ {i \in 1..Len(ackPending) : ackPending[i] = seq} = {seq - ackSent + n}
              /\ ackOf[(ackTail + (seq - ackSent + n) - 1) % RingSize] = carried[seq]
<1>0. RingSize \in Nat \ {0, 1} /\ n \in 0..(RingSize - 1) /\ n <= ackSent /\ ackSent \in Nat
      /\ ackTail \in 0..(RingSize - 1) /\ ackHead \in 0..(RingSize - 1) /\ seq \in Nat
  BY AckWindowAssumption DEF RingHoldsTheLast, AckWindowTypeOK
<1>1. Searched = ackTail..(ackTail + n - 1)
  <2>1. ackHead = IF ackTail + n < RingSize THEN ackTail + n ELSE ackTail + n - RingSize
    BY DEF RingHoldsTheLast, Place
  <2>2. (IF ackHead >= ackTail THEN ackHead - 1 ELSE ackHead + RingSize - 1) = ackTail + n - 1
    BY <1>0, <2>1
  <2> QED BY <2>2 DEF Searched
<1>2. ASSUME NEW j \in Searched
      PROVE  /\ ackSeqNo[j % RingSize] = ackSent - n + (j - ackTail + 1)
             /\ ackOf[j % RingSize] = carried[ackSent - n + (j - ackTail + 1)]
  <2>1. PICK i \in 1..n : i = j - ackTail + 1 /\ i - 1 \in 0..RingSize /\ j = ackTail + (i - 1)
    BY <1>0, <1>1
  <2>2. Place(i - 1) = j % RingSize
    BY <2>1, PlaceIsFolded
  <2> QED BY <2>1, <2>2 DEF RingHoldsTheLast
<1>3. Len(ackPending) = n /\ \A i \in 1..n : ackPending[i] = ackSent - n + i
  BY DEF RingHoldsTheLast
<1>4. CASE seq <= ackSent - n
  <2>1. ASSUME NEW j \in Searched, ackSeqNo[j % RingSize] = seq PROVE FALSE
    <3>1. seq = ackSent - n + (j - ackTail + 1)
      BY <1>2, <2>1
    <3> QED BY <1>0, <1>1, <1>4, <3>1
  <2>2. ASSUME NEW i \in 1..n, ackPending[i] = seq PROVE FALSE
    BY <1>0, <1>3, <1>4, <2>2
  <2> QED BY <1>0, <1>3, <1>4, <2>1, <2>2
<1>5. CASE seq > ackSent - n
  <2>1. PICK k \in 1..n : k = seq - ackSent + n
    BY <1>0, <1>5
  <2>2. PICK x \in Searched : x = ackTail + k - 1
    BY <1>0, <1>1, <2>1
  <2>3. ackSent - n + (x - ackTail + 1) = seq
    BY <1>0, <2>1, <2>2
  <2>4. ackSeqNo[x % RingSize] = seq /\ ackOf[x % RingSize] = carried[seq]
    BY <1>2, <2>3
  <2>5. ASSUME NEW j \in Searched, ackSeqNo[j % RingSize] = seq PROVE j = x
    <3>1. ackSent - n + (j - ackTail + 1) = seq
      BY <1>2, <2>5
    <3> QED BY <1>0, <1>1, <2>3, <3>1
  <2>6. {j \in Searched : ackSeqNo[j % RingSize] = seq} = {x}
    BY <2>4, <2>5
  <2>7. {i \in 1..Len(ackPending) : ackPending[i] = seq} = {k}
    BY <1>0, <1>3, <2>1
  <2> QED BY <1>0, <1>5, <2>1, <2>2, <2>4, <2>6, <2>7
<1> QED BY <1>0, <1>4, <1>5

\* An ACK2 takes out its ACK and those before it, or nothing.
LEMMA AcknowledgeKeeps ==
  ASSUME AckWindowInv, NEW seq \in 1..ackSent, Acknowledge(seq) PROVE AckWindowInv'
<1> PICK n \in Nat : RingHoldsTheLast(n)
  BY DEF AckWindowInv
<1> DEFINE found == {j \in Searched : ackSeqNo[j % RingSize] = seq}
           I == {i \in 1..Len(ackPending) : ackPending[i] = seq}
           place == IF I # {} THEN Min(I) ELSE 0
<1>0. AckWindowTypeOK /\ RingSize \in Nat \ {0, 1} /\ n \in 0..(RingSize - 1) /\ n <= ackSent
  BY AckWindowAssumption DEF AckWindowInv, RingHoldsTheLast
<1>1. /\ ackPending' = SubSeq(ackPending, place + 1, Len(ackPending))
      /\ answered' = [seq |-> seq, ack |-> IF found = {} THEN -1 ELSE ackOf[(CHOOSE j \in found : TRUE) % RingSize],
                      expected |-> IF place = 0 THEN -1 ELSE carried[seq]]
      /\ found = {} => UNCHANGED <<ackSeqNo, ackHead, ackTail>>
      /\ found # {} =>
           LET j == CHOOSE k \in found : \A l \in found : k <= l IN
              /\ ackTail' = TailAfter(j) /\ ackHead' = HeadAfter(j)
              /\ ackSeqNo' = IF ackHead >= ackTail /\ j + 1 = ackHead THEN [ackSeqNo EXCEPT ![0] = -1]
                             ELSE ackSeqNo
      /\ UNCHANGED <<ackOf, ackSent, carried>>
  BY DEF Acknowledge, SelectInSeq
<1>2. /\ ackHead \in 0..(RingSize - 1) /\ ackTail \in 0..(RingSize - 1) /\ ackSent \in Nat
      /\ ackPending \in Seq(Int) /\ Len(ackPending) = n /\ seq \in Nat
      /\ \A i \in 1..n : ackPending[i] = ackSent - n + i
  BY <1>0 DEF AckWindowTypeOK, RingHoldsTheLast
<1>3. CASE seq <= ackSent - n
  <2>1. found = {} /\ I = {}
    BY <1>0, <1>3, FoundIs
  <2>2. place = 0
    BY <2>1
  <2>3. ackPending' = ackPending
    <3>1. ackPending' = SubSeq(ackPending, 1, Len(ackPending))
      <4> HIDE DEF place
      <4> QED BY ONLY <1>1, <2>2, SMTT(60)
    <3> QED BY <1>2, <3>1, SubSeqFull
  <2>4. UNCHANGED <<ackSeqNo, ackOf, ackHead, ackTail, ackSent, carried, ackPending>>
    BY <1>1, <2>1, <2>3
  <2>5. answered' = [seq |-> seq, ack |-> -1, expected |-> -1]
    BY <1>1, <2>1, <2>2
  <2>6. AckWindowTypeOK' /\ RingHoldsTheLast(n)'
    BY <1>0, <2>4 DEF AckWindowTypeOK, RingHoldsTheLast, Place
  <2>7. Ack2FindsItsAck'
    BY <2>5 DEF Ack2FindsItsAck
  <2> QED BY <2>6, <2>7, Zenon DEF AckWindowInv
<1>4. CASE seq > ackSent - n
  <2>1. PICK k \in 1..n : k = seq - ackSent + n
    BY <1>0, <1>2, <1>4
  <2>2. PICK x \in Nat : x = ackTail + k - 1
    BY <1>2
  <2>3. found = {x} /\ I = {k} /\ ackOf[x % RingSize] = carried[seq]
    BY <1>0, <1>4, <2>1, <2>2, FoundIs
  <2> HIDE DEF found, I
  <2>4. place = k
    BY <2>3 DEF Min
  <2>5. answered'.ack = answered'.expected
    <3>1. (CHOOSE j \in found : TRUE) = x
      BY <2>3
    <3>2. answered' = [seq |-> seq, ack |-> ackOf[x % RingSize], expected |-> carried[seq]]
      BY <1>1, <2>3, <2>4, <3>1
    <3> QED BY <2>3, <3>2
  <2>6. (CHOOSE a \in found : \A l \in found : a <= l) = x
    BY <2>3
  <2>7. /\ ackTail' = TailAfter(x) /\ ackHead' = HeadAfter(x)
        /\ ackSeqNo' = IF ackHead >= ackTail /\ x + 1 = ackHead THEN [ackSeqNo EXCEPT ![0] = -1] ELSE ackSeqNo
    BY <1>1, <2>3, <2>6
  <2> DEFINE m == n - k
  <2>8. m \in 0..(RingSize - 1) /\ m \in Nat /\ m <= ackSent /\ m = ackSent - seq
    BY <1>0, <1>2, <2>1
  <2>9. /\ ackPending' \in Seq(Int) /\ Len(ackPending') = m
        /\ \A i \in 1..m : ackPending'[i] = ackSent - m + i
    <3>1. ackPending' = SubSeq(ackPending, k + 1, n)
      BY <1>1, <1>2, <2>4
    <3>2. \A i \in (k + 1)..n : ackPending[i] \in Int
      BY <1>2
    <3>3. /\ SubSeq(ackPending, k + 1, n) \in Seq(Int)
          /\ Len(SubSeq(ackPending, k + 1, n)) = IF k + 1 <= n THEN n - (k + 1) + 1 ELSE 0
          /\ \A i \in 1..(n - (k + 1) + 1) : SubSeq(ackPending, k + 1, n)[i] = ackPending[k + 1 + i - 1]
      BY <3>2, SubSeqProperties
    <3>4. Len(ackPending') = m
      BY <1>0, <2>1, <3>1, <3>3
    <3>5. ASSUME NEW i \in 1..m PROVE ackPending'[i] = ackSent - m + i
      <4>1. i \in 1..(n - (k + 1) + 1) /\ k + 1 + i - 1 = k + i /\ k + i \in 1..n /\ ackSent - n + (k + i) = ackSent - m + i
        BY <1>2
      <4>2. ackPending'[i] = ackPending[k + i]
        BY <3>1, <3>3, <4>1
      <4> QED BY <1>2, <4>1, <4>2
    <3> QED BY <3>1, <3>3, <3>4, <3>5
  <2>10. CASE ackHead >= ackTail /\ x + 1 = ackHead
    <3>1. m = 0
      <4>1. ackHead = IF ackTail + n < RingSize THEN ackTail + n ELSE ackTail + n - RingSize
        BY DEF RingHoldsTheLast, Place
      <4> QED BY <1>0, <1>2, <2>1, <2>2, <2>10, <4>1
    <3>2. ackTail' = 0 /\ ackHead' = 0 /\ ackSeqNo' = [ackSeqNo EXCEPT ![0] = -1]
      BY <2>7, <2>10 DEF TailAfter, HeadAfter
    <3>3. AckWindowTypeOK'
      <4>1. ackSeqNo' \in [0..(RingSize - 1) -> Int]
        BY <1>0, <3>2 DEF AckWindowTypeOK
      <4>2. UNCHANGED <<ackOf, ackSent, carried>> /\ 0 \in 0..(RingSize - 1)
        BY <1>0, <1>1
      <4> QED BY <1>0, <2>9, <3>2, <4>1, <4>2 DEF AckWindowTypeOK
    <3>4. RingHoldsTheLast(0)'
      <4>1. UNCHANGED ackSent /\ 0 <= ackSent /\ 0 \in 0..(RingSize - 1) /\ ackHead' = Place(0)'
        BY <1>0, <1>1, <1>2, <3>2 DEF Place
      <4>2. Len(ackPending') = 0
        BY <2>9, <3>1
      <4> QED BY <4>1, <4>2 DEF RingHoldsTheLast
    <3> QED BY <2>5, <3>3, <3>4 DEF AckWindowInv, Ack2FindsItsAck
  <2>11. CASE ~(ackHead >= ackTail /\ x + 1 = ackHead)
    <3>1. ackTail' = (x + 1) % RingSize /\ ackHead' = ackHead /\ ackSeqNo' = ackSeqNo
      BY <2>7, <2>11 DEF TailAfter, HeadAfter
    <3>2. ackTail' = Place(k) /\ ackTail' \in 0..(RingSize - 1)
      <4>1. x + 1 = ackTail + k /\ k \in 0..RingSize
        BY <1>0, <1>2, <2>2
      <4> QED BY <1>0, <3>1, <4>1, PlaceIsFolded
    <3>3. ASSUME NEW i \in 0..m PROVE Place(i)' = Place(k + i)
      BY <1>0, <1>2, <3>2 DEF Place
    <3>4. ackHead' = Place(m)'
      <4>1. Place(m)' = Place(k + m) /\ k + m = n
        BY <2>8, <3>3
      <4> QED BY <3>1, <4>1 DEF RingHoldsTheLast
    <3>5. ASSUME NEW i \in 1..m
          PROVE  /\ ackSeqNo'[Place(i - 1)'] = ackSent - m + i
                 /\ ackOf'[Place(i - 1)'] = carried'[ackSent - m + i]
      <4>1. PICK j \in 1..n : j = k + i /\ j - 1 = k + (i - 1) /\ i - 1 \in 0..m /\ ackSent - n + j = ackSent - m + i
        BY <1>2
      <4>2. Place(i - 1)' = Place(j - 1)
        BY <3>3, <4>1
      <4> QED BY <1>1, <3>1, <4>1, <4>2 DEF RingHoldsTheLast
    <3>6. RingHoldsTheLast(m)'
      BY <1>1, <2>8, <2>9, <3>4, <3>5 DEF RingHoldsTheLast
    <3>7. AckWindowTypeOK'
      BY <1>0, <1>1, <2>9, <3>1, <3>2 DEF AckWindowTypeOK
    <3> QED BY <2>5, <2>8, <3>6, <3>7 DEF AckWindowInv, Ack2FindsItsAck
  <2> QED BY <2>10, <2>11
<1> QED BY <1>0, <1>2, <1>3, <1>4

\* An ACK2, however late and wherever the ring has gone round, finds the acknowledgement it
\* answers or none, and the ring is the queue of those not yet answered (AckWindowIsRight).
THEOREM Ack2sAreMatched == AckWindowSpec => []AckWindowIsRight
<1>1. AckWindowInit => AckWindowInv
  BY AckWindowStarts
<1>2. AckWindowInv /\ [AckWindowNext]_ackWindowVars => AckWindowInv'
  <2> SUFFICES ASSUME AckWindowInv, [AckWindowNext]_ackWindowVars PROVE AckWindowInv'
    OBVIOUS
  <2>1. ASSUME NEW ack \in 1..2, StoreAck(ack) PROVE AckWindowInv'
    BY <2>1, StoreAckKeeps
  <2>2. CASE UNCHANGED ackWindowVars
    BY <2>2 DEF ackWindowVars, AckWindowInv, AckWindowTypeOK, Ack2FindsItsAck, RingHoldsTheLast, Place
  <2> QED BY <2>1, <2>2, AcknowledgeKeeps DEF AckWindowNext
<1> QED BY <1>1, <1>2, AckWindowImplies, PTL DEF AckWindowSpec

-----------------------------------------------------------------------------
(***************************************************************************)
(* UdtSndBuffer                                                            *)
(***************************************************************************)
\* The walk along the pointers is defined for every number of steps.
LEMMA AfterSteps ==
  ASSUME NEW b
  PROVE  /\ After(b, 0) = b
         /\ \A n \in 1..MaxBlocks : After(b, n) = nextBlk[After(b, n - 1)]
<1> DEFINE Is(f) == f = [i \in 0..MaxBlocks |-> IF i = 0 THEN b ELSE nextBlk[f[i - 1]]]
           Walk(g, k) == g[0] = b /\ \A i \in 1..k : g[i] = nextBlk[g[i - 1]]
           S == {k \in Nat : \E g : Walk(g, k)}
<1>1. S = Nat
  <2>1. 0 \in S
    <3>1. Walk([i \in 0..0 |-> b], 0)
      OBVIOUS
    <3> QED BY <3>1
  <2>2. ASSUME NEW k \in S PROVE k + 1 \in S
    <3>1. PICK g : Walk(g, k)
      OBVIOUS
    <3> DEFINE h == [i \in 0..(k + 1) |-> IF i = k + 1 THEN nextBlk[g[k]] ELSE g[i]]
    <3>2. Walk(h, k + 1)
      <4>1. k \in Nat
        OBVIOUS
      <4>2. h[0] = b
        BY <3>1, <4>1
      <4>3. ASSUME NEW i \in 1..(k + 1) PROVE h[i] = nextBlk[h[i - 1]]
        <5>1. CASE i = k + 1
          BY <4>1, <5>1
        <5>2. CASE i \in 1..k
          BY <3>1, <4>1, <5>2
        <5> QED BY <4>1, <5>1, <5>2
      <4> HIDE DEF h
      <4> QED BY <4>2, <4>3
    <3> HIDE DEF h, Walk
    <3> QED BY <3>2
  <2> HIDE DEF S
  <2> QED BY <2>1, <2>2, InductiveSet DEF S
<1>2. MaxBlocks \in Nat
  BY SndBufferAssumption
<1>3. PICK g : Walk(g, MaxBlocks)
  BY <1>1, <1>2
<1>4. PICK f : f = [i \in 0..MaxBlocks |-> g[i]]
  OBVIOUS
<1>5. Is(f)
  <2>1. ASSUME NEW i \in 0..MaxBlocks PROVE f[i] = IF i = 0 THEN b ELSE nextBlk[f[i - 1]]
    <3>1. CASE i = 0
      BY <1>2, <1>3, <1>4, <3>1
    <3>2. CASE i \in 1..MaxBlocks
      <4>1. i - 1 \in 0..MaxBlocks /\ i # 0
        BY <1>2, <3>2
      <4> QED BY <1>3, <1>4, <3>2, <4>1
    <3> QED BY <1>2, <3>1, <3>2
  <2>2. f = [i \in 0..MaxBlocks |-> f[i]]
    BY <1>4
  <2> QED BY <2>1, <2>2
<1> DEFINE c == CHOOSE x : Is(x)
<1>6. Is(c)
  <2> HIDE DEF Is
  <2> QED BY <1>5
<1>7. \A n : After(b, n) = c[n]
  BY DEF After
<1> HIDE DEF c
<1>8. c[0] = b
  BY <1>2, <1>6
<1>9. ASSUME NEW n \in 1..MaxBlocks PROVE c[n] = nextBlk[c[n - 1]]
  BY <1>2, <1>6
<1> HIDE DEF Is
<1> QED BY <1>7, <1>8, <1>9

-----------------------------------------------------------------------------
\* The invariant: ring lists the blocks from the first on, each once, as the pointers link
\* them; the payloads not acknowledged are in its first blocks.
SndBufferTypeOK ==
  /\ nextBlk \in [Blocks -> Int] /\ content \in [Blocks -> Int]
  /\ size \in Nat \ {0} /\ size <= MaxBlocks /\ count \in Int /\ payload \in Nat
  /\ toAck \in Seq(Int) /\ sentOn \in Nat /\ missing \in Nat
  /\ adder \in [at : {"idle", "grow", "count"}, blocks : Nat, full : Nat] /\ adder.full <= adder.blocks

RingIsLinked(ring) ==
  /\ ring \in [0..(size - 1) -> 1..size]
  /\ \A i \in 0..(size - 1) : \A j \in 0..(size - 1) : ring[i] = ring[j] => i = j
  /\ \A i \in 0..(size - 2) : nextBlk[ring[i]] = ring[i + 1]
  /\ nextBlk[ring[size - 1]] = ring[0]

PointersAreOnRing(ring) ==
  /\ sentOn <= Len(toAck) /\ Len(toAck) < size
  /\ firstBlk = ring[0] /\ currBlk = ring[sentOn] /\ lastBlk = ring[Len(toAck)]
  /\ \A i \in 1..Len(toAck) : content[ring[i - 1]] = toAck[i]

\* m_iCount, while a call has filled its blocks and not yet counted them, lacks them.
CountIsRight ==
  count = Len(toAck) + missing - (IF adder.at = "count" THEN adder.full ELSE 0)

SndBufferInv ==
  /\ SndBufferTypeOK /\ CountIsRight
  /\ \E ring \in [0..(size - 1) -> 1..size] : RingIsLinked(ring) /\ PointersAreOnRing(ring)

\* Walking on from a block of the ring, short of its end, follows the ring.
LEMMA AfterIsOnRing ==
  ASSUME SndBufferTypeOK, NEW ring, RingIsLinked(ring), NEW k \in Nat, NEW n \in Nat, k + n < size
  PROVE  After(ring[k], n) = ring[k + n]
<1> DEFINE S == {m \in Nat : k + m < size => After(ring[k], m) = ring[k + m]}
<1>0. MaxBlocks \in Nat /\ size \in Nat /\ size <= MaxBlocks
  BY SndBufferAssumption DEF SndBufferTypeOK
<1>1. 0 \in S
  <2>1. After(ring[k], 0) = ring[k]
    BY AfterSteps
  <2>2. k + 0 = k
    OBVIOUS
  <2> QED BY <2>1, <2>2
<1>2. ASSUME NEW m \in S PROVE m + 1 \in S
  <2> SUFFICES ASSUME k + (m + 1) < size PROVE After(ring[k], m + 1) = ring[k + (m + 1)]
    OBVIOUS
  <2>1. m \in Nat /\ After(ring[k], m) = ring[k + m]
    BY <1>0
  <2>2. m + 1 \in 1..MaxBlocks /\ m + 1 - 1 = m
    BY <1>0, <2>1
  <2>3. After(ring[k], m + 1) = nextBlk[After(ring[k], m)]
    BY <2>2, AfterSteps
  <2>4. k + m \in 0..(size - 2) /\ k + m + 1 = k + (m + 1)
    BY <1>0, <2>1
  <2>5. nextBlk[ring[k + m]] = ring[k + m + 1]
    BY <2>4, Zenon DEF RingIsLinked
  <2> QED BY <2>1, <2>3, <2>4, <2>5
<1> HIDE DEF S
<1>3. S \in SUBSET Nat
  BY DEF S
<1>4. S = Nat
  BY <1>1, <1>2, <1>3, InductiveSet
<1> QED BY <1>4 DEF S

\* The invariant implies the property.
LEMMA SndBufferImplies ==
  ASSUME SndBufferInv PROVE SndBufferIsRight
<1> PICK ring \in [0..(size - 1) -> 1..size] : RingIsLinked(ring) /\ PointersAreOnRing(ring)
  BY DEF SndBufferInv
<1>0. SndBufferTypeOK /\ CountIsRight /\ Len(toAck) \in Nat /\ sentOn \in Nat /\ size \in Nat
      /\ sentOn <= Len(toAck) /\ Len(toAck) < size /\ 0 \in Nat
  BY SMTT(60) DEF SndBufferInv, PointersAreOnRing, SndBufferTypeOK
<1>1. ASSUME NEW n \in Nat, n < size PROVE After(firstBlk, n) = ring[n]
  <2>1. 0 + n < size /\ 0 + n = n
    BY <1>1
  <2>2. After(ring[0], n) = ring[0 + n]
    BY <1>0, <2>1, AfterIsOnRing
  <2> QED BY <2>1, <2>2 DEF PointersAreOnRing
<1>2. ASSUME NEW i \in 1..Len(toAck) PROVE content[After(firstBlk, i - 1)] = toAck[i]
  <2>1. i - 1 \in Nat /\ i - 1 < size
    BY <1>0
  <2>2. After(firstBlk, i - 1) = ring[i - 1]
    BY <1>1, <2>1
  <2> QED BY <2>2 DEF PointersAreOnRing
<1>3. currBlk = After(firstBlk, sentOn) /\ lastBlk = After(firstBlk, Len(toAck))
  <2>1. sentOn < size
    BY <1>0
  <2> QED BY <1>0, <1>1, <2>1 DEF PointersAreOnRing
<1>4. CountsWithMissing
  <2>1. missing \in Nat
    BY <1>0 DEF SndBufferTypeOK
  <2> QED BY <1>0, <2>1 DEF CountsWithMissing, CountIsRight
<1> QED BY <1>0, <1>2, <1>3, <1>4 DEF SndBufferIsRight, BlocksAreInOrder, OneBlockIsFree

\* The blocks are linked in a ring at first.
LEMMA SndBufferStarts == SndBufferInit => SndBufferInv
<1> SUFFICES ASSUME SndBufferInit PROVE SndBufferInv
  OBVIOUS
<1> USE SndBufferAssumption DEF SndBufferInit
<1>1. SndBufferTypeOK
  BY DEF SndBufferTypeOK, Blocks
<1>2. CountIsRight
  BY DEF CountIsRight
<1>3. PICK ring : ring = [i \in 0..(size - 1) |-> i + 1]
  OBVIOUS
<1>4. size = BufferSize /\ ring \in [0..(size - 1) -> 1..size] /\ \A i \in 0..(size - 1) : ring[i] = i + 1
  BY <1>3
<1>5. \A b \in 1..(BufferSize - 1) : nextBlk[b] = b + 1
  BY DEF Blocks
<1>6. nextBlk[BufferSize] = 1
  BY DEF Blocks
<1>7. RingIsLinked(ring)
  <2>1. \A i \in 0..(size - 1) : \A j \in 0..(size - 1) : ring[i] = ring[j] => i = j
    BY <1>4
  <2>2. \A i \in 0..(size - 2) : nextBlk[ring[i]] = ring[i + 1]
    <3> SUFFICES ASSUME NEW i \in 0..(size - 2) PROVE nextBlk[ring[i]] = ring[i + 1]
      OBVIOUS
    <3>1. ring[i] = i + 1 /\ ring[i + 1] = i + 1 + 1 /\ i + 1 \in 1..(BufferSize - 1)
      BY <1>4
    <3> QED BY <1>5, <3>1
  <2>3. nextBlk[ring[size - 1]] = ring[0]
    <3>1. ring[size - 1] = BufferSize /\ ring[0] = 1
      BY <1>4
    <3> QED BY <1>6, <3>1
  <2> QED BY <1>4, <2>1, <2>2, <2>3 DEF RingIsLinked
<1>8. PointersAreOnRing(ring)
  BY <1>4 DEF PointersAreOnRing
<1> QED BY <1>1, <1>2, <1>4, <1>7, <1>8 DEF SndBufferInv

\* A call of addBuffer begins.
LEMMA AddBeginsKeeps ==
  ASSUME SndBufferInv, NEW blocks \in Nat, NEW full \in 0..blocks, AddBegins(blocks, full)
  PROVE  SndBufferInv'
<1>1. /\ adder.at = "idle" /\ adder' = [at |-> "grow", blocks |-> blocks, full |-> full]
      /\ UNCHANGED <<nextBlk, content, firstBlk, currBlk, lastBlk, size, count, payload, toAck, sentOn, missing>>
  BY DEF AddBegins
<1>2. SndBufferTypeOK'
  BY <1>1 DEF SndBufferInv, SndBufferTypeOK
<1>3. CountIsRight'
  BY <1>1 DEF SndBufferInv, CountIsRight
<1>4. \E ring \in [0..(size - 1) -> 1..size]' : RingIsLinked(ring)' /\ PointersAreOnRing(ring)'
  BY <1>1, Zenon DEF SndBufferInv, RingIsLinked, PointersAreOnRing
<1> QED BY <1>2, <1>3, <1>4, Zenon DEF SndBufferInv

\* The count goes up before the blocks are filled.
LEMMA CountUpKeeps ==
  ASSUME SndBufferInv, CountUp PROVE SndBufferInv'
<1>1. /\ adder.at = "count" /\ count' = count + adder.blocks /\ missing' = missing + adder.blocks - adder.full
      /\ adder' = [at |-> "idle", blocks |-> 0, full |-> 0]
      /\ UNCHANGED <<nextBlk, content, firstBlk, currBlk, lastBlk, size, payload, toAck, sentOn>>
  BY DEF CountUp
<1>0. /\ count \in Int /\ missing \in Nat /\ adder.blocks \in Nat /\ adder.full \in Nat
      /\ adder.full <= adder.blocks /\ Len(toAck) \in Nat
  BY DEF SndBufferInv, SndBufferTypeOK
<1>2. SndBufferTypeOK'
  <2>1. missing' \in Nat /\ count' \in Int
    BY <1>0, <1>1
  <2> QED BY <1>1, <2>1 DEF SndBufferInv, SndBufferTypeOK
<1>3. CountIsRight'
  BY <1>0, <1>1 DEF SndBufferInv, CountIsRight
<1>4. \E ring \in [0..(size - 1) -> 1..size]' : RingIsLinked(ring)' /\ PointersAreOnRing(ring)'
  BY <1>1, Zenon DEF SndBufferInv, RingIsLinked, PointersAreOnRing
<1> QED BY <1>2, <1>3, <1>4, Zenon DEF SndBufferInv

\* The sending thread reads the next block.
LEMMA ReadInTurnKeeps ==
  ASSUME SndBufferInv, ReadInTurn PROVE SndBufferInv'
<1> PICK ring \in [0..(size - 1) -> 1..size] : RingIsLinked(ring) /\ PointersAreOnRing(ring)
  BY DEF SndBufferInv
<1>1. /\ currBlk # lastBlk /\ currBlk' = nextBlk[currBlk] /\ sentOn' = sentOn + 1
      /\ UNCHANGED <<nextBlk, content, firstBlk, lastBlk, size, count, adder, payload, toAck, missing>>
  BY DEF ReadInTurn
<1>0. SndBufferTypeOK /\ sentOn \in Nat /\ Len(toAck) \in Nat /\ size \in Nat /\ sentOn <= Len(toAck) /\ Len(toAck) < size
  BY SMTT(60) DEF SndBufferInv, SndBufferTypeOK, PointersAreOnRing
<1>2. sentOn # Len(toAck)
  BY <1>1 DEF PointersAreOnRing
<1>3. sentOn \in 0..(size - 2) /\ sentOn + 1 <= Len(toAck)
  BY <1>0, <1>2
<1>4. currBlk' = ring[sentOn + 1]
  BY <1>1, <1>3 DEF PointersAreOnRing, RingIsLinked
<1>5. SndBufferTypeOK'
  BY <1>0, <1>1 DEF SndBufferTypeOK
<1>6. CountIsRight'
  BY <1>1 DEF SndBufferInv, CountIsRight
<1>7. RingIsLinked(ring)'
  BY <1>1 DEF RingIsLinked
<1>8. PointersAreOnRing(ring)'
  BY <1>1, <1>3, <1>4 DEF PointersAreOnRing
<1>9. ring \in [0..(size' - 1) -> 1..size']
  BY <1>1
<1> QED BY <1>5, <1>6, <1>7, <1>8, <1>9, Zenon DEF SndBufferInv

\* The ring as it is after n blocks are taken from its front, or after it has grown.
LEMMA AckDataKeeps ==
  ASSUME SndBufferInv, NEW n \in Nat, AckData(n) PROVE SndBufferInv'
<1> PICK ring \in [0..(size - 1) -> 1..size] : RingIsLinked(ring) /\ PointersAreOnRing(ring)
  BY DEF SndBufferInv
<1>1. /\ n \in 1..sentOn /\ firstBlk' = After(firstBlk, n) /\ count' = count - n
      /\ toAck' = SubSeq(toAck, n + 1, Len(toAck)) /\ sentOn' = sentOn - n
      /\ UNCHANGED <<nextBlk, content, currBlk, lastBlk, size, adder, payload, missing>>
  BY DEF AckData
<1>2. PICK len \in Nat : len = Len(toAck)
  BY DEF SndBufferInv, SndBufferTypeOK
<1>0. SndBufferTypeOK /\ sentOn \in Nat /\ size \in Nat /\ sentOn <= len /\ len < size /\ 0 \in Nat
  BY <1>2 DEF SndBufferInv, SndBufferTypeOK, PointersAreOnRing
<1>3. n <= len /\ n < size /\ n >= 1
  BY <1>0, <1>1
<1>4. firstBlk' = ring[n]
  <2>1. 0 + n < size /\ 0 + n = n
    BY <1>3
  <2>2. After(ring[0], n) = ring[0 + n]
    BY <1>0, <2>1, AfterIsOnRing
  <2> QED BY <1>1, <2>1, <2>2 DEF PointersAreOnRing
<1>5. toAck' \in Seq(Int) /\ Len(toAck') = len - n /\ \A i \in 1..(len - n) : toAck'[i] = toAck[n + i]
  <2>1. \A i \in (n + 1)..len : toAck[i] \in Int
    BY <1>0, <1>2 DEF SndBufferTypeOK
  <2>2. /\ SubSeq(toAck, n + 1, len) \in Seq(Int)
        /\ Len(SubSeq(toAck, n + 1, len)) = IF n + 1 <= len THEN len - (n + 1) + 1 ELSE 0
        /\ \A i \in 1..(len - (n + 1) + 1) : SubSeq(toAck, n + 1, len)[i] = toAck[n + 1 + i - 1]
    BY <2>1, SubSeqProperties
  <2>3. toAck' = SubSeq(toAck, n + 1, len)
    BY <1>1, <1>2
  <2>4. ASSUME NEW i \in 1..(len - n) PROVE toAck'[i] = toAck[n + i]
    <3>1. i \in 1..(len - (n + 1) + 1) /\ n + 1 + i - 1 = n + i
      BY <1>3
    <3> QED BY <2>2, <2>3, <3>1
  <2>5. Len(toAck') = len - n
    BY <1>3, <2>2, <2>3
  <2> QED BY <2>2, <2>3, <2>4, <2>5
<1>6. PICK h : h = [i \in 0..(size - 1) |-> IF i + n < size THEN ring[i + n] ELSE ring[i + n - size]]
  OBVIOUS
<1>7. ASSUME NEW i \in 0..(size - 1)
      PROVE  \E j \in 0..(size - 1) : h[i] = ring[j] /\ j = IF i + n < size THEN i + n ELSE i + n - size
  <2>1. PICK j \in 0..(size - 1) : j = IF i + n < size THEN i + n ELSE i + n - size
    <3>1. CASE i + n < size
      <4>1. i + n \in 0..(size - 1)
        BY <1>0, <1>3, <3>1
      <4> QED BY <3>1, <4>1
    <3>2. CASE ~(i + n < size)
      <4>1. i + n - size \in 0..(size - 1)
        BY <1>0, <1>3, <3>2
      <4> QED BY <3>2, <4>1
    <3> QED BY <3>1, <3>2
  <2>2. h[i] = IF i + n < size THEN ring[i + n] ELSE ring[i + n - size]
    BY <1>6
  <2>3. h[i] = ring[j]
    BY <2>1, <2>2, Zenon
  <2> QED BY <2>1, <2>3
<1>8. h \in [0..(size - 1) -> 1..size]
  BY <1>6, <1>7
<1>9. RingIsLinked(h)
  <2>1. ASSUME NEW i \in 0..(size - 1), NEW j \in 0..(size - 1), h[i] = h[j] PROVE i = j
    <3>1. PICK k \in 0..(size - 1) : h[i] = ring[k] /\ k = IF i + n < size THEN i + n ELSE i + n - size
      BY <1>7
    <3>2. PICK l \in 0..(size - 1) : h[j] = ring[l] /\ l = IF j + n < size THEN j + n ELSE j + n - size
      BY <1>7
    <3>3. k = l
      <4>1. ring[k] = ring[l]
        BY <2>1, <3>1, <3>2
      <4> QED BY <4>1 DEF RingIsLinked
    <3> QED BY <1>0, <1>3, <3>1, <3>2, <3>3, SMTT(60)
  <2>2. ASSUME NEW k \in 0..(size - 1)
        PROVE  nextBlk[ring[k]] = ring[IF k + 1 < size THEN k + 1 ELSE 0]
    <3>1. CASE k + 1 < size
      <4>1. k \in 0..(size - 2)
        BY <1>0, <3>1
      <4> QED BY <3>1, <4>1 DEF RingIsLinked
    <3>2. CASE ~(k + 1 < size)
      <4>1. k = size - 1
        BY <1>0, <3>2
      <4> QED BY <3>2, <4>1 DEF RingIsLinked
    <3> QED BY <3>1, <3>2
  <2>3. ASSUME NEW i \in 0..(size - 2) PROVE nextBlk[h[i]] = h[i + 1]
    <3>1. i \in 0..(size - 1) /\ i + 1 \in 0..(size - 1)
      BY <1>0
    <3>2. PICK k \in 0..(size - 1) : h[i] = ring[k] /\ k = IF i + n < size THEN i + n ELSE i + n - size
      BY <1>7, <3>1
    <3>3. PICK l \in 0..(size - 1) : h[i + 1] = ring[l] /\ l = IF i + 1 + n < size THEN i + 1 + n ELSE i + 1 + n - size
      BY <1>7, <3>1
    <3>4. l = IF k + 1 < size THEN k + 1 ELSE 0
      BY <1>0, <1>3, <3>1, <3>2, <3>3
    <3> QED BY <2>2, <3>2, <3>3, <3>4
  <2>4. nextBlk[h[size - 1]] = h[0]
    <3>1. 0 \in 0..(size - 1) /\ size - 1 \in 0..(size - 1)
      BY <1>0, <1>3
    <3>2. PICK k \in 0..(size - 1) : h[size - 1] = ring[k] /\ k = IF size - 1 + n < size THEN size - 1 + n ELSE size - 1 + n - size
      BY <1>7, <3>1
    <3>3. PICK l \in 0..(size - 1) : h[0] = ring[l] /\ l = IF 0 + n < size THEN 0 + n ELSE 0 + n - size
      BY <1>7, <3>1
    <3>4. l = IF k + 1 < size THEN k + 1 ELSE 0
      BY <1>0, <1>3, <3>2, <3>3
    <3> QED BY <2>2, <3>2, <3>3, <3>4
  <2> QED BY <1>8, <2>1, <2>3, <2>4 DEF RingIsLinked
<1>10. RingIsLinked(h)'
  BY <1>1, <1>9 DEF RingIsLinked
<1>11. PointersAreOnRing(h)'
  <2>1. \A i \in 0..(size - 1) : i + n < size => h[i] = ring[i + n]
    BY <1>6
  <2>2. sentOn' <= Len(toAck') /\ Len(toAck') < size'
    BY <1>0, <1>1, <1>3, <1>5
  <2>3. firstBlk' = h[0]
    BY <1>0, <1>3, <1>4, <2>1
  <2>4. currBlk' = h[sentOn']
    <3>1. sentOn - n \in 0..(size - 1) /\ sentOn - n + n < size /\ sentOn - n + n = sentOn
      BY <1>0, <1>1
    <3> QED BY <1>1, <2>1, <3>1 DEF PointersAreOnRing
  <2>5. lastBlk' = h[Len(toAck')]
    <3>1. len - n \in 0..(size - 1) /\ len - n + n < size /\ len - n + n = len
      BY <1>0, <1>3
    <3> QED BY <1>1, <1>2, <1>5, <2>1, <3>1 DEF PointersAreOnRing
  <2>6. ASSUME NEW i \in 1..Len(toAck') PROVE content'[h[i - 1]] = toAck'[i]
    <3>1. i \in 1..(len - n) /\ i - 1 \in 0..(size - 1) /\ i - 1 + n < size /\ i - 1 + n = n + i - 1 /\ n + i \in 1..len
      BY <1>0, <1>3, <1>5
    <3>2. h[i - 1] = ring[n + i - 1]
      BY <2>1, <3>1
    <3>3. content[ring[n + i - 1]] = toAck[n + i]
      BY <1>2, <3>1 DEF PointersAreOnRing
    <3> QED BY <1>1, <1>5, <3>1, <3>2, <3>3
  <2> QED BY <2>2, <2>3, <2>4, <2>5, <2>6 DEF PointersAreOnRing
<1>12. SndBufferTypeOK'
  <2>1. sentOn' \in Nat /\ count' \in Int
    BY <1>0, <1>1 DEF SndBufferTypeOK
  <2> QED BY <1>0, <1>1, <1>5, <2>1 DEF SndBufferTypeOK
<1>13. CountIsRight'
  <2>1. adder.full \in Nat /\ missing \in Nat
    BY <1>0 DEF SndBufferTypeOK
  <2>2. count = len + missing - (IF adder.at = "count" THEN adder.full ELSE 0)
    BY <1>0, <1>2 DEF SndBufferInv, CountIsRight
  <2>3. PICK d \in Nat : d = IF adder.at = "count" THEN adder.full ELSE 0
    BY <2>1
  <2>4. count - n = len - n + missing - d
    BY <2>1, <2>2, <2>3
  <2> QED BY <1>1, <1>5, <2>3, <2>4 DEF CountIsRight
<1>14. h \in [0..(size' - 1) -> 1..size']
  BY <1>1, <1>8
<1> QED BY <1>10, <1>11, <1>12, <1>13, <1>14, Zenon DEF SndBufferInv

\* New blocks are linked in behind the last one.
LEMMA IncreaseKeeps ==
  ASSUME SndBufferInv, Increase PROVE SndBufferInv'
<1> PICK ring \in [0..(size - 1) -> 1..size] : RingIsLinked(ring) /\ PointersAreOnRing(ring)
  BY DEF SndBufferInv
<1>1. /\ size + BufferSize <= MaxBlocks /\ size' = size + BufferSize
      /\ nextBlk' = [b \in Blocks |-> IF b = lastBlk THEN size + 1
                                  ELSE IF b = size + BufferSize THEN nextBlk[lastBlk]
                                  ELSE IF b > size /\ b < size + BufferSize THEN b + 1 ELSE nextBlk[b]]
      /\ UNCHANGED <<content, firstBlk, currBlk, lastBlk, count, adder, payload, toAck, sentOn, missing>>
  BY DEF Increase
<1>2. PICK len \in Nat : len = Len(toAck)
  BY DEF SndBufferInv, SndBufferTypeOK
<1>0. /\ SndBufferTypeOK /\ sentOn \in Nat /\ size \in Nat \ {0} /\ sentOn <= len /\ len < size
      /\ BufferSize \in Nat \ {0} /\ MaxBlocks \in Nat /\ size <= MaxBlocks
      /\ nextBlk \in [Blocks -> Int] /\ lastBlk = ring[len]
  BY <1>2, SndBufferAssumption DEF SndBufferInv, SndBufferTypeOK, PointersAreOnRing
<1>3. PICK h : h = [i \in 0..(size + BufferSize - 1) |->
                      IF i <= len THEN ring[i] ELSE IF i <= len + BufferSize THEN size + (i - len) ELSE ring[i - BufferSize]]
  OBVIOUS
<1>4. ASSUME NEW i \in 0..(size + BufferSize - 1)
      PROVE  \/ i <= len /\ h[i] = ring[i] /\ i \in 0..(size - 1)
             \/ i > len /\ i <= len + BufferSize /\ h[i] = size + (i - len)
             \/ i > len + BufferSize /\ h[i] = ring[i - BufferSize] /\ i - BufferSize \in 0..(size - 1)
  BY <1>0, <1>3
<1>5. \A i \in 0..(size - 1) : ring[i] \in 1..size
  OBVIOUS
<1>6. h \in [0..(size + BufferSize - 1) -> 1..(size + BufferSize)]
  <2>1. ASSUME NEW i \in 0..(size + BufferSize - 1) PROVE h[i] \in 1..(size + BufferSize)
    <3>1. CASE h[i] = ring[i] /\ i \in 0..(size - 1)
      <4>1. ring[i] \in 1..size
        BY <1>5, <3>1
      <4> QED BY <1>0, <3>1, <4>1
    <3>2. CASE i > len /\ i <= len + BufferSize /\ h[i] = size + (i - len)
      BY <1>0, <3>2
    <3>3. CASE h[i] = ring[i - BufferSize] /\ i - BufferSize \in 0..(size - 1)
      <4>1. ring[i - BufferSize] \in 1..size
        BY <1>5, <3>3
      <4> QED BY <1>0, <3>3, <4>1
    <3> QED BY <1>4, <3>1, <3>2, <3>3, Zenon
  <2> QED BY <1>3, <2>1
<1>7. ASSUME NEW i \in 0..(size + BufferSize - 1), NEW j \in 0..(size + BufferSize - 1), h[i] = h[j] PROVE i = j
  <2>1. \A k \in 0..(size - 1) : \A l \in 0..(size - 1) : ring[k] = ring[l] => k = l
    BY DEF RingIsLinked
  <2> QED BY <1>0, <1>4, <1>5, <1>7, <2>1, SMTT(60)
<1>8. \A k \in 0..(size - 2) : nextBlk[ring[k]] = ring[k + 1]
  BY DEF RingIsLinked
<1>9. nextBlk[ring[size - 1]] = ring[0]
  BY DEF RingIsLinked
<1>10. ASSUME NEW k \in 0..(size - 1), k # len PROVE nextBlk'[ring[k]] = nextBlk[ring[k]]
  <2>1. ring[k] # lastBlk
    <3>1. len \in 0..(size - 1)
      BY <1>0
    <3> QED BY <1>0, <1>10, <3>1 DEF RingIsLinked
  <2>2. ring[k] \in 1..size /\ ring[k] \in Blocks
    BY <1>0, <1>5 DEF Blocks
  <2> QED BY <1>0, <1>1, <2>1, <2>2
<1>11. lastBlk \in 1..size /\ lastBlk \in Blocks
  BY <1>0, <1>5 DEF Blocks
<1>12. nextBlk'[lastBlk] = size + 1
  BY <1>1, <1>11
<1>13. ASSUME NEW b \in (size + 1)..(size + BufferSize - 1) PROVE nextBlk'[b] = b + 1
  <2>1. b \in Blocks /\ b # lastBlk /\ b # size + BufferSize
    BY <1>0, <1>1, <1>11 DEF Blocks
  <2> QED BY <1>0, <1>1, <2>1
<1>14. nextBlk'[size + BufferSize] = nextBlk[lastBlk]
  <2>1. size + BufferSize \in Blocks /\ size + BufferSize # lastBlk
    BY <1>0, <1>1, <1>11 DEF Blocks
  <2> QED BY <1>1, <2>1
<1>15. ASSUME NEW i \in 0..(size + BufferSize - 2) PROVE nextBlk'[h[i]] = h[i + 1]
  <2>0. i \in 0..(size + BufferSize - 1) /\ i + 1 \in 0..(size + BufferSize - 1)
    BY <1>0
  <2>1. CASE i < len
    <3>1. h[i] = ring[i] /\ h[i + 1] = ring[i + 1] /\ i \in 0..(size - 1) /\ i \in 0..(size - 2)
      BY <1>0, <1>3, <2>0, <2>1
    <3> QED BY <1>8, <1>10, <2>1, <3>1
  <2>2. CASE i = len
    <3>1. h[i] = ring[len] /\ h[i + 1] = size + 1
      BY <1>0, <1>3, <2>0, <2>2
    <3> QED BY <1>0, <1>12, <3>1
  <2>3. CASE i > len /\ i < len + BufferSize
    <3>1. PICK b \in Int : b = size + (i - len)
      BY <1>0, <2>0
    <3>2. h[i] = b /\ h[i + 1] = b + 1 /\ b \in (size + 1)..(size + BufferSize - 1)
      BY <1>0, <1>3, <2>0, <2>3, <3>1
    <3> QED BY <1>13, <3>2
  <2>4. CASE i = len + BufferSize
    <3>1. h[i] = size + BufferSize /\ h[i + 1] = ring[len + 1] /\ len \in 0..(size - 2)
      <4>1. i + 1 - BufferSize = len + 1 /\ size + (i - len) = size + BufferSize
        BY <1>0, <2>4
      <4> QED BY <1>0, <1>3, <2>0, <2>4, <4>1
    <3> QED BY <1>0, <1>8, <1>14, <3>1
  <2>5. CASE i > len + BufferSize
    <3>1. PICK k \in 0..(size - 2) : k = i - BufferSize /\ k # len /\ k + 1 = i + 1 - BufferSize
      BY <1>0, <2>0, <2>5
    <3>2. h[i] = ring[k] /\ h[i + 1] = ring[k + 1] /\ k \in 0..(size - 1)
      BY <1>0, <1>3, <2>0, <2>5, <3>1
    <3> QED BY <1>8, <1>10, <3>1, <3>2
  <2> QED BY <1>0, <2>0, <2>1, <2>2, <2>3, <2>4, <2>5
<1>16. nextBlk'[h[size + BufferSize - 1]] = h[0]
  <2>0. h[0] = ring[0] /\ size + BufferSize - 1 \in 0..(size + BufferSize - 1) /\ size - 1 \in 0..(size - 1)
    BY <1>0, <1>3
  <2>1. CASE len = size - 1
    <3>1. h[size + BufferSize - 1] = size + BufferSize
      BY <1>0, <1>3, <2>0, <2>1
    <3> QED BY <1>0, <1>9, <1>14, <2>0, <2>1, <3>1
  <2>2. CASE len # size - 1
    <3>1. h[size + BufferSize - 1] = ring[size - 1]
      <4>1. size + BufferSize - 1 - BufferSize = size - 1
        BY <1>0
      <4> QED BY <1>0, <1>3, <2>0, <2>2, <4>1
    <3> QED BY <1>9, <1>10, <2>0, <2>2, <3>1
  <2> QED BY <2>1, <2>2
<1>17. RingIsLinked(h)'
  <2>1. size' = size + BufferSize /\ size' - 1 = size + BufferSize - 1 /\ size' - 2 = size + BufferSize - 2
    BY <1>0, <1>1
  <2>2. \A i \in 0..(size' - 1) : \A j \in 0..(size' - 1) : h[i] = h[j] => i = j
    BY <1>7, <2>1
  <2>3. \A i \in 0..(size' - 2) : nextBlk'[h[i]] = h[i + 1]
    BY <1>15, <2>1
  <2> QED BY <1>6, <1>16, <2>1, <2>2, <2>3, Zenon DEF RingIsLinked
<1>18. PointersAreOnRing(h)'
  <2>1. \A i \in 0..len : h[i] = ring[i]
    BY <1>0, <1>3
  <2>2. ASSUME NEW i \in 1..len PROVE content[h[i - 1]] = toAck[i]
    <3>1. i - 1 \in 0..len
      OBVIOUS
    <3> QED BY <1>2, <2>1, <3>1 DEF PointersAreOnRing
  <2>3. firstBlk = h[0] /\ currBlk = h[sentOn] /\ lastBlk = h[len]
    <3>1. 0 \in 0..len /\ sentOn \in 0..len /\ len \in 0..len
      BY <1>0
    <3> QED BY <1>0, <2>1, <3>1 DEF PointersAreOnRing
  <2>4. len < size' /\ sentOn <= len
    BY <1>0, <1>1
  <2> QED BY <1>1, <1>2, <2>2, <2>3, <2>4 DEF PointersAreOnRing
<1>19. SndBufferTypeOK'
  <2>1. nextBlk' \in [Blocks -> Int]
    <3>1. ASSUME NEW b \in Blocks PROVE nextBlk'[b] \in Int
      <4>1. b \in Int /\ nextBlk[b] \in Int /\ nextBlk[lastBlk] \in Int
        BY <1>0, <1>11 DEF Blocks
      <4> QED BY <1>0, <1>1, <4>1
    <3>2. nextBlk' = [b \in Blocks |-> nextBlk'[b]]
      BY <1>1
    <3> QED BY <3>1, <3>2
  <2>2. size' \in Nat \ {0} /\ size' <= MaxBlocks
    BY <1>0, <1>1
  <2> QED BY <1>0, <1>1, <2>1, <2>2 DEF SndBufferTypeOK
<1>20. CountIsRight'
  BY <1>1 DEF SndBufferInv, CountIsRight
<1>21. h \in [0..(size' - 1) -> 1..size']
  <2>1. size' = size + BufferSize
    BY <1>1
  <2>2. size' - 1 = size + BufferSize - 1
    BY <1>0, <2>1
  <2> QED BY ONLY <1>6, <2>1, <2>2
<1> QED BY <1>17, <1>18, <1>19, <1>20, <1>21, Zenon DEF SndBufferInv

\* Blocks are filled, and m_pLastBlock moves on.
LEMMA FillKeeps ==
  ASSUME SndBufferInv, Fill PROVE SndBufferInv'
<1> PICK ring \in [0..(size - 1) -> 1..size] : RingIsLinked(ring) /\ PointersAreOnRing(ring)
  BY DEF SndBufferInv
<1>1. PICK len \in Nat, full \in Nat : len = Len(toAck) /\ full = adder.full
  BY DEF SndBufferInv, SndBufferTypeOK
<1>2. /\ adder.at = "grow" /\ ~NeedsMore
      /\ content' = [b \in Blocks |-> IF \E i \in 1..full : b = After(lastBlk, i - 1)
                                      THEN payload + (CHOOSE i \in 1..full : b = After(lastBlk, i - 1))
                                      ELSE content[b]]
      /\ lastBlk' = After(lastBlk, full)
      /\ payload' = payload + full
      /\ toAck' = toAck \o [i \in 1..full |-> payload + i]
      /\ adder' = [adder EXCEPT !.at = "count"]
      /\ UNCHANGED <<nextBlk, firstBlk, currBlk, size, count, sentOn, missing>>
  BY <1>1 DEF Fill
<1>0. /\ SndBufferTypeOK /\ sentOn \in Nat /\ size \in Nat /\ sentOn <= len /\ len < size
      /\ lastBlk = ring[len] /\ payload \in Nat /\ missing \in Nat /\ size <= MaxBlocks /\ MaxBlocks \in Nat
      /\ full <= adder.blocks /\ adder.blocks \in Nat /\ count \in Int
  BY <1>1, SndBufferAssumption DEF SndBufferInv, SndBufferTypeOK, PointersAreOnRing
<1>3. len + full < size
  <2>1. count = len + missing
    BY <1>0, <1>1, <1>2 DEF SndBufferInv, CountIsRight
  <2>2. adder.blocks + count < size
    BY <1>0, <1>2 DEF NeedsMore
  <2> QED BY <1>0, <2>1, <2>2
<1>4. ASSUME NEW n \in Nat, n <= full PROVE After(lastBlk, n) = ring[len + n]
  <2>1. len + n < size
    BY <1>0, <1>3, <1>4
  <2> QED BY <1>0, <2>1, AfterIsOnRing
<1>5. ASSUME NEW i \in 1..full PROVE After(lastBlk, i - 1) = ring[len + i - 1] /\ len + i - 1 \in 0..(size - 1)
  <2>1. i - 1 \in Nat /\ i - 1 <= full /\ len + (i - 1) = len + i - 1
    OBVIOUS
  <2> QED BY <1>0, <1>3, <1>4, <2>1
<1>6. \A i \in 0..(size - 1) : ring[i] \in Blocks
  BY <1>0 DEF Blocks
<1>7. ASSUME NEW i \in 1..full PROVE content'[ring[len + i - 1]] = payload + i
  <2>1. PICK b \in Blocks : b = ring[len + i - 1] /\ b = After(lastBlk, i - 1)
    BY <1>5, <1>6
  <2>2. \E j \in 1..full : b = After(lastBlk, j - 1)
    BY <2>1
  <2>3. PICK k \in 1..full : k = (CHOOSE j \in 1..full : b = After(lastBlk, j - 1)) /\ b = After(lastBlk, k - 1)
    BY <2>2
  <2>4. k = i
    <3>1. ring[len + k - 1] = ring[len + i - 1] /\ len + k - 1 \in 0..(size - 1) /\ len + i - 1 \in 0..(size - 1)
      BY <1>5, <2>1, <2>3
    <3>2. len + k - 1 = len + i - 1
      BY <3>1 DEF RingIsLinked
    <3> QED BY <3>2
  <2>5. content'[b] = payload + (CHOOSE j \in 1..full : b = After(lastBlk, j - 1))
    BY <1>2, <2>2
  <2> QED BY <2>1, <2>3, <2>4, <2>5
<1>8. ASSUME NEW j \in 0..(len - 1) PROVE content'[ring[j]] = content[ring[j]]
  <2>1. j \in 0..(size - 1) /\ ring[j] \in Blocks
    BY <1>0, <1>6
  <2>2. ASSUME NEW i \in 1..full, ring[j] = After(lastBlk, i - 1) PROVE FALSE
    <3>1. ring[j] = ring[len + i - 1] /\ len + i - 1 \in 0..(size - 1)
      BY <1>5, <2>2
    <3>2. j = len + i - 1
      BY <2>1, <3>1 DEF RingIsLinked
    <3> QED BY <3>2
  <2> QED BY <1>2, <2>1, <2>2
<1>9. toAck' \in Seq(Int) /\ Len(toAck') = len + full
      /\ (\A i \in 1..len : toAck'[i] = toAck[i]) /\ (\A i \in 1..full : toAck'[len + i] = payload + i)
  <2>1. PICK new : new = [i \in 1..full |-> payload + i]
    OBVIOUS
  <2>2. new \in Seq(Int) /\ Len(new) = full /\ \A i \in 1..full : new[i] = payload + i
    <3>1. new \in [1..full -> Int]
      BY <1>0, <2>1
    <3> QED BY <2>1, <3>1
  <2>3. toAck \in Seq(Int) /\ toAck' = toAck \o new
    BY <1>0, <1>2, <2>1 DEF SndBufferTypeOK
  <2>4. /\ toAck \o new \in Seq(Int) /\ Len(toAck \o new) = len + full
        /\ \A i \in 1..(len + full) : (toAck \o new)[i] = IF i <= len THEN toAck[i] ELSE new[i - len]
    <3>1. Len(toAck) = len
      BY <1>1
    <3> QED BY ONLY <2>2, <2>3, <3>1, ConcatProperties
  <2>5. ASSUME NEW i \in 1..full PROVE toAck'[len + i] = payload + i
    <3>1. len + i \in 1..(len + full) /\ ~(len + i <= len) /\ len + i - len = i
      OBVIOUS
    <3> QED BY <2>2, <2>3, <2>4, <3>1
  <2>6. ASSUME NEW i \in 1..len PROVE toAck'[i] = toAck[i]
    <3>1. i \in 1..(len + full) /\ i <= len
      OBVIOUS
    <3> QED BY <2>3, <2>4, <3>1
  <2> QED BY <2>3, <2>4, <2>5, <2>6
<1>10. RingIsLinked(ring)'
  BY <1>2 DEF RingIsLinked
<1>11. PointersAreOnRing(ring)'
  <2>1. lastBlk' = ring[len + full]
    BY <1>2, <1>4
  <2>2. ASSUME NEW i \in 1..(len + full) PROVE content'[ring[i - 1]] = toAck'[i]
    <3>1. CASE i \in 1..len
      <4>1. i - 1 \in 0..(len - 1)
        BY <3>1
      <4>2. content[ring[i - 1]] = toAck[i]
        BY <1>1, <3>1 DEF PointersAreOnRing
      <4> QED BY <1>8, <1>9, <3>1, <4>1, <4>2
    <3>2. CASE i \notin 1..len
      <4>1. PICK k \in 1..full : i = len + k /\ i - 1 = len + k - 1
        BY <3>2
      <4>2. content'[ring[len + k - 1]] = payload + k /\ toAck'[len + k] = payload + k
        BY <1>7, <1>9
      <4> QED BY <4>1, <4>2
    <3> QED BY <3>1, <3>2
  <2>3. firstBlk' = ring[0] /\ currBlk' = ring[sentOn'] /\ sentOn' <= len + full /\ len + full < size'
    BY <1>0, <1>2, <1>3 DEF PointersAreOnRing
  <2> QED BY <1>9, <2>1, <2>2, <2>3 DEF PointersAreOnRing
<1>12. SndBufferTypeOK'
  <2>1. content' \in [Blocks -> Int]
    <3>1. ASSUME NEW b \in Blocks PROVE content'[b] \in Int
      <4>1. CASE \E i \in 1..full : b = After(lastBlk, i - 1)
        <5>1. PICK k \in 1..full : k = CHOOSE i \in 1..full : b = After(lastBlk, i - 1)
          BY <4>1
        <5>2. content'[b] = payload + k
          BY <1>2, <4>1, <5>1
        <5> QED BY <1>0, <5>2
      <4>2. CASE ~\E i \in 1..full : b = After(lastBlk, i - 1)
        <5>1. content'[b] = content[b]
          BY <1>2, <4>2
        <5> QED BY <1>0, <5>1 DEF SndBufferTypeOK
      <4> QED BY <4>1, <4>2
    <3>2. content' = [b \in Blocks |-> content'[b]]
      BY <1>2
    <3> QED BY <3>1, <3>2
  <2>2. payload' \in Nat
    BY <1>0, <1>2
  <2>3. adder' \in [at : {"idle", "grow", "count"}, blocks : Nat, full : Nat] /\ adder'.full <= adder'.blocks
    BY <1>0, <1>2 DEF SndBufferTypeOK
  <2>4. UNCHANGED <<nextBlk, size, count, sentOn, missing>>
    BY <1>2
  <2> QED BY <1>0, <1>9, <2>1, <2>2, <2>3, <2>4 DEF SndBufferTypeOK
<1>13. CountIsRight'
  <2>1. count = len + missing
    BY <1>0, <1>1, <1>2 DEF SndBufferInv, CountIsRight
  <2>2. adder'.at = "count" /\ adder'.full = full /\ count' = count /\ missing' = missing
    BY <1>0, <1>1, <1>2 DEF SndBufferTypeOK
  <2>3. count = len + full + missing - full
    BY <1>0, <2>1
  <2> QED BY <1>9, <2>2, <2>3 DEF CountIsRight
<1>14. ring \in [0..(size' - 1) -> 1..size']
  BY <1>2
<1> QED BY <1>10, <1>11, <1>12, <1>13, <1>14, Zenon DEF SndBufferInv

\* Whatever the three threads do to the ring of blocks, while it grows and when files end
\* early: every packet is found at its offset, a block is left, the count is right
\* (SndBufferIsRight).
THEOREM PacketsKeepTheirBlocks == SndBufferSpec => []SndBufferIsRight
<1>1. SndBufferInit => SndBufferInv
  BY SndBufferStarts
<1>2. SndBufferInv /\ [SndBufferNext]_sndBufferVars => SndBufferInv'
  <2> SUFFICES ASSUME SndBufferInv, [SndBufferNext]_sndBufferVars PROVE SndBufferInv'
    OBVIOUS
  <2>1. ASSUME NEW blocks \in SendSizes, NEW full \in 0..blocks, AddBegins(blocks, full) PROVE SndBufferInv'
    <3>1. blocks \in Nat
      BY SndBufferAssumption
    <3> QED BY <2>1, <3>1, AddBeginsKeeps
  <2>2. ASSUME NEW n \in 1..MaxBlocks, AckData(n) PROVE SndBufferInv'
    <3>1. n \in Nat
      BY SndBufferAssumption
    <3> QED BY <2>2, <3>1, AckDataKeeps
  <2>3. CASE UNCHANGED sndBufferVars
    <3> USE <2>3 DEF sndBufferVars
    <3>1. SndBufferTypeOK' /\ CountIsRight'
      BY DEF SndBufferInv, SndBufferTypeOK, CountIsRight
    <3>2. \E ring \in [0..(size - 1) -> 1..size]' : RingIsLinked(ring)' /\ PointersAreOnRing(ring)'
      BY Zenon DEF SndBufferInv, RingIsLinked, PointersAreOnRing
    <3> QED BY <3>1, <3>2, Zenon DEF SndBufferInv
  <2> QED BY <2>1, <2>2, <2>3, IncreaseKeeps, FillKeeps, CountUpKeeps, ReadInTurnKeeps DEF SndBufferNext
<1> QED BY <1>1, <1>2, SndBufferImplies, PTL DEF SndBufferSpec

-----------------------------------------------------------------------------
(***************************************************************************)
(* UdtRcvBuffer                                                            *)
(***************************************************************************)
\* The invariant: s is the number of packets read when startPos was last written, and l the
\* first packet that was not readable when the read under way began.
RcvBufferTypeOK ==
  /\ slot \in [0..(RcvSlots - 1) -> Nat]
  /\ startPos \in 0..(RcvSlots - 1) /\ lastAckPos \in 0..(RcvSlots - 1)
  /\ notch \in Nat /\ rcvLastAck \in Nat /\ consumed \in Nat
  /\ arriving \in [n : Nat, wrapped : BOOLEAN]
  /\ reading \in [at : {"idle", "unit"}, p : 0..(RcvSlots - 1), lastack : 0..(RcvSlots - 1), rs : Nat]

Positions(s) ==
  /\ startPos = s % RcvSlots /\ lastAckPos = (rcvLastAck - 1) % RcvSlots
  /\ s <= consumed /\ consumed + 1 <= rcvLastAck /\ rcvLastAck <= s + RcvSlots

ReadingIsWithin(s, l) ==
  /\ reading.at = "idle" => s = consumed
  /\ reading.at = "unit" =>
       /\ reading.p = consumed % RcvSlots /\ reading.lastack = (l - 1) % RcvSlots
       /\ consumed + 1 <= l /\ l <= rcvLastAck

PacketsAreInTheirSlots(s) ==
  \A i \in 0..(RcvSlots - 1) :
    slot[i] # 0 =>
      i = (slot[i] - 1) % RcvSlots /\ consumed < slot[i] /\ slot[i] <= s + RcvSlots - 1

ReadableIsThere ==
  \A n \in Nat : consumed < n /\ n < rcvLastAck => \E i \in 0..(RcvSlots - 1) : slot[i] = n

NotchIsWithin == notch < PacketBytes(consumed + 1)

\* A comparison that was made before startPos moved errs to the safe side only.
ComparisonIsSafe == arriving # NoArrival /\ ~arriving.wrapped => startPos <= lastAckPos

RcvBufferParts(s, l) ==
  /\ Positions(s) /\ ReadingIsWithin(s, l) /\ PacketsAreInTheirSlots(s)
  /\ ReadableIsThere /\ NotchIsWithin /\ ComparisonIsSafe

RcvBufferInv == RcvBufferTypeOK /\ \E s \in Nat, l \in Nat : RcvBufferParts(s, l)

\* Packets have one or two bytes.
LEMMA PacketBytesType == ASSUME NEW n \in Nat PROVE PacketBytes(n) \in {1, 2}
BY DEF PacketBytes

\* The space that is taken to be free is never more than what is free.
LEMMA SpaceIsThere ==
  ASSUME RcvBufferTypeOK, NEW s \in Nat, Positions(s), ComparisonIsSafe, arriving # NoArrival
  PROVE  AvailSize(arriving.wrapped) \in Int /\ AvailSize(arriving.wrapped) <= RcvSlots - (rcvLastAck - 1 - s) - 1
<1> DEFINE x == rcvLastAck - 1
<1>1. x \in Nat /\ s <= x /\ x < s + RcvSlots /\ RcvSlots \in Nat \ {0} /\ rcvLastAck \in Nat
  BY RcvBufferAssumption DEF Positions, RcvBufferTypeOK
<1>2. /\ s % RcvSlots <= x % RcvSlots => x - s = (x % RcvSlots) - (s % RcvSlots)
      /\ s % RcvSlots > x % RcvSlots => x - s = RcvSlots + (x % RcvSlots) - (s % RcvSlots)
  BY <1>1, RingDistance
<1>3. startPos = s % RcvSlots /\ lastAckPos = x % RcvSlots /\ startPos \in 0..(RcvSlots - 1) /\ lastAckPos \in 0..(RcvSlots - 1)
  BY DEF Positions, RcvBufferTypeOK
<1>4. arriving.wrapped \/ startPos <= lastAckPos
  BY DEF ComparisonIsSafe
<1>5. /\ startPos <= lastAckPos => x - s = lastAckPos - startPos
      /\ startPos > lastAckPos => x - s = RcvSlots + lastAckPos - startPos
  BY ONLY <1>2, <1>3, Zenon
<1>6. PICK w \in BOOLEAN : w = arriving.wrapped
  BY DEF RcvBufferTypeOK
<1>7. AvailSize(w) \in Int /\ AvailSize(w) <= RcvSlots - (rcvLastAck - 1 - s) - 1
  BY ONLY <1>1, <1>3, <1>4, <1>5, <1>6, s \in Nat DEF AvailSize
<1> QED BY <1>6, <1>7

\* A packet that is accepted goes to its own slot, within the round that starts at s.
LEMMA AcceptedSlot ==
  ASSUME RcvBufferTypeOK, NEW s \in Nat, Positions(s), ComparisonIsSafe, arriving # NoArrival,
         arriving.n - rcvLastAck \in 0..(AvailSize(arriving.wrapped) - 1)
  PROVE  /\ arriving.n >= rcvLastAck /\ arriving.n <= s + RcvSlots - 1
         /\ SlotFor(arriving.n - rcvLastAck) = (arriving.n - 1) % RcvSlots
         /\ SlotFor(arriving.n - rcvLastAck) \in 0..(RcvSlots - 1)
<1>0. RcvSlots \in Nat \ {0} /\ rcvLastAck \in Nat /\ rcvLastAck >= 1 /\ arriving.n \in Nat
  BY RcvBufferAssumption DEF RcvBufferTypeOK, Positions
<1>1. PICK a \in Int : a = AvailSize(arriving.wrapped) /\ a <= RcvSlots - (rcvLastAck - 1 - s) - 1
  BY SpaceIsThere
<1>2. arriving.n >= rcvLastAck /\ arriving.n <= s + RcvSlots - 1
  BY ONLY <1>0, <1>1, s \in Nat, arriving.n - rcvLastAck \in 0..(a - 1)
<1>3. PICK x \in Nat, y \in Nat : x = rcvLastAck - 1 /\ y = arriving.n - rcvLastAck /\ x + y = arriving.n - 1
  BY <1>0, <1>2
<1>4. SlotFor(y) = ((x % RcvSlots) + y) % RcvSlots
  BY <1>3 DEF SlotFor, Positions
<1>5. SlotFor(y) = (x + y) % RcvSlots
  BY <1>0, <1>4, SlotSum
<1>6. (x + y) % RcvSlots \in 0..(RcvSlots - 1)
  <2>1. x + y \in Nat
    OBVIOUS
  <2>2. PICK z \in Nat : z = x + y
    BY <2>1
  <2>3. z % RcvSlots \in 0..(RcvSlots - 1)
    BY <1>0, RemainderIsSlot
  <2> QED BY <2>2, <2>3
<1> QED BY <1>2, <1>3, <1>5, <1>6

\* The invariant implies the property.
LEMMA RcvBufferImplies ==
  ASSUME RcvBufferInv PROVE RcvBufferIsRight
<1> PICK s \in Nat, l \in Nat : RcvBufferParts(s, l)
  BY DEF RcvBufferInv
<1> USE DEF RcvBufferParts
<1>0. RcvBufferTypeOK /\ RcvSlots \in Nat \ {0}
  BY RcvBufferAssumption DEF RcvBufferInv
<1>1. NextUnitIsNext
  <2> SUFFICES ASSUME HasUnit PROVE slot[reading.p] = consumed + 1 /\ notch < PacketBytes(consumed + 1)
    BY DEF NextUnitIsNext
  <2>1. consumed # l - 1 /\ consumed + 1 <= l /\ l <= rcvLastAck /\ consumed \in Nat /\ rcvLastAck \in Nat
    BY <1>0 DEF HasUnit, ReadingIsWithin, RcvBufferTypeOK
  <2>2. PICK i \in 0..(RcvSlots - 1) : slot[i] = consumed + 1
    <3>1. consumed + 1 \in Nat /\ consumed < consumed + 1 /\ consumed + 1 < rcvLastAck
      BY <2>1
    <3> QED BY <3>1 DEF ReadableIsThere
  <2>3. i = (consumed + 1 - 1) % RcvSlots
    BY <2>1, <2>2 DEF PacketsAreInTheirSlots
  <2>4. consumed + 1 - 1 = consumed
    BY <2>1
  <2>5. i = reading.p
    BY <2>3, <2>4 DEF HasUnit, ReadingIsWithin
  <2> QED BY <2>2, <2>5 DEF NotchIsWithin
<1>2. NoFalseDuplicate
  <2> SUFFICES ASSUME arriving # NoArrival,
                      arriving.n - rcvLastAck \in 0..(AvailSize(arriving.wrapped) - 1)
               PROVE  slot[SlotFor(arriving.n - rcvLastAck)] \in {0, arriving.n}
    BY DEF NoFalseDuplicate
  <2>1. PICK i \in 0..(RcvSlots - 1) : i = SlotFor(arriving.n - rcvLastAck) /\ i = (arriving.n - 1) % RcvSlots
    BY <1>0, AcceptedSlot
  <2>2. arriving.n >= rcvLastAck /\ arriving.n <= s + RcvSlots - 1
    BY <1>0, AcceptedSlot
  <2>3. CASE slot[i] # 0
    <3>1. PICK m \in Nat : m = slot[i]
      BY <1>0 DEF RcvBufferTypeOK
    <3>2. i = (m - 1) % RcvSlots /\ consumed < m /\ m <= s + RcvSlots - 1
      BY <2>3, <3>1 DEF PacketsAreInTheirSlots
    <3>3. PICK n \in Nat : n = arriving.n
      BY <1>0 DEF RcvBufferTypeOK
    <3>4. consumed \in Nat /\ rcvLastAck \in Nat /\ s <= consumed /\ consumed + 1 <= rcvLastAck
      BY <1>0 DEF RcvBufferTypeOK, Positions
    <3>5. m - 1 \in Nat /\ n - 1 \in Nat /\ n - 1 < m - 1 + RcvSlots /\ m - 1 < n - 1 + RcvSlots
      BY ONLY <1>0, <2>2, <3>1, <3>2, <3>3, <3>4, s \in Nat
    <3>6. (m - 1) % RcvSlots = (n - 1) % RcvSlots
      BY <2>1, <3>2, <3>3
    <3>7. PICK u \in Nat, v \in Nat : u = m - 1 /\ v = n - 1
      BY <3>5
    <3>8. u = v
      <4>1. u <= v \/ v <= u
        OBVIOUS
      <4>2. u < v + RcvSlots /\ v < u + RcvSlots /\ u % RcvSlots = v % RcvSlots
        BY <3>5, <3>6, <3>7
      <4> QED BY ONLY <1>0, <4>1, <4>2, u \in Nat, v \in Nat, SlotsDiffer
    <3> QED BY <2>1, <3>1, <3>3, <3>7, <3>8
  <2> QED BY <2>1, <2>3
<1> QED BY <1>1, <1>2 DEF RcvBufferIsRight

\* The buffer is empty at first.
LEMMA RcvBufferStarts == RcvBufferInit => RcvBufferInv
<1> SUFFICES ASSUME RcvBufferInit PROVE RcvBufferInv
  OBVIOUS
<1> USE RcvBufferAssumption DEF RcvBufferInit
<1>1. RcvBufferTypeOK
  BY DEF RcvBufferTypeOK, NoArrival, NoReading
<1>2. 0 % RcvSlots = 0
  OBVIOUS
<1>3. Positions(0)
  BY <1>2 DEF Positions
<1>4. ReadingIsWithin(0, 0)
  BY DEF ReadingIsWithin, NoReading
<1>5. PacketsAreInTheirSlots(0)
  BY DEF PacketsAreInTheirSlots
<1>6. ReadableIsThere
  BY DEF ReadableIsThere
<1>7. NotchIsWithin
  BY PacketBytesType DEF NotchIsWithin
<1>8. ComparisonIsSafe
  BY DEF ComparisonIsSafe
<1> QED BY <1>1, <1>3, <1>4, <1>5, <1>6, <1>7, <1>8 DEF RcvBufferInv, RcvBufferParts

\* A packet comes, whose place is worked out before the buffer is locked.
LEMMA ArriveKeeps ==
  ASSUME RcvBufferInv, NEW n \in Nat, Arrive(n) PROVE RcvBufferInv'
<1> PICK s \in Nat, l \in Nat : RcvBufferParts(s, l)
  BY DEF RcvBufferInv
<1> USE DEF Arrive
<1>1. RcvBufferTypeOK'
  BY DEF RcvBufferInv, RcvBufferTypeOK
<1>2. Positions(s)' /\ ReadingIsWithin(s, l)' /\ PacketsAreInTheirSlots(s)'
  BY DEF RcvBufferParts, Positions, ReadingIsWithin, PacketsAreInTheirSlots
<1>3. ReadableIsThere' /\ NotchIsWithin'
  BY DEF RcvBufferParts, ReadableIsThere, NotchIsWithin
<1>4. ComparisonIsSafe'
  <2>1. arriving'.wrapped <=> lastAckPos < startPos
    OBVIOUS
  <2>2. startPos \in Int /\ lastAckPos \in Int
    BY DEF RcvBufferInv, RcvBufferTypeOK
  <2> QED BY <2>1, <2>2 DEF ComparisonIsSafe
<1> QED BY <1>1, <1>2, <1>3, <1>4 DEF RcvBufferInv, RcvBufferParts

\* It is put where it belongs, unless something is there.
LEMMA AddDataKeeps ==
  ASSUME RcvBufferInv, AddData PROVE RcvBufferInv'
<1> PICK s \in Nat, l \in Nat : RcvBufferParts(s, l)
  BY DEF RcvBufferInv
<1>0. RcvBufferTypeOK /\ Positions(s) /\ ComparisonIsSafe /\ arriving # NoArrival
  BY DEF RcvBufferInv, RcvBufferParts, AddData
<1>a. UNCHANGED <<startPos, lastAckPos, notch, rcvLastAck, reading, consumed>> /\ arriving' = NoArrival
  BY DEF AddData
<1>1. CASE slot' = slot
  <2>1. RcvBufferTypeOK'
    BY <1>0, <1>1, <1>a DEF RcvBufferTypeOK, NoArrival
  <2>2. Positions(s)' /\ ReadingIsWithin(s, l)' /\ PacketsAreInTheirSlots(s)'
    BY <1>1, <1>a DEF RcvBufferParts, Positions, ReadingIsWithin, PacketsAreInTheirSlots
  <2>3. ReadableIsThere' /\ NotchIsWithin'
    BY <1>1, <1>a DEF RcvBufferParts, ReadableIsThere, NotchIsWithin
  <2>4. ComparisonIsSafe'
    BY <1>a DEF ComparisonIsSafe
  <2> QED BY <2>1, <2>2, <2>3, <2>4 DEF RcvBufferInv, RcvBufferParts
<1>2. CASE slot' # slot
  <2>1. /\ arriving.n - rcvLastAck \in 0..(AvailSize(arriving.wrapped) - 1)
        /\ slot[SlotFor(arriving.n - rcvLastAck)] = 0
        /\ slot' = [slot EXCEPT ![SlotFor(arriving.n - rcvLastAck)] = arriving.n]
    BY <1>2 DEF AddData
  <2>2. PICK i \in 0..(RcvSlots - 1) : i = SlotFor(arriving.n - rcvLastAck) /\ i = (arriving.n - 1) % RcvSlots
    BY <1>0, <2>1, AcceptedSlot
  <2>3. PICK n \in Nat : n = arriving.n
    BY <1>0 DEF RcvBufferTypeOK
  <2>4. n >= rcvLastAck /\ n <= s + RcvSlots - 1
    BY <1>0, <2>1, <2>3, AcceptedSlot
  <2>5. slot[i] = 0 /\ slot' = [slot EXCEPT ![i] = n] /\ i = (n - 1) % RcvSlots
    BY <2>1, <2>2, <2>3
  <2>6. RcvBufferTypeOK'
    BY <1>0, <2>5, <1>a DEF RcvBufferTypeOK, NoArrival
  <2>7. Positions(s)' /\ ReadingIsWithin(s, l)'
    BY <1>a DEF RcvBufferParts, Positions, ReadingIsWithin
  <2>8. consumed < n
    BY <1>0, <2>4 DEF Positions, RcvBufferTypeOK
  <2>9. PacketsAreInTheirSlots(s)'
    <3> SUFFICES ASSUME NEW k \in 0..(RcvSlots - 1), slot'[k] # 0
                 PROVE  k = (slot'[k] - 1) % RcvSlots /\ consumed < slot'[k] /\ slot'[k] <= s + RcvSlots - 1
      BY <1>a DEF PacketsAreInTheirSlots
    <3>1. CASE k = i
      <4>1. slot'[k] = n
        BY <1>0, <2>5, <3>1 DEF RcvBufferTypeOK
      <4> QED BY <2>4, <2>5, <2>8, <3>1, <4>1
    <3>2. CASE k # i
      <4>1. slot'[k] = slot[k]
        BY <1>0, <2>5, <3>2 DEF RcvBufferTypeOK
      <4> QED BY <4>1, Zenon DEF RcvBufferParts, PacketsAreInTheirSlots
    <3> QED BY <3>1, <3>2
  <2>10. ReadableIsThere'
    <3> SUFFICES ASSUME NEW m \in Nat, consumed < m, m < rcvLastAck
                 PROVE  \E k \in 0..(RcvSlots - 1) : slot'[k] = m
      BY <1>a DEF ReadableIsThere
    <3>1. PICK k \in 0..(RcvSlots - 1) : slot[k] = m
      BY DEF RcvBufferParts, ReadableIsThere
    <3>2. k # i
      BY <1>0, <2>5, <3>1 DEF RcvBufferTypeOK
    <3> QED BY <1>0, <2>5, <3>1, <3>2 DEF RcvBufferTypeOK
  <2>11. NotchIsWithin' /\ ComparisonIsSafe'
    BY <1>a DEF RcvBufferParts, NotchIsWithin, ComparisonIsSafe
  <2> QED BY <2>6, <2>7, <2>9, <2>10, <2>11 DEF RcvBufferInv, RcvBufferParts
<1> QED BY <1>1, <1>2

\* The first packet that is not there is at most a round away, and all before it are there.
LEMMA AckUpToIs ==
  ASSUME RcvBufferTypeOK, NEW s \in Nat, Positions(s), PacketsAreInTheirSlots(s)
  PROVE  /\ AckUpTo \in Nat /\ rcvLastAck <= AckUpTo /\ AckUpTo <= rcvLastAck + RcvSlots
         /\ \A n \in Nat : rcvLastAck <= n /\ n < AckUpTo => \E i \in 0..(RcvSlots - 1) : slot[i] = n
<1> DEFINE S == {n \in rcvLastAck..(rcvLastAck + RcvSlots) : ~\E i \in DOMAIN slot : slot[i] = n}
<1>0. DOMAIN slot = 0..(RcvSlots - 1) /\ rcvLastAck \in Nat /\ RcvSlots \in Nat /\ s < rcvLastAck
  BY RcvBufferAssumption DEF RcvBufferTypeOK, Positions
<1>1. S \in SUBSET Nat
  BY <1>0
<1>2. rcvLastAck + RcvSlots \in S
  <2> SUFFICES ASSUME NEW i \in 0..(RcvSlots - 1), slot[i] = rcvLastAck + RcvSlots PROVE FALSE
    BY <1>0
  <2>1. slot[i] # 0
    BY <1>0 DEF Positions
  <2>2. rcvLastAck + RcvSlots <= s + RcvSlots - 1
    BY <2>1, Zenon DEF PacketsAreInTheirSlots
  <2> QED BY ONLY <1>0, <2>2, s \in Nat
<1>3. PICK m \in S : \A k \in S : m <= k
  BY <1>1, <1>2, LeastNatural
<1>4. AckUpTo \in S /\ \A k \in S : AckUpTo <= k
  BY <1>3 DEF AckUpTo, Min
<1>5. AckUpTo \in Nat /\ rcvLastAck <= AckUpTo /\ AckUpTo <= rcvLastAck + RcvSlots
  BY <1>0, <1>4
<1>6. ASSUME NEW n \in Nat, rcvLastAck <= n, n < AckUpTo PROVE \E i \in 0..(RcvSlots - 1) : slot[i] = n
  <2>1. n \notin S
    BY <1>4, <1>5, <1>6
  <2>2. n \in rcvLastAck..(rcvLastAck + RcvSlots)
    BY <1>0, <1>5, <1>6
  <2> QED BY <1>0, <2>1, <2>2
<1> QED BY <1>5, <1>6

\* What has arrived in order is acknowledged.
LEMMA AckArrivedKeeps ==
  ASSUME RcvBufferInv, AckArrived PROVE RcvBufferInv'
<1> PICK s \in Nat, l \in Nat : RcvBufferParts(s, l)
  BY DEF RcvBufferInv
<1>0. RcvBufferTypeOK /\ Positions(s) /\ PacketsAreInTheirSlots(s) /\ RcvSlots \in Nat \ {0}
  BY RcvBufferAssumption DEF RcvBufferInv, RcvBufferParts
<1>1. PICK a \in Nat : a = AckUpTo
  BY <1>0, AckUpToIs
<1>2. /\ \A n \in Nat : rcvLastAck <= n /\ n < a => \E i \in 0..(RcvSlots - 1) : slot[i] = n
      /\ rcvLastAck < a /\ lastAckPos' = (lastAckPos + (a - rcvLastAck)) % RcvSlots /\ rcvLastAck' = a
      /\ arriving = NoArrival /\ UNCHANGED <<slot, startPos, notch, arriving, reading, consumed>>
  BY <1>0, <1>1, AckUpToIs DEF AckArrived, RcvBufferTypeOK
<1>3. rcvLastAck \in Nat /\ consumed \in Nat /\ s <= consumed /\ consumed + 1 <= rcvLastAck
  BY <1>0 DEF Positions, RcvBufferTypeOK
<1>4. PICK x \in Nat, y \in Nat : x = rcvLastAck - 1 /\ y = a - rcvLastAck /\ x + y = a - 1
  BY <1>2, <1>3
<1>5. lastAckPos' = (a - 1) % RcvSlots
  <2>1. lastAckPos' = ((x % RcvSlots) + y) % RcvSlots
    BY <1>0, <1>2, <1>4 DEF Positions
  <2> QED BY <1>0, <1>4, <2>1, SlotSum
<1>6. lastAckPos' \in 0..(RcvSlots - 1)
  <2>1. a - 1 \in Nat
    BY <1>2, <1>3
  <2> QED BY <1>0, <1>5, <2>1, RemainderIsSlot
<1>7. RcvBufferTypeOK'
  BY <1>0, <1>2, <1>6 DEF RcvBufferTypeOK
<1>8. a <= s + RcvSlots
  <2>1. a - 1 \in Nat /\ rcvLastAck <= a - 1 /\ a - 1 < a
    BY <1>2, <1>3
  <2>2. PICK i \in 0..(RcvSlots - 1) : slot[i] = a - 1
    BY <1>2, <2>1
  <2>3. slot[i] # 0
    BY <1>3, <2>1, <2>2
  <2>4. a - 1 <= s + RcvSlots - 1
    BY <1>0, <2>2, <2>3, Zenon DEF PacketsAreInTheirSlots
  <2> QED BY <1>0, <2>4
<1>9. Positions(s)'
  BY <1>2, <1>3, <1>5, <1>8, <1>0 DEF Positions
<1>10. ReadingIsWithin(s, l)'
  <2>1. ReadingIsWithin(s, l) /\ l <= rcvLastAck => l <= a
    BY <1>2, <1>3
  <2> QED BY <1>2, <2>1 DEF RcvBufferParts, ReadingIsWithin
<1>11. PacketsAreInTheirSlots(s)' /\ NotchIsWithin' /\ ComparisonIsSafe'
  BY <1>2 DEF RcvBufferParts, PacketsAreInTheirSlots, NotchIsWithin, ComparisonIsSafe
<1>12. ReadableIsThere'
  <2> SUFFICES ASSUME NEW m \in Nat, consumed < m, m < a
               PROVE  \E k \in 0..(RcvSlots - 1) : slot[k] = m
    BY <1>2 DEF ReadableIsThere
  <2>1. CASE m < rcvLastAck
    BY <2>1 DEF RcvBufferParts, ReadableIsThere
  <2>2. CASE rcvLastAck <= m
    BY <1>2, <2>2
  <2> QED BY <1>3, <2>1, <2>2
<1> QED BY <1>7, <1>9, <1>10, <1>11, <1>12 DEF RcvBufferInv, RcvBufferParts

\* A read starts where the last one stopped.
LEMMA ReadBeginsKeeps ==
  ASSUME RcvBufferInv, NEW len \in Nat, ReadBegins(len) PROVE RcvBufferInv'
<1> PICK s \in Nat, l \in Nat : RcvBufferParts(s, l)
  BY DEF RcvBufferInv
<1>0. RcvBufferTypeOK /\ Positions(s) /\ ReadingIsWithin(s, l)
  BY DEF RcvBufferInv, RcvBufferParts
<1>1. /\ reading = NoReading
      /\ reading' = [at |-> "unit", p |-> startPos, lastack |-> lastAckPos, rs |-> len]
      /\ UNCHANGED <<slot, startPos, lastAckPos, notch, rcvLastAck, arriving, consumed>>
  BY DEF ReadBegins
<1>2. RcvBufferTypeOK'
  BY <1>0, <1>1 DEF RcvBufferTypeOK
<1>3. s = consumed
  BY <1>0, <1>1 DEF NoReading, ReadingIsWithin
<1>4. PICK r \in Nat : r = rcvLastAck
  BY <1>0 DEF RcvBufferTypeOK
<1>5. ReadingIsWithin(s, r)'
  BY <1>0, <1>1, <1>3, <1>4 DEF ReadingIsWithin, Positions
<1>6. Positions(s)' /\ PacketsAreInTheirSlots(s)'
  BY <1>1 DEF RcvBufferParts, Positions, PacketsAreInTheirSlots
<1>7. ReadableIsThere' /\ NotchIsWithin' /\ ComparisonIsSafe'
  BY <1>1 DEF RcvBufferParts, ReadableIsThere, NotchIsWithin, ComparisonIsSafe
<1> QED BY <1>2, <1>5, <1>6, <1>7 DEF RcvBufferInv, RcvBufferParts

\* It takes a packet whole and goes to the next.
LEMMA ReadWholeKeeps ==
  ASSUME RcvBufferInv, ReadWhole PROVE RcvBufferInv'
<1> PICK s \in Nat, l \in Nat : RcvBufferParts(s, l)
  BY DEF RcvBufferInv
<1>0. RcvBufferTypeOK /\ Positions(s) /\ ReadingIsWithin(s, l) /\ PacketsAreInTheirSlots(s) /\ RcvSlots \in Nat \ {0}
  BY RcvBufferAssumption DEF RcvBufferInv, RcvBufferParts
<1>1. /\ HasUnit /\ reading.rs >= Left
      /\ slot' = [slot EXCEPT ![reading.p] = 0]
      /\ reading' = [reading EXCEPT !.p = (reading.p + 1) % RcvSlots, !.rs = reading.rs - Left]
      /\ notch' = 0 /\ consumed' = consumed + 1
      /\ UNCHANGED <<startPos, lastAckPos, rcvLastAck, arriving>>
  BY DEF ReadWhole
<1>2. slot[reading.p] = consumed + 1 /\ notch < PacketBytes(consumed + 1)
  BY <1>1, RcvBufferImplies DEF RcvBufferIsRight, NextUnitIsNext
<1>3. PICK p \in 0..(RcvSlots - 1) : p = reading.p
  BY <1>0 DEF RcvBufferTypeOK
<1>4. p = consumed % RcvSlots /\ reading.lastack = (l - 1) % RcvSlots /\ p # reading.lastack
      /\ consumed + 1 <= l /\ l <= rcvLastAck /\ reading.at = "unit"
  BY <1>0, <1>1, <1>3 DEF HasUnit, ReadingIsWithin
<1>5. consumed \in Nat /\ rcvLastAck \in Nat /\ notch \in Nat /\ reading.rs \in Nat
  BY <1>0 DEF RcvBufferTypeOK
<1>6. consumed + 1 <= l - 1
  <2>1. consumed # l - 1
    BY <1>4
  <2> QED BY <1>4, <1>5, <2>1
<1>7. reading'.p = (consumed + 1) % RcvSlots /\ reading'.p \in 0..(RcvSlots - 1)
  <2>1. reading'.p = ((consumed % RcvSlots) + 1) % RcvSlots
    BY <1>0, <1>1, <1>3, <1>4 DEF RcvBufferTypeOK
  <2>2. PICK y \in Nat : y = 1
    OBVIOUS
  <2>3. ((consumed % RcvSlots) + y) % RcvSlots = (consumed + y) % RcvSlots
    BY <1>0, <1>5, SlotSum
  <2>4. PICK z \in Nat : z = consumed + 1
    BY <1>5
  <2>5. z % RcvSlots \in 0..(RcvSlots - 1)
    BY <1>0, RemainderIsSlot
  <2> QED BY <2>1, <2>2, <2>3, <2>4, <2>5
<1>8. reading.rs - Left \in Nat
  <2>1. PICK b \in Nat : b = PacketBytes(consumed + 1)
    BY <1>5, PacketBytesType
  <2>2. Left = b - notch
    BY <1>2, <2>1 DEF Left
  <2> QED BY ONLY <1>1, <1>5, <2>1, <2>2
<1>9. RcvBufferTypeOK'
  <2>1. reading' \in [at : {"idle", "unit"}, p : 0..(RcvSlots - 1), lastack : 0..(RcvSlots - 1), rs : Nat]
    <3>1. reading'.p \in 0..(RcvSlots - 1) /\ reading' = [reading EXCEPT !.p = reading'.p, !.rs = reading.rs - Left]
      BY <1>0, <1>1, <1>7 DEF RcvBufferTypeOK
    <3> QED BY <1>0, <1>8, <3>1 DEF RcvBufferTypeOK
  <2>2. slot' \in [0..(RcvSlots - 1) -> Nat]
    BY <1>0, <1>1, <1>3 DEF RcvBufferTypeOK
  <2>3. UNCHANGED <<startPos, lastAckPos, rcvLastAck, arriving>> /\ notch' \in Nat /\ consumed' \in Nat
    BY <1>1, <1>5
  <2> QED BY <1>0, <2>1, <2>2, <2>3 DEF RcvBufferTypeOK
<1>10. Positions(s)'
  BY <1>0, <1>1, <1>4, <1>5, <1>6 DEF Positions
<1>11. reading'.at = "unit" /\ reading'.lastack = reading.lastack
  BY <1>0, <1>1, <1>4 DEF RcvBufferTypeOK
<1>12. ReadingIsWithin(s, l)'
  <2>1. consumed' + 1 <= l /\ l <= rcvLastAck'
    BY <1>1, <1>4, <1>5, <1>6
  <2> QED BY <1>1, <1>4, <1>7, <1>11, <2>1 DEF ReadingIsWithin
<1>13. ASSUME NEW k \in 0..(RcvSlots - 1), k # p PROVE slot'[k] = slot[k] /\ slot[k] # consumed + 1
  <2>1. slot'[k] = slot[k]
    BY <1>0, <1>1, <1>3, <1>13 DEF RcvBufferTypeOK
  <2>2. ASSUME slot[k] = consumed + 1 PROVE FALSE
    <3>1. slot[k] # 0 /\ consumed + 1 - 1 = consumed
      BY <1>5, <2>2
    <3>2. k = (slot[k] - 1) % RcvSlots
      BY <1>0, <3>1, Zenon DEF PacketsAreInTheirSlots
    <3>3. k = consumed % RcvSlots
      <4>1. slot[k] - 1 = consumed
        BY <1>5, <2>2
      <4> QED BY ONLY <3>2, <4>1, Zenon
    <3> QED BY <1>4, <1>13, <3>3
  <2> QED BY <2>1, <2>2
<1>14. slot'[p] = 0
  BY <1>0, <1>1, <1>3 DEF RcvBufferTypeOK
<1>15. PacketsAreInTheirSlots(s)'
  <2> SUFFICES ASSUME NEW k \in 0..(RcvSlots - 1), slot'[k] # 0
               PROVE  k = (slot'[k] - 1) % RcvSlots /\ consumed + 1 < slot'[k] /\ slot'[k] <= s + RcvSlots - 1
    BY <1>1 DEF PacketsAreInTheirSlots
  <2>1. k # p /\ slot'[k] = slot[k] /\ slot[k] # consumed + 1
    BY <1>13, <1>14
  <2>2. k = (slot[k] - 1) % RcvSlots /\ consumed < slot[k] /\ slot[k] <= s + RcvSlots - 1
    BY <1>0, <2>1, Zenon DEF PacketsAreInTheirSlots
  <2>3. PICK m \in Nat : m = slot[k]
    BY <1>0 DEF RcvBufferTypeOK
  <2>4. consumed + 1 < m
    BY ONLY <1>5, <2>1, <2>2, <2>3
  <2> QED BY <2>1, <2>2, <2>3, <2>4
<1>16. ReadableIsThere'
  <2> SUFFICES ASSUME NEW m \in Nat, consumed + 1 < m, m < rcvLastAck
               PROVE  \E k \in 0..(RcvSlots - 1) : slot'[k] = m
    BY <1>1 DEF ReadableIsThere
  <2>1. consumed < m
    BY <1>5
  <2>2. PICK k \in 0..(RcvSlots - 1) : slot[k] = m
    BY <2>1 DEF RcvBufferParts, ReadableIsThere
  <2>3. k # p
    BY <1>2, <1>3, <1>5, <2>2
  <2> QED BY <1>13, <2>2, <2>3
<1>17. NotchIsWithin'
  BY <1>1, <1>5, PacketBytesType DEF NotchIsWithin
<1>18. ComparisonIsSafe'
  BY <1>1 DEF RcvBufferParts, ComparisonIsSafe
<1> QED BY <1>9, <1>10, <1>12, <1>15, <1>16, <1>17, <1>18 DEF RcvBufferInv, RcvBufferParts

\* It takes part of a packet, and the notch remembers.
LEMMA ReadPartKeeps ==
  ASSUME RcvBufferInv, ReadPart PROVE RcvBufferInv'
<1> PICK s \in Nat, l \in Nat : RcvBufferParts(s, l)
  BY DEF RcvBufferInv
<1>0. RcvBufferTypeOK
  BY DEF RcvBufferInv
<1>1. /\ HasUnit /\ reading.rs < Left
      /\ notch' = notch + reading.rs /\ reading' = [reading EXCEPT !.rs = 0]
      /\ UNCHANGED <<slot, startPos, lastAckPos, rcvLastAck, arriving, consumed>>
  BY DEF ReadPart
<1>2. slot[reading.p] = consumed + 1
  BY <1>1, RcvBufferImplies DEF RcvBufferIsRight, NextUnitIsNext
<1>3. RcvBufferTypeOK'
  <2>1. reading' \in [at : {"idle", "unit"}, p : 0..(RcvSlots - 1), lastack : 0..(RcvSlots - 1), rs : Nat]
    BY <1>0, <1>1 DEF RcvBufferTypeOK
  <2>2. notch' \in Nat
    BY <1>0, <1>1 DEF RcvBufferTypeOK
  <2>3. UNCHANGED <<slot, startPos, lastAckPos, rcvLastAck, arriving, consumed>>
    BY <1>1
  <2> QED BY <1>0, <2>1, <2>2, <2>3 DEF RcvBufferTypeOK
<1>4. Positions(s)' /\ PacketsAreInTheirSlots(s)'
  BY <1>1 DEF RcvBufferParts, Positions, PacketsAreInTheirSlots
<1>5. ReadingIsWithin(s, l)'
  <2>1. reading'.at = reading.at /\ reading'.p = reading.p /\ reading'.lastack = reading.lastack
    BY <1>0, <1>1 DEF RcvBufferTypeOK
  <2> QED BY <1>1, <2>1 DEF RcvBufferParts, ReadingIsWithin
<1>6. ReadableIsThere' /\ ComparisonIsSafe'
  BY <1>1 DEF RcvBufferParts, ReadableIsThere, ComparisonIsSafe
<1>7. NotchIsWithin'
  <2>1. consumed \in Nat /\ notch \in Nat /\ reading.rs \in Nat
    BY <1>0 DEF RcvBufferTypeOK
  <2>2. PICK b \in Nat : b = PacketBytes(consumed + 1)
    BY <2>1, PacketBytesType
  <2>3. Left = b - notch
    BY <1>2, <2>2 DEF Left
  <2>4. notch + reading.rs < b
    BY ONLY <1>1, <2>1, <2>2, <2>3
  <2> QED BY <1>1, <2>2, <2>4 DEF NotchIsWithin
<1> QED BY <1>3, <1>4, <1>5, <1>6, <1>7 DEF RcvBufferInv, RcvBufferParts

\* It ends, and the start is written.
LEMMA ReadEndsKeeps ==
  ASSUME RcvBufferInv, ReadEnds PROVE RcvBufferInv'
<1> PICK s \in Nat, l \in Nat : RcvBufferParts(s, l)
  BY DEF RcvBufferInv
<1>0. RcvBufferTypeOK /\ Positions(s) /\ RcvSlots \in Nat \ {0} /\ PacketsAreInTheirSlots(s)
  BY RcvBufferAssumption DEF RcvBufferInv, RcvBufferParts
<1>1. /\ reading.at = "unit" /\ reading' = NoReading /\ startPos' = reading.p
      /\ UNCHANGED <<slot, lastAckPos, notch, rcvLastAck, arriving, consumed>>
  BY DEF ReadEnds
<1>2. PICK c \in Nat : c = consumed
  BY <1>0 DEF RcvBufferTypeOK
<1>3. RcvBufferTypeOK'
  BY <1>0, <1>1 DEF RcvBufferTypeOK, NoReading
<1>4. s <= c /\ c + 1 <= rcvLastAck /\ rcvLastAck <= s + RcvSlots /\ rcvLastAck \in Nat
  BY <1>0, <1>2 DEF Positions, RcvBufferTypeOK
<1>5. startPos' = c % RcvSlots
  BY <1>1, <1>2 DEF RcvBufferParts, ReadingIsWithin
<1>6. Positions(c)'
  <2>1. rcvLastAck <= c + RcvSlots
    BY <1>0, <1>4
  <2> QED BY <1>0, <1>1, <1>2, <1>4, <1>5, <2>1 DEF Positions
<1>7. ReadingIsWithin(c, l)'
  BY <1>1, <1>2 DEF ReadingIsWithin, NoReading
<1>8. PacketsAreInTheirSlots(c)'
  <2> SUFFICES ASSUME NEW k \in 0..(RcvSlots - 1), slot[k] # 0
               PROVE  k = (slot[k] - 1) % RcvSlots /\ consumed < slot[k] /\ slot[k] <= c + RcvSlots - 1
    BY <1>1 DEF PacketsAreInTheirSlots
  <2>1. k = (slot[k] - 1) % RcvSlots /\ consumed < slot[k] /\ slot[k] <= s + RcvSlots - 1
    BY <1>0, Zenon DEF PacketsAreInTheirSlots
  <2>2. PICK m \in Nat : m = slot[k]
    BY <1>0 DEF RcvBufferTypeOK
  <2>3. m <= c + RcvSlots - 1
    BY ONLY <1>0, <1>4, <2>1, <2>2, s \in Nat, c \in Nat
  <2> QED BY <2>1, <2>2, <2>3
<1>9. ReadableIsThere' /\ NotchIsWithin'
  BY <1>1 DEF RcvBufferParts, ReadableIsThere, NotchIsWithin
<1>10. ComparisonIsSafe'
  <2> SUFFICES ASSUME arriving # NoArrival, ~arriving.wrapped PROVE startPos' <= lastAckPos
    BY <1>1 DEF ComparisonIsSafe
  <2>1. startPos <= lastAckPos
    BY DEF RcvBufferParts, ComparisonIsSafe
  <2>2. PICK x \in Nat : x = rcvLastAck - 1 /\ s <= x /\ x < s + RcvSlots /\ c <= x /\ x < c + RcvSlots
    BY <1>0, <1>4
  <2>3. startPos = s % RcvSlots /\ lastAckPos = x % RcvSlots
    BY <1>0, <2>2 DEF Positions
  <2>4. PICK u \in 0..(RcvSlots - 1), v \in 0..(RcvSlots - 1), w \in 0..(RcvSlots - 1) :
          u = s % RcvSlots /\ v = x % RcvSlots /\ w = c % RcvSlots
    BY <1>0, RemainderIsSlot
  <2>5. (u <= v => x - s = v - u) /\ (u > v => x - s = RcvSlots + v - u)
    BY <1>0, <2>2, <2>4, RingDistance
  <2>6. (w <= v => x - c = v - w) /\ (w > v => x - c = RcvSlots + v - w)
    BY <1>0, <2>2, <2>4, RingDistance
  <2>7. u <= v
    BY <2>1, <2>3, <2>4
  <2>8. w <= v
    BY ONLY <1>0, <1>4, <2>2, <2>5, <2>6, <2>7, s \in Nat, c \in Nat
  <2> QED BY <1>5, <2>3, <2>4, <2>8
<1> QED BY <1>3, <1>6, <1>7, <1>8, <1>9, <1>10 DEF RcvBufferInv, RcvBufferParts

\* Whatever the receiving thread and the reader do to the ring without a lock: the next unit of
\* a read is the next packet, unread, and no packet is taken for a duplicate of one that is
\* not there (RcvBufferIsRight).
THEOREM BytesComeInOrder == RcvBufferSpec => []RcvBufferIsRight
<1>1. RcvBufferInit => RcvBufferInv
  BY RcvBufferStarts
<1>2. RcvBufferInv /\ [RcvBufferNext]_rcvBufferVars => RcvBufferInv'
  <2> SUFFICES ASSUME RcvBufferInv, [RcvBufferNext]_rcvBufferVars PROVE RcvBufferInv'
    OBVIOUS
  <2>1. ASSUME NEW n \in 1..MaxArrivals, Arrive(n) PROVE RcvBufferInv'
    <3>1. n \in Nat
      BY RcvBufferAssumption
    <3> QED BY <2>1, <3>1, ArriveKeeps
  <2>2. ASSUME NEW len \in ReadSizes, ReadBegins(len) PROVE RcvBufferInv'
    <3>1. len \in Nat
      BY RcvBufferAssumption
    <3> QED BY <2>2, <3>1, ReadBeginsKeeps
  <2>3. CASE UNCHANGED rcvBufferVars
    <3> USE <2>3 DEF rcvBufferVars
    <3>1. RcvBufferTypeOK'
      BY DEF RcvBufferInv, RcvBufferTypeOK
    <3>2. ASSUME NEW s \in Nat, NEW l \in Nat, RcvBufferParts(s, l) PROVE RcvBufferParts(s, l)'
      <4>1. Positions(s)' /\ ReadingIsWithin(s, l)' /\ PacketsAreInTheirSlots(s)'
        BY <3>2 DEF RcvBufferParts, Positions, ReadingIsWithin, PacketsAreInTheirSlots
      <4>2. ReadableIsThere' /\ NotchIsWithin' /\ ComparisonIsSafe'
        BY <3>2 DEF RcvBufferParts, ReadableIsThere, NotchIsWithin, ComparisonIsSafe
      <4> QED BY <4>1, <4>2 DEF RcvBufferParts
    <3> QED BY <3>1, <3>2 DEF RcvBufferInv
  <2> QED BY <2>1, <2>2, <2>3, AddDataKeeps, AckArrivedKeeps, ReadWholeKeeps, ReadPartKeeps, ReadEndsKeeps
          DEF RcvBufferNext
<1> QED BY <1>1, <1>2, RcvBufferImplies, PTL DEF RcvBufferSpec

-----------------------------------------------------------------------------
(***************************************************************************)
(* UdtUnits                                                                *)
(***************************************************************************)
\* The units of n entries that getNextAvailUnit can find: all but the last of each.
Usable(n) == {u \in 0..(n * EntrySize - 1) : ~IsLastOf(u)}

\* A unit is the first of its entry and so many more.
LEMMA UnitInEntry ==
  ASSUME NEW u \in Nat
  PROVE  \E e \in Nat, s \in 0..(EntrySize - 1) :
           /\ EntryOf(u) = e /\ FirstOf(u) = e * EntrySize /\ u % EntrySize = s
           /\ e * EntrySize \in Nat /\ e * EntrySize <= u /\ u = e * EntrySize + s
<1>1. EntrySize \in Nat \ {0}
  BY UnitsAssumption
<1>2. PICK e \in Nat, s \in 0..(EntrySize - 1) : /\ e = u \div EntrySize /\ s = u % EntrySize
                                               /\ u = s + EntrySize * e
  BY <1>1, Quotient, RemainderIsSlot
<1>3. e * EntrySize = EntrySize * e /\ e * EntrySize \in Nat
  BY <1>1
<1>4. EntryOf(u) = e /\ FirstOf(u) = e * EntrySize
  BY ONLY <1>2, Zenon DEF EntryOf, FirstOf
<1>5. e * EntrySize \in Nat /\ e * EntrySize <= u /\ u = e * EntrySize + s
  <2>1. s \in 0..(EntrySize - 1) /\ u = s + EntrySize * e
    BY ONLY <1>2, Zenon
  <2> QED BY ONLY <1>1, <1>3, <2>1
<1> QED BY ONLY <1>2, <1>4, <1>5, Zenon

\* The units of an entry.
LEMMA EntryHasUnits ==
  ASSUME NEW e \in Nat, NEW s \in 0..(EntrySize - 1)
  PROVE  EntryOf(e * EntrySize + s) = e /\ (e * EntrySize + s) % EntrySize = s
<1>1. e * EntrySize = EntrySize * e
  BY UnitsAssumption
<1> QED BY <1>1, OneQuotient, UnitsAssumption DEF EntryOf

\* Entries come one after the other.
LEMMA UnitsAreInEntries ==
  ASSUME NEW n \in Nat, NEW u \in Nat
  PROVE  u < n * EntrySize <=> EntryOf(u) < n
<1>1. EntrySize \in Nat \ {0}
  BY UnitsAssumption
<1>2. PICK e \in Nat, s \in 0..(EntrySize - 1) : e = EntryOf(u) /\ u = e * EntrySize + s
  BY UnitInEntry, Zenon
<1>4. ASSUME NEW i \in Nat, NEW j \in Nat, i <= j PROVE i * EntrySize <= j * EntrySize
  BY <1>1, <1>4
<1>5. (e + 1) * EntrySize = e * EntrySize + EntrySize /\ e * EntrySize \in Nat /\ n * EntrySize \in Nat
  BY <1>1
<1>6. CASE e < n
  <2>1. (e + 1) * EntrySize <= n * EntrySize
    BY <1>4, <1>6
  <2> QED BY <1>1, <1>2, <1>5, <1>6, <2>1
<1>7. CASE ~(e < n)
  <2>1. n * EntrySize <= e * EntrySize
    BY <1>4, <1>7
  <2> QED BY <1>1, <1>2, <1>5, <1>7, <2>1
<1> QED BY <1>6, <1>7

\* An entry more is so many units that can be found.
LEMMA UsableGrows ==
  ASSUME NEW n \in Nat
  PROVE  /\ Usable(n + 1) = Usable(n) \union (n * EntrySize)..(n * EntrySize + EntrySize - 2)
         /\ Usable(n) \intersect (n * EntrySize)..(n * EntrySize + EntrySize - 2) = {}
<1>1. EntrySize \in Nat \ {0, 1} /\ n * EntrySize \in Nat
      /\ (n + 1) * EntrySize = n * EntrySize + EntrySize
  BY UnitsAssumption
<1>2. ASSUME NEW u \in (n * EntrySize)..(n * EntrySize + EntrySize - 1)
      PROVE  IsLastOf(u) <=> u = n * EntrySize + EntrySize - 1
  <2>1. PICK s \in 0..(EntrySize - 1) : u = n * EntrySize + s
    <3>1. u - n * EntrySize \in 0..(EntrySize - 1) /\ u = n * EntrySize + (u - n * EntrySize)
      BY <1>1
    <3> QED BY <3>1
  <2>2. u % EntrySize = s
    BY <2>1, EntryHasUnits
  <2> QED BY <1>1, <2>1, <2>2 DEF IsLastOf
<1>3. ASSUME NEW u \in Int
      PROVE  u \in Usable(n + 1) <=> u \in Usable(n) \union (n * EntrySize)..(n * EntrySize + EntrySize - 2)
  <2>1. CASE u \in (n * EntrySize)..(n * EntrySize + EntrySize - 1)
    BY <1>1, <1>2, <2>1 DEF Usable
  <2>2. CASE ~(u \in (n * EntrySize)..(n * EntrySize + EntrySize - 1))
    BY <1>1, <2>2 DEF Usable
  <2> QED BY <2>1, <2>2
<1> HIDE DEF Usable
<1>4. \A m \in Nat : Usable(m) \subseteq Int
  BY UnitsAssumption DEF Usable
<1>5. Usable(n) \intersect (n * EntrySize)..(n * EntrySize + EntrySize - 2) = {}
  BY <1>1 DEF Usable
<1> QED BY <1>1, <1>3, <1>4, <1>5

\* All units but one of each entry can be found.
LEMMA UsableCount ==
  \A n \in Nat : IsFiniteSet(Usable(n)) /\ Cardinality(Usable(n)) = n * (EntrySize - 1)
<1> DEFINE S == {n \in Nat : IsFiniteSet(Usable(n)) /\ Cardinality(Usable(n)) = n * (EntrySize - 1)}
<1>0. EntrySize \in Nat \ {0, 1}
  BY UnitsAssumption
<1>1. 0 \in S
  <2>1. Usable(0) = {}
    BY <1>0 DEF Usable
  <2> QED BY <1>0, <2>1, FS_EmptySet
<1>2. ASSUME NEW n \in S PROVE n + 1 \in S
  <2> DEFINE more == (n * EntrySize)..(n * EntrySize + EntrySize - 2)
  <2>1. n \in Nat /\ n * EntrySize \in Nat
    BY <1>0
  <2>2. IsFiniteSet(more) /\ Cardinality(more) = EntrySize - 1
    BY <1>0, <2>1, FS_Interval
  <2>3. Usable(n + 1) = Usable(n) \union more /\ Usable(n) \intersect more = {}
    BY <2>1, UsableGrows
  <2> HIDE DEF more
  <2>4. /\ IsFiniteSet(Usable(n + 1))
        /\ Cardinality(Usable(n + 1)) = n * (EntrySize - 1) + (EntrySize - 1) - 0
    BY <2>2, <2>3, FS_Union, FS_EmptySet
  <2>5. n * (EntrySize - 1) + (EntrySize - 1) - 0 = (n + 1) * (EntrySize - 1)
    BY <1>0, <2>1
  <2> QED BY <2>1, <2>4, <2>5
<1>3. S = Nat
  <2> HIDE DEF S
  <2>1. S \in SUBSET Nat
    BY DEF S
  <2> QED BY <1>1, <1>2, <2>1, InductiveSet
<1> QED BY <1>3

\* With all of them in use, memory is taken.
LEMMA FullIsFull ==
  ASSUME NEW n \in Nat
  PROVE  n * (EntrySize - 1) * FullParts >= n * EntrySize * FullOf
<1>1. /\ EntrySize \in Nat \ {0, 1} /\ FullParts \in Nat /\ FullOf \in Nat
      /\ (EntrySize - 1) * FullParts >= EntrySize * FullOf
  BY UnitsAssumption
<1>2. PICK x \in Nat : x = (EntrySize - 1) * FullParts
  BY <1>1
<1>3. PICK y \in Nat : y = EntrySize * FullOf
  BY <1>1
<1>4. n * x >= n * y
  BY <1>1, <1>2, <1>3
<1>5. n * (EntrySize - 1) * FullParts = n * x /\ n * EntrySize * FullOf = n * y
  BY <1>1, <1>2, <1>3
<1> QED BY <1>4, <1>5

\* As many units as there are is more than memory is taken for.
LEMMA MemoryIsTakenBefore ==
  ASSUME NEW n \in Nat \ {0}, NEW c \in Int, c * FullParts <= n * EntrySize * FullOf
  PROVE  c < n * EntrySize
<1>1. /\ EntrySize \in Nat \ {0, 1} /\ FullParts \in Nat \ {0} /\ FullOf \in Nat
  BY UnitsAssumption
<1>2. FullOf < FullParts
  <2>1. (EntrySize - 1) * FullParts >= EntrySize * FullOf
    BY UnitsAssumption
  <2>2. (EntrySize - 1) * FullParts = EntrySize * FullParts - FullParts
    BY <1>1
  <2>3. EntrySize * FullParts > EntrySize * FullOf
    BY <1>1, <2>1, <2>2
  <2> QED BY <1>1, <2>3
<1>3. PICK k \in Nat \ {0} : k = n * EntrySize
  BY <1>1
<1>4. k * FullOf < k * FullParts
  BY <1>1, <1>2, <1>3
<1>5. c * FullParts < k * FullParts
  BY <1>1, <1>3, <1>4
<1> QED BY <1>1, <1>3, <1>5
UnitTypes ==
  /\ entries \in 1..MaxEntries /\ used \subseteq Usable(entries)
  /\ avail \in 0..(entries * EntrySize - 1)
  /\ inUse \in Int /\ misses \in 0..2

\* What a search in vain leaves: the next begins with the first unit of an entry, so that it
\* sees them all; and there is one, or memory has run out.
MissesEnd ==
  /\ misses >= 1 => avail = FirstOf(avail)
  /\ misses = 1 => entries = MaxEntries \/ \E u \in Usable(entries) : u \notin used
  /\ misses = 2 => entries = MaxEntries /\ Usable(entries) \subseteq used

UnitsInv == UnitTypes /\ MissesEnd

\* Units in use are as many as m_iCount should say.
LEMMA UsedIsFinite ==
  ASSUME UnitTypes
  PROVE  IsFiniteSet(used) /\ Cardinality(used) \in Nat
<1>1. IsFiniteSet(Usable(entries))
  BY UsableCount DEF UnitTypes
<1> QED BY <1>1, FS_Subset, FS_CardinalityType DEF UnitTypes

\* The last unit of an entry is never in use.
LEMMA UsedIsLess ==
  ASSUME UnitTypes, NEW n \in Nat, entries <= n
  PROVE  Cardinality(used) < n * EntrySize
<1>1. EntrySize \in Nat \ {0, 1} /\ entries \in Nat \ {0} /\ used \subseteq Usable(entries)
  BY UnitsAssumption DEF UnitTypes
<1>2. Cardinality(used) \in Nat /\ Cardinality(used) <= entries * (EntrySize - 1)
  BY <1>1, UsableCount, UsedIsFinite, FS_Subset
<1>3. entries * (EntrySize - 1) <= n * (EntrySize - 1)
  BY <1>1
<1>4. n * (EntrySize - 1) = n * EntrySize - n /\ n * EntrySize \in Nat
  BY <1>1
<1> QED BY <1>1, <1>2, <1>3, <1>4

\* What increase returns.
LEMMA IncreasedIs ==
  ASSUME UnitTypes, NEW c, NEW n \in 1..MaxEntries
  PROVE  /\ Increased(c, n) = <<Cardinality(used), Increased(c, n)[2]>>
         /\ Increased(c, n)[2] \in {n, n + 1} /\ Increased(c, n)[2] <= MaxEntries
         /\ Increased(c, n)[2] = n =>
              n = MaxEntries \/ ~(Cardinality(used) * FullParts >= n * EntrySize * FullOf)
         /\ Increased(c, n)[2] = n + 1 => Cardinality(used) * FullParts >= n * EntrySize * FullOf
<1>1. n \in Nat /\ n <= MaxEntries /\ MaxEntries \in Nat
  BY UnitsAssumption
<1> DEFINE X == Cardinality(used) * FullParts
           Y == n * EntrySize * FullOf
<1>2. X < Y <=> ~(X >= Y)
  <2>1. X \in Nat /\ Y \in Nat
    BY <1>1, UsedIsFinite, UnitsAssumption
  <2> QED BY ONLY <2>1
<1> HIDE DEF X, Y
<1>3. CASE X < Y \/ n = MaxEntries
  <2>1. Increased(c, n) = <<Cardinality(used), n>>
    BY <1>3 DEF Increased, X, Y
  <2> QED BY <1>1, <1>2, <1>3, <2>1 DEF X, Y
<1>4. CASE ~(X < Y \/ n = MaxEntries)
  <2>1. Increased(c, n) = <<Cardinality(used), n + 1>>
    BY <1>4 DEF Increased, X, Y
  <2> QED BY <1>1, <1>2, <1>4, <2>1 DEF X, Y
<1> QED BY <1>3, <1>4

\* An order of units by turns has a first one.
LEMMA FirstInTurn ==
  ASSUME UnitTypes, NEW n \in Nat, entries <= n, NEW free \in SUBSET Looked(n), free # {}
  PROVE  (CHOOSE u \in free : \A v \in free : Turn(u, n) <= Turn(v, n)) \in free
<1>1. EntrySize \in Nat \ {0} /\ entries \in Nat \ {0} /\ n \in Nat \ {0} /\ avail \in Nat
      /\ avail < entries * EntrySize
  <2>1. EntrySize \in Nat \ {0} /\ entries \in Nat \ {0} /\ avail \in 0..(entries * EntrySize - 1)
    BY UnitsAssumption DEF UnitTypes
  <2> QED BY ONLY <2>1, n \in Nat, entries <= n
<1>2. EntryOf(avail) \in Nat /\ EntryOf(avail) < n
  <2>1. EntryOf(avail) \in Nat
    BY <1>1, UnitInEntry, Zenon
  <2>2. EntryOf(avail) < entries
    BY <1>1, UnitsAreInEntries
  <2> QED BY ONLY <1>1, <2>1, <2>2, entries <= n
<1>3. ASSUME NEW u \in free PROVE Turn(u, n) \in Nat
  <2>1. u \in Nat
    BY <1>1 DEF Looked
  <2>2. PICK e \in Nat, s \in 0..(EntrySize - 1) : e = EntryOf(u) /\ s = u % EntrySize
    BY <2>1, UnitInEntry, Zenon
  <2>3. PICK z \in Nat : z = EntryOf(avail)
    BY <1>2
  <2>4. e - z + n \in Nat
    BY ONLY <1>2, <2>3, e \in Nat, n \in Nat
  <2>5. PICK w \in Nat : w = (e - z + n) % n
    <3>1. PICK x \in Nat : x = e - z + n
      BY <2>4
    <3>2. x % n \in 0..(n - 1)
      BY <1>1, Quotient, RemainderIsSlot
    <3> QED BY <1>1, <3>1, <3>2
  <2>6. Turn(u, n) = w * (EntrySize + 1) + IF e = z /\ u < avail THEN EntrySize ELSE s
    BY ONLY <2>2, <2>3, <2>5, Zenon DEF Turn
  <2>7. s \in Int /\ s >= 0 /\ w * (EntrySize + 1) \in Nat
    BY ONLY <1>1, <2>5, s \in 0..(EntrySize - 1)
  <2> QED BY ONLY <1>1, <2>6, <2>7
<1> DEFINE T == {Turn(u, n) : u \in free}
<1>4. T \in SUBSET Nat /\ T # {}
  BY <1>3
<1>5. PICK t \in T : \A k \in T : t <= k
  BY <1>4, LeastNatural
<1>6. PICK u \in free : t = Turn(u, n)
  OBVIOUS
<1>7. \A v \in free : Turn(u, n) <= Turn(v, n)
  BY <1>5, <1>6
<1> QED BY <1>7, Zenon

\* There are no units in use at first.
LEMMA UnitsInvInit == UnitsInit => UnitsInv
<1> SUFFICES ASSUME UnitsInit PROVE UnitsInv
  OBVIOUS
<1>1. 1 \in 1..MaxEntries /\ 0 \in 0..(1 * EntrySize - 1)
  BY UnitsAssumption
<1> QED BY <1>1 DEF UnitsInit, UnitsInv, UnitTypes, MissesEnd

\* What the search of one round does with n entries and c units counted, fewer than there
\* are: it finds a unit that is free, or there is none that it can see, and the next round
\* begins at the first of an entry.
LEMMA SearchEnds ==
  ASSUME UnitTypes, NEW n \in Nat, entries <= n, NEW c, ~(c >= n * EntrySize)
  PROVE  /\ Looked(n) \ used # {} => AvailAfter(c, n) \in Looked(n) \ used
         /\ Looked(n) \ used = {} => AvailAfter(c, n) = FirstOf(avail)
<1>1. CASE Looked(n) \ used = {}
  BY <1>1 DEF AvailAfter
<1>2. CASE Looked(n) \ used # {}
  <2>1. PICK free : free = Looked(n) \ used
    OBVIOUS
  <2>2. (CHOOSE u \in free : \A v \in free : Turn(u, n) <= Turn(v, n)) \in free
    BY <1>2, <2>1, FirstInTurn
  <2>3. AvailAfter(c, n) = CHOOSE u \in free : \A v \in free : Turn(u, n) <= Turn(v, n)
    BY <1>2, <2>1 DEF AvailAfter
  <2> QED BY <1>2, <2>1, <2>2, <2>3
<1> QED BY <1>1, <1>2

\* What is looked at can be found; from the first unit of an entry it is all that can.
LEMMA LookedIsUsable ==
  ASSUME NEW n \in Nat, avail \in Nat
  PROVE  /\ Looked(n) \subseteq Usable(n)
         /\ avail = FirstOf(avail) => Looked(n) = Usable(n)
<1>1. Looked(n) \subseteq Usable(n)
  BY DEF Looked, Usable
<1>2. ASSUME avail = FirstOf(avail), NEW u \in Usable(n) PROVE u \in Looked(n)
  <2>1. u \in Nat /\ u \in 0..(n * EntrySize - 1) /\ ~IsLastOf(u)
    BY UnitsAssumption DEF Usable
  <2>2. CASE EntryOf(u) = EntryOf(avail)
    <3>1. FirstOf(u) = FirstOf(avail)
      BY <2>2, Zenon DEF FirstOf
    <3>2. FirstOf(u) \in Nat /\ FirstOf(u) <= u
      BY <2>1, UnitInEntry, Zenon
    <3>3. u >= avail
      BY ONLY <1>2, <2>1, <3>1, <3>2, avail \in Nat
    <3> QED BY <2>1, <3>3, Zenon DEF Looked
  <2>3. CASE EntryOf(u) # EntryOf(avail)
    BY <2>1, <2>3, Zenon DEF Looked
  <2> QED BY <2>2, <2>3
<1> QED BY <1>1, <1>2

\* What a search leaves, whether it finds a unit and whether it is taken: Receive in the
\* words of its two looks at m_iCount.
LEMMA ReceiveIs ==
  ASSUME UnitsInv, NEW taken \in BOOLEAN, Receive(taken)
  PROVE  \E n \in entries..MaxEntries, c \in Int :
           /\ n \in {entries, entries + 1} /\ c < n * EntrySize
           /\ n = entries + 1 => Cardinality(used) * FullParts >= entries * EntrySize * FullOf
           /\ avail' = AvailAfter(c, n)
           /\ \/ /\ Looked(n) \ used # {} /\ misses' = 0 /\ entries' = n
                 /\ used' = used \/ used' = used \union {avail'}
              \/ /\ Looked(n) \ used = {} /\ used' = used
                 /\ misses' = IF misses < 2 THEN misses + 1 ELSE misses
                 /\ entries' = Increased(c, n)[2]
           /\ inUse' \in Int
<1> USE DEF UnitsInv
<1>0. /\ entries \in 1..MaxEntries /\ MaxEntries \in Nat /\ EntrySize \in Nat \ {0}
      /\ inUse \in Int /\ Cardinality(used) \in Nat
      /\ FullParts \in Nat /\ FullOf \in Nat
  BY UnitsAssumption, UsedIsFinite DEF UnitTypes
<1>1. PICK a : a = IF inUse * FullParts > entries * EntrySize * FullOf
                   THEN Increased(inUse, entries) ELSE <<inUse, entries>>
  OBVIOUS
<1>2. PICK c \in Int, n \in entries..MaxEntries :
        /\ a = <<c, n>> /\ n \in {entries, entries + 1} /\ c < n * EntrySize
        /\ n = entries + 1 => Cardinality(used) * FullParts >= entries * EntrySize * FullOf
  <2>1. CASE inUse * FullParts > entries * EntrySize * FullOf
    <3>1. PICK n : n = Increased(inUse, entries)[2]
      OBVIOUS
    <3>2. /\ a = <<Cardinality(used), n>> /\ n \in {entries, entries + 1} /\ n <= MaxEntries
          /\ n = entries + 1 => Cardinality(used) * FullParts >= entries * EntrySize * FullOf
      BY <1>0, <1>1, <2>1, <3>1, IncreasedIs
    <3>3. Cardinality(used) < n * EntrySize
      BY <1>0, <3>2, UsedIsLess
    <3> QED BY <1>0, <3>2, <3>3
  <2>2. CASE ~(inUse * FullParts > entries * EntrySize * FullOf)
    <3>1. inUse * FullParts <= entries * EntrySize * FullOf
      BY <1>0, <2>2
    <3>2. inUse < entries * EntrySize
      BY <1>0, <3>1, MemoryIsTakenBefore
    <3> QED BY <1>0, <1>1, <2>2, <3>2
  <2> QED BY <2>1, <2>2
<1>3. PICK found : found = (a[1] < a[2] * EntrySize /\ Looked(a[2]) \ used # {})
  OBVIOUS
<1>4. found = (Looked(n) \ used # {}) /\ ~(a[1] >= a[2] * EntrySize) /\ a[1] = c /\ a[2] = n
  <2>1. n * EntrySize \in Int
    BY <1>0
  <2> QED BY <1>2, <1>3, <2>1
<1>5. PICK b : b = IF found \/ a[1] >= a[2] * EntrySize THEN a ELSE Increased(a[1], a[2])
  OBVIOUS
<1>6. /\ avail' = AvailAfter(a[1], a[2])
      /\ entries' = b[2]
      /\ misses' = IF found THEN 0 ELSE IF misses < 2 THEN misses + 1 ELSE misses
      /\ \/ /\ found /\ taken
            /\ used' = used \union {avail'}
            /\ inUse' \in {b[1], b[1] + 1}
         \/ /\ ~(found /\ taken) /\ used' = used /\ inUse' = b[1]
  BY <1>1, <1>3, <1>5, Zenon DEF Receive
<1>7. CASE found
  <2>1. b = a
    BY <1>5, <1>7
  <2>2. b[1] = c /\ b[2] = n
    BY <1>4, <2>1
  <2>3. inUse' \in Int
    BY <1>6, <2>2
  <2>4. avail' = AvailAfter(c, n) /\ misses' = 0 /\ entries' = n
        /\ (used' = used \/ used' = used \union {avail'})
    BY <1>4, <1>6, <1>7, <2>2, Zenon
  <2> QED BY ONLY <1>2, <1>4, <1>7, <2>3, <2>4, Zenon
<1>8. CASE ~found
  <2>1. b = Increased(c, n) /\ b[1] = Cardinality(used)
    <3>1. n \in 1..MaxEntries
      BY <1>0
    <3> QED BY <1>4, <1>5, <1>8, <3>1, IncreasedIs
  <2>2. inUse' \in Int
    BY <1>0, <1>6, <1>8, <2>1
  <2>3. avail' = AvailAfter(c, n) /\ used' = used /\ entries' = Increased(c, n)[2]
        /\ misses' = IF misses < 2 THEN misses + 1 ELSE misses
    BY <1>4, <1>6, <1>8, <2>1, Zenon
  <2> QED BY ONLY <1>2, <1>4, <1>8, <2>2, <2>3, Zenon
<1> QED BY <1>7, <1>8

\* The first unit of entry n.
LEMMA NewEntryIsUsable ==
  ASSUME NEW n \in Nat, NEW k \in Nat, n < k
  PROVE  n * EntrySize \in Usable(k) /\ n * EntrySize \notin Usable(n)
<1>1. EntrySize \in Nat \ {0, 1} /\ n * EntrySize \in Nat
  BY UnitsAssumption
<1>2. (n + 1) * EntrySize <= k * EntrySize /\ (n + 1) * EntrySize = n * EntrySize + EntrySize
      /\ k * EntrySize \in Nat
  BY <1>1
<1>3. (n * EntrySize + 0) % EntrySize = 0
  BY <1>1, EntryHasUnits
<1>4. n * EntrySize + 0 = n * EntrySize /\ 0 # EntrySize - 1
  BY <1>1
<1>5. ~IsLastOf(n * EntrySize)
  BY <1>3, <1>4, Zenon DEF IsLastOf
<1>6. n * EntrySize \in 0..(k * EntrySize - 1) /\ n * EntrySize \notin 0..(n * EntrySize - 1)
  BY <1>1, <1>2
<1> QED BY ONLY <1>5, <1>6, Zenon DEF Usable

\* More entries have more units, all of which can be found where they could before.
LEMMA UsableIsMonotonic ==
  ASSUME NEW n \in Nat, NEW k \in Nat, n <= k
  PROVE  Usable(n) \subseteq Usable(k)
<1>1. n * EntrySize <= k * EntrySize /\ n * EntrySize \in Nat /\ k * EntrySize \in Nat
  BY UnitsAssumption
<1>2. 0..(n * EntrySize - 1) \subseteq 0..(k * EntrySize - 1)
  BY ONLY <1>1
<1> QED BY ONLY <1>2, Zenon DEF Usable

\* The first unit of the entry of a unit.
LEMMA FirstIsFirst ==
  ASSUME NEW n \in Nat, NEW u \in 0..(n * EntrySize - 1)
  PROVE  FirstOf(u) \in 0..(n * EntrySize - 1) /\ FirstOf(FirstOf(u)) = FirstOf(u)
<1>1. EntrySize \in Nat \ {0, 1} /\ u \in Nat /\ n * EntrySize \in Nat
  BY UnitsAssumption
<1>2. PICK e \in Nat : FirstOf(u) = e * EntrySize /\ e * EntrySize \in Nat /\ e * EntrySize <= u
  BY <1>1, UnitInEntry, Zenon
<1>3. EntryOf(e * EntrySize + 0) = e /\ e * EntrySize + 0 = e * EntrySize
  BY <1>1, EntryHasUnits
<1>4. FirstOf(e * EntrySize) = e * EntrySize
  BY <1>3, Zenon DEF FirstOf
<1>5. e * EntrySize \in 0..(n * EntrySize - 1)
  BY ONLY <1>1, <1>2, u \in 0..(n * EntrySize - 1)
<1> QED BY ONLY <1>2, <1>4, <1>5, Zenon

\* A search keeps the invariant: one in vain goes back to the first unit of an entry and,
\* where all units are in use, takes memory if there is any; so the next finds one.
LEMMA ReceiveKeeps ==
  ASSUME UnitsInv, NEW taken \in BOOLEAN, Receive(taken)
  PROVE  UnitsInv'
<1>0. /\ entries \in 1..MaxEntries /\ MaxEntries \in Nat /\ EntrySize \in Nat \ {0, 1}
      /\ used \subseteq Usable(entries) /\ avail \in 0..(entries * EntrySize - 1)
      /\ entries * EntrySize \in Nat /\ misses \in 0..2
  BY UnitsAssumption DEF UnitTypes, UnitsInv
<1>1. PICK n \in entries..MaxEntries, c \in Int :
           /\ n \in {entries, entries + 1} /\ c < n * EntrySize
           /\ avail' = AvailAfter(c, n)
           /\ \/ /\ Looked(n) \ used # {} /\ misses' = 0 /\ entries' = n
                 /\ used' = used \/ used' = used \union {avail'}
              \/ /\ Looked(n) \ used = {} /\ used' = used
                 /\ misses' = IF misses < 2 THEN misses + 1 ELSE misses
                 /\ entries' = Increased(c, n)[2]
           /\ inUse' \in Int
  BY ReceiveIs, Zenon
<1>2. /\ n \in 1..MaxEntries /\ n \in Nat \ {0} /\ entries <= n /\ n * EntrySize \in Nat
      /\ ~(c >= n * EntrySize)
  BY <1>0, <1>1
<1>3. Usable(entries) \subseteq Usable(n)
  BY <1>0, <1>2, UsableIsMonotonic
<1>4. /\ Looked(n) \ used # {} => avail' \in Looked(n) \ used
      /\ Looked(n) \ used = {} => avail' = FirstOf(avail)
  BY <1>0, <1>1, <1>2, SearchEnds DEF UnitsInv
<1>5. Looked(n) \subseteq Usable(n) /\ (avail = FirstOf(avail) => Looked(n) = Usable(n))
  <2>1. avail \in Nat
    BY <1>0
  <2> QED BY <1>2, <2>1, LookedIsUsable
<1>6. CASE Looked(n) \ used # {}
  <2>1. misses' = 0 /\ entries' = n /\ used' \subseteq Usable(n)
    BY <1>0, <1>1, <1>3, <1>4, <1>5, <1>6
  <2>2. avail' \in 0..(n * EntrySize - 1)
    BY <1>4, <1>6 DEF Looked
  <2> QED BY <1>1, <1>2, <2>1, <2>2 DEF UnitsInv, UnitTypes, MissesEnd
<1>7. CASE Looked(n) \ used = {}
  <2>1. PICK k \in Nat : k = Increased(c, n)[2]
    BY <1>2, IncreasedIs DEF UnitsInv
  <2>2. /\ k \in {n, n + 1} /\ k <= MaxEntries
        /\ k = n => n = MaxEntries \/ ~(Cardinality(used) * FullParts >= n * EntrySize * FullOf)
    BY <1>2, <2>1, IncreasedIs DEF UnitsInv
  <2>3. /\ used' = used /\ entries' = k /\ avail' = FirstOf(avail)
        /\ misses' = IF misses < 2 THEN misses + 1 ELSE misses
    BY <1>1, <1>4, <1>7, <2>1
  <2>4. avail' = FirstOf(avail') /\ avail' \in 0..(k * EntrySize - 1)
    <3>1. entries * EntrySize <= k * EntrySize /\ k * EntrySize \in Nat
      BY <1>0, <1>2, <2>2
    <3>2. avail' \in 0..(entries * EntrySize - 1) /\ FirstOf(avail') = avail'
      BY <1>0, <2>3, FirstIsFirst
    <3> QED BY ONLY <1>0, <3>1, <3>2
  <2>5. used \subseteq Usable(k) /\ k \in 1..MaxEntries
    <3>1. Usable(n) \subseteq Usable(k)
      BY <1>2, <2>2, UsableIsMonotonic
    <3> QED BY <1>0, <1>2, <1>3, <2>2, <3>1
  <2>6. UnitTypes'
    BY <1>0, <1>1, <2>3, <2>4, <2>5 DEF UnitTypes
  <2>7. misses = 0 => k = MaxEntries \/ \E u \in Usable(k) : u \notin used
    <3> SUFFICES ASSUME k # MaxEntries, Usable(k) \subseteq used PROVE FALSE
      OBVIOUS
    <3>1. CASE k = n
      <4>1. Usable(n) = used
        BY <1>0, <1>3, <3>1
      <4>2. Cardinality(used) = n * (EntrySize - 1)
        BY <1>2, <4>1, UsableCount
      <4> QED BY <1>2, <2>2, <3>1, <4>2, FullIsFull
    <3>2. CASE k = n + 1
      <4>1. n * EntrySize \in Usable(k) /\ n * EntrySize \notin Usable(n)
        BY <1>2, <3>2, NewEntryIsUsable
      <4> QED BY <1>0, <1>3, <4>1
    <3> QED BY <2>2, <3>1, <3>2
  <2>8. misses >= 1 => k = MaxEntries /\ Usable(k) \subseteq used
    <3> SUFFICES ASSUME misses >= 1 PROVE k = MaxEntries /\ Usable(k) \subseteq used
      OBVIOUS
    <3>1. Usable(n) \subseteq used /\ (misses = 1 \/ misses = 2)
      BY <1>0, <1>5, <1>7 DEF UnitsInv, MissesEnd
    <3>2. entries = MaxEntries
      BY <1>3, <3>1 DEF UnitsInv, MissesEnd
    <3> QED BY <1>2, <2>2, <3>1, <3>2
  <2>9. MissesEnd'
    <3>1. CASE misses = 0
      BY <2>3, <2>4, <2>7, <3>1 DEF MissesEnd
    <3>2. CASE misses >= 1
      BY <1>0, <2>3, <2>4, <2>8, <3>2 DEF MissesEnd
    <3> QED BY <1>0, <3>1, <3>2
  <2> QED BY <2>6, <2>9 DEF UnitsInv
<1> QED BY <1>6, <1>7

\* Every step keeps the invariant; a unit that is freed ends a row of searches in vain.
LEMMA UnitsInvStep == UnitsInv /\ [UnitsNext]_unitVars => UnitsInv'
<1> SUFFICES ASSUME UnitsInv, [UnitsNext]_unitVars PROVE UnitsInv'
  OBVIOUS
<1>1. CASE UNCHANGED unitVars
  BY <1>1 DEF unitVars, UnitsInv, UnitTypes, MissesEnd
<1>2. ASSUME NEW taken \in BOOLEAN, Receive(taken) PROVE UnitsInv'
  BY <1>2, ReceiveKeeps
<1>3. ASSUME NEW u \in used, Free(u) PROVE UnitsInv'
  BY <1>3 DEF Free, UnitsInv, UnitTypes, MissesEnd
<1> QED BY <1>1, <1>2, <1>3 DEF UnitsNext

\* A packet is not thrown away twice in a row for want of a unit while one is free or there
\* is memory, however wrong m_iCount is; and no memory is taken before 9/10 are in use.
THEOREM UnitsAlwaysSuffice == UnitsSpec => UnitsSuffice
<1>1. UnitsInv => UnitIsFound
  BY DEF UnitsInv, UnitTypes, MissesEnd, UnitIsFound, Usable
<1>2. UnitsInv /\ [UnitsNext]_unitVars =>
        [entries' > entries => Cardinality(used) * FullParts >= entries * EntrySize * FullOf]_unitVars
  <2> SUFFICES ASSUME UnitsInv, UnitsNext, entries' > entries
               PROVE  Cardinality(used) * FullParts >= entries * EntrySize * FullOf
    OBVIOUS
  <2>0. entries \in 1..MaxEntries /\ entries \in Nat /\ MaxEntries \in Nat
    BY UnitsAssumption DEF UnitsInv, UnitTypes
  <2>1. PICK taken \in BOOLEAN : Receive(taken)
    BY <2>0 DEF UnitsNext, Free
  <2>2. PICK n \in entries..MaxEntries, c \in Int :
           /\ n \in {entries, entries + 1}
           /\ n = entries + 1 => Cardinality(used) * FullParts >= entries * EntrySize * FullOf
           /\ entries' = n \/ entries' = Increased(c, n)[2]
    BY <2>1, ReceiveIs, Zenon
  <2>3. CASE n = entries + 1
    BY <2>2, <2>3
  <2>4. CASE n = entries
    <3>1. entries' = Increased(c, entries)[2]
      BY <2>0, <2>2, <2>4
    <3> QED BY <2>0, <3>1, IncreasedIs DEF UnitsInv
  <2> QED BY <2>2, <2>3, <2>4
<1> QED BY UnitsInvInit, UnitsInvStep, <1>1, <1>2, PTL DEF UnitsSpec, UnitsSuffice, GrowsWhenFull
=============================================================================
