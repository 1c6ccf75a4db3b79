-------------------------- MODULE UdtTransferProofs --------------------------
(***************************************************************************)
(* What holds of a transfer whatever its length below half the ring, the   *)
(* first number, the sizes of the buffers, and what the network loses,     *)
(* repeats or delays.                                                      *)
(*                                                                         *)
(* The argument replaces numbers by indices: packet k is the k-th one sent *)
(* and its number is NumOf(Isn, k).  Seven indices say where a state is:   *)
(* the newest packet sent (c), the ones acknowledged (la) and freed (da)   *)
(* at the sender, the newest received (rc), the ones acknowledged (rl),    *)
(* acknowledged for good (rla) and read (n) at the receiver.  seqcmp,      *)
(* seqoff and seqlen of numbers are then comparison and difference of      *)
(* indices, the ring of the receive buffer is remainders of indices, and   *)
(* TransferInv says what each side's state is at these indices, that every *)
(* packet under way is true of them, and that da <= rl, rc <= c and        *)
(* c < Limit(rl, n): what ties the two sides.                              *)
(***************************************************************************)
EXTENDS UdtTransfer, UdtLemmas

(***************************************************************************)
(* Numbers of packets                                                      *)
(***************************************************************************)
\* These are the lemmas about numbers, for the packets of a transfer.
\* The number of packet k is a sequence number, and packet 0 has the initial one.
LEMMA NumIsSeqNo ==
  ASSUME NEW isn \in SeqNo, NEW k \in 0..Payloads
  PROVE  NumOf(isn, k) \in SeqNo /\ NumOf(isn, 0) = isn
<1>1. k \in 0..Half
  BY TransferAssumption, SeqNoAssumption DEF Half
<1> QED BY <1>1, NumberIsSeqNo

\* Comparing the numbers of two packets compares the packets.
LEMMA CompareNums ==
  ASSUME NEW isn \in SeqNo, NEW i \in 0..Payloads, NEW j \in -1..Payloads, i - j <= Payloads
  PROVE  /\ seqcmp(NumOf(isn, i), NumOf(isn, j)) > 0 <=> i > j
         /\ seqcmp(NumOf(isn, i), NumOf(isn, j)) < 0 <=> i < j
         /\ seqcmp(NumOf(isn, i), NumOf(isn, j)) \in Int
<1>1. i \in 0..Half /\ j \in -1..Half /\ i - j <= Half
  BY TransferAssumption, SeqNoAssumption DEF Half
<1> QED BY <1>1, ComparingNumbers

\* The offset between two numbers is that between the packets.
LEMMA OffsetOfNums ==
  ASSUME NEW isn \in SeqNo, NEW i \in 0..Payloads, NEW j \in -1..Payloads, i - j <= Payloads
  PROVE  seqoff(NumOf(isn, i), NumOf(isn, j)) = j - i
<1>1. i \in 0..Half /\ j \in -1..Half /\ i - j <= Half
  BY TransferAssumption, SeqNoAssumption DEF Half
<1> QED BY <1>1, OffsetOfNumbers

\* The length of a range of numbers is that of the range of packets.
LEMMA LengthOfNums ==
  ASSUME NEW isn \in SeqNo, NEW i \in 0..Payloads, NEW j \in i..Payloads
  PROVE  seqlen(NumOf(isn, i), NumOf(isn, j)) = j - i + 1
<1>1. i \in 0..Half /\ j \in i..Half
  BY TransferAssumption, SeqNoAssumption DEF Half
<1> QED BY <1>1, LengthOfNumbers

\* incseq steps to the number of the next packet.
LEMMA NextNum ==
  ASSUME NEW isn \in SeqNo, NEW k \in -1..(Payloads - 1)
  PROVE  incseq(NumOf(isn, k)) = NumOf(isn, k + 1)
<1>1. k \in -1..(Half - 1)
  BY TransferAssumption, SeqNoAssumption DEF Half
<1> QED BY <1>1, NextNumber

\* decseq steps to the number of the packet before.
LEMMA PreviousNum ==
  ASSUME NEW isn \in SeqNo, NEW k \in 1..Payloads
  PROVE  decseq(NumOf(isn, k)) = NumOf(isn, k - 1)
<1>1. k \in 1..Half
  BY TransferAssumption, SeqNoAssumption DEF Half
<1> QED BY <1>1, PreviousNumber

\* Two packets have two numbers.
LEMMA NumsDiffer ==
  ASSUME NEW isn \in SeqNo, NEW i \in -1..Payloads, NEW j \in -1..Payloads,
         NumOf(isn, i) = NumOf(isn, j)
  PROVE  i = j
<1>1. i \in -1..Half /\ j \in -1..Half
  BY TransferAssumption, SeqNoAssumption DEF Half
<1> QED BY <1>1, NumbersDiffer

\* Span is the range between two packets.
LEMMA SpanOfNums ==
  ASSUME NEW isn \in SeqNo, NEW i \in 0..Payloads, NEW j \in (i - 1)..Payloads
  PROVE  Span(NumOf(isn, i), NumOf(isn, j)) = NumsOf(isn, i..j)
<1>1. i \in 0..Half /\ j \in (i - 1)..Half /\ SeqNoTH > 1
  BY TransferAssumption, SeqNoAssumption DEF Half
<1> QED BY <1>1, SpanOfNumbers DEF Span

\* Oldest is the one sent first.
LEMMA OldestOfNums ==
  ASSUME NEW isn \in SeqNo, NEW K \in SUBSET (0..Payloads), K # {}
  PROVE  \E m \in K : /\ Oldest(NumsOf(isn, K)) = NumOf(isn, m)
                      /\ \A k \in K : m <= k
<1>1. K \in SUBSET (0..Half)
  BY TransferAssumption, SeqNoAssumption DEF Half
<1> QED BY <1>1, OldestOfNumbers DEF Oldest

\* Taking out a number takes out its packet.
LEMMA NumsWithout ==
  ASSUME NEW isn \in SeqNo, NEW A \in SUBSET (0..Payloads), NEW k \in 0..Payloads
  PROVE  NumsOf(isn, A) \ {NumOf(isn, k)} = NumsOf(isn, A \ {k})
<1>1. A \in SUBSET (0..Half) /\ k \in 0..Half
  BY TransferAssumption, SeqNoAssumption DEF Half
<1> QED BY <1>1, NumbersWithout

(***************************************************************************)
(* The inductive invariant                                                 *)
(***************************************************************************)
Num(k)      == NumOf(Isn, k)
Nums(K)     == NumsOf(Isn, K)
SlotOf(k)   == unit[k % RcvBufSize]

\* Up to here the sender may go: what the receiver has room for, or the 2 packets it always
\* may send.
Limit(rl, n) == IF n + RcvBufSize > rl + 2 THEN n + RcvBufSize ELSE rl + 2

\* The sender: packet c was the last one sent, la were acknowledged, and da of them were
\* taken out of the buffer.
SenderAt(c, la, da) ==
  /\ sent \in Nat /\ sent <= Payloads /\ c \in Int /\ la \in Nat /\ da \in Nat
  /\ -1 <= c /\ c < sent /\ da <= la /\ la <= c + 1
  /\ sndCurr = Num(c) /\ sndLastAck = Num(la) /\ sndLastDataAck = Num(da)
  /\ sndBuf = [i \in 1..(sent - da) |-> da + i] /\ sent - da <= SndBufSize
  /\ currBlock = c + 1 - da
  /\ ~broken
  /\ sndLoss \subseteq Nums(0..c)
  /\ packing \in {NoSeq, NewSeq} \union Nums(0..c)

\* The flow window, also when it is set for an acknowledgement that is not processed yet.
WindowAt(c, la, rl, n) ==
  /\ sndWin \in Int
  /\ \/ acking = NoAck /\ la + sndWin <= Limit(rl, n)
     \/ \E a \in 0..(c + 1) :
          /\ acking.ack = Num(a) /\ acking.kind \in {"ack", "lite"}
          /\ acking.kind = "ack" => a <= rl
          /\ (IF a >= la THEN a ELSE la) + sndWin <= Limit(rl, n)
  /\ c < Limit(rl, n)

\* The receiver: packet rc was the newest to come, rl were acknowledged, rla of these for
\* good, and n were read.  A slot of the buffer belongs to one packet between.
ReceiverAt(rc, rl, rla, n) ==
  /\ rc \in Int /\ rl \in Nat /\ rla \in Nat /\ n \in Nat
  /\ n <= rl /\ rl <= rc + 1 /\ rla <= rl /\ rc + 1 < n + RcvBufSize
  /\ rcvCurr = Num(rc) /\ rcvLastAck = Num(rl) /\ rcvLastAckAck = Num(rla)
  /\ got = [i \in 1..n |-> i]
  /\ startPos = n % RcvBufSize /\ lastAckPos = rl % RcvBufSize
  /\ unit \in [0..(RcvBufSize - 1) -> Nat]
  /\ \A k \in n..(n + RcvBufSize - 1) :
       /\ SlotOf(k) \in {0, k + 1}
       /\ k < rl => SlotOf(k) # 0
       /\ k > rc => SlotOf(k) = 0
  /\ rcvLoss = Nums({k \in rl..rc : SlotOf(k) = 0})

\* What a packet under way may say.
TruePacket(p, c, rl, limit) ==
  \/ \E k \in 0..c : p = Data(Num(k), k + 1)
  \/ \E a \in 0..rl, w \in Nat : p = Ack(Num(a), w) /\ a + w <= limit
  \/ \E a \in 0..(c + 1) : p = LiteAck(Num(a))
  \/ \E a \in 0..rl : p = Ack2(Num(a))
  \/ \E i \in 0..c, j \in 0..c : p = Nak(Num(i), Num(j)) /\ i <= j

TransferAt(c, la, da, rc, rl, rla, n) ==
  /\ setup \in Setups
  /\ SenderAt(c, la, da) /\ WindowAt(c, la, rl, n) /\ ReceiverAt(rc, rl, rla, n)
  /\ rc <= c
  /\ da <= rl
  /\ \A p \in net : TruePacket(p, c, rl, Limit(rl, n))

TransferInv ==
  \E c \in -1..Payloads, la \in 0..Payloads, da \in 0..Payloads, rc \in -1..Payloads,
     rl \in 0..Payloads, rla \in 0..Payloads, n \in 0..Payloads :
       TransferAt(c, la, da, rc, rl, rla, n)

(***************************************************************************)
(* Facts that the steps use                                                *)
(***************************************************************************)
\* Consecutive payloads.
LEMMA Counting ==
  ASSUME NEW m \in Nat, NEW d \in Int
  PROVE  LET s == [i \in 1..m |-> d + i]
         IN  /\ Len(s) = m /\ s \in Seq(Int)
             /\ Append(s, d + m + 1) = [i \in 1..(m + 1) |-> d + i]
             /\ \A o \in 0..m : SubSeq(s, o + 1, m) = [i \in 1..(m - o) |-> (d + o) + i]
             /\ \A k \in Nat : s \o [i \in 1..k |-> (d + m) + i] = [i \in 1..(m + k) |-> d + i]
<1> DEFINE s == [i \in 1..m |-> d + i]
<1>1. s \in Seq(Int) /\ Len(s) = m
  OBVIOUS
<1>2. Append(s, d + m + 1) = [i \in 1..(m + 1) |-> d + i]
  OBVIOUS
<1>3. ASSUME NEW o \in 0..m
      PROVE  SubSeq(s, o + 1, m) = [i \in 1..(m - o) |-> (d + o) + i]
  OBVIOUS
<1>4. ASSUME NEW k \in Nat
      PROVE  s \o [i \in 1..k |-> (d + m) + i] = [i \in 1..(m + k) |-> d + i]
  OBVIOUS
<1> QED BY <1>1, <1>2, <1>3, <1>4

\* What connect() may have agreed on.
LEMMA SetupIsSane ==
  ASSUME setup \in Setups
  PROVE  /\ Isn \in SeqNo /\ SndBufSize \in Nat \ {0} /\ RcvBufSize \in Nat \ {0}
         /\ Payloads \in Nat /\ Payloads >= 1
BY TransferAssumption, SeqNoAssumption DEF Isn, SndBufSize, RcvBufSize

\* A loss list is never empty where packData looks for its oldest.
LEMMA OldestIsIn ==
  ASSUME setup \in Setups, NEW K \in SUBSET (0..Payloads), NEW L \in SUBSET Nums(K), L # {}
  PROVE  Oldest(L) \in L
<1> DEFINE J == {k \in K : Num(k) \in L}
<1>1. L = NumsOf(Isn, J) /\ J # {}
  BY DEF Nums, NumsOf, Num
<1>2. J \in SUBSET (0..Payloads)
  OBVIOUS
<1> HIDE DEF J
<1>3. \E m \in J : Oldest(NumsOf(Isn, J)) = NumOf(Isn, m)
  BY <1>1, <1>2, SetupIsSane, OldestOfNums
<1> QED BY <1>1, <1>3 DEF NumsOf

\* The bounds of what is where.
LEMMA IndicesAreSane ==
  ASSUME NEW c, NEW la, NEW da, NEW rc, NEW rl, NEW rla, NEW n,
         TransferAt(c, la, da, rc, rl, rla, n)
  PROVE  /\ Payloads \in Nat /\ c \in Int /\ rc \in Int /\ sent \in 0..Payloads
         /\ c \in -1..Payloads /\ c < Payloads /\ rc \in -1..c
         /\ la \in 0..Payloads /\ da \in 0..Payloads /\ rl \in 0..Payloads
         /\ rla \in 0..Payloads /\ n \in 0..Payloads
         /\ n <= rl /\ rl <= rc + 1 /\ rl <= c + 1 /\ rla <= rl /\ da <= la /\ la <= c + 1
         /\ da <= rl /\ rl - n < RcvBufSize /\ rc + 1 < n + RcvBufSize
         /\ setup \in Setups
<1>1. setup \in Setups /\ RcvBufSize \in Nat /\ Payloads \in Nat
  BY SetupIsSane DEF TransferAt
<1>2. /\ sent \in Nat /\ sent <= Payloads /\ c \in Int /\ la \in Nat /\ da \in Nat
      /\ -1 <= c /\ c < sent /\ da <= la /\ la <= c + 1
  BY DEF TransferAt, SenderAt
<1>3. /\ rc \in Int /\ rl \in Nat /\ rla \in Nat /\ n \in Nat
      /\ n <= rl /\ rl <= rc + 1 /\ rla <= rl /\ rc + 1 < n + RcvBufSize
  BY DEF TransferAt, ReceiverAt
<1>4. rc <= c /\ da <= rl
  BY DEF TransferAt
<1> QED BY <1>1, <1>2, <1>3, <1>4

\* Indices after a step are in their ranges.
LEMMA InvFromAt ==
  ASSUME NEW c, NEW la, NEW da, NEW rc, NEW rl, NEW rla, NEW n,
         TransferAt(c, la, da, rc, rl, rla, n)'
  PROVE  TransferInv'
<1>1. Payloads \in Nat
  BY TransferAssumption, SeqNoAssumption
<1>3. /\ sent' \in Nat /\ sent' <= Payloads /\ c \in Int /\ la \in Nat /\ da \in Nat
      /\ -1 <= c /\ c < sent' /\ da <= la /\ la <= c + 1
  BY DEF TransferAt, SenderAt
<1>4. /\ rc \in Int /\ rl \in Nat /\ rla \in Nat /\ n \in Nat
      /\ n <= rl /\ rl <= rc + 1 /\ rla <= rl
  BY DEF TransferAt, ReceiverAt
<1>5. rc <= c
  BY DEF TransferAt
<1>6. /\ c \in -1..Payloads /\ la \in 0..Payloads /\ da \in 0..Payloads /\ rc \in -1..Payloads
      /\ rl \in 0..Payloads /\ rla \in 0..Payloads /\ n \in 0..Payloads
  BY <1>1, <1>3, <1>4, <1>5
<1> QED BY <1>6 DEF TransferInv

\* Each kind of packet.
LEMMA PacketSays ==
  ASSUME NEW p, NEW c, NEW rl, NEW limit, TruePacket(p, c, rl, limit)
  PROVE  /\ p.kind = "data" => \E k \in 0..c : p = Data(Num(k), k + 1)
         /\ p.kind = "ack"  => \E a \in 0..rl, w \in Nat : p = Ack(Num(a), w) /\ a + w <= limit
         /\ p.kind = "lite" => \E a \in 0..(c + 1) : p = LiteAck(Num(a))
         /\ p.kind = "ack2" => \E a \in 0..rl : p = Ack2(Num(a))
         /\ p.kind = "nak"  => \E i \in 0..c, j \in 0..c : p = Nak(Num(i), Num(j)) /\ i <= j
BY DEF TruePacket, Data, Ack, LiteAck, Ack2, Nak

\* Steps of the receiver leave the sender alone.
LEMMA SenderStays ==
  ASSUME NEW c, NEW la, NEW da, SenderAt(c, la, da), UNCHANGED sndVars
  PROVE  SenderAt(c, la, da)'
BY DEF SenderAt, sndVars, Num, Nums, Isn, SndBufSize

\* Steps of the sender leave the receiver alone.
LEMMA ReceiverStays ==
  ASSUME NEW rc, NEW rl, NEW rla, NEW n, ReceiverAt(rc, rl, rla, n), UNCHANGED rcvVars
  PROVE  ReceiverAt(rc, rl, rla, n)'
BY DEF ReceiverAt, rcvVars, Num, Nums, Isn, RcvBufSize, SlotOf

\* Acknowledging or reading more leaves the window within the limit.
LEMMA WindowStays ==
  ASSUME setup \in Setups, NEW c \in Int, NEW la \in Int, NEW rl \in Int, NEW n \in Int,
         NEW rl2 \in Int, NEW n2 \in Int, rl <= rl2, n <= n2,
         WindowAt(c, la, rl, n), UNCHANGED <<setup, sndWin, acking>>
  PROVE  WindowAt(c, la, rl2, n2)'
<1>1. /\ Limit(rl, n) \in Int /\ Limit(rl2, n2) \in Int /\ Limit(rl, n) <= Limit(rl2, n2)
      /\ Limit(rl2, n2)' = Limit(rl2, n2)
  BY SetupIsSane DEF Limit, RcvBufSize
<1>2. sndWin \in Int
  BY DEF WindowAt
<1>3. c < Limit(rl2, n2)'
  BY <1>1 DEF WindowAt
<1>4. CASE acking = NoAck /\ la + sndWin <= Limit(rl, n)
  <2>1. la + sndWin' <= Limit(rl2, n2)'
    BY <1>1, <1>2, <1>4
  <2> QED BY <1>2, <1>3, <1>4, <2>1 DEF WindowAt
<1>5. ASSUME NEW a \in 0..(c + 1),
             acking.ack = Num(a), acking.kind \in {"ack", "lite"}, acking.kind = "ack" => a <= rl,
             (IF a >= la THEN a ELSE la) + sndWin <= Limit(rl, n)
      PROVE  WindowAt(c, la, rl2, n2)'
  <2>1. (IF a >= la THEN a ELSE la) + sndWin' <= Limit(rl2, n2)'
    BY <1>1, <1>2, <1>5
  <2>2. acking'.ack = Num(a)' /\ acking'.kind \in {"ack", "lite"}
        /\ (acking'.kind = "ack" => a <= rl2)
    BY <1>5 DEF Num, Isn
  <2> QED BY <1>2, <1>3, <2>1, <2>2 DEF WindowAt
<1> QED BY <1>4, <1>5 DEF WindowAt

(***************************************************************************)
(* The steps of the sender                                                 *)
(***************************************************************************)
\* Before the first packet all indices are at their start.
LEMMA InvInit == Init => TransferInv
<1> SUFFICES ASSUME Init PROVE TransferInv
  OBVIOUS
<1>1. /\ setup \in Setups /\ Isn \in SeqNo /\ SndBufSize \in Nat \ {0}
      /\ RcvBufSize \in Nat \ {0} /\ Payloads \in Nat /\ Payloads >= 1
  BY SetupIsSane DEF Init
<1>2. Num(0) = Isn /\ Num(-1) = Isn - 1
  BY <1>1, NumIsSeqNo DEF Num, NumOf
<1>3. SenderAt(-1, 0, 0)
  BY <1>1, <1>2 DEF Init, SenderAt, NoSeq
<1>4. WindowAt(-1, 0, 0, 0)
  BY <1>1 DEF Init, WindowAt, Limit
<1>5. 0 % RcvBufSize = 0
  BY <1>1
<1>6. \A k \in 0..(0 + RcvBufSize - 1) : SlotOf(k) = 0
  BY <1>1, RemainderIsSlot DEF Init, SlotOf
<1>7. Nums({k \in 0..-1 : SlotOf(k) = 0}) = {}
  BY DEF Nums, NumsOf
<1>8. ReceiverAt(-1, 0, 0, 0)
  BY <1>1, <1>2, <1>5, <1>6, <1>7 DEF Init, ReceiverAt
<1>9. TransferAt(-1, 0, 0, -1, 0, 0, 0)
  BY <1>1, <1>3, <1>4, <1>8 DEF TransferAt, Init
<1> QED BY <1>1, <1>9 DEF TransferInv

\* send() appends the next payload.
LEMMA SendKeeps ==
  ASSUME NEW c, NEW la, NEW da, NEW rc, NEW rl, NEW rla, NEW n,
         TransferAt(c, la, da, rc, rl, rla, n), Send
  PROVE  TransferInv'
<1>1. /\ sent \in 0..Payloads /\ Payloads \in Nat /\ c \in Int /\ la \in Int /\ rl \in Int
      /\ n \in Int /\ da \in 0..Payloads /\ da <= la /\ la <= c + 1 /\ setup \in Setups
  BY IndicesAreSane
<1>2. /\ sent < Payloads /\ sent' = sent + 1 /\ sndBuf' = Append(sndBuf, sent + 1)
      /\ Len(sndBuf) < SndBufSize
      /\ UNCHANGED <<currBlock, sndCurr, sndLastAck, sndLastDataAck, sndWin, sndLoss,
                     packing, acking, broken, rcvVars, setup, net, losses>>
  BY DEF Send, rcvVars
<1>3. c < sent /\ sndBuf = [i \in 1..(sent - da) |-> da + i]
  BY DEF TransferAt, SenderAt
<1>4. sent - da \in Nat
  BY <1>1, <1>3
<1>5. Len(sndBuf) = sent - da
  BY <1>1, <1>3, <1>4, Counting
<1>6. sndBuf' = [i \in 1..(sent' - da) |-> da + i]
  <2>1. Append(sndBuf, da + (sent - da) + 1) = [i \in 1..(sent - da + 1) |-> da + i]
    BY <1>1, <1>3, <1>4, Counting
  <2>2. da + (sent - da) + 1 = sent + 1 /\ sent - da + 1 = (sent + 1) - da
    BY <1>1
  <2> QED BY <1>2, <2>1, <2>2
<1>7. SndBufSize \in Nat /\ sent' - da <= SndBufSize
  BY <1>1, <1>2, <1>5, SetupIsSane
<1>8. SenderAt(c, la, da)'
  <2>1. SenderAt(c, la, da)
    BY DEF TransferAt
  <2> QED BY <1>1, <1>2, <1>6, <1>7, <2>1 DEF SenderAt, Num, Nums, Isn, SndBufSize
<1>9. WindowAt(c, la, rl, n)' /\ ReceiverAt(rc, rl, rla, n)'
  BY <1>1, <1>2, WindowStays, ReceiverStays DEF TransferAt
<1>10. \A p \in net' : TruePacket(p, c, rl, Limit(rl, n))'
  BY <1>2 DEF TransferAt, TruePacket, Limit, Num, Isn, RcvBufSize
<1>11. TransferAt(c, la, da, rc, rl, rla, n)'
  BY <1>2, <1>8, <1>9, <1>10 DEF TransferAt
<1> QED BY <1>11, InvFromAt

\* packData takes a packet that was sent, or none.
LEMMA PickPacketKeeps ==
  ASSUME NEW c, NEW la, NEW da, NEW rc, NEW rl, NEW rla, NEW n,
         TransferAt(c, la, da, rc, rl, rla, n), PickPacket
  PROVE  TransferInv'
<1>1. /\ Payloads \in Nat /\ c \in Int /\ la \in Int /\ rl \in Int /\ n \in Int
      /\ c < Payloads /\ setup \in Setups
  BY IndicesAreSane
<1>2. /\ packing' = IF sndLoss = {} THEN NewSeq ELSE Oldest(sndLoss)
      /\ sndLoss' = sndLoss \ {packing'}
      /\ UNCHANGED <<setup, sent, sndBuf, currBlock, sndCurr, sndLastAck, sndLastDataAck,
                     sndWin, acking, broken, rcvVars, net, losses>>
  BY DEF PickPacket, rcvVars
<1>3. SenderAt(c, la, da)
  BY DEF TransferAt
<1>4. packing' \in {NoSeq, NewSeq} \union Nums(0..c)
  <2>1. sndLoss \subseteq Nums(0..c) /\ 0..c \in SUBSET (0..Payloads)
    BY <1>1, <1>3 DEF SenderAt
  <2> QED BY <1>1, <1>2, <2>1, OldestIsIn
<1>5. SenderAt(c, la, da)'
  BY <1>2, <1>3, <1>4 DEF SenderAt, Num, Nums, Isn, SndBufSize
<1>6. WindowAt(c, la, rl, n)' /\ ReceiverAt(rc, rl, rla, n)'
  BY <1>1, <1>2, WindowStays, ReceiverStays DEF TransferAt
<1>7. \A p \in net' : TruePacket(p, c, rl, Limit(rl, n))'
  BY <1>2 DEF TransferAt, TruePacket, Limit, Num, Isn, RcvBufSize
<1>8. TransferAt(c, la, da, rc, rl, rla, n)'
  BY <1>2, <1>5, <1>6, <1>7 DEF TransferAt
<1> QED BY <1>8, InvFromAt

\* The block found by its distance from what is acknowledged is the packet's own.
LEMMA RetransmitKeeps ==
  ASSUME NEW c, NEW la, NEW da, NEW rc, NEW rl, NEW rla, NEW n,
         TransferAt(c, la, da, rc, rl, rla, n), Retransmit
  PROVE  TransferInv'
<1>1. /\ Payloads \in Nat /\ c \in Int /\ la \in Int /\ rl \in Int /\ n \in Int
      /\ c < Payloads /\ setup \in Setups /\ da \in 0..Payloads /\ sent \in 0..Payloads
      /\ da <= la /\ la <= c + 1
  BY IndicesAreSane
<1> DEFINE offset == seqoff(sndLastDataAck, packing)
           block  == IF offset + 1 \in 1..Len(sndBuf) THEN sndBuf[offset + 1] ELSE 0
           P      == IF offset < 0 THEN {} ELSE {Data(packing, block)}
<1>2. /\ packing \in SeqNo /\ packing' = NoSeq
      /\ net' = net \union P
      /\ UNCHANGED <<setup, sent, sndBuf, currBlock, sndCurr, sndLastAck, sndLastDataAck,
                     sndWin, sndLoss, acking, broken, rcvVars, losses>>
  BY DEF Retransmit, Sends, rcvVars
<1>3. SenderAt(c, la, da) /\ \A p \in net : TruePacket(p, c, rl, Limit(rl, n))
  BY DEF TransferAt
<1>4. PICK k \in 0..c : packing = Num(k)
  BY <1>2, <1>3, SeqNoAssumption DEF SenderAt, SeqNo, NoSeq, NewSeq, Nums, NumsOf, Num
<1>5. offset = k - da
  <2>1. sndLastDataAck = Num(da) /\ k \in -1..Payloads /\ da - k <= Payloads /\ Isn \in SeqNo
    BY <1>1, <1>3, SetupIsSane DEF SenderAt
  <2> QED BY <1>1, <1>4, <2>1, OffsetOfNums DEF Num
<1>6. offset >= 0 => block = k + 1
  <2>1. /\ sndBuf = [i \in 1..(sent - da) |-> da + i] /\ sent - da \in Nat /\ c < sent
    BY <1>1, <1>3 DEF SenderAt
  <2>2. Len(sndBuf) = sent - da
    BY <1>1, <2>1, Counting
  <2>3. offset >= 0 => k - da + 1 \in 1..(sent - da)
    BY <1>1, <1>5, <2>1
  <2> QED BY <1>1, <1>5, <2>1, <2>2, <2>3
<1>7. \A p \in P : TruePacket(p, c, rl, Limit(rl, n))
  BY <1>4, <1>5, <1>6, <1>1 DEF TruePacket
<1> HIDE DEF P
<1>8. SenderAt(c, la, da)'
  BY <1>2, <1>3 DEF SenderAt, Num, Nums, Isn, SndBufSize
<1>9. WindowAt(c, la, rl, n)' /\ ReceiverAt(rc, rl, rla, n)'
  BY <1>1, <1>2, WindowStays, ReceiverStays DEF TransferAt
<1>10. \A p \in net' : TruePacket(p, c, rl, Limit(rl, n))'
  BY <1>2, <1>3, <1>7 DEF TruePacket, Limit, Num, Isn, RcvBufSize
<1>11. TransferAt(c, la, da, rc, rl, rla, n)'
  BY <1>2, <1>8, <1>9, <1>10 DEF TransferAt
<1> QED BY <1>11, InvFromAt

\* Whatever acknowledgement is being processed, the window is within the limit.
LEMMA WindowWithinLimit ==
  ASSUME setup \in Setups, NEW c \in Int, NEW la \in Int, NEW rl \in Int, NEW n \in Int,
         WindowAt(c, la, rl, n)
  PROVE  sndWin \in Int /\ la + sndWin <= Limit(rl, n)
<1>1. sndWin \in Int /\ Limit(rl, n) \in Int
  BY SetupIsSane DEF WindowAt, Limit
<1> QED BY <1>1 DEF WindowAt

\* A new packet is within the limit.
LEMMA SendNewKeeps ==
  ASSUME NEW c, NEW la, NEW da, NEW rc, NEW rl, NEW rla, NEW n,
         TransferAt(c, la, da, rc, rl, rla, n), SendNew
  PROVE  TransferInv'
<1>1. /\ Payloads \in Nat /\ c \in -1..Payloads /\ la \in 0..Payloads /\ rl \in Int /\ n \in Int
      /\ c < Payloads /\ setup \in Setups /\ da \in 0..Payloads /\ sent \in 0..Payloads
      /\ da <= la /\ la <= c + 1 /\ rc \in Int /\ rc <= c
  BY IndicesAreSane
<1>2. SenderAt(c, la, da) /\ WindowAt(c, la, rl, n) /\ ReceiverAt(rc, rl, rla, n)
      /\ \A p \in net : TruePacket(p, c, rl, Limit(rl, n))
  BY DEF TransferAt
<1>3. Limit(rl, n) \in Int /\ Isn \in SeqNo
  BY <1>1, SetupIsSane DEF Limit
<1>4. CASE WindowOpen /\ currBlock < Len(sndBuf)
  <2> DEFINE P == {Data(sndCurr', sndBuf[currBlock + 1])}
  <2>1. /\ packing' = NoSeq /\ sndCurr' = incseq(sndCurr) /\ currBlock' = currBlock + 1
        /\ net' = net \union P
        /\ UNCHANGED <<setup, sent, sndBuf, sndLastAck, sndLastDataAck, sndWin, sndLoss, acking,
                       broken, rcvVars, losses>>
    BY <1>4 DEF SendNew, Sends, rcvVars
  <2>2. incseq(sndCurr) = Num(c + 1)
    BY <1>1, <1>2, <1>3, NextNum DEF SenderAt, Num
  <2>3. /\ sndBuf = [i \in 1..(sent - da) |-> da + i] /\ sent - da \in Nat /\ c < sent
        /\ currBlock = c + 1 - da
    BY <1>1, <1>2 DEF SenderAt
  <2>4. Len(sndBuf) = sent - da
    BY <1>1, <2>3, Counting
  <2>5. c + 1 < sent /\ sndBuf[currBlock + 1] = c + 2
    BY <1>1, <1>4, <2>3, <2>4
  <2>6. c + 1 < Limit(rl, n)
    <3>1. sndWin \in Int /\ la + sndWin <= Limit(rl, n)
      BY <1>1, <1>2, WindowWithinLimit
    <3>2. sndLastAck = Num(la) /\ c + 1 \in la..Payloads
      BY <1>1, <1>2 DEF SenderAt
    <3>3. seqlen(Num(la), Num(c + 1)) = c + 1 - la + 1
      BY <1>1, <1>3, <3>2, LengthOfNums DEF Num
    <3> QED BY <1>1, <1>3, <1>4, <2>2, <3>1, <3>2, <3>3 DEF WindowOpen
  <2>7. \A p \in P : TruePacket(p, c + 1, rl, Limit(rl, n))
    <3>1. c + 2 = (c + 1) + 1 /\ c + 1 \in 0..(c + 1)
      BY <1>1
    <3> QED BY <2>1, <2>2, <2>5, <3>1 DEF TruePacket
  <2> HIDE DEF P
  <2>8. SenderAt(c + 1, la, da)'
    <3>1. Nums(0..c) \subseteq Nums(0..(c + 1))
      BY <1>1 DEF Nums, NumsOf
    <3>2. sndCurr' = Num(c + 1)'
      BY <2>1, <2>2 DEF Num, Isn
    <3>3. currBlock' = (c + 1) + 1 - da
      BY <1>1, <2>1, <2>3
    <3>4. sndLoss' \subseteq Nums(0..(c + 1))' /\ packing' \in {NoSeq, NewSeq}
      BY <1>2, <2>1, <3>1 DEF SenderAt, Nums, Isn
    <3>5. /\ c + 1 \in Int /\ -1 <= c + 1 /\ c + 1 < sent' /\ la <= (c + 1) + 1
      BY <1>1, <2>1, <2>5
    <3> QED BY <1>2, <2>1, <3>2, <3>3, <3>4, <3>5 DEF SenderAt, Num, Isn, SndBufSize
  <2>9. WindowAt(c + 1, la, rl, n)'
    <3>1. WindowAt(c, la, rl, n)'
      BY <1>1, <1>2, <2>1, WindowStays
    <3>2. c + 1 < Limit(rl, n)'
      BY <2>1, <2>6 DEF Limit, RcvBufSize
    <3>3. 0..(c + 1) \subseteq 0..((c + 1) + 1)
      BY <1>1
    <3> QED BY <3>1, <3>2, <3>3 DEF WindowAt
  <2>10. ReceiverAt(rc, rl, rla, n)'
    BY <1>2, <2>1, ReceiverStays
  <2>11. \A p \in net' : TruePacket(p, c + 1, rl, Limit(rl, n))'
    <3>1. c + 1 \in Int /\ c <= c + 1 /\ c \in Int /\ net' \subseteq net \union P /\ setup' = setup
      BY <1>1, <2>1
    <3>2. \A p \in net' : TruePacket(p, c + 1, rl, Limit(rl, n))
      BY <1>1, <1>2, <1>3, <2>7, <3>1 DEF TruePacket
    <3> QED BY <3>1, <3>2 DEF TruePacket, Limit, Num, Isn, RcvBufSize
  <2>12. TransferAt(c + 1, la, da, rc, rl, rla, n)'
    BY <1>1, <1>2, <2>1, <2>8, <2>9, <2>10, <2>11 DEF TransferAt
  <2> QED BY <2>12, InvFromAt
<1>5. CASE ~(WindowOpen /\ currBlock < Len(sndBuf))
  <2>1. /\ packing' = NoSeq
        /\ UNCHANGED <<setup, sent, sndBuf, currBlock, sndCurr, sndLastAck, sndLastDataAck,
                       sndWin, sndLoss, acking, broken, rcvVars, net, losses>>
    BY <1>5 DEF SendNew, rcvVars
  <2>2. SenderAt(c, la, da)'
    BY <1>2, <2>1 DEF SenderAt, Num, Nums, Isn, SndBufSize
  <2>3. WindowAt(c, la, rl, n)' /\ ReceiverAt(rc, rl, rla, n)'
    BY <1>1, <1>2, <2>1, WindowStays, ReceiverStays
  <2>4. \A p \in net' : TruePacket(p, c, rl, Limit(rl, n))'
    BY <1>2, <2>1 DEF TruePacket, Limit, Num, Isn, RcvBufSize
  <2>5. TransferAt(c, la, da, rc, rl, rla, n)'
    BY <2>1, <2>2, <2>3, <2>4 DEF TransferAt
  <2> QED BY <2>5, InvFromAt
<1> QED BY <1>4, <1>5

\* An acknowledgement under way never names more than was sent.
LEMMA StartAckKeeps ==
  ASSUME NEW c, NEW la, NEW da, NEW rc, NEW rl, NEW rla, NEW n,
         TransferAt(c, la, da, rc, rl, rla, n), NEW p \in net, StartAck(p)
  PROVE  TransferInv'
<1>1. /\ Payloads \in Nat /\ c \in -1..Payloads /\ la \in 0..Payloads /\ rl \in 0..Payloads
      /\ n \in Int /\ c < Payloads /\ setup \in Setups /\ la <= c + 1 /\ rl <= c + 1
  BY IndicesAreSane
<1>2. SenderAt(c, la, da) /\ WindowAt(c, la, rl, n) /\ ReceiverAt(rc, rl, rla, n)
      /\ \A q \in net : TruePacket(q, c, rl, Limit(rl, n))
  BY DEF TransferAt
<1>3. Limit(rl, n) \in Int /\ Isn \in SeqNo
  BY <1>1, SetupIsSane DEF Limit
<1>4. PICK a \in 0..rl, w \in Nat : p = Ack(Num(a), w) /\ a + w <= Limit(rl, n)
  BY <1>2, PacketSays DEF StartAck
<1>5. a \in 0..Payloads /\ a \in 0..(c + 1) /\ p.ack = Num(a) /\ p.win = w /\ p.kind = "ack"
  BY <1>1, <1>4 DEF Ack
<1>6. ~(seqcmp(p.ack, incseq(sndCurr)) > 0)
  <2>1. incseq(sndCurr) = Num(c + 1)
    BY <1>1, <1>2, <1>3, NextNum DEF SenderAt, Num
  <2>2. c + 1 \in -1..Payloads /\ a - (c + 1) <= Payloads /\ ~(a > c + 1)
    BY <1>1, <1>5
  <2> QED BY <1>3, <1>5, <2>1, <2>2, CompareNums DEF Num
<1>7. seqcmp(p.ack, sndLastAck) >= 0 <=> a >= la
  <2>1. sndLastAck = Num(la) /\ la \in -1..Payloads /\ a - la <= Payloads
    BY <1>1, <1>2, <1>5 DEF SenderAt
  <2> QED BY <1>1, <1>3, <1>5, <2>1, CompareNums DEF Num
<1>8. /\ acking = NoAck /\ broken' = FALSE /\ acking' = p
      /\ sndWin' = (IF a >= la THEN w ELSE sndWin)
      /\ net' \subseteq net \union {Ack2(p.ack)}
      /\ UNCHANGED <<setup, sent, sndBuf, currBlock, sndCurr, sndLastAck, sndLastDataAck,
                     sndLoss, packing, rcvVars, losses>>
  <2> DEFINE attack == seqcmp(p.ack, incseq(sndCurr)) > 0
  <2>1. /\ acking = NoAck /\ Takes(p, {Ack2(p.ack)})
        /\ broken' = attack /\ acking' = (IF attack THEN NoAck ELSE p)
        /\ sndWin' = (IF ~attack /\ seqcmp(p.ack, sndLastAck) >= 0 THEN p.win ELSE sndWin)
        /\ UNCHANGED <<setup, sent, sndBuf, currBlock, sndCurr, sndLastAck, sndLastDataAck,
                       sndLoss, packing, rcvVars>>
    BY DEF StartAck, rcvVars
  <2>2. attack = FALSE
    BY <1>6
  <2>3. net' \subseteq net \union {Ack2(p.ack)} /\ UNCHANGED losses
    BY <2>1 DEF Takes
  <2> HIDE DEF attack
  <2>4. broken' = FALSE /\ acking' = p
    BY <2>1, <2>2
  <2>5. sndWin' = (IF a >= la THEN w ELSE sndWin)
    BY <1>5, <1>7, <2>1, <2>2
  <2> QED BY <2>1, <2>3, <2>4, <2>5
<1>9. SenderAt(c, la, da)'
  BY <1>2, <1>8 DEF SenderAt, Num, Nums, Isn, SndBufSize
<1>10. WindowAt(c, la, rl, n)'
  <2>0. c < Limit(rl, n)
    BY <1>2 DEF WindowAt
  <2>1. sndWin \in Int /\ la + sndWin <= Limit(rl, n) /\ c < Limit(rl, n)
    BY <1>1, <1>2, <2>0, WindowWithinLimit
  <2>2. (IF a >= la THEN a ELSE la) + sndWin' <= Limit(rl, n) /\ sndWin' \in Int
    BY <1>1, <1>4, <1>5, <1>8, <2>1
  <2>3. acking'.ack = Num(a)' /\ acking'.kind = "ack" /\ Limit(rl, n)' = Limit(rl, n) /\ a <= rl
    BY <1>5, <1>4, <1>1, <1>8 DEF Num, Isn, Limit, RcvBufSize
  <2> QED BY <1>5, <2>1, <2>2, <2>3 DEF WindowAt
<1>11. ReceiverAt(rc, rl, rla, n)'
  BY <1>2, <1>8, ReceiverStays
<1>12. \A q \in net' : TruePacket(q, c, rl, Limit(rl, n))'
  BY <1>2, <1>4, <1>5, <1>8 DEF TruePacket, Limit, Num, Isn, RcvBufSize
<1>13. TransferAt(c, la, da, rc, rl, rla, n)'
  BY <1>8, <1>9, <1>10, <1>11, <1>12 DEF TransferAt
<1> QED BY <1>13, InvFromAt

\* A lite acknowledgement moves the window by what it acknowledges.
LEMMA StartLiteAckKeeps ==
  ASSUME NEW c, NEW la, NEW da, NEW rc, NEW rl, NEW rla, NEW n,
         TransferAt(c, la, da, rc, rl, rla, n), NEW p \in net, StartLiteAck(p)
  PROVE  TransferInv'
<1>1. /\ Payloads \in Nat /\ c \in -1..Payloads /\ la \in 0..Payloads /\ rl \in 0..Payloads
      /\ n \in Int /\ c < Payloads /\ setup \in Setups /\ la <= c + 1 /\ rl <= c + 1
  BY IndicesAreSane
<1>2. SenderAt(c, la, da) /\ WindowAt(c, la, rl, n) /\ ReceiverAt(rc, rl, rla, n)
      /\ \A q \in net : TruePacket(q, c, rl, Limit(rl, n))
  BY DEF TransferAt
<1>3. Limit(rl, n) \in Int /\ Isn \in SeqNo
  BY <1>1, SetupIsSane DEF Limit
<1>4. PICK a \in 0..(c + 1) : p = LiteAck(Num(a))
  BY <1>2, PacketSays DEF StartLiteAck
<1>5. a \in 0..Payloads /\ p.ack = Num(a) /\ p.kind = "lite"
  BY <1>1, <1>4 DEF LiteAck
<1>6. sndLastAck = Num(la) /\ la \in -1..Payloads /\ a - la <= Payloads /\ la - a <= Payloads
      /\ a \in -1..Payloads
  BY <1>1, <1>2, <1>5 DEF SenderAt
<1>7. (seqcmp(p.ack, sndLastAck) >= 0 <=> a >= la) /\ seqoff(sndLastAck, p.ack) = a - la
  BY <1>1, <1>3, <1>5, <1>6, CompareNums, OffsetOfNums DEF Num
<1>8. /\ acking = NoAck /\ acking' = p
      /\ sndWin' = (IF a >= la THEN sndWin - (a - la) ELSE sndWin)
      /\ net' \subseteq net
      /\ UNCHANGED <<setup, sent, sndBuf, currBlock, sndCurr, sndLastAck, sndLastDataAck,
                     sndLoss, packing, broken, rcvVars, losses>>
  BY <1>7 DEF StartLiteAck, Takes, rcvVars
<1>9. SenderAt(c, la, da)'
  BY <1>2, <1>8 DEF SenderAt, Num, Nums, Isn, SndBufSize
<1>10. WindowAt(c, la, rl, n)'
  <2>0. c < Limit(rl, n)
    BY <1>2 DEF WindowAt
  <2>1. sndWin \in Int /\ la + sndWin <= Limit(rl, n) /\ c < Limit(rl, n)
    BY <1>1, <1>2, <2>0, WindowWithinLimit
  <2>2. (IF a >= la THEN a ELSE la) + sndWin' <= Limit(rl, n) /\ sndWin' \in Int
    BY <1>1, <1>3, <1>5, <1>8, <2>1
  <2>3. acking'.ack = Num(a)' /\ acking'.kind = "lite" /\ Limit(rl, n)' = Limit(rl, n)
    BY <1>5, <1>8 DEF Num, Isn, Limit, RcvBufSize
  <2> QED BY <1>4, <2>1, <2>2, <2>3 DEF WindowAt
<1>11. ReceiverAt(rc, rl, rla, n)'
  BY <1>2, <1>8, ReceiverStays
<1>12. \A q \in net' : TruePacket(q, c, rl, Limit(rl, n))'
  BY <1>2, <1>8 DEF TruePacket, Limit, Num, Isn, RcvBufSize
<1>13. TransferAt(c, la, da, rc, rl, rla, n)'
  BY <1>8, <1>9, <1>10, <1>11, <1>12 DEF TransferAt
<1> QED BY <1>13, InvFromAt

\* What is freed was acknowledged, and the window of an acknowledgement is set by now.
LEMMA FinishAckKeeps ==
  ASSUME NEW c, NEW la, NEW da, NEW rc, NEW rl, NEW rla, NEW n,
         TransferAt(c, la, da, rc, rl, rla, n), FinishAck
  PROVE  TransferInv'
<1>1. /\ Payloads \in Nat /\ c \in -1..Payloads /\ la \in 0..Payloads /\ rl \in 0..Payloads
      /\ n \in Int /\ c < Payloads /\ setup \in Setups /\ la <= c + 1 /\ rl <= c + 1
      /\ da \in 0..Payloads /\ da <= la /\ da <= rl /\ sent \in 0..Payloads
  BY IndicesAreSane
<1>2. SenderAt(c, la, da) /\ WindowAt(c, la, rl, n) /\ ReceiverAt(rc, rl, rla, n)
      /\ \A q \in net : TruePacket(q, c, rl, Limit(rl, n))
  BY DEF TransferAt
<1>3. Limit(rl, n) \in Int /\ Isn \in SeqNo /\ SndBufSize \in Nat
  BY <1>1, SetupIsSane DEF Limit
<1>4. PICK a \in 0..(c + 1) :
        /\ acking.ack = Num(a) /\ acking.kind \in {"ack", "lite"}
        /\ acking.kind = "ack" => a <= rl
        /\ (IF a >= la THEN a ELSE la) + sndWin <= Limit(rl, n)
  BY <1>2 DEF FinishAck, WindowAt
<1> DEFINE la2 == IF a >= la THEN a ELSE la
<1> PICK da2 \in Int : da2 = IF acking.kind = "ack" /\ a > da THEN a ELSE da
  BY <1>1
<1>5. /\ sndLastAck = Num(la) /\ sndLastDataAck = Num(da) /\ a \in -1..Payloads
      /\ a \in 0..Payloads /\ a - la <= Payloads /\ da - a <= Payloads /\ la \in -1..Payloads
  BY <1>1, <1>2 DEF SenderAt
<1>6. seqcmp(acking.ack, sndLastAck) >= 0 <=> a >= la
  BY <1>1, <1>3, <1>4, <1>5, CompareNums DEF Num
<1>7. seqoff(sndLastDataAck, acking.ack) = a - da
  BY <1>1, <1>3, <1>4, <1>5, OffsetOfNums DEF Num
<1>8. /\ acking' = NoAck /\ sndLastAck' = Num(la2)
      /\ UNCHANGED <<setup, sent, sndCurr, sndWin, packing, broken, rcvVars, net, losses>>
  BY <1>4, <1>5, <1>6 DEF FinishAck, rcvVars
<1>9. /\ sndBuf' = [i \in 1..(sent - da2) |-> da2 + i] /\ currBlock' = c + 1 - da2
      /\ sndLastDataAck' = Num(da2) /\ sndLoss' \subseteq sndLoss
  <2>1. CASE acking.kind = "ack" /\ a > da
    <3>1. /\ sndBuf' = SubSeq(sndBuf, a - da + 1, Len(sndBuf)) /\ currBlock' = currBlock - (a - da)
          /\ sndLastDataAck' = acking.ack /\ sndLoss' \subseteq sndLoss
      BY <1>1, <1>7, <2>1 DEF FinishAck
    <3>2. /\ sndBuf = [i \in 1..(sent - da) |-> da + i] /\ currBlock = c + 1 - da /\ c < sent
      BY <1>2 DEF SenderAt
    <3>3. sent - da \in Nat /\ a - da \in 0..(sent - da)
      BY <1>1, <2>1, <3>2
    <3>4. Len(sndBuf) = sent - da
      BY <1>1, <3>2, <3>3, Counting
    <3>5. SubSeq(sndBuf, (a - da) + 1, sent - da)
            = [i \in 1..((sent - da) - (a - da)) |-> (da + (a - da)) + i]
      BY <1>1, <3>2, <3>3, Counting
    <3>6. (sent - da) - (a - da) = sent - a /\ da + (a - da) = a
          /\ (c + 1 - da) - (a - da) = c + 1 - a /\ da2 = a
      BY <1>1, <2>1
    <3> QED BY <1>4, <3>1, <3>2, <3>4, <3>5, <3>6
  <2>2. CASE ~(acking.kind = "ack" /\ a > da)
    <3>1. UNCHANGED <<sndBuf, currBlock, sndLastDataAck, sndLoss>>
      <4>1. ~(acking.kind = "ack" /\ seqoff(sndLastDataAck, acking.ack) > 0)
        BY <1>1, <1>7, <2>2
      <4> QED BY <4>1 DEF FinishAck
    <3>2. da2 = da
      BY <2>2
    <3> QED BY <1>2, <3>1, <3>2 DEF SenderAt
  <2> QED BY <2>1, <2>2
<1>10. /\ la2 \in Nat /\ la2 <= c + 1 /\ da2 \in Nat /\ da2 <= la2 /\ da2 <= rl /\ da2 >= da
       /\ la2 + sndWin <= Limit(rl, n)
  BY <1>1, <1>4
<1> HIDE DEF la2
<1>11. SenderAt(c, la2, da2)'
  <2>1. sent - da2 <= SndBufSize
    BY <1>1, <1>2, <1>3, <1>10 DEF SenderAt
  <2>2. /\ sndCurr' = Num(c)' /\ sndLastAck' = Num(la2)' /\ sndLastDataAck' = Num(da2)'
        /\ sndLoss' \subseteq Nums(0..c)' /\ packing' \in {NoSeq, NewSeq} \union Nums(0..c)'
    BY <1>2, <1>8, <1>9 DEF SenderAt, Num, Nums, Isn
  <2>3. sent' = sent /\ ~broken' /\ SndBufSize' = SndBufSize
    BY <1>2, <1>8 DEF SenderAt, SndBufSize
  <2>4. sent \in Nat /\ sent <= Payloads /\ c \in Int /\ -1 <= c /\ c < sent
    BY <1>2 DEF SenderAt
  <2> QED BY <1>9, <1>10, <2>1, <2>2, <2>3, <2>4 DEF SenderAt
<1>12. WindowAt(c, la2, rl, n)'
  <2>1. sndWin \in Int /\ c < Limit(rl, n)
    BY <1>2 DEF WindowAt
  <2>2. Limit(rl, n)' = Limit(rl, n) /\ sndWin' = sndWin /\ acking' = NoAck
    BY <1>8 DEF Limit, RcvBufSize
  <2>3. c < Limit(rl, n)' /\ la2 + sndWin' <= Limit(rl, n)'
    BY <1>10, <2>1, <2>2
  <2> QED BY <2>1, <2>2, <2>3 DEF WindowAt
<1>13. ReceiverAt(rc, rl, rla, n)'
  BY <1>2, <1>8, ReceiverStays
<1>14. \A q \in net' : TruePacket(q, c, rl, Limit(rl, n))'
  BY <1>2, <1>8 DEF TruePacket, Limit, Num, Isn, RcvBufSize
<1>15. TransferAt(c, la2, da2, rc, rl, rla, n)'
  BY <1>8, <1>10, <1>11, <1>12, <1>13, <1>14 DEF TransferAt
<1> QED BY <1>15, InvFromAt

\* A loss report never names more than was sent.
LEMMA ReceiveNakKeeps ==
  ASSUME NEW c, NEW la, NEW da, NEW rc, NEW rl, NEW rla, NEW n,
         TransferAt(c, la, da, rc, rl, rla, n), NEW p \in net, ReceiveNak(p)
  PROVE  TransferInv'
<1>1. /\ Payloads \in Nat /\ c \in -1..Payloads /\ la \in 0..Payloads /\ rl \in 0..Payloads
      /\ n \in Int /\ c < Payloads /\ setup \in Setups /\ la <= c + 1 /\ rl <= c + 1
  BY IndicesAreSane
<1>2. SenderAt(c, la, da) /\ WindowAt(c, la, rl, n) /\ ReceiverAt(rc, rl, rla, n)
      /\ \A q \in net : TruePacket(q, c, rl, Limit(rl, n))
  BY DEF TransferAt
<1>3. Limit(rl, n) \in Int /\ Isn \in SeqNo
  BY <1>1, SetupIsSane DEF Limit
<1>4. PICK i \in 0..c, j \in 0..c : p = Nak(Num(i), Num(j)) /\ i <= j
  BY <1>2, PacketSays DEF ReceiveNak
<1>5. /\ i \in 0..Payloads /\ j \in 0..Payloads /\ i \in -1..Payloads /\ j \in -1..Payloads
      /\ la \in -1..Payloads /\ i - j <= Payloads /\ j - c <= Payloads /\ i - la <= Payloads
      /\ j - la <= Payloads
      /\ p.lo = Num(i) /\ p.hi = Num(j) /\ sndLastAck = Num(la) /\ sndCurr = Num(c)
  BY <1>1, <1>2, <1>4 DEF Nak, SenderAt
<1> DEFINE stale  == seqcmp(p.hi, sndLastAck) < 0
           attack == /\ seqcmp(p.lo, p.hi) > 0 \/ seqcmp(p.hi, sndCurr) > 0
                     /\ ~(p.lo = p.hi /\ stale)
           from   == IF seqcmp(p.lo, sndLastAck) >= 0 THEN p.lo ELSE sndLastAck
           m      == IF i >= la THEN i ELSE la
<1>6. ~(seqcmp(p.lo, p.hi) > 0)
  BY <1>1, <1>3, <1>4, <1>5, CompareNums DEF Num
<1>7. ~(seqcmp(p.hi, sndCurr) > 0)
  BY <1>1, <1>3, <1>5, CompareNums DEF Num
<1>8. stale <=> j < la
  BY <1>1, <1>3, <1>5, CompareNums DEF Num
<1>9. from = Num(m)
  <2>1. seqcmp(p.lo, sndLastAck) >= 0 <=> i >= la
    BY <1>1, <1>3, <1>5, CompareNums DEF Num
  <2> QED BY <1>5, <2>1
<1>10. attack = FALSE
  BY <1>6, <1>7
<1>11. /\ broken' = attack
       /\ sndLoss' = (IF attack \/ stale THEN sndLoss ELSE sndLoss \union Span(from, p.hi))
       /\ net' \subseteq net
       /\ UNCHANGED <<setup, sent, sndBuf, currBlock, sndCurr, sndLastAck, sndLastDataAck, sndWin,
                      packing, acking, rcvVars, losses>>
  BY DEF ReceiveNak, Takes, rcvVars
<1>12. sndLoss' \subseteq Nums(0..c)
  <2>1. CASE stale
    BY <1>2, <1>11, <2>1 DEF SenderAt
  <2>2. CASE ~stale
    <3>1. j >= la /\ m \in 0..Payloads /\ j \in (m - 1)..Payloads /\ m..j \subseteq 0..c
      BY <1>1, <1>4, <1>5, <1>8, <2>2
    <3>2. Span(from, p.hi) = Nums(m..j)
      <4> HIDE DEF m, from
      <4> QED BY <1>3, <1>5, <1>9, <3>1, SpanOfNums DEF Num, Nums
    <3>3. Nums(m..j) \subseteq Nums(0..c)
      BY <3>1 DEF Nums, NumsOf
    <3> HIDE DEF from, stale, attack, m
    <3>4. sndLoss' = sndLoss \union Span(from, p.hi)
      BY <1>10, <1>11, <2>2
    <3> QED BY <1>2, <3>2, <3>3, <3>4 DEF SenderAt
  <2> QED BY <2>1, <2>2
<1> HIDE DEF stale, attack, from, m
<1>13. broken' = FALSE
  BY <1>10, <1>11
<1>14. SenderAt(c, la, da)'
  BY <1>2, <1>11, <1>12, <1>13 DEF SenderAt, Num, Nums, Isn, SndBufSize
<1>15. WindowAt(c, la, rl, n)' /\ ReceiverAt(rc, rl, rla, n)'
  BY <1>1, <1>2, <1>11, WindowStays, ReceiverStays
<1>16. \A q \in net' : TruePacket(q, c, rl, Limit(rl, n))'
  BY <1>2, <1>11 DEF TruePacket, Limit, Num, Isn, RcvBufSize
<1>17. TransferAt(c, la, da, rc, rl, rla, n)'
  BY <1>11, <1>14, <1>15, <1>16 DEF TransferAt
<1> QED BY <1>17, InvFromAt

\* On a timeout the packets in flight are lost, which were sent.
LEMMA ExpKeeps ==
  ASSUME NEW c, NEW la, NEW da, NEW rc, NEW rl, NEW rla, NEW n,
         TransferAt(c, la, da, rc, rl, rla, n), Exp
  PROVE  TransferInv'
<1>1. /\ Payloads \in Nat /\ c \in -1..Payloads /\ la \in 0..Payloads /\ rl \in Int
      /\ n \in Int /\ c < Payloads /\ setup \in Setups /\ la <= c + 1
  BY IndicesAreSane
<1>2. SenderAt(c, la, da) /\ WindowAt(c, la, rl, n) /\ ReceiverAt(rc, rl, rla, n)
      /\ \A q \in net : TruePacket(q, c, rl, Limit(rl, n))
  BY DEF TransferAt
<1>3. /\ sndLoss' = Span(sndLastAck, sndCurr)
      /\ UNCHANGED <<setup, sent, sndBuf, currBlock, sndCurr, sndLastAck, sndLastDataAck, sndWin,
                     packing, acking, broken, rcvVars, net, losses>>
  BY DEF Exp, rcvVars
<1>4. sndLoss' \subseteq Nums(0..c)
  <2>1. sndLastAck = Num(la) /\ sndCurr = Num(c) /\ c \in (la - 1)..Payloads /\ la..c \subseteq 0..c
    BY <1>1, <1>2 DEF SenderAt
  <2>2. Span(sndLastAck, sndCurr) = Nums(la..c)
    BY <1>1, <2>1, SetupIsSane, SpanOfNums DEF Num, Nums
  <2> QED BY <1>3, <2>1, <2>2 DEF Nums, NumsOf
<1>5. SenderAt(c, la, da)'
  BY <1>2, <1>3, <1>4 DEF SenderAt, Num, Nums, Isn, SndBufSize
<1>6. WindowAt(c, la, rl, n)' /\ ReceiverAt(rc, rl, rla, n)'
  BY <1>1, <1>2, <1>3, WindowStays, ReceiverStays
<1>7. \A q \in net' : TruePacket(q, c, rl, Limit(rl, n))'
  BY <1>2, <1>3 DEF TruePacket, Limit, Num, Isn, RcvBufSize
<1>8. TransferAt(c, la, da, rc, rl, rla, n)'
  BY <1>3, <1>5, <1>6, <1>7 DEF TransferAt
<1> QED BY <1>8, InvFromAt

(***************************************************************************)
(* The steps of the receiver                                               *)
(***************************************************************************)
\* What can be read, and the room for more.
LEMMA AvailIs ==
  ASSUME setup \in Setups, NEW rc, NEW rl, NEW rla, NEW n, ReceiverAt(rc, rl, rla, n)
  PROVE  Readable = rl - n /\ Avail = RcvBufSize - (rl - n) - 1
<1>1. /\ RcvBufSize \in Nat \ {0} /\ rl \in Nat /\ n \in Nat /\ n <= rl /\ rl < n + RcvBufSize
      /\ startPos = n % RcvBufSize /\ lastAckPos = rl % RcvBufSize
  <2>1. RcvBufSize \in Nat \ {0}
    BY SetupIsSane
  <2> QED BY <2>1 DEF ReceiverAt
<1>2. Readable = rl - n
  BY <1>1, SlotDistance DEF Readable
<1>3. Avail = RcvBufSize - (rl - n) - 1
  BY <1>2 DEF Avail
<1> QED BY <1>2, <1>3

\* What is acknowledged next is the first packet that is missing.
LEMMA AckNowIs ==
  ASSUME NEW c, NEW la, NEW da, NEW rc, NEW rl, NEW rla, NEW n,
         TransferAt(c, la, da, rc, rl, rla, n)
  PROVE  \E m \in rl..(rc + 1) : /\ AckNow = Num(m)
                                 /\ \A k \in rl..(m - 1) : SlotOf(k) # 0
<1> DEFINE K == {k \in rl..rc : SlotOf(k) = 0}
<1>1. /\ Payloads \in Nat /\ rl \in 0..Payloads /\ rc \in -1..Payloads /\ rc < Payloads
      /\ rl <= rc + 1 /\ setup \in Setups
  BY IndicesAreSane
<1>2. rcvLoss = NumsOf(Isn, K) /\ rcvCurr = Num(rc)
  BY DEF TransferAt, ReceiverAt, Nums
<1>3. CASE rcvLoss = {}
  <2>1. K = {}
    BY <1>2, <1>3 DEF NumsOf
  <2>2. AckNow = Num(rc + 1)
    BY <1>1, <1>2, <1>3, SetupIsSane, NextNum DEF AckNow, Num
  <2>3. rc + 1 \in rl..(rc + 1) /\ (rc + 1) - 1 = rc
    BY <1>1
  <2> QED BY <2>1, <2>2, <2>3
<1>4. CASE rcvLoss # {}
  <2>1. K # {} /\ K \in SUBSET (0..Payloads) /\ Isn \in SeqNo
    BY <1>1, <1>2, <1>4, SetupIsSane DEF NumsOf
  <2> HIDE DEF K
  <2>2. PICK m \in K : Oldest(NumsOf(Isn, K)) = NumOf(Isn, m) /\ \A k \in K : m <= k
    BY <2>1, OldestOfNums
  <2>3. AckNow = Num(m)
    BY <1>2, <1>4, <2>2 DEF AckNow, Num
  <2>4. m \in rl..(rc + 1)
    BY <1>1, <2>2 DEF K
  <2>5. ASSUME NEW k \in rl..(m - 1) PROVE SlotOf(k) # 0
    <3>1. k \notin K /\ k \in rl..rc
      BY <1>1, <2>2, <2>4 DEF K
    <3> QED BY <3>1 DEF K
  <2> QED BY <2>3, <2>4, <2>5
<1> QED BY <1>3, <1>4

\* A lite acknowledgement names no packet beyond the sent ones.
LEMMA SendLiteAckKeeps ==
  ASSUME NEW c, NEW la, NEW da, NEW rc, NEW rl, NEW rla, NEW n,
         TransferAt(c, la, da, rc, rl, rla, n), SendLiteAck
  PROVE  TransferInv'
<1>1. /\ Payloads \in Nat /\ c \in -1..Payloads /\ la \in 0..Payloads /\ rl \in 0..Payloads
      /\ n \in Int /\ rc \in -1..c /\ setup \in Setups
  BY IndicesAreSane
<1>2. SenderAt(c, la, da) /\ WindowAt(c, la, rl, n) /\ ReceiverAt(rc, rl, rla, n)
      /\ \A q \in net : TruePacket(q, c, rl, Limit(rl, n))
  BY DEF TransferAt
<1>3. PICK m \in rl..(rc + 1) : AckNow = Num(m)
  BY AckNowIs
<1>4. net' = net \union {LiteAck(Num(m))} /\ UNCHANGED <<sndVars, rcvVars, losses>>
  BY <1>3 DEF SendLiteAck, Sends, rcvVars, sndVars
<1>5. SenderAt(c, la, da)' /\ ReceiverAt(rc, rl, rla, n)'
  BY <1>2, <1>4, SenderStays, ReceiverStays
<1>6. WindowAt(c, la, rl, n)'
  BY <1>1, <1>2, <1>4, WindowStays DEF sndVars
<1>7. m \in 0..(c + 1)
  BY <1>1
<1>8. \A q \in net' : TruePacket(q, c, rl, Limit(rl, n))'
  BY <1>2, <1>4, <1>7 DEF TruePacket, Limit, Num, Isn, RcvBufSize, sndVars
<1>9. TransferAt(c, la, da, rc, rl, rla, n)'
  BY <1>4, <1>5, <1>6, <1>8 DEF TransferAt, sndVars
<1> QED BY <1>9, InvFromAt

\* What is lost is no longer under way.
LEMMA LoseKeeps ==
  ASSUME NEW c, NEW la, NEW da, NEW rc, NEW rl, NEW rla, NEW n,
         TransferAt(c, la, da, rc, rl, rla, n), NEW p \in net, Lose(p)
  PROVE  TransferInv'
<1>1. c \in Int /\ la \in Int /\ rl \in Int /\ n \in Int /\ setup \in Setups
  BY IndicesAreSane
<1>2. net' \subseteq net /\ UNCHANGED <<sndVars, rcvVars>>
  BY DEF Lose
<1>3. SenderAt(c, la, da)' /\ ReceiverAt(rc, rl, rla, n)'
  BY <1>2, SenderStays, ReceiverStays DEF TransferAt
<1>4. WindowAt(c, la, rl, n)'
  BY <1>1, <1>2, WindowStays DEF TransferAt, sndVars
<1>5. \A q \in net' : TruePacket(q, c, rl, Limit(rl, n))'
  BY <1>2 DEF TransferAt, TruePacket, Limit, Num, Isn, RcvBufSize, sndVars
<1>6. TransferAt(c, la, da, rc, rl, rla, n)'
  BY <1>2, <1>3, <1>4, <1>5 DEF TransferAt, sndVars
<1> QED BY <1>6, InvFromAt

\* Acknowledgements confirmed are among those sent.
LEMMA ReceiveAck2Keeps ==
  ASSUME NEW c, NEW la, NEW da, NEW rc, NEW rl, NEW rla, NEW n,
         TransferAt(c, la, da, rc, rl, rla, n), NEW p \in net, ReceiveAck2(p)
  PROVE  TransferInv'
<1>1. /\ Payloads \in Nat /\ c \in Int /\ la \in Int /\ rl \in 0..Payloads /\ n \in Int
      /\ rla \in 0..Payloads /\ rla <= rl /\ setup \in Setups
  BY IndicesAreSane
<1>2. SenderAt(c, la, da) /\ WindowAt(c, la, rl, n) /\ ReceiverAt(rc, rl, rla, n)
      /\ \A q \in net : TruePacket(q, c, rl, Limit(rl, n))
  BY DEF TransferAt
<1>3. PICK a \in 0..rl : p = Ack2(Num(a))
  BY <1>2, PacketSays DEF ReceiveAck2
<1>4. p.ack = Num(a) /\ a \in 0..Payloads /\ rcvLastAckAck = Num(rla)
  BY <1>1, <1>2, <1>3 DEF Ack2, ReceiverAt
<1>5. seqcmp(p.ack, rcvLastAckAck) > 0 <=> a > rla
  <2>1. rla \in -1..Payloads /\ a - rla <= Payloads /\ Isn \in SeqNo
    BY <1>1, <1>4, SetupIsSane
  <2> QED BY <1>4, <2>1, CompareNums DEF Num
<1> DEFINE rla2 == IF a > rla THEN a ELSE rla
<1>6. /\ net' \subseteq net /\ rcvLastAckAck' = Num(rla2)
      /\ UNCHANGED <<sndVars, unit, startPos, lastAckPos, rcvCurr, rcvLastAck, rcvLoss, got>>
  BY <1>4, <1>5 DEF ReceiveAck2, Takes
<1>7. rla2 \in Nat /\ rla2 <= rl
  BY <1>1, <1>4
<1> HIDE DEF rla2
<1>8. SenderAt(c, la, da)'
  BY <1>2, <1>6, SenderStays
<1>9. WindowAt(c, la, rl, n)'
  BY <1>1, <1>2, <1>6, WindowStays DEF sndVars
<1>10. ReceiverAt(rc, rl, rla2, n)'
  BY <1>2, <1>6, <1>7 DEF ReceiverAt, Num, Nums, Isn, RcvBufSize, SlotOf, sndVars
<1>11. \A q \in net' : TruePacket(q, c, rl, Limit(rl, n))'
  BY <1>2, <1>6 DEF TruePacket, Limit, Num, Isn, RcvBufSize, sndVars
<1>12. TransferAt(c, la, da, rc, rl, rla2, n)'
  BY <1>6, <1>8, <1>9, <1>10, <1>11 DEF TransferAt, sndVars
<1> QED BY <1>12, InvFromAt

\* The receiver hands over what is there without a gap, and announces what room is left.
LEMMA SendAckKeeps ==
  ASSUME NEW c, NEW la, NEW da, NEW rc, NEW rl, NEW rla, NEW n,
         TransferAt(c, la, da, rc, rl, rla, n), SendAck
  PROVE  TransferInv'
<1>1. /\ Payloads \in Nat /\ c \in -1..Payloads /\ la \in 0..Payloads /\ rl \in 0..Payloads
      /\ n \in 0..Payloads /\ n <= rl /\ rc \in -1..c /\ rc < Payloads /\ setup \in Setups
      /\ rc + 1 < n + RcvBufSize /\ rla \in 0..Payloads /\ rla <= rl /\ da \in 0..Payloads
      /\ da <= rl
  BY IndicesAreSane
<1>2. SenderAt(c, la, da) /\ WindowAt(c, la, rl, n) /\ ReceiverAt(rc, rl, rla, n)
      /\ \A q \in net : TruePacket(q, c, rl, Limit(rl, n))
  BY DEF TransferAt
<1>3. RcvBufSize \in Nat \ {0} /\ Isn \in SeqNo
  BY <1>1, SetupIsSane
<1>4. PICK m \in rl..(rc + 1) : AckNow = Num(m) /\ \A k \in rl..(m - 1) : SlotOf(k) # 0
  BY AckNowIs
<1>5. m \in 0..Payloads /\ m <= rc + 1 /\ rl <= m /\ m - rl \in Nat
  BY <1>1, <1>4
<1> DEFINE w == IF Avail' < 2 THEN 2 ELSE Avail'
           P == IF seqcmp(AckNow, rcvLastAckAck) > 0 THEN {Ack(AckNow, w)} ELSE {}
<1>6. /\ rcvLastAck' = AckNow
      /\ lastAckPos' = (lastAckPos + seqoff(rcvLastAck, AckNow)) % RcvBufSize
      /\ net' = net \union P
      /\ UNCHANGED <<sndVars, unit, startPos, rcvCurr, rcvLastAckAck, rcvLoss, got, losses>>
  BY DEF SendAck, Sends
<1>7. lastAckPos' = m % RcvBufSize
  <2>1. lastAckPos = rl % RcvBufSize /\ rcvLastAck = Num(rl)
    BY <1>2 DEF ReceiverAt
  <2>2. m \in -1..Payloads /\ rl - m <= Payloads
    BY <1>1, <1>5
  <2>3. seqoff(rcvLastAck, AckNow) = m - rl
    BY <1>1, <1>3, <1>4, <2>1, <2>2, OffsetOfNums DEF Num
  <2>4. rl \in Nat /\ m \in Nat /\ rl + (m - rl) = m
    BY <1>1, <1>5
  <2>5. ((rl % RcvBufSize) + (m - rl)) % RcvBufSize = (rl + (m - rl)) % RcvBufSize
    BY <1>3, <1>5, <2>4, SlotSum
  <2> QED BY <1>6, <2>1, <2>3, <2>4, <2>5
<1>8. Avail' = RcvBufSize - (m - n) - 1
  <2>1. startPos' = n % RcvBufSize /\ RcvBufSize' = RcvBufSize
    BY <1>2, <1>6 DEF ReceiverAt, RcvBufSize, sndVars
  <2>2. n \in Nat /\ m \in Nat /\ n <= m /\ m < n + RcvBufSize
    BY <1>1, <1>3, <1>5
  <2>3. Readable' = m - n
    BY <1>3, <1>7, <2>1, <2>2, SlotDistance DEF Readable
  <2>4. Avail' = RcvBufSize' - Readable' - 1
    BY DEF Avail
  <2> QED BY <2>1, <2>3, <2>4
<1>9. w \in Nat /\ m + w <= Limit(m, n)
  <2>1. RcvBufSize \in Nat /\ m \in Nat /\ n \in Nat
    BY <1>1, <1>3, <1>5
  <2>2. w = IF RcvBufSize - (m - n) - 1 < 2 THEN 2 ELSE RcvBufSize - (m - n) - 1
    BY <1>8
  <2> HIDE DEF w
  <2> QED BY <2>1, <2>2 DEF Limit
<1>10. \A p \in P : TruePacket(p, c, m, Limit(m, n))
  <2> HIDE DEF w
  <2>1. P \subseteq {Ack(Num(m), w)} /\ m \in 0..m
    BY <1>4, <1>5
  <2> QED BY <1>9, <2>1 DEF TruePacket
<1> HIDE DEF P
<1>11. SenderAt(c, la, da)'
  BY <1>2, <1>6, SenderStays
<1>12. WindowAt(c, la, m, n)'
  BY <1>1, <1>2, <1>5, <1>6, WindowStays DEF sndVars
<1>13. ReceiverAt(rc, m, rla, n)'
  <2>1. RcvBufSize' = RcvBufSize /\ Isn' = Isn /\ \A k : SlotOf(k)' = SlotOf(k)
    BY <1>6 DEF RcvBufSize, Isn, SlotOf, sndVars
  <2>2. \A k \in n..(n + RcvBufSize - 1) :
          /\ SlotOf(k) \in {0, k + 1} /\ (k > rc => SlotOf(k) = 0) /\ (k < m => SlotOf(k) # 0)
    <3> SUFFICES ASSUME NEW k \in n..(n + RcvBufSize - 1), k < m PROVE SlotOf(k) # 0
      BY <1>2 DEF ReceiverAt
    <3>1. CASE k < rl
      BY <1>2, <3>1 DEF ReceiverAt
    <3>2. CASE k >= rl
      <4>1. k \in rl..(m - 1)
        BY <1>1, <1>3, <1>5, <3>2
      <4> QED BY <1>4, <4>1
    <3> QED BY <1>1, <1>3, <3>1, <3>2
  <2>3. {k \in rl..rc : SlotOf(k) = 0} = {k \in m..rc : SlotOf(k) = 0}
    <3>1. ASSUME NEW k \in rl..rc, SlotOf(k) = 0 PROVE k \in m..rc
      <4>1. ~(k \in rl..(m - 1))
        BY <1>4, <3>1
      <4> QED BY <1>1, <1>5, <4>1
    <3>2. m..rc \subseteq rl..rc
      BY <1>1, <1>5
    <3> QED BY <3>1, <3>2
  <2>4. rcvLoss' = Nums({k \in m..rc : SlotOf(k) = 0})'
    <3>1. rcvLoss = NumsOf(Isn, {k \in m..rc : SlotOf(k) = 0})
      BY <1>2, <2>3 DEF ReceiverAt, Nums
    <3>2. {k \in m..rc : SlotOf(k)' = 0} = {k \in m..rc : SlotOf(k) = 0}
      BY <2>1
    <3> QED BY <1>6, <2>1, <3>1, <3>2 DEF Nums
  <2>5. rcvLastAck' = Num(m)' /\ rcvCurr' = Num(rc)' /\ rcvLastAckAck' = Num(rla)'
    BY <1>2, <1>4, <1>6, <2>1 DEF ReceiverAt, Num
  <2>6. /\ got' = [i \in 1..n |-> i] /\ startPos' = n % RcvBufSize' /\ lastAckPos' = m % RcvBufSize'
        /\ unit' \in [0..(RcvBufSize' - 1) -> Nat]
    BY <1>2, <1>6, <1>7, <2>1 DEF ReceiverAt
  <2>7. /\ rc \in Int /\ m \in Nat /\ rla \in Nat /\ n \in Nat /\ n <= m /\ m <= rc + 1 /\ rla <= m
        /\ rc + 1 < n + RcvBufSize'
    BY <1>1, <1>3, <1>5, <2>1
  <2>8. \A k \in n..(n + RcvBufSize' - 1) :
          /\ SlotOf(k)' \in {0, k + 1} /\ (k > rc => SlotOf(k)' = 0) /\ (k < m => SlotOf(k)' # 0)
    BY <2>1, <2>2
  <2> QED BY <2>4, <2>5, <2>6, <2>7, <2>8 DEF ReceiverAt
<1>14. \A q \in net' : TruePacket(q, c, m, Limit(m, n))'
  <2>1. /\ Limit(rl, n) \in Int /\ Limit(m, n) \in Int /\ Limit(rl, n) <= Limit(m, n)
        /\ Limit(m, n)' = Limit(m, n)
    <3>1. rl \in Int /\ n \in Int /\ m \in Int /\ rl <= m /\ RcvBufSize' = RcvBufSize
      BY <1>1, <1>5, <1>6 DEF sndVars, RcvBufSize
    <3> QED BY <1>3, <3>1 DEF Limit
  <2>2. c \in Int /\ rl \in Int /\ m \in Int /\ setup' = setup /\ net' \subseteq net \union P
    BY <1>1, <1>5, <1>6 DEF sndVars
  <2>3. \A q \in net' : TruePacket(q, c, m, Limit(m, n))
    <3> SUFFICES ASSUME NEW q \in net' PROVE TruePacket(q, c, m, Limit(m, n))
      OBVIOUS
    <3>1. CASE q \in P
      BY <1>10, <3>1
    <3>2. CASE q \in net
      <4>1. TruePacket(q, c, rl, Limit(rl, n))
        BY <1>2, <3>2
      <4> QED BY <1>5, <2>1, <2>2, <4>1 DEF TruePacket
    <3> QED BY <2>2, <3>1, <3>2
  <2> QED BY <2>1, <2>2, <2>3 DEF TruePacket, Num, Isn
<1>15. setup' \in Setups /\ rc <= c /\ da <= m
  BY <1>1, <1>5, <1>6 DEF sndVars
<1>16. TransferAt(c, la, da, rc, m, rla, n)'
  BY <1>11, <1>12, <1>13, <1>14, <1>15 DEF TransferAt
<1> QED BY <1>16, InvFromAt

\* A packet takes the slot that is its own; packets it has jumped over become losses.
LEMMA ReceiveDataKeeps ==
  ASSUME NEW c, NEW la, NEW da, NEW rc, NEW rl, NEW rla, NEW n,
         TransferAt(c, la, da, rc, rl, rla, n), NEW p \in net, ReceiveData(p)
  PROVE  TransferInv'
<1>1. /\ Payloads \in Nat /\ c \in -1..Payloads /\ la \in 0..Payloads /\ rl \in 0..Payloads
      /\ c < Payloads /\ n \in 0..Payloads /\ n <= rl /\ rc \in -1..c /\ setup \in Setups
      /\ rl <= rc + 1 /\ rc + 1 < n + RcvBufSize /\ rla \in 0..Payloads /\ rla <= rl /\ da <= rl
  BY IndicesAreSane
<1>2. SenderAt(c, la, da) /\ WindowAt(c, la, rl, n) /\ ReceiverAt(rc, rl, rla, n)
      /\ \A q \in net : TruePacket(q, c, rl, Limit(rl, n))
  BY DEF TransferAt
<1>3. RcvBufSize \in Nat \ {0} /\ Isn \in SeqNo /\ Limit(rl, n) \in Int
  BY <1>1, SetupIsSane DEF Limit
<1>4. PICK k \in 0..c : p = Data(Num(k), k + 1)
  BY <1>2, PacketSays DEF ReceiveData
<1>5. /\ k \in 0..Payloads /\ k \in -1..Payloads /\ p.seq = Num(k) /\ p.data = k + 1
      /\ rcvCurr = Num(rc) /\ rcvLastAck = Num(rl) /\ lastAckPos = rl % RcvBufSize
  BY <1>1, <1>2, <1>4 DEF Data, ReceiverAt
<1> DEFINE offset == seqoff(rcvLastAck, p.seq)
           pos    == (lastAckPos + offset) % RcvBufSize
           gap    == seqcmp(p.seq, incseq(rcvCurr)) > 0
           lo     == incseq(rcvCurr)
           hi     == decseq(p.seq)
           newer  == seqcmp(p.seq, rcvCurr) > 0
           drop   == offset < 0 \/ offset >= Avail \/ unit[pos] # 0
           P      == IF gap THEN {Nak(lo, hi)} ELSE {}
<1>6. /\ UNCHANGED <<sndVars, startPos, lastAckPos, rcvLastAck, rcvLastAckAck, got>>
      /\ drop => net' \subseteq net /\ UNCHANGED <<unit, rcvCurr, rcvLoss>>
      /\ ~drop => /\ unit' = [unit EXCEPT ![pos] = p.data]
                  /\ net' \subseteq net \union P
                  /\ rcvCurr' = (IF newer THEN p.seq ELSE rcvCurr)
                  /\ rcvLoss' = (IF gap THEN rcvLoss \union Span(lo, hi) ELSE rcvLoss)
                                \ (IF newer THEN {} ELSE {p.seq})
  BY DEF ReceiveData, Takes
<1>7. CASE drop
  <2>1. net' \subseteq net /\ UNCHANGED <<sndVars, rcvVars>>
    <3>1. UNCHANGED setup
      BY <1>6 DEF sndVars
    <3> HIDE DEF drop
    <3> QED BY <1>6, <1>7, <3>1 DEF rcvVars
  <2>2. SenderAt(c, la, da)' /\ ReceiverAt(rc, rl, rla, n)'
    BY <1>2, <2>1, SenderStays, ReceiverStays
  <2>3. WindowAt(c, la, rl, n)'
    <3>1. c \in Int /\ la \in Int /\ rl \in Int /\ n \in Int
      BY <1>1
    <3> QED BY <1>1, <1>2, <2>1, <3>1, WindowStays DEF sndVars
  <2>4. \A q \in net' : TruePacket(q, c, rl, Limit(rl, n))'
    BY <1>2, <2>1 DEF TruePacket, Limit, Num, Isn, RcvBufSize, sndVars
  <2>5. TransferAt(c, la, da, rc, rl, rla, n)'
    BY <1>1, <2>1, <2>2, <2>3, <2>4 DEF TransferAt, sndVars
  <2> QED BY <2>5, InvFromAt
<1>8. CASE ~drop
  <2>1. offset = k - rl
    <3>1. rl - k <= Payloads
      BY <1>1, <1>5
    <3> QED BY <1>1, <1>3, <1>5, <3>1, OffsetOfNums DEF Num
  <2>2. Avail = RcvBufSize - (rl - n) - 1
    BY <1>1, <1>2, AvailIs
  <2>3. /\ k >= rl /\ k < n + RcvBufSize - 1 /\ k \in n..(n + RcvBufSize - 1) /\ k - rl \in Nat
        /\ unit[pos] = 0
    <3> HIDE DEF offset, pos
    <3>1. ~(offset < 0) /\ ~(offset >= Avail) /\ unit[pos] = 0
      BY <1>8
    <3> QED BY <1>1, <1>3, <1>5, <2>1, <2>2, <3>1
  <2>4. pos = k % RcvBufSize
    <3>1. PICK d \in Nat : d = k - rl
      BY <2>3
    <3>2. ((rl % RcvBufSize) + d) % RcvBufSize = (rl + d) % RcvBufSize
      <4>1. rl \in Nat /\ RcvBufSize \in Nat \ {0}
        BY <1>1, <1>3
      <4> QED BY <4>1, SlotSum
    <3>3. rl + d = k
      BY <1>1, <1>5, <3>1
    <3> QED BY <1>5, <2>1, <3>1, <3>2, <3>3
  <2>5. SlotOf(k) = 0
    BY <2>3, <2>4 DEF SlotOf
  <2>6. lo = Num(rc + 1) /\ (gap <=> k > rc + 1) /\ (newer <=> k > rc)
    <3>1. rc \in -1..(Payloads - 1) /\ rc + 1 \in -1..Payloads /\ k - (rc + 1) <= Payloads
          /\ rc \in -1..Payloads /\ k - rc <= Payloads
      BY <1>1, <1>4
    <3>2. lo = Num(rc + 1)
      BY <1>3, <1>5, <3>1, NextNum DEF Num
    <3>3. newer <=> k > rc
      BY <1>3, <1>5, <3>1, CompareNums DEF Num
    <3>4. gap <=> k > rc + 1
      BY <1>3, <1>5, <3>1, <3>2, CompareNums DEF Num
    <3> QED BY <3>2, <3>3, <3>4
  <2>7. gap => hi = Num(k - 1) /\ Span(lo, hi) = Nums((rc + 1)..(k - 1))
    <3> SUFFICES ASSUME k > rc + 1
                 PROVE  hi = Num(k - 1) /\ Span(lo, hi) = Nums((rc + 1)..(k - 1))
      BY <2>6
    <3>1. k \in 1..Payloads /\ rc + 1 \in 0..Payloads /\ k - 1 \in (rc + 1 - 1)..Payloads
      BY <1>1, <1>5
    <3>2. hi = Num(k - 1)
      BY <1>3, <1>5, <3>1, PreviousNum DEF Num
    <3> QED BY <1>3, <2>6, <3>1, <3>2, SpanOfNums DEF Num, Nums
  <2> DEFINE rc2 == IF k > rc THEN k ELSE rc
  <2>8. /\ unit' = [unit EXCEPT ![k % RcvBufSize] = k + 1] /\ net' \subseteq net \union P
        /\ rcvCurr' = Num(rc2)
        /\ UNCHANGED <<sndVars, startPos, lastAckPos, rcvLastAck, rcvLastAckAck, got>>
    <3> HIDE DEF drop, P, newer, gap, pos
    <3> QED BY <1>5, <1>6, <1>8, <2>4, <2>6
  <2>9. rcvLoss' = (IF k > rc + 1 THEN rcvLoss \union Nums((rc + 1)..(k - 1)) ELSE rcvLoss)
                   \ (IF k > rc THEN {} ELSE {Num(k)})
    <3> HIDE DEF drop, newer, gap, lo, hi
    <3> QED BY <1>5, <1>6, <1>8, <2>6, <2>7
  <2>10. \A q \in P : TruePacket(q, c, rl, Limit(rl, n))
    <3> SUFFICES ASSUME gap PROVE TruePacket(Nak(lo, hi), c, rl, Limit(rl, n))
      OBVIOUS
    <3>1. rc + 1 \in 0..c /\ k - 1 \in 0..c /\ rc + 1 <= k - 1
      BY <1>1, <1>4, <2>6
    <3> QED BY <2>6, <2>7, <3>1 DEF TruePacket
  <2>11. rc2 \in Int /\ rc <= rc2 /\ k <= rc2 /\ rc2 <= c /\ rc2 + 1 < n + RcvBufSize
    BY <1>1, <1>3, <1>4, <2>3
  <2>12. RcvBufSize' = RcvBufSize /\ Isn' = Isn
    BY <2>8 DEF RcvBufSize, Isn, sndVars
  <2>13. \A j \in n..(n + RcvBufSize - 1) : SlotOf(j)' = IF j = k THEN k + 1 ELSE SlotOf(j)
    <3> SUFFICES ASSUME NEW j \in n..(n + RcvBufSize - 1)
                 PROVE  SlotOf(j)' = IF j = k THEN k + 1 ELSE SlotOf(j)
      OBVIOUS
    <3>1. /\ j \in Nat /\ k \in Nat /\ j % RcvBufSize \in 0..(RcvBufSize - 1)
          /\ unit \in [0..(RcvBufSize - 1) -> Nat]
      <4>1. j \in Nat /\ k \in Nat
        BY <1>1, <1>3, <1>5
      <4>2. unit \in [0..(RcvBufSize - 1) -> Nat]
        BY <1>2 DEF ReceiverAt
      <4> QED BY <1>3, <4>1, <4>2, RemainderIsSlot
    <3>2. CASE j = k
      BY <2>8, <2>12, <3>1, <3>2 DEF SlotOf
    <3>3. CASE j # k
      <4>1. j % RcvBufSize # k % RcvBufSize
        <5>1. j < k + RcvBufSize /\ k < j + RcvBufSize
          BY <1>1, <1>3, <2>3, <3>1
        <5>2. j <= k \/ k <= j
          BY <3>1
        <5> QED BY <1>3, <3>1, <3>3, <5>1, <5>2, SlotsDiffer
      <4> QED BY <2>8, <2>12, <3>1, <3>3, <4>1 DEF SlotOf
    <3> QED BY <3>2, <3>3
  <2> DEFINE K  == {j \in rl..rc : SlotOf(j) = 0}
             K2 == {j \in rl..rc2 : (IF j = k THEN k + 1 ELSE SlotOf(j)) = 0}
  <2>14. \A j \in rl..rc2 : j \in n..(n + RcvBufSize - 1)
    BY <1>1, <1>3, <2>11
  <2>15. K2 = (IF k > rc + 1 THEN K \union ((rc + 1)..(k - 1)) ELSE K)
                \ (IF k > rc THEN {} ELSE {k})
    <3>1. \A j \in n..(n + RcvBufSize - 1) : j > rc => SlotOf(j) = 0
      BY <1>2 DEF ReceiverAt
    <3>2. CASE k > rc
      <4>1. rc2 = k
        BY <3>2
      <4>2. \A j \in rl..k : j \in K2 <=> j \in K \/ j \in (rc + 1)..(k - 1)
        <5> SUFFICES ASSUME NEW j \in rl..k
                     PROVE  j \in K2 <=> j \in K \/ j \in (rc + 1)..(k - 1)
          OBVIOUS
        <5>1. CASE j <= rc
          BY <1>1, <1>5, <3>2, <4>1, <5>1
        <5>2. CASE j > rc
          <6>1. SlotOf(j) = 0
            BY <2>14, <3>1, <4>1, <5>2
          <6>2. j = k => ~(j \in K2)
            BY <1>5
          <6> QED BY <1>1, <1>5, <3>2, <4>1, <5>2, <6>1, <6>2
        <5> QED BY <1>1, <1>5, <5>1, <5>2
      <4>3. K \subseteq rl..k /\ (rc + 1)..(k - 1) \subseteq rl..k /\ K2 \subseteq rl..k
        BY <1>1, <1>5, <3>2, <4>1
      <4>4. k = rc + 1 => (rc + 1)..(k - 1) = {}
        BY <1>1
      <4> HIDE DEF K, K2
      <4>5. K2 = K \union ((rc + 1)..(k - 1))
        BY <4>2, <4>3
      <4> QED BY <1>1, <1>5, <3>2, <4>4, <4>5
    <3>3. CASE ~(k > rc)
      <4>1. rc2 = rc /\ ~(k > rc + 1)
        BY <1>1, <1>5, <3>3
      <4>2. K2 = K \ {k}
        BY <1>5, <4>1
      <4> QED BY <3>3, <4>1, <4>2
    <3> QED BY <3>2, <3>3
  <2>16. K \in SUBSET (0..Payloads) /\ K \union ((rc + 1)..(k - 1)) \in SUBSET (0..Payloads)
    BY <1>1, <1>5
  <2>17. {j \in rl..rc2 : SlotOf(j)' = 0} = K2
    BY <2>13, <2>14
  <2>18. rcvLoss = Nums(K)
    BY <1>2 DEF ReceiverAt
  <2> HIDE DEF K, K2
  <2>19. rcvLoss' = NumsOf(Isn, K2)
    <3>1. NumsOf(Isn, K) \union NumsOf(Isn, (rc + 1)..(k - 1))
            = NumsOf(Isn, K \union ((rc + 1)..(k - 1)))
      BY DEF NumsOf
    <3>2. NumsOf(Isn, K) \ {NumOf(Isn, k)} = NumsOf(Isn, K \ {k})
      BY <1>3, <1>5, <2>16, NumsWithout
    <3>3. CASE k > rc
      BY <2>9, <2>15, <2>18, <3>1, <3>3 DEF Nums
    <3>4. CASE ~(k > rc)
      <4>1. ~(k > rc + 1)
        BY <1>1, <1>5, <3>4
      <4> QED BY <2>9, <2>15, <2>18, <3>2, <3>4, <4>1 DEF Nums, Num
    <3> QED BY <3>3, <3>4
  <2> HIDE DEF P, rc2
  <2>20. ReceiverAt(rc2, rl, rla, n)'
    <3>1. rcvLoss' = Nums({j \in rl..rc2 : SlotOf(j) = 0})'
      BY <2>12, <2>17, <2>19 DEF Nums
    <3>2. rcvCurr' = Num(rc2)' /\ rcvLastAck' = Num(rl)' /\ rcvLastAckAck' = Num(rla)'
      BY <1>2, <2>8, <2>12 DEF ReceiverAt, Num
    <3>3. /\ got' = [i \in 1..n |-> i] /\ startPos' = n % RcvBufSize'
          /\ lastAckPos' = rl % RcvBufSize'
      BY <1>2, <2>8, <2>12 DEF ReceiverAt
    <3>4. unit' \in [0..(RcvBufSize' - 1) -> Nat]
      <4>1. unit \in [0..(RcvBufSize - 1) -> Nat] /\ k + 1 \in Nat
        BY <1>2, <1>5 DEF ReceiverAt
      <4> QED BY <2>8, <2>12, <4>1
    <3>5. /\ rc2 \in Int /\ rl \in Nat /\ rla \in Nat /\ n \in Nat /\ n <= rl /\ rl <= rc2 + 1
          /\ rla <= rl /\ rc2 + 1 < n + RcvBufSize'
      BY <1>1, <2>11, <2>12
    <3>6. \A j \in n..(n + RcvBufSize' - 1) :
            /\ SlotOf(j)' \in {0, j + 1}
            /\ (j < rl => SlotOf(j)' # 0) /\ (j > rc2 => SlotOf(j)' = 0)
      <4> SUFFICES ASSUME NEW j \in n..(n + RcvBufSize - 1)
                   PROVE  /\ SlotOf(j)' \in {0, j + 1}
                          /\ (j < rl => SlotOf(j)' # 0) /\ (j > rc2 => SlotOf(j)' = 0)
        BY <2>12
      <4>1. /\ SlotOf(j) \in {0, j + 1} /\ (j < rl => SlotOf(j) # 0) /\ (j > rc => SlotOf(j) = 0)
        BY <1>2 DEF ReceiverAt
      <4>2. CASE j = k
        BY <1>5, <2>3, <2>11, <2>13, <4>2
      <4>3. CASE j # k
        BY <1>1, <1>3, <2>11, <2>13, <4>1, <4>3
      <4> QED BY <4>2, <4>3
    <3> QED BY <3>1, <3>2, <3>3, <3>4, <3>5, <3>6 DEF ReceiverAt
  <2>21. SenderAt(c, la, da)'
    BY <1>2, <2>8, SenderStays
  <2>22. WindowAt(c, la, rl, n)'
    <3>1. c \in Int /\ la \in Int /\ rl \in Int /\ n \in Int
      BY <1>1
    <3> QED BY <1>1, <1>2, <2>8, <3>1, WindowStays DEF sndVars
  <2>23. \A q \in net' : TruePacket(q, c, rl, Limit(rl, n))'
    BY <1>2, <2>8, <2>10 DEF TruePacket, Limit, Num, Isn, RcvBufSize, sndVars
  <2>24. TransferAt(c, la, da, rc2, rl, rla, n)'
    BY <1>1, <2>8, <2>11, <2>20, <2>21, <2>22, <2>23 DEF TransferAt, sndVars
  <2> QED BY <2>24, InvFromAt
<1> QED BY <1>7, <1>8

\* The k payloads after the first n.
PayloadsAfter(n, k) == [i \in 1..k |-> n + i]

\* What is read are the next payloads, and their slots are those of the next round.
LEMMA RecvKeeps ==
  ASSUME NEW c, NEW la, NEW da, NEW rc, NEW rl, NEW rla, NEW n,
         TransferAt(c, la, da, rc, rl, rla, n), NEW k \in 1..RcvBufSize, Recv(k)
  PROVE  /\ TransferInv'
         /\ n + k <= rl /\ got' = got \o PayloadsAfter(n, k)
<1>1. /\ Payloads \in Nat /\ c \in -1..Payloads /\ la \in 0..Payloads /\ rl \in 0..Payloads
      /\ n \in 0..Payloads /\ n <= rl /\ rc \in -1..c /\ setup \in Setups
      /\ rl <= rc + 1 /\ rc + 1 < n + RcvBufSize /\ rla \in 0..Payloads /\ rla <= rl /\ da <= rl
      /\ rl - n < RcvBufSize
  BY IndicesAreSane
<1>2. SenderAt(c, la, da) /\ WindowAt(c, la, rl, n) /\ ReceiverAt(rc, rl, rla, n)
      /\ \A q \in net : TruePacket(q, c, rl, Limit(rl, n))
  BY DEF TransferAt
<1>3. RcvBufSize \in Nat \ {0}
  BY <1>1, SetupIsSane
<1>4. k \in Nat /\ k >= 1 /\ n + k <= rl
  <2>1. Readable = rl - n
    BY <1>1, <1>2, AvailIs
  <2> QED BY <1>1, <1>3, <2>1 DEF Recv
<1> DEFINE slot(i) == (startPos + i - 1) % RcvBufSize
<1>5. /\ got' = got \o [i \in 1..k |-> unit[slot(i)]]
      /\ unit' = [j \in DOMAIN unit |-> IF \E i \in 1..k : j = slot(i) THEN 0 ELSE unit[j]]
      /\ startPos' = (startPos + k) % RcvBufSize
      /\ UNCHANGED <<sndVars, lastAckPos, rcvCurr, rcvLastAck, rcvLastAckAck, rcvLoss, net, losses>>
  BY DEF Recv
<1>6. /\ startPos = n % RcvBufSize /\ got = [i \in 1..n |-> i] /\ lastAckPos = rl % RcvBufSize
      /\ unit \in [0..(RcvBufSize - 1) -> Nat] /\ n \in Nat
      /\ \A j \in n..(n + RcvBufSize - 1) :
           /\ SlotOf(j) \in {0, j + 1} /\ (j < rl => SlotOf(j) # 0) /\ (j > rc => SlotOf(j) = 0)
  BY <1>2 DEF ReceiverAt
<1>7. ASSUME NEW i \in 1..k PROVE slot(i) = (n + (i - 1)) % RcvBufSize
  <2>1. PICK d \in Nat : d = i - 1
    BY <1>4
  <2>2. ((n % RcvBufSize) + d) % RcvBufSize = (n + d) % RcvBufSize
    BY <1>3, <1>6, SlotSum
  <2>3. startPos + i - 1 = (n % RcvBufSize) + d
    <3>1. n % RcvBufSize \in Int
      BY <1>3, <1>6, RemainderIsSlot
    <3> QED BY <1>4, <1>6, <2>1, <3>1
  <2> QED BY <2>1, <2>2, <2>3
<1> HIDE DEF slot
<1>8. got' = got \o [i \in 1..k |-> n + i]
  <2>1. ASSUME NEW i \in 1..k PROVE unit[slot(i)] = n + i
    <3>1. n + (i - 1) \in n..(n + RcvBufSize - 1) /\ n + (i - 1) < rl
      BY <1>1, <1>3, <1>4, <1>6
    <3>2. SlotOf(n + (i - 1)) = (n + (i - 1)) + 1
      BY <1>6, <3>1
    <3>3. (n + (i - 1)) + 1 = n + i
      BY <1>4, <1>6
    <3> QED BY <1>7, <3>2, <3>3 DEF SlotOf
  <2>2. [i \in 1..k |-> unit[slot(i)]] = [i \in 1..k |-> n + i]
    BY <2>1
  <2> QED BY <1>5, <2>2
<1>9. got' = [i \in 1..(n + k) |-> i]
  <2>1. [i \in 1..n |-> 0 + i] \o [i \in 1..k |-> (0 + n) + i] = [i \in 1..(n + k) |-> 0 + i]
    BY <1>4, <1>6, Counting
  <2>2. [i \in 1..n |-> 0 + i] = [i \in 1..n |-> i]
    OBVIOUS
  <2>3. [i \in 1..(n + k) |-> 0 + i] = [i \in 1..(n + k) |-> i]
    OBVIOUS
  <2>4. 0 + n = n
    BY <1>6
  <2> QED BY <1>6, <1>8, <2>1, <2>2, <2>3, <2>4
<1>10. RcvBufSize' = RcvBufSize /\ Isn' = Isn /\ setup' = setup
  BY <1>5 DEF RcvBufSize, Isn, sndVars
<1>11. startPos' = (n + k) % RcvBufSize
  BY <1>3, <1>4, <1>5, <1>6, SlotSum
<1>12. unit' \in [0..(RcvBufSize - 1) -> Nat]
  BY <1>5, <1>6
<1>13. \A j \in (n + k)..(n + RcvBufSize - 1) : SlotOf(j)' = SlotOf(j)
  <2> SUFFICES ASSUME NEW j \in (n + k)..(n + RcvBufSize - 1) PROVE SlotOf(j)' = SlotOf(j)
    OBVIOUS
  <2>1. j \in Nat /\ j % RcvBufSize \in 0..(RcvBufSize - 1)
    <3>1. j \in Nat
      BY <1>3, <1>4, <1>6
    <3> QED BY <1>3, <3>1, RemainderIsSlot
  <2>2. ASSUME NEW i \in 1..k PROVE j % RcvBufSize # slot(i)
    <3>1. PICK x \in Nat : x = n + (i - 1)
      BY <1>4, <1>6
    <3>2. x <= j /\ j < x + RcvBufSize /\ x # j
      BY <1>3, <1>4, <1>6, <3>1
    <3>3. x % RcvBufSize # j % RcvBufSize
      BY <1>3, <2>1, <3>2, SlotsDiffer
    <3> QED BY <1>7, <3>1, <3>3
  <2>3. unit'[j % RcvBufSize] = unit[j % RcvBufSize]
    BY <1>5, <1>6, <2>1, <2>2
  <2> QED BY <1>10, <2>3 DEF SlotOf
<1>14. \A j \in (n + RcvBufSize)..(n + k + RcvBufSize - 1) : SlotOf(j)' = 0
  <2> SUFFICES ASSUME NEW j \in (n + RcvBufSize)..(n + k + RcvBufSize - 1) PROVE SlotOf(j)' = 0
    OBVIOUS
  <2>1. j \in Nat /\ j % RcvBufSize \in 0..(RcvBufSize - 1)
    <3>1. j \in Nat
      BY <1>3, <1>4, <1>6
    <3> QED BY <1>3, <3>1, RemainderIsSlot
  <2>2. PICK i \in 1..k : j = (n + (i - 1)) + RcvBufSize
    <3>1. /\ j - RcvBufSize - n + 1 \in 1..k
          /\ j = (n + ((j - RcvBufSize - n + 1) - 1)) + RcvBufSize
      BY <1>3, <1>4, <1>6, <2>1
    <3> QED BY <3>1
  <2>3. j % RcvBufSize = slot(i)
    <3>1. n + (i - 1) \in Nat
      BY <1>4, <1>6
    <3> QED BY <1>3, <1>7, <2>2, <3>1, SlotRepeats
  <2> QED BY <1>5, <1>6, <1>10, <2>1, <2>3 DEF SlotOf
<1>15. {j \in rl..rc : SlotOf(j)' = 0} = {j \in rl..rc : SlotOf(j) = 0}
  <2>1. \A j \in rl..rc : j \in (n + k)..(n + RcvBufSize - 1)
    BY <1>1, <1>3, <1>4
  <2> QED BY <1>13, <2>1
<1>16. ReceiverAt(rc, rl, rla, n + k)'
  <2>1. rcvLoss' = Nums({j \in rl..rc : SlotOf(j) = 0})'
    BY <1>2, <1>5, <1>10, <1>15 DEF ReceiverAt, Nums
  <2>2. rcvCurr' = Num(rc)' /\ rcvLastAck' = Num(rl)' /\ rcvLastAckAck' = Num(rla)'
    BY <1>2, <1>5, <1>10 DEF ReceiverAt, Num
  <2>3. /\ startPos' = (n + k) % RcvBufSize' /\ lastAckPos' = rl % RcvBufSize'
        /\ unit' \in [0..(RcvBufSize' - 1) -> Nat]
    BY <1>5, <1>6, <1>10, <1>11, <1>12
  <2>4. /\ rc \in Int /\ rl \in Nat /\ rla \in Nat /\ n + k \in Nat /\ n + k <= rl
        /\ rl <= rc + 1 /\ rla <= rl /\ rc + 1 < (n + k) + RcvBufSize'
    BY <1>1, <1>3, <1>4, <1>10
  <2>5. \A j \in (n + k)..((n + k) + RcvBufSize' - 1) :
          /\ SlotOf(j)' \in {0, j + 1} /\ (j < rl => SlotOf(j)' # 0) /\ (j > rc => SlotOf(j)' = 0)
    <3> SUFFICES ASSUME NEW j \in (n + k)..((n + k) + RcvBufSize - 1)
                 PROVE  /\ SlotOf(j)' \in {0, j + 1}
                        /\ (j < rl => SlotOf(j)' # 0) /\ (j > rc => SlotOf(j)' = 0)
      BY <1>10
    <3>1. CASE j <= n + RcvBufSize - 1
      <4>1. j \in (n + k)..(n + RcvBufSize - 1) /\ j \in n..(n + RcvBufSize - 1)
        BY <1>3, <1>4, <1>6, <3>1
      <4> QED BY <1>6, <1>13, <4>1
    <3>2. CASE ~(j <= n + RcvBufSize - 1)
      <4>1. j \in (n + RcvBufSize)..(n + k + RcvBufSize - 1) /\ ~(j < rl)
        BY <1>1, <1>3, <1>4, <1>6, <3>2
      <4> QED BY <1>14, <4>1
    <3> QED BY <3>1, <3>2
  <2> QED BY <1>9, <2>1, <2>2, <2>3, <2>4, <2>5 DEF ReceiverAt
<1>17. SenderAt(c, la, da)'
  BY <1>2, <1>5, SenderStays
<1>18. WindowAt(c, la, rl, n + k)'
  <2>1. c \in Int /\ la \in Int /\ rl \in Int /\ n \in Int /\ n + k \in Int /\ n <= n + k
    BY <1>1, <1>4
  <2> QED BY <1>1, <1>2, <1>5, <2>1, WindowStays DEF sndVars
<1>19. \A q \in net' : TruePacket(q, c, rl, Limit(rl, n + k))'
  <2>1. /\ Limit(rl, n) \in Int /\ Limit(rl, n + k) \in Int /\ Limit(rl, n) <= Limit(rl, n + k)
        /\ Limit(rl, n + k)' = Limit(rl, n + k)
    <3>1. rl \in Int /\ n \in Int
      BY <1>1
    <3> QED BY <1>3, <1>4, <1>10, <3>1 DEF Limit
  <2>2. \A q \in net : TruePacket(q, c, rl, Limit(rl, n + k))
    BY <1>2, <2>1 DEF TruePacket
  <2> QED BY <1>5, <1>10, <2>1, <2>2 DEF TruePacket, Num
<1>20. TransferAt(c, la, da, rc, rl, rla, n + k)'
  <2>1. rc <= c /\ da <= rl
    BY <1>1
  <2> QED BY <1>1, <1>10, <1>16, <1>17, <1>18, <1>19, <2>1 DEF TransferAt
<1>21. got' = got \o PayloadsAfter(n, k)
  BY <1>8 DEF PayloadsAfter
<1> QED BY <1>4, <1>20, <1>21, InvFromAt

(***************************************************************************)
(* The invariant holds                                                     *)
(***************************************************************************)
\* No step of either side or of the network leaves the invariant.
LEMMA InvStep == TransferInv /\ [Next]_vars => TransferInv'
<1> SUFFICES ASSUME NEW c \in -1..Payloads, NEW la \in 0..Payloads, NEW da \in 0..Payloads,
                    NEW rc \in -1..Payloads, NEW rl \in 0..Payloads, NEW rla \in 0..Payloads,
                    NEW n \in 0..Payloads,
                    TransferAt(c, la, da, rc, rl, rla, n), [Next]_vars
             PROVE  TransferInv'
  BY DEF TransferInv
<1>1. CASE Send
  BY <1>1, SendKeeps
<1>2. CASE Packs
  BY <1>2, PickPacketKeeps, RetransmitKeeps, SendNewKeeps DEF Packs
<1>3. CASE FinishAck
  BY <1>3, FinishAckKeeps
<1>4. CASE Exp
  BY <1>4, ExpKeeps
<1>5. CASE SendAck
  BY <1>5, SendAckKeeps
<1>6. CASE SendLiteAck
  BY <1>6, SendLiteAckKeeps
<1>7. CASE \E k \in 1..RcvBufSize : Recv(k)
  BY <1>7, RecvKeeps
<1>8. ASSUME NEW p \in net,
             \/ StartAck(p) \/ StartLiteAck(p) \/ ReceiveNak(p)
             \/ ReceiveData(p) \/ ReceiveAck2(p) \/ Lose(p)
      PROVE  TransferInv'
  BY <1>8, StartAckKeeps, StartLiteAckKeeps, ReceiveNakKeeps, ReceiveDataKeeps,
     ReceiveAck2Keeps, LoseKeeps
<1>9. CASE UNCHANGED vars
  <2>1. c \in Int /\ la \in Int /\ rl \in Int /\ n \in Int /\ setup \in Setups
    BY IndicesAreSane
  <2>2. UNCHANGED sndVars /\ UNCHANGED rcvVars /\ UNCHANGED <<setup, sndWin, acking, net>>
    BY <1>9 DEF vars, sndVars, rcvVars
  <2>3. SenderAt(c, la, da)' /\ WindowAt(c, la, rl, n)' /\ ReceiverAt(rc, rl, rla, n)'
    BY <2>1, <2>2, SenderStays, WindowStays, ReceiverStays DEF TransferAt
  <2>4. \A p \in net' : TruePacket(p, c, rl, Limit(rl, n))'
    BY <2>2 DEF TransferAt, TruePacket, Limit, Num, Isn, RcvBufSize
  <2>5. TransferAt(c, la, da, rc, rl, rla, n)'
    BY <2>2, <2>3, <2>4 DEF TransferAt
  <2> QED BY <2>5, InvFromAt
<1> QED BY <1>1, <1>2, <1>3, <1>4, <1>5, <1>6, <1>7, <1>8, <1>9 DEF Next

\* TransferInv holds in every state of every behaviour.
THEOREM TransferInvariant == Spec => []TransferInv
<1> QED BY InvInit, InvStep, PTL DEF Spec

\* core.cpp 2000 and 2161 never take an honest receiver for an attacker: with every packet
\* under way naming only what was sent, no check of an acknowledgement or a loss report fails.
THEOREM NoFalseAlarmEver == Spec => []NoFalseAlarm
<1>1. TransferInv => NoFalseAlarm
  BY DEF TransferInv, TransferAt, SenderAt, NoFalseAlarm
<1> QED BY <1>1, TransferInvariant, PTL

\* A packet carries the same payload whenever packData sends it, and nothing is retransmitted
\* that was not sent (core.cpp 2275 to 2310).
THEOREM RetransmissionsAreTrue == Spec => []RetransmitsTheSame
<1>1. TransferInv => RetransmitsTheSame
  <2> SUFFICES ASSUME NEW c \in -1..Payloads, NEW la \in 0..Payloads, NEW da \in 0..Payloads,
                      NEW rc \in -1..Payloads, NEW rl \in 0..Payloads, NEW rla \in 0..Payloads,
                      NEW n \in 0..Payloads, TransferAt(c, la, da, rc, rl, rla, n)
               PROVE  RetransmitsTheSame
    BY DEF TransferInv
  <2>1. /\ Payloads \in Nat /\ c \in Int /\ c < Payloads /\ setup \in Setups
    BY IndicesAreSane
  <2>2. Isn \in SeqNo
    BY <2>1, SetupIsSane
  <2>3. ASSUME NEW p \in net, p.kind = "data" PROVE p.seq = incseqBy(Isn, p.data - 1)
    <3>1. PICK k \in 0..c : p = Data(Num(k), k + 1)
      BY <2>3, PacketSays DEF TransferAt
    <3>2. p.seq = Num(k) /\ p.data = k + 1 /\ k # -1 /\ p.data - 1 = k
      BY <2>1, <3>1 DEF Data
    <3> QED BY <3>2 DEF Num, NumOf
  <2>4. ASSUME NEW s \in sndLoss \union ({packing} \intersect SeqNo)
        PROVE  seqcmp(s, sndCurr) <= 0
    <3>1. s \in Nums(0..c) /\ sndCurr = Num(c)
      BY SeqNoAssumption, <2>4 DEF TransferAt, SenderAt, NoSeq, NewSeq, SeqNo
    <3>2. PICK k \in 0..c : s = NumOf(Isn, k)
      BY <3>1 DEF Nums, NumsOf
    <3>3. k \in 0..Payloads /\ k - c <= Payloads /\ ~(k > c)
      BY <2>1
    <3>4. ~(seqcmp(s, sndCurr) > 0) /\ seqcmp(s, sndCurr) \in Int
      BY <2>1, <2>2, <3>1, <3>2, <3>3, CompareNums DEF Num
    <3> QED BY <3>4
  <2> QED BY <2>3, <2>4 DEF RetransmitsTheSame
<1> QED BY <1>1, TransferInvariant, PTL

\* Of the packets between the acknowledged ones and the newest, CRcvLossList holds exactly
\* those that m_pRcvBuffer has no unit of, wherever numbers and slots wrap (core.cpp 2407 to 2445).
THEOREM EveryPacketIsAlwaysAccounted == Spec => []EveryPacketIsAccounted
<1>1. TransferInv => EveryPacketIsAccounted
  <2> SUFFICES ASSUME NEW c \in -1..Payloads, NEW la \in 0..Payloads, NEW da \in 0..Payloads,
                      NEW rc \in -1..Payloads, NEW rl \in 0..Payloads, NEW rla \in 0..Payloads,
                      NEW n \in 0..Payloads, TransferAt(c, la, da, rc, rl, rla, n)
               PROVE  EveryPacketIsAccounted
    BY DEF TransferInv
  <2>1. Payloads \in Nat /\ rc \in -1..Payloads /\ rl <= rc + 1 /\ setup \in Setups
    BY IndicesAreSane
  <2>2. Isn \in SeqNo /\ RcvBufSize \in Nat \ {0}
    BY <2>1, SetupIsSane
  <2>3. /\ rcvCurr = NumOf(Isn, rc) /\ rcvLastAck = NumOf(Isn, rl) /\ lastAckPos = rl % RcvBufSize
        /\ rcvLoss = NumsOf(Isn, {k \in rl..rc : SlotOf(k) = 0})
    BY DEF TransferAt, ReceiverAt, Num, Nums
  <2>4. Span(rcvLastAck, rcvCurr) = NumsOf(Isn, rl..rc)
    <3>1. rc \in (rl - 1)..Payloads
      BY <2>1
    <3> QED BY <2>2, <2>3, <3>1, SpanOfNums
  <2>5. ASSUME NEW k \in rl..rc
        PROVE  unit[(lastAckPos + seqoff(rcvLastAck, NumOf(Isn, k))) % RcvBufSize] = SlotOf(k)
    <3>1. k \in -1..Payloads /\ rl - k <= Payloads /\ k - rl \in Nat /\ k \in Nat
      BY <2>1
    <3>2. seqoff(rcvLastAck, NumOf(Isn, k)) = k - rl
      BY <2>2, <2>3, <3>1, OffsetOfNums
    <3>3. PICK d \in Nat : d = k - rl
      BY <3>1
    <3>4. rl + d = k /\ rl \in Nat
      BY <2>1, <3>1, <3>3
    <3>5. ((rl % RcvBufSize) + d) % RcvBufSize = (rl + d) % RcvBufSize
      BY <2>2, <3>4, SlotSum
    <3> QED BY <2>3, <3>2, <3>3, <3>4, <3>5 DEF SlotOf
  <2>6. {s \in NumsOf(Isn, rl..rc) :
           unit[(lastAckPos + seqoff(rcvLastAck, s)) % RcvBufSize] = 0}
          = NumsOf(Isn, {k \in rl..rc : SlotOf(k) = 0})
    BY <2>5 DEF NumsOf
  <2> QED BY <2>3, <2>4, <2>6 DEF EveryPacketIsAccounted
<1> QED BY <1>1, TransferInvariant, PTL

\* The sender keeps within what the receiver has room for, although m_iFlowWindowSize and
\* m_iSndLastAck are set one after the other (core.cpp 1974, 2009 and 2316).
THEOREM WindowIsAlwaysHonoured == Spec => []WindowIsHonoured
<1>1. TransferInv => WindowIsHonoured
  <2> SUFFICES ASSUME NEW c \in -1..Payloads, NEW la \in 0..Payloads, NEW da \in 0..Payloads,
                      NEW rc \in -1..Payloads, NEW rl \in 0..Payloads, NEW rla \in 0..Payloads,
                      NEW n \in 0..Payloads, TransferAt(c, la, da, rc, rl, rla, n)
               PROVE  WindowIsHonoured
    BY DEF TransferInv
  <2>1. /\ Payloads \in Nat /\ setup \in Setups /\ c \in -1..Payloads /\ rl <= c + 1
        /\ c < Payloads /\ rl \in 0..Payloads /\ n \in Int
    BY IndicesAreSane
  <2>2. Isn \in SeqNo /\ RcvBufSize \in Nat \ {0}
    BY <2>1, SetupIsSane
  <2>3. sndCurr = NumOf(Isn, c) /\ rcvLastAck = NumOf(Isn, rl)
    BY DEF TransferAt, SenderAt, ReceiverAt, Num
  <2>4. seqoff(rcvLastAck, sndCurr) = c - rl
    <3>1. rl - c <= Payloads
      <4>1. CASE c = -1
        BY <2>1, <4>1, SetupIsSane
      <4>2. CASE c # -1
        BY <2>1, <4>2
      <4> QED BY <4>1, <4>2
    <3> QED BY <2>1, <2>2, <2>3, <3>1, OffsetOfNums
  <2>5. Avail = RcvBufSize - (rl - n) - 1
    BY <2>1, AvailIs DEF TransferAt
  <2>6. c < Limit(rl, n)
    BY DEF TransferAt, WindowAt
  <2> QED BY <2>1, <2>2, <2>4, <2>5, <2>6 DEF WindowIsHonoured, Limit
<1> QED BY <1>1, TransferInvariant, PTL

\* What recv() returns is what send() was given, in order, each payload once; and no more than
\* the two buffers hold is between them.
THEOREM TransferIsReliable == Spec => ImplementsStream
<1>1. Init => Stream!Init
  <2> SUFFICES ASSUME Init PROVE Stream!Init
    OBVIOUS
  <2>1. SndBufSize \in Nat \ {0} /\ RcvBufSize \in Nat \ {0}
    BY SetupIsSane DEF Init
  <2> QED BY <2>1 DEF Init, Stream!Init
<1>2. TransferInv /\ [Next]_vars => [Stream!Next]_Stream!vars
  <2> SUFFICES ASSUME NEW c \in -1..Payloads, NEW la \in 0..Payloads, NEW da \in 0..Payloads,
                      NEW rc \in -1..Payloads, NEW rl \in 0..Payloads, NEW rla \in 0..Payloads,
                      NEW n \in 0..Payloads,
                      TransferAt(c, la, da, rc, rl, rla, n), [Next]_vars
               PROVE  [Stream!Next]_Stream!vars
    BY DEF TransferInv
  <2>1. /\ Payloads \in Nat /\ sent \in 0..Payloads /\ setup \in Setups /\ da <= rl
        /\ rl - n < RcvBufSize /\ rl <= c + 1
    BY IndicesAreSane
  <2>2. SndBufSize \in Nat \ {0} /\ RcvBufSize \in Nat \ {0}
    BY <2>1, SetupIsSane
  <2>3. /\ sndBuf = [i \in 1..(sent - da) |-> da + i] /\ c < sent /\ da <= la /\ la <= c + 1
        /\ got = [i \in 1..n |-> i]
    BY DEF TransferAt, SenderAt, ReceiverAt
  <2>4. Len(got) = n
    BY <2>3
  <2>5. CASE Send
    <3>1. Len(sndBuf) = sent - da
      <4>1. sent - da \in Nat
        BY <2>1, <2>3
      <4> QED BY <2>3, <4>1, Counting
    <3>2. sent - Len(got) < SndBufSize + RcvBufSize - 1
      BY <2>1, <2>2, <2>4, <2>5, <3>1 DEF Send
    <3>3. sent' = sent + 1 /\ setup' = setup /\ got' = got
      BY <2>5 DEF Send, rcvVars
    <3> QED BY <3>2, <3>3 DEF Stream!Next, Stream!Send, SndBufSize, RcvBufSize
  <2>6. ASSUME NEW k \in 1..RcvBufSize, Recv(k) PROVE Stream!Next
    <3>1. n + k <= rl /\ got' = got \o PayloadsAfter(n, k)
      BY <2>6, RecvKeeps
    <3>2. got' = got \o [i \in 1..k |-> n + i]
      BY <3>1 DEF PayloadsAfter
    <3>3. sent' = sent /\ setup' = setup
      BY <2>6 DEF Recv, sndVars
    <3>4. Len(got) + k <= sent /\ k \in 1..(SndBufSize + RcvBufSize - 1)
      BY <2>1, <2>2, <2>3, <2>4, <3>1
    <3> QED BY <2>4, <3>2, <3>3, <3>4 DEF Stream!Next, Stream!Read, SndBufSize, RcvBufSize
  <2>7. ASSUME NEW p \in net,
               \/ StartAck(p) \/ StartLiteAck(p) \/ ReceiveNak(p)
               \/ ReceiveData(p) \/ ReceiveAck2(p) \/ Lose(p)
        PROVE  UNCHANGED <<setup, sent, got>>
    BY <2>7 DEF StartAck, StartLiteAck, ReceiveNak, ReceiveData, ReceiveAck2, Lose,
                sndVars, rcvVars
  <2>8. ASSUME \/ PickPacket \/ Retransmit \/ SendNew \/ FinishAck \/ Exp \/ SendAck
               \/ SendLiteAck \/ UNCHANGED vars
        PROVE  UNCHANGED <<setup, sent, got>>
    BY <2>8 DEF PickPacket, Retransmit, SendNew, FinishAck, Exp, SendAck, SendLiteAck,
                vars, sndVars, rcvVars
  <2>9. UNCHANGED <<setup, sent, got>> => UNCHANGED Stream!vars
    BY DEF Stream!vars, SndBufSize, RcvBufSize
  <2> QED BY <2>5, <2>6, <2>7, <2>8, <2>9 DEF Next, Packs
<1> QED BY <1>1, <1>2, TransferInvariant, PTL DEF Spec, ImplementsStream, Stream!Spec
=============================================================================
