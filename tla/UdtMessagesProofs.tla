-------------------------- MODULE UdtMessagesProofs --------------------------
(***************************************************************************)
(* What holds of messages whatever their number, sizes and options, the    *)
(* first packet number, the sizes of the buffers, and what the network     *)
(* loses, repeats or delays.                                               *)
(***************************************************************************)
EXTENDS UdtMessages, UdtLemmas

(***************************************************************************)
(* Messages and packets                                                    *)
(***************************************************************************)
FirstOf(m) == conn.msgs[m].first
LastOf(m)  == conn.msgs[m].last

\* No packet has a greater index, the numbers skipped for messages given up included.
Top == 2 * Packets + 1

Num(k)  == NumOf(Isn, k)
Nums(K) == NumsOf(Isn, K)

\* What connections and their messages are.
LEMMA SetupIsSane ==
  ASSUME conn \in MessageSetups
  PROVE  /\ Isn \in SeqNo /\ SndBufSize \in Nat \ {0} /\ RcvBufSize \in Nat \ {0}
         /\ Messages = 1..Len(conn.msgs) /\ Len(conn.msgs) \in Nat \ {0}
         /\ \A m \in Messages :
              /\ FirstOf(m) \in Nat /\ LastOf(m) \in Nat /\ FirstOf(m) <= LastOf(m)
              /\ FirstOf(m) = IF m = 1 THEN 1 ELSE LastOf(m - 1) + 1
              /\ 2 * LastOf(m) + 2 < SeqNoTH
              /\ conn.msgs[m].order \in BOOLEAN
         /\ Packets = LastOf(Len(conn.msgs))
<1>1. /\ conn.msgs # <<>> /\ conn.isn \in SeqNo /\ conn.snd \in Nat \ {0} /\ conn.rcv \in Nat \ {0}
      /\ conn.msgs \in Seq([first : Nat, last : Nat, order : BOOLEAN, ttl : BOOLEAN])
      /\ \A m \in DOMAIN conn.msgs :
           /\ conn.msgs[m].first = (IF m = 1 THEN 1 ELSE conn.msgs[m - 1].last + 1)
           /\ conn.msgs[m].last \in conn.msgs[m].first..(conn.msgs[m].first + conn.snd - 1)
           /\ 2 * conn.msgs[m].last + 2 < SeqNoTH
  BY MessageAssumption
<1>2. Len(conn.msgs) \in Nat \ {0} /\ DOMAIN conn.msgs = 1..Len(conn.msgs)
  BY <1>1
<1>3. \A m \in Messages :
              /\ FirstOf(m) \in Nat /\ LastOf(m) \in Nat /\ FirstOf(m) <= LastOf(m)
              /\ FirstOf(m) = IF m = 1 THEN 1 ELSE LastOf(m - 1) + 1
              /\ 2 * LastOf(m) + 2 < SeqNoTH
              /\ conn.msgs[m].order \in BOOLEAN
  <2> SUFFICES ASSUME NEW m \in DOMAIN conn.msgs
               PROVE  /\ conn.msgs[m].first \in Nat /\ conn.msgs[m].last \in Nat
                      /\ conn.msgs[m].first <= conn.msgs[m].last
                      /\ conn.msgs[m].order \in BOOLEAN
    BY <1>1 DEF Messages, FirstOf, LastOf
  <2>1. conn.msgs[m] \in [first : Nat, last : Nat, order : BOOLEAN, ttl : BOOLEAN]
    <3>1. PICK s : s = conn.msgs
      OBVIOUS
    <3>2. PICK R : R = [first : Nat, last : Nat, order : BOOLEAN, ttl : BOOLEAN]
      OBVIOUS
    <3>3. s \in Seq(R) /\ m \in 1..Len(s)
      BY <1>1, <1>2, <3>1, <3>2
    <3> QED BY <3>1, <3>2, <3>3, ElementOfSeq
  <2>2. conn.msgs[m].last \in conn.msgs[m].first..(conn.msgs[m].first + conn.snd - 1)
    BY <1>1
  <2> QED BY <1>1, <2>1, <2>2
<1> QED BY <1>1, <1>2, <1>3 DEF Isn, SndBufSize, RcvBufSize, Messages, Packets, LastOf

\* Messages come one after the other.
LEMMA MessagesFollow ==
  ASSUME conn \in MessageSetups, NEW m \in Messages, NEW k \in Messages, m < k
  PROVE  LastOf(m) < FirstOf(k)
<1>1. /\ m \in Nat /\ k \in Nat
      /\ \A i \in Messages : /\ FirstOf(i) \in Nat /\ LastOf(i) \in Nat /\ FirstOf(i) <= LastOf(i)
                             /\ FirstOf(i) = IF i = 1 THEN 1 ELSE LastOf(i - 1) + 1
      /\ Messages = 1..Len(conn.msgs) /\ Len(conn.msgs) \in Nat
  BY SetupIsSane
<1> DEFINE S == {i \in Nat : m + 1 + i \in Messages => LastOf(m) < FirstOf(m + 1 + i)}
<1>2. 0 \in S
  <2>1. m + 1 \in Messages => FirstOf(m + 1) = LastOf(m) + 1
    BY <1>1
  <2> QED BY <1>1, <2>1
<1>3. \A i \in S : i + 1 \in S
  <2> SUFFICES ASSUME NEW i \in S, m + 1 + (i + 1) \in Messages
               PROVE  LastOf(m) < FirstOf(m + 1 + (i + 1))
    OBVIOUS
  <2>1. PICK j \in Nat : j = m + 1 + i
    BY <1>1
  <2>2. j \in Messages /\ j + 1 \in Messages /\ j + 1 # 1 /\ j + 1 = m + 1 + (i + 1)
    BY <1>1, <2>1
  <2>3. LastOf(m) < FirstOf(j) /\ FirstOf(j) <= LastOf(j) /\ FirstOf(j + 1) = LastOf(j + 1 - 1) + 1
    BY <1>1, <2>1, <2>2
  <2>4. j + 1 - 1 = j
    BY <2>1
  <2>5. LastOf(m) \in Nat /\ FirstOf(j) \in Nat /\ LastOf(j) \in Nat
    BY <1>1, <2>2
  <2> QED BY <2>2, <2>3, <2>4, <2>5
<1>4. S = Nat
  <2> HIDE DEF S
  <2>1. S \in SUBSET Nat
    BY DEF S
  <2> QED BY <1>2, <1>3, <2>1, InductiveSet
<1>5. k - m - 1 \in S
  <2>1. k - m - 1 \in Nat
    BY <1>1
  <2> QED BY ONLY <1>4, <2>1
<1>6. m + 1 + (k - m - 1) = k
  BY <1>1
<1> QED BY <1>5, <1>6

\* The message of a packet.
LEMMA MessageOf ==
  ASSUME conn \in MessageSetups, NEW m \in Messages, NEW d \in FirstOf(m)..LastOf(m)
  PROVE  MsgOf(d) = m
<1>1. \A k \in Messages : d \in FirstOf(k)..LastOf(k) => k = m
  <2> SUFFICES ASSUME NEW k \in Messages, d \in FirstOf(k)..LastOf(k), k # m PROVE FALSE
    OBVIOUS
  <2>1. /\ k \in Nat /\ m \in Nat /\ FirstOf(k) \in Nat /\ LastOf(k) \in Nat /\ FirstOf(m) \in Nat
        /\ LastOf(m) \in Nat
    BY SetupIsSane
  <2>2. LastOf(m) < FirstOf(k) \/ LastOf(k) < FirstOf(m)
    BY <2>1, MessagesFollow
  <2> QED BY <2>1, <2>2
<1> QED BY <1>1 DEF MsgOf, FirstOf, LastOf

\* Every packet belongs to a message.
LEMMA PacketsHaveMessages ==
  ASSUME conn \in MessageSetups, NEW d \in 1..Packets
  PROVE  /\ MsgOf(d) \in Messages /\ FirstOf(MsgOf(d)) <= d /\ d <= LastOf(MsgOf(d))
<1> DEFINE n == Len(conn.msgs)
           S == {i \in 1..n : d <= LastOf(i)}
<1>1. /\ n \in Nat \ {0} /\ Messages = 1..n /\ Packets = LastOf(n)
      /\ \A i \in 1..n : /\ FirstOf(i) \in Nat /\ LastOf(i) \in Nat /\ FirstOf(i) <= LastOf(i)
                         /\ FirstOf(i) = IF i = 1 THEN 1 ELSE LastOf(i - 1) + 1
  BY SetupIsSane
<1> HIDE DEF n
<1>2. PICK m \in S : \A k \in S : m <= k
  <2>1. n \in S /\ S \in SUBSET Nat
    BY <1>1
  <2> HIDE DEF S
  <2> QED BY <2>1, LeastNatural
<1>3. FirstOf(m) <= d
  <2>1. CASE m = 1
    BY <1>1, <2>1
  <2>2. CASE m # 1
    <3>1. m - 1 \in 1..n /\ m - 1 \notin S
      BY <1>1, <1>2, <2>2
    <3>2. ~(d <= LastOf(m - 1)) /\ LastOf(m - 1) \in Nat /\ FirstOf(m) = LastOf(m - 1) + 1
      BY <1>1, <1>2, <2>2, <3>1
    <3> QED BY <1>1, <3>2
  <2> QED BY <2>1, <2>2
<1>4. m \in Messages /\ d \in FirstOf(m)..LastOf(m)
  BY <1>1, <1>2, <1>3
<1> QED BY <1>1, <1>3, <1>4, MessageOf

\* Packets of messages are packets; no more of them than half the ring has room for.
LEMMA PacketsAreFew ==
  ASSUME conn \in MessageSetups
  PROVE  /\ Packets \in Nat /\ Packets >= 1 /\ Top + 1 <= Half /\ SeqNoTH > 1 /\ Half \in Nat
         /\ \A m \in Messages : FirstOf(m) >= 1 /\ LastOf(m) <= Packets
<1> DEFINE n == Len(conn.msgs)
<1>1. /\ n \in Nat \ {0} /\ Messages = 1..n /\ Packets = LastOf(n)
      /\ \A i \in 1..n : /\ FirstOf(i) \in Nat /\ LastOf(i) \in Nat /\ FirstOf(i) <= LastOf(i)
                         /\ FirstOf(i) = (IF i = 1 THEN 1 ELSE LastOf(i - 1) + 1)
                         /\ 2 * LastOf(i) + 2 < SeqNoTH
  BY SetupIsSane
<1> HIDE DEF n
<1>2. \A m \in Messages : FirstOf(m) >= 1
  <2> SUFFICES ASSUME NEW m \in 1..n PROVE FirstOf(m) >= 1
    BY <1>1
  <2>1. CASE m = 1
    BY <1>1, <2>1
  <2>2. CASE m # 1
    <3>1. LastOf(m - 1) \in Nat
      <4>1. m - 1 \in 1..n
        BY <1>1, <2>2
      <4> QED BY <1>1, <4>1
    <3>2. FirstOf(m) = LastOf(m - 1) + 1
      BY <1>1, <2>2
    <3> QED BY <3>1, <3>2
  <2> QED BY <2>1, <2>2
<1>3. \A m \in Messages : LastOf(m) <= Packets
  <2> SUFFICES ASSUME NEW m \in 1..n PROVE LastOf(m) <= LastOf(n)
    BY <1>1
  <2>1. CASE m = n
    BY <1>1, <2>1
  <2>2. CASE m # n
    <3>1. LastOf(m) < FirstOf(n) /\ n \in 1..n
      BY <1>1, <2>2, MessagesFollow
    <3> QED BY <1>1, <3>1
  <2> QED BY <2>1, <2>2
<1>4. Packets \in Nat /\ Packets >= 1 /\ 2 * Packets + 2 < SeqNoTH
  BY <1>1, <1>2
<1> QED BY <1>2, <1>3, <1>4, SeqNoAssumption DEF Top, Half

\* The numbers of the packets of a connection.
LEMMA NumFacts ==
  ASSUME conn \in MessageSetups
  PROVE  /\ Isn \in SeqNo /\ Num(0) = Isn /\ Num(-1) = Isn - 1
         /\ \A k \in 0..(Top + 1) : Num(k) \in SeqNo /\ Num(k) >= 0
         /\ \A i \in 0..Top, j \in -1..Top :
              /\ seqcmp(Num(i), Num(j)) > 0 <=> i > j
              /\ seqcmp(Num(i), Num(j)) < 0 <=> i < j
              /\ seqcmp(Num(i), Num(j)) \in Int
         /\ \A i \in 0..(Top + 1), j \in 0..(Top + 1) :
              /\ seqcmp(Num(i), Num(j)) > 0 <=> i > j
              /\ seqcmp(Num(i), Num(j)) < 0 <=> i < j
              /\ seqcmp(Num(i), Num(j)) \in Int
              /\ seqoff(Num(i), Num(j)) = j - i
         /\ \A k \in -1..Top : incseq(Num(k)) = Num(k + 1)
         /\ \A k \in 1..(Top + 1) : decseq(Num(k)) = Num(k - 1)
         /\ \A i \in -1..(Top + 1), j \in -1..(Top + 1) : Num(i) = Num(j) => i = j
<1>1. Isn \in SeqNo /\ Top \in Nat /\ Top + 1 <= Half /\ Half \in Nat
  BY SetupIsSane, PacketsAreFew DEF Top
<1> HIDE DEF Top
<1>2. Num(0) = Isn /\ Num(-1) = Isn - 1 /\ \A k \in 0..(Top + 1) : Num(k) \in SeqNo /\ Num(k) >= 0
  <2>1. 0 \in 0..Half /\ \A k \in 0..(Top + 1) : k \in 0..Half
    BY <1>1
  <2>2. Num(0) = Isn /\ \A k \in 0..(Top + 1) : Num(k) \in SeqNo
    BY <1>1, <2>1, NumberIsSeqNo DEF Num
  <2>3. Num(-1) = Isn - 1
    BY DEF Num, NumOf
  <2> QED BY <2>2, <2>3 DEF SeqNo
<1>3. ASSUME NEW i \in 0..(Top + 1), NEW j \in -1..(Top + 1), i - j <= Half
      PROVE  /\ seqcmp(Num(i), Num(j)) > 0 <=> i > j
             /\ seqcmp(Num(i), Num(j)) < 0 <=> i < j
             /\ seqcmp(Num(i), Num(j)) \in Int
             /\ seqoff(Num(i), Num(j)) = j - i
  <2>1. i \in 0..Half /\ j \in -1..Half
    BY <1>1
  <2> QED BY <1>1, <1>3, <2>1, ComparingNumbers, OffsetOfNumbers DEF Num
<1>4. \A i \in 0..Top, j \in -1..Top :
              /\ seqcmp(Num(i), Num(j)) > 0 <=> i > j
              /\ seqcmp(Num(i), Num(j)) < 0 <=> i < j
              /\ seqcmp(Num(i), Num(j)) \in Int
  <2> SUFFICES ASSUME NEW i \in 0..Top, NEW j \in -1..Top
               PROVE  i \in 0..(Top + 1) /\ j \in -1..(Top + 1) /\ i - j <= Half
    BY <1>3
  <2> QED BY <1>1
<1>5. \A i \in 0..(Top + 1), j \in 0..(Top + 1) :
              /\ seqcmp(Num(i), Num(j)) > 0 <=> i > j
              /\ seqcmp(Num(i), Num(j)) < 0 <=> i < j
              /\ seqcmp(Num(i), Num(j)) \in Int
              /\ seqoff(Num(i), Num(j)) = j - i
  <2> SUFFICES ASSUME NEW i \in 0..(Top + 1), NEW j \in 0..(Top + 1)
               PROVE  j \in -1..(Top + 1) /\ i - j <= Half
    BY <1>3
  <2> QED BY <1>1
<1>6. \A k \in -1..Top : incseq(Num(k)) = Num(k + 1)
  <2> SUFFICES ASSUME NEW k \in -1..Top PROVE k \in -1..(Half - 1)
    BY <1>1, NextNumber DEF Num
  <2> QED BY <1>1
<1>7. \A k \in 1..(Top + 1) : decseq(Num(k)) = Num(k - 1)
  <2> SUFFICES ASSUME NEW k \in 1..(Top + 1) PROVE k \in 1..Half
    BY <1>1, PreviousNumber DEF Num
  <2> QED BY <1>1
<1>8. \A i \in -1..(Top + 1), j \in -1..(Top + 1) : Num(i) = Num(j) => i = j
  <2> SUFFICES ASSUME NEW i \in -1..(Top + 1), NEW j \in -1..(Top + 1)
               PROVE  i \in -1..Half /\ j \in -1..Half
    BY <1>1, NumbersDiffer DEF Num
  <2> QED BY <1>1
<1> QED BY <1>1, <1>2, <1>4, <1>5, <1>6, <1>7, <1>8

(***************************************************************************)
(* The inductive invariant                                                 *)
(***************************************************************************)
\* The sender: packet c is the newest one sent, or skipped, and la are acknowledged.
SenderAt(c, la) ==
  /\ c \in -1..Top /\ la \in Nat /\ la <= c + 1
  /\ sndCurr = Num(c) /\ sndLastAck = Num(la) /\ firstBlock = la + 1
  /\ sent \in 0..Packets /\ (sent = 0 \/ \E m \in Messages : sent = LastOf(m))
  /\ currBlock \in 1..(sent + 1) /\ c - currBlock <= Packets
  /\ broken => wild
  /\ sndLoss \subseteq Nums(0..c)
  /\ packing \in {Idle, Nothing} \union Nums(0..c)

\* The receiver: packet rc is the newest to come, or given up, rl are acknowledged, and rla
\* of these for good.
ReceiverAt(rc, rl, rla) ==
  /\ rc \in Int /\ rl \in Nat /\ rla \in Nat /\ rl <= rc + 1 /\ rla <= rl
  /\ rcvCurr = Num(rc) /\ rcvLastAck = Num(rl) /\ rcvLastAckAck = Num(rla)
  /\ rcvLoss \subseteq Nums(rl..rc)

\* What a packet under way may say.
TruePacket(p, c, rl) ==
  /\ p.kind = "data" => p.seq \in Nums(0..c) /\ p.data \in 1..Packets
  /\ p.kind \in {"ack", "ack2"} => p.ack \in Nums(0..rl)
  /\ p.kind \in {"nak", "drop"} =>
       \E i \in 0..c, j \in 0..c : i <= j /\ p.lo = Num(i) /\ p.hi = Num(j)

NumbersAt(c, la, rc, rl, rla) ==
  /\ conn \in MessageSetups
  /\ SenderAt(c, la) /\ ReceiverAt(rc, rl, rla)
  /\ rc <= c /\ la <= rl
  /\ \A p \in net : TruePacket(p, c, rl)

NumbersInv ==
  \E c \in -1..Top, la \in 0..(Top + 1), rc \in -1..Top, rl \in 0..(Top + 1),
     rla \in 0..(Top + 1) : NumbersAt(c, la, rc, rl, rla)

\* The buffer of the receiver and its reader.
BufferIsTyped ==
  /\ unit \in [Slots -> Nat] /\ flag \in [Slots -> Nat]
  /\ startPos \in Slots /\ lastAckPos \in Slots /\ maxPos \in Nat
  /\ got \in Seq(Seq(Nat))

\* Buffer b, from packet n on, has room for one buffer of packets: it has those that came,
\* none after rc and all before rl.  Those of the messages in read are marked as read, and
\* all packets before n are of these.
Holds(b, n, rc, rl, read) ==
  /\ n \in 0..rl /\ rl <= rc + 1 /\ rc + 1 < n + RcvBufSize /\ rc < Packets
  /\ b.start = n % RcvBufSize
  /\ b.unit \in [Slots -> Nat] /\ b.flag \in [Slots -> Nat]
  /\ \A k \in n..(n + RcvBufSize - 1) :
       /\ b.unit[k % RcvBufSize] \in {0, k + 1}
       /\ k < rl => b.unit[k % RcvBufSize] # 0
       /\ k > rc => b.unit[k % RcvBufSize] = 0
       /\ b.unit[k % RcvBufSize] # 0 =>
            b.flag[k % RcvBufSize] = IF MsgOf(k + 1) \in read THEN 2 ELSE 1
  /\ \A m \in read : \A d \in Payloads(m) :
       d <= n \/ (d <= rc + 1 /\ b.unit[(d - 1) % RcvBufSize] # 0)
  /\ \A d \in 1..n : MsgOf(d) \in read

Whole(m) == [k \in 1..(LastOf(m) - FirstOf(m) + 1) |-> FirstOf(m) + k - 1]

\* The messages g were returned, each once, and those with the order flag after all before.
Returned(g) ==
  /\ g \in Seq(Messages) /\ Once(g)
  /\ got = [i \in 1..Len(g) |-> Whole(g[i])]
  /\ \A i \in 1..Len(g) : conn.msgs[g[i]].order =>
       \A m \in 1..(g[i] - 1) : \E j \in 1..(i - 1) : g[j] = m

ReadOf(g) == {g[i] : i \in 1..Len(g)}

\* As long as no message is given up, packet k carries block k + 1.
SentInOrder(c) ==
  /\ currBlock = c + 2
  /\ \A p \in net : p.kind = "data" => \E k \in 0..c : p.seq = Num(k) /\ p.data = k + 1

\* What is missing between the acknowledged and the newest packet is in the loss list, what
\* is there is in its slot, and nothing is noted beyond the buffer.
KeptInOrder(rc, rl, n, g) ==
  /\ Holds(Buffer, n, rc, rl, ReadOf(g))
  /\ lastAckPos = rl % RcvBufSize
  /\ rcvLoss = Nums({k \in rl..rc : unit[k % RcvBufSize] = 0})
  /\ maxPos \in Nat /\ maxPos + (rl - n) < RcvBufSize
  /\ Returned(g)

ContentAt(c, rc, rl, n, g) == SentInOrder(c) /\ KeptInOrder(rc, rl, n, g)

MessagesInv ==
  \E c \in -1..Top, la \in 0..(Top + 1), rc \in -1..Top, rl \in 0..(Top + 1),
     rla \in 0..(Top + 1) :
       /\ NumbersAt(c, la, rc, rl, rla)
       /\ NothingGivenUp =>
            \E n \in 0..(Top + 1), g \in Seq(Messages) : ContentAt(c, rc, rl, n, g)

(***************************************************************************)
(* Numbers on both sides                                                   *)
(***************************************************************************)
\* The bounds of what is where.
LEMMA IndicesAreSane ==
  ASSUME NEW c, NEW la, NEW rc, NEW rl, NEW rla, NumbersAt(c, la, rc, rl, rla)
  PROVE  /\ conn \in MessageSetups /\ Packets \in Nat /\ Top \in Nat /\ Top = 2 * Packets + 1
         /\ c \in -1..Top /\ la \in 0..(c + 1) /\ rc \in -1..c /\ rl \in 0..(rc + 1)
         /\ rla \in 0..rl /\ la <= rl
<1>1. conn \in MessageSetups /\ Packets \in Nat /\ Top = 2 * Packets + 1
  BY PacketsAreFew DEF NumbersAt, Top
<1>2. c \in -1..Top /\ la \in Nat /\ la <= c + 1
  BY DEF NumbersAt, SenderAt
<1>3. rc \in Int /\ rl \in Nat /\ rla \in Nat /\ rl <= rc + 1 /\ rla <= rl
  BY DEF NumbersAt, ReceiverAt
<1>4. rc <= c /\ la <= rl
  BY DEF NumbersAt
<1> QED BY <1>1, <1>2, <1>3, <1>4

\* Indices after a step are in their ranges.
LEMMA InvFromAt ==
  ASSUME NEW c, NEW la, NEW rc, NEW rl, NEW rla, NumbersAt(c, la, rc, rl, rla)',
         conn \in MessageSetups, conn' = conn
  PROVE  NumbersInv'
<1>1. Packets \in Nat /\ Top = 2 * Packets + 1 /\ Top' = Top
  BY PacketsAreFew DEF Top, Packets
<1>2. c \in -1..Top /\ la \in Nat /\ la <= c + 1
  BY <1>1 DEF NumbersAt, SenderAt
<1>3. rc \in Int /\ rl \in Nat /\ rla \in Nat /\ rl <= rc + 1 /\ rla <= rl
  BY DEF NumbersAt, ReceiverAt
<1>4. rc <= c /\ la <= rl
  BY DEF NumbersAt
<1>5. PICK t \in Nat : t = Top /\ t = Top'
  BY <1>1
<1>6. /\ c \in -1..t /\ la \in 0..(t + 1) /\ rc \in -1..t /\ rl \in 0..(t + 1)
      /\ rla \in 0..(t + 1)
  <2>1. c \in -1..t
    BY <1>2, <1>5
  <2>2. t \in Nat
    BY <1>5
  <2>3. la \in 0..(t + 1) /\ rc \in -1..t
    BY ONLY <2>1, <2>2, <1>2, <1>3, <1>4
  <2>4. rl \in 0..(t + 1)
    BY ONLY <2>2, <2>3, <1>3
  <2> QED BY ONLY <2>1, <2>2, <2>3, <2>4, <1>3
<1> QED BY <1>5, <1>6 DEF NumbersInv

\* A number in Nums is that of a packet.
LEMMA NumsHave ==
  ASSUME NEW K, NEW s \in Nums(K)
  PROVE  \E k \in K : s = Num(k)
BY DEF Nums, NumsOf, Num

\* The number of a packet of K is in Nums(K).
LEMMA NumsTake ==
  ASSUME NEW K, NEW k \in K
  PROVE  Num(k) \in Nums(K)
BY DEF Nums, NumsOf, Num

\* Steps of the receiver leave the sender alone.
LEMMA SenderStays ==
  ASSUME NEW c, NEW la, SenderAt(c, la), UNCHANGED sender
  PROVE  SenderAt(c, la)'
BY DEF SenderAt, sender, Top, Packets, Num, Nums, Isn, LastOf, Messages

\* Steps of the sender leave the receiver alone.
LEMMA ReceiverStays ==
  ASSUME NEW rc, NEW rl, NEW rla, ReceiverAt(rc, rl, rla),
         UNCHANGED <<conn, rcvCurr, rcvLastAck, rcvLastAckAck, rcvLoss>>
  PROVE  ReceiverAt(rc, rl, rla)'
BY DEF ReceiverAt, Num, Nums, Isn

\* What was true stays so when more was sent or acknowledged.
LEMMA PacketsStay ==
  ASSUME NEW S, NEW c \in Int, NEW rl \in Int, NEW c2 \in Int, NEW rl2 \in Int,
         c <= c2, rl <= rl2, conn' = conn, \A p \in S : TruePacket(p, c, rl)
  PROVE  \A p \in S : TruePacket(p, c2, rl2)'
<1> SUFFICES ASSUME NEW p \in S PROVE TruePacket(p, c2, rl2)'
  OBVIOUS
<1>1. 0..c \subseteq 0..c2 /\ 0..rl \subseteq 0..rl2
  OBVIOUS
<1>2. Nums(0..c) \subseteq Nums(0..c2)' /\ Nums(0..rl) \subseteq Nums(0..rl2)'
  BY <1>1 DEF Nums, NumsOf, Isn
<1>3. Packets' = Packets /\ \A k : Num(k)' = Num(k)
  BY DEF Packets, Num, Isn
<1>4. TruePacket(p, c, rl)
  OBVIOUS
<1> QED BY <1>1, <1>2, <1>3, <1>4 DEF TruePacket

\* Before the first packet all indices are at their start.
LEMMA NumbersStart == MsgInit => NumbersAt(-1, 0, -1, 0, 0)
<1> SUFFICES ASSUME MsgInit PROVE NumbersAt(-1, 0, -1, 0, 0)
  OBVIOUS
<1>1. /\ conn \in MessageSetups /\ Packets \in Nat /\ Packets >= 1 /\ Top = 2 * Packets + 1
  BY PacketsAreFew DEF MsgInit, Top
<1>2. Num(0) = Isn /\ Num(-1) = Isn - 1
  BY <1>1, NumFacts
<1>3. SenderAt(-1, 0) /\ ReceiverAt(-1, 0, 0)
  BY <1>1, <1>2 DEF MsgInit, SenderAt, ReceiverAt
<1> QED BY <1>1, <1>3 DEF MsgInit, NumbersAt

\* The invariant holds at the start.
LEMMA NumbersInit == MsgInit => NumbersInv
<1> SUFFICES ASSUME MsgInit PROVE NumbersInv
  OBVIOUS
<1>1. NumbersAt(-1, 0, -1, 0, 0)
  BY NumbersStart
<1>2. -1 \in -1..Top /\ 0 \in 0..(Top + 1)
  <2>1. Top \in Nat
    BY <1>1, IndicesAreSane
  <2> QED BY <2>1
<1> QED BY <1>1, <1>2 DEF NumbersInv

\* sendmsg writes whole messages.
LEMMA SendmsgKeeps ==
  ASSUME NEW c, NEW la, NEW rc, NEW rl, NEW rla, NumbersAt(c, la, rc, rl, rla), Sendmsg
  PROVE  NumbersAt(c, la, rc, rl, rla)'
<1>1. conn \in MessageSetups /\ c \in Int /\ rl \in Int
  BY IndicesAreSane
<1>2. SenderAt(c, la) /\ ReceiverAt(rc, rl, rla) /\ rc <= c /\ la <= rl
      /\ \A p \in net : TruePacket(p, c, rl)
  BY DEF NumbersAt
<1> DEFINE m == MsgOf(sent + 1)
<1>3. /\ sent < Packets /\ sent' = LastOf(m)
      /\ UNCHANGED <<conn, firstBlock, currBlock, sndCurr, sndLastAck, sndLoss, packing, broken,
                     wild, receiver, net>>
  BY DEF Sendmsg, LastOf
<1>4. m \in Messages /\ sent + 1 <= LastOf(m) /\ LastOf(m) \in Nat /\ LastOf(m) <= Packets
      /\ sent \in Nat
  <2>1. sent \in 0..Packets /\ Packets \in Nat
    BY <1>2, IndicesAreSane DEF SenderAt
  <2>2. sent + 1 \in 1..Packets
    BY <1>3, <2>1
  <2>3. m \in Messages /\ sent + 1 <= LastOf(m)
    BY <1>1, <2>2, PacketsHaveMessages
  <2> QED BY <1>1, <2>1, <2>3, SetupIsSane, PacketsAreFew
<1> HIDE DEF m
<1>5. sent' \in 0..Packets /\ (\E k \in Messages : sent' = LastOf(k))
      /\ currBlock \in 1..(sent' + 1)
  BY <1>2, <1>3, <1>4 DEF SenderAt
<1>6. SenderAt(c, la)'
  BY <1>2, <1>3, <1>5 DEF SenderAt, Top, Packets, Num, Nums, Isn, LastOf, Messages
<1>7. ReceiverAt(rc, rl, rla)'
  BY <1>2, <1>3, ReceiverStays DEF receiver
<1>8. \A p \in net' : TruePacket(p, c, rl)'
  BY <1>1, <1>2, <1>3, PacketsStay
<1> QED BY <1>1, <1>2, <1>3, <1>6, <1>7, <1>8 DEF NumbersAt

\* The end of a time to live changes no number.
LEMMA ExpireKeeps ==
  ASSUME NEW c, NEW la, NEW rc, NEW rl, NEW rla, NumbersAt(c, la, rc, rl, rla),
         NEW m, Expire(m)
  PROVE  NumbersAt(c, la, rc, rl, rla)'
<1>1. conn \in MessageSetups /\ c \in Int /\ rl \in Int
  BY IndicesAreSane
<1>2. SenderAt(c, la) /\ ReceiverAt(rc, rl, rla) /\ rc <= c /\ la <= rl
      /\ \A p \in net : TruePacket(p, c, rl)
  BY DEF NumbersAt
<1>3. UNCHANGED <<conn, sent, firstBlock, currBlock, sndCurr, sndLastAck, sndLoss, packing, broken,
                     wild, receiver, net>>
  BY DEF Expire
<1>4. SenderAt(c, la)'
  BY <1>2, <1>3 DEF SenderAt, Top, Packets, Num, Nums, Isn, LastOf, Messages
<1>5. ReceiverAt(rc, rl, rla)'
  BY <1>2, <1>3, ReceiverStays DEF receiver
<1>6. \A p \in net' : TruePacket(p, c, rl)'
  BY <1>1, <1>2, <1>3, PacketsStay
<1> QED BY <1>1, <1>2, <1>3, <1>4, <1>5, <1>6 DEF NumbersAt

\* A loss list is never empty where packData looks for its oldest.
LEMMA OldestIsIn ==
  ASSUME conn \in MessageSetups, NEW K \in SUBSET (0..(Top + 1)), NEW L \in SUBSET Nums(K), L # {}
  PROVE  \E m \in K : /\ Oldest(L) = Num(m) /\ Num(m) \in L
                      /\ \A k \in K : Num(k) \in L => m <= k
<1> DEFINE J == {k \in K : Num(k) \in L}
<1>1. L = NumsOf(Isn, J) /\ J # {}
  BY DEF Nums, NumsOf, Num
<1>2. J \in SUBSET (0..Half) /\ Isn \in SeqNo
  <2>1. Top + 1 <= Half /\ Half \in Nat /\ Top \in Nat /\ Isn \in SeqNo
    BY PacketsAreFew, SetupIsSane DEF Top
  <2>2. 0..(Top + 1) \subseteq 0..Half
    BY <2>1
  <2> QED BY <2>1, <2>2
<1> HIDE DEF J
<1>3. PICK m \in J : (\A k \in J : m <= k) /\ Oldest(L) = NumOf(Isn, m)
  BY <1>1, <1>2, OldestOfNumbers DEF Oldest
<1> QED BY <1>3 DEF J, Num

\* The number taken out of the loss list is that of a packet sent.
LEMMA PickPacketKeeps ==
  ASSUME NEW c, NEW la, NEW rc, NEW rl, NEW rla, NumbersAt(c, la, rc, rl, rla), PickPacket
  PROVE  NumbersAt(c, la, rc, rl, rla)'
<1>1. conn \in MessageSetups /\ c \in -1..Top /\ rl \in Int /\ c \in Int /\ Top \in Nat
  BY IndicesAreSane
<1>2. SenderAt(c, la) /\ ReceiverAt(rc, rl, rla) /\ rc <= c /\ la <= rl
      /\ \A p \in net : TruePacket(p, c, rl)
  BY DEF NumbersAt
<1>3. /\ packing' = IF sndLoss = {} THEN Nothing ELSE Oldest(sndLoss)
      /\ sndLoss' = sndLoss \ {packing'}
      /\ UNCHANGED <<conn, sent, firstBlock, currBlock, sndCurr, sndLastAck, broken, wild,
                     receiver, net>>
  BY DEF PickPacket
<1>4. packing' \in {Idle, Nothing} \union Nums(0..c)
  <2>1. sndLoss \subseteq Nums(0..c) /\ 0..c \in SUBSET (0..(Top + 1))
    BY <1>1, <1>2 DEF SenderAt
  <2>2. CASE sndLoss # {}
    <3>1. Oldest(sndLoss) \in Nums(0..c)
      BY <1>1, <2>1, <2>2, OldestIsIn
    <3> QED BY <1>3, <2>2, <3>1
  <2> QED BY <1>3, <2>2
<1>5. SenderAt(c, la)'
  BY <1>2, <1>3, <1>4 DEF SenderAt, Top, Packets, Num, Nums, Isn, LastOf, Messages
<1>6. ReceiverAt(rc, rl, rla)'
  BY <1>2, <1>3, ReceiverStays DEF receiver
<1>7. \A p \in net' : TruePacket(p, c, rl)'
  BY <1>1, <1>2, <1>3, PacketsStay
<1> QED BY <1>1, <1>2, <1>3, <1>5, <1>6, <1>7 DEF NumbersAt

\* Where packData stands, and the block it looks at.
LEMMA PackingIs ==
  ASSUME NEW c, NEW la, NEW rc, NEW rl, NEW rla, NumbersAt(c, la, rc, rl, rla),
         packing \in SeqNo
  PROVE  \E k \in 0..c : /\ packing = Num(k) /\ seqoff(sndLastAck, packing) = k - la
                         /\ LostBlock = k + 1
<1>1. conn \in MessageSetups /\ c \in -1..Top /\ la \in 0..(c + 1) /\ Top \in Nat
  BY IndicesAreSane
<1>2. packing \in {Idle, Nothing} \union Nums(0..c) /\ sndLastAck = Num(la) /\ firstBlock = la + 1
  BY DEF NumbersAt, SenderAt
<1>3. packing \in Nums(0..c)
  BY <1>2, SeqNoAssumption DEF SeqNo, Idle, Nothing
<1>4. PICK k \in 0..c : packing = Num(k)
  BY <1>3, NumsHave
<1>5. seqoff(sndLastAck, packing) = k - la
  <2>1. la \in 0..(Top + 1) /\ k \in 0..(Top + 1)
    BY <1>1
  <2> QED BY <1>1, <1>2, <1>4, <2>1, NumFacts
<1>6. LostBlock = k + 1
  BY <1>1, <1>2, <1>5 DEF LostBlock
<1> QED BY <1>4, <1>5, <1>6

\* A lost packet is sent again with some block.
LEMMA RetransmitKeeps ==
  ASSUME NEW c, NEW la, NEW rc, NEW rl, NEW rla, NumbersAt(c, la, rc, rl, rla), Retransmit
  PROVE  NumbersAt(c, la, rc, rl, rla)'
<1>1. conn \in MessageSetups /\ rl \in Int /\ c \in Int /\ Packets \in Nat /\ la \in Nat
  BY IndicesAreSane
<1>2. SenderAt(c, la) /\ ReceiverAt(rc, rl, rla) /\ rc <= c /\ la <= rl
      /\ \A p \in net : TruePacket(p, c, rl)
  BY DEF NumbersAt
<1> DEFINE P == IF seqoff(sndLastAck, packing) >= 0 THEN {Data(packing, LostBlock)} ELSE {}
<1>3. /\ packing \in SeqNo /\ packing' = Idle /\ net' = net \union P
      /\ seqoff(sndLastAck, packing) >= 0 => LostBlock <= sent
      /\ UNCHANGED <<conn, sent, firstBlock, currBlock, sndCurr, sndLastAck, sndLoss, broken, wild,
                     receiver>>
  BY DEF Retransmit, Sends
<1>4. PICK k \in 0..c : packing = Num(k) /\ seqoff(sndLastAck, packing) = k - la /\ LostBlock = k + 1
  BY <1>3, PackingIs
<1>5. \A p \in P : TruePacket(p, c, rl)
  <2> SUFFICES ASSUME k - la >= 0 PROVE TruePacket(Data(Num(k), k + 1), c, rl)
    BY <1>4
  <2>1. sent \in 0..Packets /\ k + 1 <= sent
    BY <1>2, <1>3, <1>4 DEF SenderAt
  <2>2. k + 1 \in 1..Packets /\ Num(k) \in Nums(0..c)
    BY <1>1, <2>1, NumsTake
  <2> QED BY <2>2 DEF TruePacket, Data
<1> HIDE DEF P
<1>6. \A p \in net' : TruePacket(p, c, rl)'
  <2>1. \A p \in net \union P : TruePacket(p, c, rl)
    BY <1>2, <1>5
  <2> QED BY <1>1, <1>3, <2>1, PacketsStay
<1>7. SenderAt(c, la)'
  BY <1>2, <1>3 DEF SenderAt, Top, Packets, Num, Nums, Isn, LastOf, Messages
<1>8. ReceiverAt(rc, rl, rla)'
  BY <1>2, <1>3, ReceiverStays DEF receiver
<1> QED BY <1>1, <1>2, <1>3, <1>6, <1>7, <1>8 DEF NumbersAt

\* Numbers of a loss list stay those of packets sent.
LEMMA NumsGrow ==
  ASSUME NEW i \in Int, NEW j \in Int, NEW k \in Int, i <= j
  PROVE  Nums(k..i) \subseteq Nums(k..j)
<1>1. k..i \subseteq k..j
  OBVIOUS
<1> QED BY <1>1 DEF Nums, NumsOf

\* Messages are written whole.
LEMMA WrittenWhole ==
  ASSUME conn \in MessageSetups, NEW c, NEW la, SenderAt(c, la), NEW d \in 1..sent
  PROVE  /\ MsgOf(d) \in Messages /\ d <= LastOf(MsgOf(d)) /\ LastOf(MsgOf(d)) <= sent
         /\ LastOf(MsgOf(d)) \in 1..Packets
<1>1. sent \in 0..Packets /\ Packets \in Nat /\ d \in 1..Packets
  BY PacketsAreFew DEF SenderAt
<1>2. PICK m \in Messages : m = MsgOf(d) /\ FirstOf(m) <= d /\ d <= LastOf(m)
  BY <1>1, PacketsHaveMessages
<1>3. PICK s \in Messages : sent = LastOf(s)
  BY <1>1 DEF SenderAt
<1>4. /\ m \in Nat /\ s \in Nat /\ FirstOf(m) \in Nat /\ LastOf(m) \in Nat /\ FirstOf(s) \in Nat
      /\ LastOf(s) \in Nat /\ FirstOf(s) <= LastOf(s) /\ LastOf(m) <= Packets
  <2>1. Messages = 1..Len(conn.msgs) /\ Len(conn.msgs) \in Nat
    BY SetupIsSane
  <2> QED BY <2>1, SetupIsSane, PacketsAreFew
<1>5. LastOf(m) <= sent
  <2>1. CASE s < m
    <3>1. LastOf(s) < FirstOf(m)
      BY <2>1, MessagesFollow
    <3> QED BY <1>1, <1>2, <1>3, <1>4, <3>1
  <2>2. CASE m < s
    <3>1. LastOf(m) < FirstOf(s)
      BY <2>2, MessagesFollow
    <3> QED BY <1>3, <1>4, <3>1
  <2> QED BY <1>3, <1>4, <2>1, <2>2
<1> QED BY <1>1, <1>2, <1>4, <1>5

\* Giving up a message skips at most two numbers more than it has packets.
LEMMA DropMessageKeeps ==
  ASSUME NEW c, NEW la, NEW rc, NEW rl, NEW rla, NumbersAt(c, la, rc, rl, rla), DropMessage
  PROVE  NumbersInv'
<1>1. /\ conn \in MessageSetups /\ rl \in Int /\ c \in -1..Top /\ Packets \in Nat /\ la \in 0..(c + 1)
      /\ Top = 2 * Packets + 1 /\ rc \in Int
  BY IndicesAreSane
<1>2. SenderAt(c, la) /\ ReceiverAt(rc, rl, rla) /\ rc <= c /\ la <= rl
      /\ \A p \in net : TruePacket(p, c, rl)
  BY DEF NumbersAt
<1>3. /\ packing \in SeqNo /\ seqoff(sndLastAck, packing) >= 0 /\ LostBlock <= sent
      /\ packing' = Idle
      /\ UNCHANGED <<conn, sent, firstBlock, sndLastAck, broken, wild, receiver>>
  BY DEF DropMessage
<1>4. PICK k \in 0..c : packing = Num(k) /\ seqoff(sndLastAck, packing) = k - la /\ LostBlock = k + 1
  BY <1>3, PackingIs
<1> DEFINE m  == MsgOf(k + 1)
           last == LastOf(m)
           hi == incseqBy(packing, last - (k + 1) + 1)
<1>5. /\ currBlock' = IF currBlock \in (k + 2)..last THEN last + 1 ELSE currBlock
      /\ net' = net \union {Drop(m, packing, hi)}
      /\ sndLoss' \subseteq sndLoss
      /\ sndCurr' = Skipped(hi)
  <2>1. k + 1 + 1 = k + 2
    BY <1>1
  <2> QED BY <1>4, <2>1 DEF DropMessage, Sends, LastOf
<1>6. k + 1 <= sent /\ sent \in 0..Packets /\ k + 1 \in 1..Packets
  BY <1>1, <1>2, <1>3, <1>4 DEF SenderAt
<1>7. m \in Messages /\ k + 1 <= last /\ last <= sent /\ last \in 1..Packets
  <2>1. k + 1 \in 1..sent
    BY <1>1, <1>6
  <2> QED BY <1>1, <1>2, <2>1, WrittenWhole
<1> HIDE DEF m
<1>8. PICK l \in 1..Packets : l = last
  BY <1>7
<1>9. hi = Num(l) /\ l \in 0..Top
  <2>1. l \in 0..Top
    BY <1>1, <1>8
  <2>2. k \in 0..Half /\ l - k \in 0..(Half - k) /\ Isn \in SeqNo
    <3>1. Top + 1 <= Half /\ Half \in Nat
      BY <1>1, PacketsAreFew
    <3>2. k \in Nat /\ k + 1 <= l /\ l \in Nat /\ l <= Top
      BY <1>1, <1>7, <1>8
    <3>3. Isn \in SeqNo
      BY <1>1, SetupIsSane
    <3>4. Top \in Nat
      BY <1>1
    <3> HIDE DEF last, hi, m
    <3> QED BY ONLY <3>1, <3>2, <3>3, <3>4
  <2>3. incseqBy(Num(k), l - k) = Num(k + (l - k))
    BY <2>2, AddToNumber DEF Num
  <2>4. k + (l - k) = l /\ last - (k + 1) + 1 = l - k
    BY <1>1, <1>8
  <2> QED BY <1>4, <2>1, <2>3, <2>4
<1> HIDE DEF last, hi
<1> DEFINE c2 == IF c < l + 1 THEN l + 1 ELSE c
<1>10. sndCurr' = Num(c2)
  <2>1. incseq(hi) = Num(l + 1)
    BY <1>1, <1>9, NumFacts
  <2>2. sndCurr = Num(c) /\ c \in 0..(Top + 1) /\ l + 1 \in 0..(Top + 1)
    BY <1>1, <1>2, <1>9 DEF SenderAt
  <2>3. seqcmp(sndCurr, incseq(hi)) < 0 <=> c < l + 1
    BY <1>1, <2>1, <2>2, NumFacts
  <2> QED BY <1>5, <2>1, <2>2, <2>3 DEF Skipped
<1>11. c2 \in -1..Top /\ c <= c2 /\ l + 1 <= c2 /\ c2 \in Int /\ (c2 = c \/ c2 = l + 1)
  BY <1>1, <1>8
<1>12. /\ currBlock \in 1..(sent + 1) /\ c - currBlock <= Packets /\ sndLoss \subseteq Nums(0..c)
       /\ broken => wild
  BY <1>2 DEF SenderAt
<1>13. currBlock' \in 1..(sent + 1) /\ currBlock <= currBlock'
  <2>1. currBlock' = IF currBlock \in (k + 2)..l THEN l + 1 ELSE currBlock
    BY <1>5, <1>8
  <2>2. l <= sent
    BY <1>7, <1>8
  <2> QED BY <1>1, <1>6, <1>8, <1>12, <2>1, <2>2
<1>14. c2 - currBlock' <= Packets
  <2>1. PICK b \in Nat, b2 \in Nat : b = currBlock /\ b2 = currBlock' /\ b <= b2 /\ 1 <= b2
    BY <1>6, <1>12, <1>13
  <2>2. c - b <= Packets
    BY <1>12, <2>1
  <2> HIDE DEF c2
  <2>3. PICK N \in Nat : N = Packets
    BY <1>1
  <2>4. c \in Int /\ l \in Nat /\ l <= N /\ c - b <= N
    BY <1>1, <1>8, <2>2, <2>3
  <2>5. PICK e \in Int : e = c2
    BY <1>11
  <2>6. e = c \/ e = l + 1
    BY <1>11, <2>5
  <2>7. e - b2 <= N
    <3>1. b <= b2 /\ 1 <= b2 /\ b \in Int /\ b2 \in Int /\ N \in Int /\ c \in Int /\ l \in Int
          /\ l <= N /\ c - b <= N
      BY <2>1, <2>4
    <3>2. CASE e = c
      BY ONLY <3>1, <3>2
    <3>3. CASE e = l + 1
      BY ONLY <3>1, <3>3
    <3> QED BY <2>6, <3>2, <3>3
  <2> QED BY <2>1, <2>3, <2>5, <2>7
<1>15. sndLoss' \subseteq Nums(0..c2)
  <2>1. Nums(0..c) \subseteq Nums(0..c2)
    BY <1>1, <1>11, NumsGrow
  <2> QED BY <1>5, <1>12, <2>1
<1> HIDE DEF c2
<1>16. SenderAt(c2, la)'
  <2>1. c2 \in -1..Top /\ la \in Nat /\ la <= c2 + 1
    BY <1>1, <1>11
  <2>2. /\ sndLastAck = Num(la) /\ firstBlock = la + 1 /\ sent \in 0..Packets
        /\ (sent = 0 \/ \E s \in Messages : sent = LastOf(s))
    BY <1>2 DEF SenderAt
  <2> QED BY <1>3, <1>10, <1>12, <1>13, <1>14, <1>15, <2>1, <2>2
       DEF SenderAt, Top, Packets, Num, Nums, Isn, LastOf, Messages
<1>17. ReceiverAt(rc, rl, rla)'
  BY <1>2, <1>3, ReceiverStays DEF receiver
<1>18. \A p \in net' : TruePacket(p, c2, rl)'
  <2>1. \A p \in net : TruePacket(p, c2, rl)'
    BY <1>1, <1>2, <1>3, <1>11, PacketsStay
  <2>2. PICK q : q = Drop(m, packing, hi)
    OBVIOUS
  <2>3. TruePacket(q, c2, rl)'
    <3>1. k \in 0..c2 /\ l \in 0..c2 /\ k <= l
      BY <1>1, <1>7, <1>8, <1>11
    <3>2. Num(k)' = packing /\ Num(l)' = hi
      BY <1>3, <1>4, <1>9 DEF Num, Isn
    <3>3. q.kind = "drop" /\ q.lo = packing /\ q.hi = hi
      BY <2>2 DEF Drop
    <3> QED BY <3>1, <3>2, <3>3 DEF TruePacket
  <2> QED BY <1>5, <2>1, <2>2, <2>3
<1>19. NumbersAt(c2, la, rc, rl, rla)'
  <2>1. rc <= c2
    BY <1>1, <1>2, <1>11
  <2> QED BY <1>1, <1>2, <1>3, <1>16, <1>17, <1>18, <2>1 DEF NumbersAt
<1> QED BY <1>1, <1>3, <1>19, InvFromAt

\* Reading what nobody wrote is the end.
LEMMA RunWildKeeps ==
  ASSUME NEW c, NEW la, NEW rc, NEW rl, NEW rla, NumbersAt(c, la, rc, rl, rla), RunWild
  PROVE  NumbersAt(c, la, rc, rl, rla)'
<1>1. conn \in MessageSetups /\ c \in Int /\ rl \in Int
  BY IndicesAreSane
<1>2. SenderAt(c, la) /\ ReceiverAt(rc, rl, rla) /\ rc <= c /\ la <= rl
      /\ \A p \in net : TruePacket(p, c, rl)
  BY DEF NumbersAt
<1>3. /\ packing' = Idle /\ wild' = TRUE
      /\ UNCHANGED <<conn, sent, firstBlock, currBlock, sndCurr, sndLastAck, sndLoss, receiver, net>>
  BY DEF RunWild
<1>4. SenderAt(c, la)'
  BY <1>2, <1>3 DEF SenderAt, Top, Packets, Num, Nums, Isn, LastOf, Messages
<1>5. ReceiverAt(rc, rl, rla)'
  BY <1>2, <1>3, ReceiverStays DEF receiver
<1>6. \A p \in net' : TruePacket(p, c, rl)'
  BY <1>1, <1>2, <1>3, PacketsStay
<1> QED BY <1>1, <1>2, <1>3, <1>4, <1>5, <1>6 DEF NumbersAt

\* A new packet has the next number and some block that was written.
LEMMA SendNewKeeps ==
  ASSUME NEW c, NEW la, NEW rc, NEW rl, NEW rla, NumbersAt(c, la, rc, rl, rla), SendNew
  PROVE  NumbersInv'
<1>1. /\ conn \in MessageSetups /\ rl \in Int /\ c \in -1..Top /\ Packets \in Nat /\ la \in 0..(c + 1)
      /\ Top = 2 * Packets + 1 /\ rc \in Int
  BY IndicesAreSane
<1>2. SenderAt(c, la) /\ ReceiverAt(rc, rl, rla) /\ rc <= c /\ la <= rl
      /\ \A p \in net : TruePacket(p, c, rl)
  BY DEF NumbersAt
<1>3. /\ packing' = Idle
      /\ UNCHANGED <<conn, sent, firstBlock, sndLastAck, sndLoss, broken, wild, receiver>>
      /\ \/ UNCHANGED <<sndCurr, currBlock, net>>
         \/ /\ currBlock # sent + 1 /\ sndCurr' = incseq(sndCurr) /\ currBlock' = currBlock + 1
            /\ net' = net \union {Data(sndCurr', currBlock)}
  BY DEF SendNew, Sends
<1>4. ReceiverAt(rc, rl, rla)'
  BY <1>2, <1>3, ReceiverStays DEF receiver
<1>5. CASE UNCHANGED <<sndCurr, currBlock, net>>
  <2>1. SenderAt(c, la)'
    BY <1>2, <1>3, <1>5 DEF SenderAt, Top, Packets, Num, Nums, Isn, LastOf, Messages
  <2>2. \A p \in net' : TruePacket(p, c, rl)'
    BY <1>1, <1>2, <1>3, <1>5, PacketsStay
  <2>3. NumbersAt(c, la, rc, rl, rla)'
    BY <1>1, <1>2, <1>3, <1>4, <2>1, <2>2 DEF NumbersAt
  <2> QED BY <1>1, <1>3, <2>3, InvFromAt
<1>6. CASE /\ currBlock # sent + 1 /\ sndCurr' = incseq(sndCurr) /\ currBlock' = currBlock + 1
           /\ net' = net \union {Data(sndCurr', currBlock)}
  <2>1. /\ currBlock \in 1..(sent + 1) /\ c - currBlock <= Packets /\ sent \in 0..Packets
        /\ sndLastAck = Num(la) /\ firstBlock = la + 1 /\ sndCurr = Num(c)
        /\ (sent = 0 \/ \E s \in Messages : sent = LastOf(s))
        /\ sndLoss \subseteq Nums(0..c) /\ (broken => wild)
    BY <1>2 DEF SenderAt
  <2>2. PICK e \in 0..Top : /\ e = c + 1 /\ currBlock' \in 1..(sent + 1)
                            /\ e - currBlock' <= Packets /\ currBlock \in 1..Packets
    BY <1>1, <1>6, <2>1
  <2>3. sndCurr' = Num(e)
    BY <1>1, <1>6, <2>1, <2>2, NumFacts
  <2>4. sndLoss \subseteq Nums(0..e)
    <3>1. Nums(0..c) \subseteq Nums(0..e)
      BY <1>1, <2>2, NumsGrow
    <3> QED BY <2>1, <3>1
  <2>5. SenderAt(e, la)'
    <3>1. la \in Nat /\ la <= e + 1 /\ e \in -1..Top
      BY <1>1, <2>2
    <3> QED BY <1>3, <2>1, <2>2, <2>3, <2>4, <3>1
         DEF SenderAt, Top, Packets, Num, Nums, Isn, LastOf, Messages
  <2>6. \A p \in net' : TruePacket(p, e, rl)'
    <3>1. \A p \in net : TruePacket(p, e, rl)'
      BY <1>1, <1>2, <1>3, <2>2, PacketsStay
    <3>2. PICK q : q = Data(sndCurr', currBlock)
      OBVIOUS
    <3>3. TruePacket(q, e, rl)'
      <4>1. Num(e) \in Nums(0..e) /\ e \in 0..e
        BY <2>2, NumsTake
      <4>2. Nums(0..e)' = Nums(0..e) /\ Packets' = Packets
        BY <1>3 DEF Nums, Isn, Packets
      <4>3. q.kind = "data" /\ q.seq = Num(e) /\ q.data = currBlock
        BY <2>3, <3>2 DEF Data
      <4> QED BY <2>2, <4>1, <4>2, <4>3 DEF TruePacket
    <3> QED BY <1>6, <3>1, <3>2, <3>3
  <2>7. NumbersAt(e, la, rc, rl, rla)'
    <3>1. rc <= e
      BY <1>1, <1>2, <2>2
    <3> QED BY <1>1, <1>2, <1>3, <1>4, <2>5, <2>6, <3>1 DEF NumbersAt
  <2> QED BY <1>1, <1>3, <2>7, InvFromAt
<1> QED BY <1>3, <1>5, <1>6

\* An acknowledgement names no packet beyond the sent ones.
LEMMA ReceiveAckKeeps ==
  ASSUME NEW c, NEW la, NEW rc, NEW rl, NEW rla, NumbersAt(c, la, rc, rl, rla),
         NEW p \in net, ReceiveAck(p)
  PROVE  NumbersInv'
<1>1. /\ conn \in MessageSetups /\ rl \in 0..(rc + 1) /\ c \in -1..Top /\ la \in 0..(c + 1)
      /\ Top \in Nat /\ rc \in -1..c
  BY IndicesAreSane
<1>2. SenderAt(c, la) /\ ReceiverAt(rc, rl, rla) /\ rc <= c /\ la <= rl
      /\ \A q \in net : TruePacket(q, c, rl)
  BY DEF NumbersAt
<1>3. sndCurr = Num(c) /\ sndLastAck = Num(la) /\ firstBlock = la + 1 /\ sndLoss \subseteq Nums(0..c)
  BY <1>2 DEF SenderAt
<1>4. PICK a \in 0..rl : p.ack = Num(a)
  <2>1. p.ack \in Nums(0..rl)
    BY <1>2 DEF ReceiveAck, TruePacket
  <2> QED BY <2>1, NumsHave
<1>5. ~AcksUnsent(p.ack)
  <2>1. incseq(sndCurr) = Num(c + 1)
    BY <1>1, <1>3, NumFacts
  <2>2. a \in 0..(Top + 1) /\ c + 1 \in 0..(Top + 1) /\ ~(a > c + 1)
    BY <1>1
  <2>3. ~(seqcmp(Num(a), Num(c + 1)) > 0)
    BY <1>1, <2>2, NumFacts
  <2> QED BY <1>4, <2>1, <2>3 DEF AcksUnsent
<1>6. seqoff(sndLastAck, p.ack) = a - la
  <2>1. la \in 0..(Top + 1) /\ a \in 0..(Top + 1)
    BY <1>1
  <2> QED BY <1>1, <1>3, <1>4, <2>1, NumFacts
<1>7. /\ broken' = FALSE /\ net' = net \union {Ack2(p.ack)}
      /\ IF a - la > 0
         THEN sndLastAck' = p.ack /\ firstBlock' = firstBlock + (a - la) /\ sndLoss' \subseteq sndLoss
         ELSE UNCHANGED <<sndLastAck, firstBlock, sndLoss>>
      /\ UNCHANGED <<conn, sent, currBlock, sndCurr, packing, wild, receiver>>
  BY <1>5, <1>6 DEF ReceiveAck, Takes
<1> DEFINE la2 == IF a > la THEN a ELSE la
<1>8. la2 \in Nat /\ la2 <= c + 1 /\ la2 <= rl
  BY <1>1, <1>2
<1>9. sndLastAck' = Num(la2) /\ firstBlock' = la2 + 1 /\ sndLoss' \subseteq Nums(0..c)
  <2>1. CASE a - la > 0
    <3>1. la2 = a /\ firstBlock + (a - la) = a + 1
      BY <1>1, <1>3, <2>1
    <3> QED BY <1>3, <1>4, <1>7, <2>1, <3>1
  <2>2. CASE ~(a - la > 0)
    <3>1. la2 = la
      BY <1>1, <2>2
    <3> QED BY <1>3, <1>7, <2>2, <3>1
  <2> QED BY <2>1, <2>2
<1> HIDE DEF la2
<1>10. SenderAt(c, la2)'
  BY <1>2, <1>7, <1>8, <1>9 DEF SenderAt, Top, Packets, Num, Nums, Isn, LastOf, Messages
<1>11. ReceiverAt(rc, rl, rla)'
  BY <1>2, <1>7, ReceiverStays DEF receiver
<1>12. \A q \in net' : TruePacket(q, c, rl)'
  <2>1. \A q \in net : TruePacket(q, c, rl)'
    BY <1>1, <1>2, <1>7, PacketsStay
  <2>2. PICK r : r = Ack2(p.ack)
    OBVIOUS
  <2>3. TruePacket(r, c, rl)'
    <3>1. r.kind = "ack2" /\ r.ack = Num(a)
      BY <1>4, <2>2 DEF Ack2
    <3>2. Num(a) \in Nums(0..rl) /\ Nums(0..rl)' = Nums(0..rl)
      BY <1>7, NumsTake DEF Nums, Isn
    <3> QED BY <3>1, <3>2 DEF TruePacket
  <2> QED BY <1>7, <2>1, <2>2, <2>3
<1>13. NumbersAt(c, la2, rc, rl, rla)'
  BY <1>1, <1>2, <1>7, <1>8, <1>10, <1>11, <1>12 DEF NumbersAt
<1> QED BY <1>1, <1>7, <1>13, InvFromAt

\* Span is a range of packets.
LEMMA SpanIs ==
  ASSUME conn \in MessageSetups, NEW i \in 0..(Top + 1), NEW j \in (i - 1)..Top
  PROVE  Span(Num(i), Num(j)) = Nums(i..j)
<1>1. Isn \in SeqNo /\ Top \in Nat /\ Top + 1 <= Half /\ Half \in Nat /\ SeqNoTH > 1
  BY SetupIsSane, PacketsAreFew DEF Top
<1>2. i \in 0..Half /\ j \in (i - 1)..Half
  <2> HIDE DEF Top
  <2> QED BY <1>1
<1> QED BY <1>1, <1>2, SpanOfNumbers DEF Span, Num, Nums

\* A loss report is of packets that were sent, and those that are acknowledged are left out.
LEMMA ReceiveNakKeeps ==
  ASSUME NEW c, NEW la, NEW rc, NEW rl, NEW rla, NumbersAt(c, la, rc, rl, rla),
         NEW p \in net, ReceiveNak(p)
  PROVE  NumbersAt(c, la, rc, rl, rla)'
<1>1. /\ conn \in MessageSetups /\ rl \in Int /\ c \in -1..Top /\ la \in 0..(c + 1) /\ Top \in Nat
  BY IndicesAreSane
<1>2. SenderAt(c, la) /\ ReceiverAt(rc, rl, rla) /\ rc <= c /\ la <= rl
      /\ \A q \in net : TruePacket(q, c, rl)
  BY DEF NumbersAt
<1>3. sndCurr = Num(c) /\ sndLastAck = Num(la) /\ sndLoss \subseteq Nums(0..c)
  BY <1>2 DEF SenderAt
<1>4. PICK i \in 0..c, j \in 0..c : i <= j /\ p.lo = Num(i) /\ p.hi = Num(j)
  BY <1>2 DEF ReceiveNak, TruePacket
<1> DEFINE stale  == seqcmp(p.hi, sndLastAck) < 0
           attack == /\ seqcmp(p.lo, p.hi) > 0 \/ seqcmp(p.hi, sndCurr) > 0
                     /\ ~(p.lo = p.hi /\ stale)
           from   == IF seqcmp(p.lo, sndLastAck) >= 0 THEN p.lo ELSE sndLastAck
           from2  == IF i >= la THEN i ELSE la
<1>5. /\ broken' = attack /\ net' = net
      /\ sndLoss' = IF attack \/ stale THEN sndLoss ELSE sndLoss \union Span(from, p.hi)
      /\ UNCHANGED <<conn, sent, firstBlock, currBlock, sndCurr, sndLastAck, packing, wild, receiver>>
  BY DEF ReceiveNak, Takes
<1>6. i \in 0..(Top + 1) /\ j \in 0..(Top + 1) /\ la \in 0..(Top + 1) /\ c \in 0..(Top + 1)
  BY <1>1
<1>7. ~attack /\ (stale <=> j < la) /\ from = Num(from2)
  <2>1. /\ ~(seqcmp(Num(i), Num(j)) > 0) /\ ~(seqcmp(Num(j), Num(c)) > 0)
        /\ seqcmp(Num(j), Num(la)) < 0 <=> j < la
        /\ seqcmp(Num(i), Num(la)) >= 0 <=> i >= la
    <3>1. ~(i > j) /\ ~(j > c) /\ i \in Int /\ la \in Int
      BY <1>1, <1>4
    <3>2. /\ (seqcmp(Num(i), Num(j)) > 0 <=> i > j) /\ (seqcmp(Num(j), Num(c)) > 0 <=> j > c)
          /\ (seqcmp(Num(j), Num(la)) < 0 <=> j < la) /\ (seqcmp(Num(i), Num(la)) < 0 <=> i < la)
          /\ seqcmp(Num(i), Num(la)) \in Int
      BY <1>1, <1>6, NumFacts
    <3> QED BY <3>1, <3>2
  <2> QED BY <1>3, <1>4, <2>1
<1>8. sndLoss' \subseteq Nums(0..c)
  <2>1. CASE j < la
    <3> HIDE DEF attack, stale, from
    <3> QED BY <1>3, <1>5, <1>7, <2>1
  <2>2. CASE ~(j < la)
    <3>1. from2 \in 0..(Top + 1) /\ j \in (from2 - 1)..Top /\ from2..j \subseteq 0..c
      BY <1>1, <1>4, <2>2
    <3> HIDE DEF from2
    <3>2. Span(from, p.hi) = Nums(from2..j)
      BY <1>1, <1>4, <1>7, <3>1, SpanIs
    <3>3. Nums(from2..j) \subseteq Nums(0..c)
      BY <3>1 DEF Nums, NumsOf
    <3> HIDE DEF attack, stale, from
    <3> QED BY <1>3, <1>5, <1>7, <2>2, <3>2, <3>3
  <2> QED BY <2>1, <2>2
<1>9. broken' = FALSE
  BY <1>5, <1>7
<1> HIDE DEF attack, stale, from
<1>10. SenderAt(c, la)'
  BY <1>2, <1>5, <1>8, <1>9 DEF SenderAt, Top, Packets, Num, Nums, Isn, LastOf, Messages
<1>11. ReceiverAt(rc, rl, rla)'
  BY <1>2, <1>5, ReceiverStays DEF receiver
<1>12. \A q \in net' : TruePacket(q, c, rl)'
  BY <1>1, <1>2, <1>5, PacketsStay
<1> QED BY <1>1, <1>2, <1>5, <1>10, <1>11, <1>12 DEF NumbersAt

\* The EXP timer takes all that was sent and is not acknowledged for lost.
LEMMA ExpKeeps ==
  ASSUME NEW c, NEW la, NEW rc, NEW rl, NEW rla, NumbersAt(c, la, rc, rl, rla), Exp
  PROVE  NumbersAt(c, la, rc, rl, rla)'
<1>1. /\ conn \in MessageSetups /\ rl \in Int /\ c \in -1..Top /\ la \in 0..(c + 1) /\ Top \in Nat
  BY IndicesAreSane
<1>2. SenderAt(c, la) /\ ReceiverAt(rc, rl, rla) /\ rc <= c /\ la <= rl
      /\ \A q \in net : TruePacket(q, c, rl)
  BY DEF NumbersAt
<1>3. sndCurr = Num(c) /\ sndLastAck = Num(la)
  BY <1>2 DEF SenderAt
<1>4. /\ sndLoss' = Span(sndLastAck, sndCurr)
      /\ UNCHANGED <<conn, sent, firstBlock, currBlock, sndCurr, sndLastAck, packing, broken, wild,
                     receiver, net>>
  BY DEF Exp
<1>5. sndLoss' \subseteq Nums(0..c)
  <2>1. la \in 0..(Top + 1) /\ c \in (la - 1)..Top /\ la..c \subseteq 0..c
    BY <1>1
  <2>2. sndLoss' = Nums(la..c)
    BY <1>1, <1>3, <1>4, <2>1, SpanIs
  <2> QED BY <2>1, <2>2 DEF Nums, NumsOf
<1>6. SenderAt(c, la)'
  BY <1>2, <1>4, <1>5 DEF SenderAt, Top, Packets, Num, Nums, Isn, LastOf, Messages
<1>7. ReceiverAt(rc, rl, rla)'
  BY <1>2, <1>4, ReceiverStays DEF receiver
<1>8. \A q \in net' : TruePacket(q, c, rl)'
  BY <1>1, <1>2, <1>4, PacketsStay
<1> QED BY <1>1, <1>2, <1>4, <1>6, <1>7, <1>8 DEF NumbersAt

\* What a packet that comes does to the numbers of the receiver.
LEMMA ReceiveDataNumbers ==
  ASSUME NEW c, NEW la, NEW rc, NEW rl, NEW rla, NumbersAt(c, la, rc, rl, rla),
         NEW p \in net, ReceiveData(p)
  PROVE  NumbersInv'
<1>1. /\ conn \in MessageSetups /\ rl \in 0..(rc + 1) /\ c \in -1..Top /\ Top \in Nat /\ rc \in -1..c
      /\ rla \in 0..rl
  BY IndicesAreSane
<1>2. SenderAt(c, la) /\ ReceiverAt(rc, rl, rla) /\ rc <= c /\ la <= rl
      /\ \A q \in net : TruePacket(q, c, rl)
  BY DEF NumbersAt
<1>3. rcvCurr = Num(rc) /\ rcvLastAck = Num(rl) /\ rcvLoss \subseteq Nums(rl..rc)
  BY <1>2 DEF ReceiverAt
<1>4. PICK k \in 0..c : p.seq = Num(k)
  <2>1. p.seq \in Nums(0..c)
    BY <1>2 DEF ReceiveData, TruePacket
  <2> QED BY <2>1, NumsHave
<1> DEFINE gap   == seqcmp(p.seq, incseq(rcvCurr)) > 0
           lo    == incseq(rcvCurr)
           hi    == decseq(p.seq)
           newer == seqcmp(p.seq, rcvCurr) > 0
           rc2   == IF k > rc THEN k ELSE rc
<1>5. /\ UNCHANGED <<sender, rcvLastAck, rcvLastAckAck>>
      /\ \/ /\ seqoff(rcvLastAck, p.seq) >= 0
            /\ net' = net \union (IF gap THEN {Nak(lo, hi)} ELSE {})
            /\ rcvCurr' = (IF newer THEN p.seq ELSE rcvCurr)
            /\ rcvLoss' \subseteq (IF gap THEN rcvLoss \union Span(lo, hi) ELSE rcvLoss)
         \/ net' = net /\ UNCHANGED <<rcvCurr, rcvLoss>>
  BY DEF ReceiveData, Takes
<1>6. conn' = conn
  BY <1>5 DEF sender
<1>7. SenderAt(c, la)'
  BY <1>2, <1>5, SenderStays
<1>8. CASE net' = net /\ UNCHANGED <<rcvCurr, rcvLoss>>
  <2>1. ReceiverAt(rc, rl, rla)'
    BY <1>2, <1>5, <1>6, <1>8, ReceiverStays
  <2>2. \A q \in net' : TruePacket(q, c, rl)'
    BY <1>1, <1>2, <1>6, <1>8, PacketsStay
  <2>3. NumbersAt(c, la, rc, rl, rla)'
    BY <1>1, <1>2, <1>6, <1>7, <2>1, <2>2 DEF NumbersAt
  <2> QED BY <1>1, <1>6, <2>3, InvFromAt
<1>9. CASE /\ seqoff(rcvLastAck, p.seq) >= 0
           /\ net' = net \union (IF gap THEN {Nak(lo, hi)} ELSE {})
           /\ rcvCurr' = (IF newer THEN p.seq ELSE rcvCurr)
           /\ rcvLoss' \subseteq (IF gap THEN rcvLoss \union Span(lo, hi) ELSE rcvLoss)
  <2>1. k \in 0..Top /\ k \in 0..(Top + 1) /\ rc + 1 \in 0..(Top + 1) /\ rc \in -1..Top
        /\ rl \in 0..(Top + 1)
    BY <1>1
  <2>2. lo = Num(rc + 1) /\ (gap <=> k > rc + 1) /\ (newer <=> k > rc)
    BY <1>1, <1>3, <1>4, <2>1, NumFacts
  <2>3. k >= rl
    <3>1. seqoff(rcvLastAck, p.seq) = k - rl
      BY <1>1, <1>3, <1>4, <2>1, NumFacts
    <3> QED BY <1>1, <1>9, <3>1
  <2>4. k > rc + 1 => hi = Num(k - 1) /\ Span(lo, hi) = Nums((rc + 1)..(k - 1))
                      /\ rc + 1 \in 0..c /\ k - 1 \in 0..c /\ rc + 1 <= k - 1
    <3> SUFFICES ASSUME k > rc + 1
                 PROVE  hi = Num(k - 1) /\ Span(lo, hi) = Nums((rc + 1)..(k - 1))
                        /\ rc + 1 \in 0..c /\ k - 1 \in 0..c /\ rc + 1 <= k - 1
      OBVIOUS
    <3>1. k \in 1..(Top + 1) /\ k - 1 \in (rc + 1 - 1)..Top
      BY <1>1, <2>1
    <3>2. hi = Num(k - 1)
      BY <1>1, <1>4, <3>1, NumFacts
    <3> QED BY <1>1, <2>1, <2>2, <3>1, <3>2, SpanIs
  <2>5. rc2 \in Int /\ rc <= rc2 /\ rl <= rc2 + 1 /\ rc2 <= c /\ rcvCurr' = Num(rc2)
    BY <1>1, <1>3, <1>4, <1>9, <2>2
  <2>6. rcvLoss' \subseteq Nums(rl..rc2)
    <3>1. Nums(rl..rc) \subseteq Nums(rl..rc2)
      BY <1>1, <2>5, NumsGrow
    <3>2. k > rc + 1 => Nums((rc + 1)..(k - 1)) \subseteq Nums(rl..rc2)
      <4>1. k > rc + 1 => (rc + 1)..(k - 1) \subseteq rl..rc2
        BY <1>1, <2>1
      <4> QED BY <4>1 DEF Nums, NumsOf
    <3> HIDE DEF rc2, gap, lo, hi
    <3> QED BY <1>3, <1>9, <2>2, <2>4, <3>1, <3>2
  <2> HIDE DEF rc2
  <2>7. ReceiverAt(rc2, rl, rla)'
    <3>1. rl \in Nat /\ rla \in Nat /\ rla <= rl
      BY <1>1
    <3>2. rcvLastAck = Num(rl) /\ rcvLastAckAck = Num(rla)
      BY <1>2 DEF ReceiverAt
    <3> QED BY <1>5, <1>6, <2>5, <2>6, <3>1, <3>2 DEF ReceiverAt, Num, Nums, Isn
  <2>8. \A q \in net' : TruePacket(q, c, rl)'
    <3>1. \A q \in net : TruePacket(q, c, rl)'
      BY <1>1, <1>2, <1>6, PacketsStay
    <3>2. PICK r : r = Nak(lo, hi)
      OBVIOUS
    <3>3. gap => TruePacket(r, c, rl)'
      <4> SUFFICES ASSUME k > rc + 1 PROVE TruePacket(r, c, rl)'
        BY <2>2
      <4>1. r.kind = "nak" /\ r.lo = Num(rc + 1) /\ r.hi = Num(k - 1)
        BY <2>2, <2>4, <3>2 DEF Nak
      <4>2. Num(rc + 1)' = Num(rc + 1) /\ Num(k - 1)' = Num(k - 1)
        BY <1>6 DEF Num, Isn
      <4> HIDE DEF gap, lo, hi
      <4> QED BY <2>4, <4>1, <4>2 DEF TruePacket
    <3> HIDE DEF gap, lo, hi
    <3> QED BY <1>9, <3>1, <3>2, <3>3
  <2>9. NumbersAt(c, la, rc2, rl, rla)'
    BY <1>1, <1>2, <1>6, <1>7, <2>5, <2>7, <2>8 DEF NumbersAt
  <2> QED BY <1>1, <1>6, <2>9, InvFromAt
<1> HIDE DEF gap, lo, hi, newer
<1> QED BY <1>5, <1>8, <1>9

\* A drop request names only packets up to the newest sent, or skipped.
LEMMA ReceiveDropNumbers ==
  ASSUME NEW c, NEW la, NEW rc, NEW rl, NEW rla, NumbersAt(c, la, rc, rl, rla),
         NEW p \in net, ReceiveDrop(p)
  PROVE  NumbersInv'
<1>1. /\ conn \in MessageSetups /\ rl \in 0..(rc + 1) /\ c \in -1..Top /\ Top \in Nat /\ rc \in -1..c
      /\ rla \in 0..rl
  BY IndicesAreSane
<1>2. SenderAt(c, la) /\ ReceiverAt(rc, rl, rla) /\ rc <= c /\ la <= rl
      /\ \A q \in net : TruePacket(q, c, rl)
  BY DEF NumbersAt
<1>3. PICK i \in 0..c, j \in 0..c : i <= j /\ p.lo = Num(i) /\ p.hi = Num(j)
  BY <1>2 DEF ReceiveDrop, TruePacket
<1> DEFINE ahead == seqcmp(p.lo, incseq(rcvCurr)) <= 0 /\ seqcmp(p.hi, rcvCurr) > 0
<1>4. /\ UNCHANGED <<sender, rcvLastAck, rcvLastAckAck>> /\ net' = net
      /\ rcvLoss' \subseteq rcvLoss
      /\ rcvCurr' = IF ahead THEN p.hi ELSE rcvCurr
  BY DEF ReceiveDrop, Takes
<1>5. conn' = conn
  BY <1>4 DEF sender
<1>6. /\ rcvCurr = Num(rc) /\ rcvLastAck = Num(rl) /\ rcvLastAckAck = Num(rla)
      /\ rcvLoss \subseteq Nums(rl..rc)
  BY <1>2 DEF ReceiverAt
<1>7. ahead => j > rc
  <2>1. j \in 0..Top /\ rc \in -1..Top
    BY <1>1
  <2>2. seqcmp(p.hi, rcvCurr) > 0 <=> j > rc
    BY <1>1, <1>3, <1>6, <2>1, NumFacts
  <2> QED BY <2>2
<1> HIDE DEF ahead
<1>8. PICK r2 \in Int : rc <= r2 /\ rl <= r2 + 1 /\ r2 <= c /\ rcvCurr' = Num(r2)
  <2>1. CASE ahead
    BY <1>1, <1>3, <1>4, <1>7, <2>1
  <2>2. CASE ~ahead
    <3>1. rc \in Int /\ rc <= rc /\ rl <= rc + 1 /\ rc <= c /\ rcvCurr' = Num(rc)
      BY <1>1, <1>4, <1>6, <2>2
    <3> QED BY <3>1
  <2> QED BY <2>1, <2>2
<1>9. ReceiverAt(r2, rl, rla)'
  <2>1. rcvLoss' \subseteq Nums(rl..r2)
    <3>1. Nums(rl..rc) \subseteq Nums(rl..r2)
      BY <1>1, <1>8, NumsGrow
    <3> QED BY <1>4, <1>6, <3>1
  <2>2. rl \in Nat /\ rla \in Nat /\ rla <= rl
    BY <1>1
  <2> QED BY <1>4, <1>5, <1>6, <1>8, <2>1, <2>2 DEF ReceiverAt, Num, Nums, Isn
<1>10. SenderAt(c, la)'
  BY <1>2, <1>4, SenderStays
<1>11. \A q \in net' : TruePacket(q, c, rl)'
  BY <1>1, <1>2, <1>4, <1>5, PacketsStay
<1>12. NumbersAt(c, la, r2, rl, rla)'
  BY <1>1, <1>2, <1>5, <1>8, <1>9, <1>10, <1>11 DEF NumbersAt
<1> QED BY <1>1, <1>5, <1>12, InvFromAt

\* What is acknowledged next is a packet not beyond the next one, and none before it is
\* missing.
LEMMA AckNowIs ==
  ASSUME NEW c, NEW la, NEW rc, NEW rl, NEW rla, NumbersAt(c, la, rc, rl, rla)
  PROVE  \E a \in rl..(rc + 1) : AckNow = Num(a) /\ \A k \in rl..(a - 1) : Num(k) \notin rcvLoss
<1>1. /\ conn \in MessageSetups /\ rl \in 0..(rc + 1) /\ c \in -1..Top /\ Top \in Nat /\ rc \in -1..c
  BY IndicesAreSane
<1>2. rcvCurr = Num(rc) /\ rcvLoss \subseteq Nums(rl..rc)
  BY DEF NumbersAt, ReceiverAt
<1>3. CASE rcvLoss = {}
  <2>1. AckNow = Num(rc + 1) /\ rc + 1 \in rl..(rc + 1)
    BY <1>1, <1>2, <1>3, NumFacts DEF AckNow
  <2> QED BY <1>3, <2>1
<1>4. CASE rcvLoss # {}
  <2>1. PICK K \in SUBSET (0..(Top + 1)) : K = rl..rc
    BY <1>1
  <2>2. PICK a \in K : Oldest(rcvLoss) = Num(a) /\ \A k \in K : Num(k) \in rcvLoss => a <= k
    <3>1. rcvLoss \in SUBSET Nums(K)
      BY <1>2, <2>1
    <3> QED BY <1>1, <1>4, <2>1, <3>1, OldestIsIn, SMTT(60)
  <2>3. AckNow = Num(a) /\ a \in rl..(rc + 1)
    BY <1>1, <1>4, <2>1, <2>2 DEF AckNow
  <2>4. ASSUME NEW k \in rl..(a - 1) PROVE Num(k) \notin rcvLoss
    BY <1>1, <2>1, <2>2
  <2> QED BY <2>3, <2>4
<1> QED BY <1>3, <1>4

\* What is acknowledged was received, or crossed out, and is no older than before.
LEMMA SendAckNumbers ==
  ASSUME NEW c, NEW la, NEW rc, NEW rl, NEW rla, NumbersAt(c, la, rc, rl, rla), SendAck
  PROVE  NumbersInv'
<1>1. /\ conn \in MessageSetups /\ rl \in 0..(rc + 1) /\ c \in -1..Top /\ Top \in Nat /\ rc \in -1..c
      /\ rla \in 0..rl
  BY IndicesAreSane
<1>2. SenderAt(c, la) /\ ReceiverAt(rc, rl, rla) /\ rc <= c /\ la <= rl
      /\ \A q \in net : TruePacket(q, c, rl)
  BY DEF NumbersAt
<1>3. PICK a \in rl..(rc + 1) : AckNow = Num(a) /\ \A k \in rl..(a - 1) : Num(k) \notin rcvLoss
  BY AckNowIs
<1> DEFINE w == IF Avail' < 2 THEN 2 ELSE Avail'
<1>4. /\ UNCHANGED <<sender, rcvCurr, rcvLastAckAck, rcvLoss>> /\ rcvLastAck' = AckNow
      /\ net' \subseteq net \union {Ack(AckNow, w)}
  BY DEF SendAck, Sends
<1>5. conn' = conn
  BY <1>4 DEF sender
<1>6. /\ rcvCurr = Num(rc) /\ rcvLastAckAck = Num(rla) /\ rcvLoss \subseteq Nums(rl..rc)
  BY <1>2 DEF ReceiverAt
<1>7. rcvLoss \subseteq Nums(a..rc)
  <2> SUFFICES ASSUME NEW s \in rcvLoss PROVE s \in Nums(a..rc)
    OBVIOUS
  <2>1. PICK k \in rl..rc : s = Num(k)
    BY <1>6, NumsHave
  <2>2. ~(k \in rl..(a - 1))
    BY <1>3, <2>1
  <2>3. k \in a..rc
    BY <1>1, <1>3, <2>1, <2>2
  <2> QED BY <2>1, <2>3, NumsTake
<1>8. a \in Nat /\ a <= rc + 1 /\ rl <= a /\ rla \in Nat /\ rla <= a /\ la <= a /\ a \in Int
  BY <1>1, <1>2, <1>3, IndicesAreSane
<1>9. ReceiverAt(rc, a, rla)'
  <2>1. rc \in Int
    BY <1>1
  <2> QED BY <1>3, <1>4, <1>5, <1>6, <1>7, <1>8, <2>1 DEF ReceiverAt, Num, Nums, Isn
<1>10. SenderAt(c, la)'
  BY <1>2, <1>4, SenderStays
<1>11. \A q \in net' : TruePacket(q, c, a)'
  <2>1. \A q \in net : TruePacket(q, c, a)'
    BY <1>1, <1>2, <1>5, <1>8, PacketsStay
  <2>2. PICK r : r = Ack(AckNow, w)
    OBVIOUS
  <2>3. TruePacket(r, c, a)'
    <3>1. r.kind = "ack" /\ r.ack = Num(a)
      BY <1>3, <2>2 DEF Ack
    <3>2. Num(a) \in Nums(0..a) /\ Nums(0..a)' = Nums(0..a)
      <4>1. a \in 0..a
        BY <1>8
      <4> QED BY <1>5, <4>1, NumsTake DEF Nums, Isn
    <3> QED BY <3>1, <3>2 DEF TruePacket
  <2> HIDE DEF w
  <2> QED BY <1>4, <2>1, <2>2, <2>3
<1>12. NumbersAt(c, la, rc, a, rla)'
  BY <1>1, <1>2, <1>5, <1>8, <1>9, <1>10, <1>11 DEF NumbersAt
<1> QED BY <1>1, <1>5, <1>12, InvFromAt

\* A confirmation names an acknowledgement that was sent.
LEMMA ReceiveAck2Keeps ==
  ASSUME NEW c, NEW la, NEW rc, NEW rl, NEW rla, NumbersAt(c, la, rc, rl, rla),
         NEW p \in net, ReceiveAck2(p)
  PROVE  NumbersInv'
<1>1. /\ conn \in MessageSetups /\ rl \in 0..(rc + 1) /\ c \in -1..Top /\ Top \in Nat /\ rc \in -1..c
      /\ rla \in 0..rl
  BY IndicesAreSane
<1>2. SenderAt(c, la) /\ ReceiverAt(rc, rl, rla) /\ rc <= c /\ la <= rl
      /\ \A q \in net : TruePacket(q, c, rl)
  BY DEF NumbersAt
<1>3. PICK a \in 0..rl : p.ack = Num(a)
  <2>1. p.ack \in Nums(0..rl)
    BY <1>2 DEF ReceiveAck2, TruePacket
  <2> QED BY <2>1, NumsHave
<1>4. /\ UNCHANGED <<sender, rcvCurr, rcvLastAck, rcvLoss>> /\ net' = net
      /\ rcvLastAckAck' \in {p.ack, rcvLastAckAck}
  BY DEF ReceiveAck2, Takes
<1>5. conn' = conn
  BY <1>4 DEF sender
<1>6. /\ rcvCurr = Num(rc) /\ rcvLastAck = Num(rl) /\ rcvLastAckAck = Num(rla)
      /\ rcvLoss \subseteq Nums(rl..rc)
  BY <1>2 DEF ReceiverAt
<1>7. PICK b \in 0..rl : rcvLastAckAck' = Num(b)
  BY <1>1, <1>3, <1>4, <1>6
<1>8. ReceiverAt(rc, rl, b)'
  <2>1. rc \in Int /\ rl \in Nat /\ rl <= rc + 1 /\ b \in Nat /\ b <= rl
    BY <1>1
  <2> QED BY <1>4, <1>5, <1>6, <1>7, <2>1 DEF ReceiverAt, Num, Nums, Isn
<1>9. SenderAt(c, la)'
  BY <1>2, <1>4, SenderStays
<1>10. \A q \in net' : TruePacket(q, c, rl)'
  BY <1>1, <1>2, <1>4, <1>5, PacketsStay
<1>11. NumbersAt(c, la, rc, rl, b)'
  BY <1>1, <1>2, <1>5, <1>8, <1>9, <1>10 DEF NumbersAt
<1> QED BY <1>1, <1>5, <1>11, InvFromAt

\* The application leaves the numbers alone.
LEMMA NumbersStay ==
  ASSUME NEW c, NEW la, NEW rc, NEW rl, NEW rla, NumbersAt(c, la, rc, rl, rla),
         UNCHANGED <<sender, rcvCurr, rcvLastAck, rcvLastAckAck, rcvLoss, net>>
  PROVE  NumbersAt(c, la, rc, rl, rla)'
<1>1. conn \in MessageSetups /\ c \in Int /\ rl \in Int
  BY IndicesAreSane
<1>2. SenderAt(c, la) /\ ReceiverAt(rc, rl, rla) /\ rc <= c /\ la <= rl
      /\ \A q \in net : TruePacket(q, c, rl)
  BY DEF NumbersAt
<1>3. conn' = conn
  BY DEF sender
<1>4. SenderAt(c, la)' /\ ReceiverAt(rc, rl, rla)'
  BY <1>2, <1>3, SenderStays, ReceiverStays
<1>5. \A q \in net' : TruePacket(q, c, rl)'
  BY <1>1, <1>2, <1>3, PacketsStay
<1> QED BY <1>1, <1>2, <1>3, <1>4, <1>5 DEF NumbersAt

\* Every step keeps the numbers right.
LEMMA NumbersStep ==
  ASSUME NumbersInv, [MsgNext]_msgVars
  PROVE  NumbersInv' /\ conn' = conn
<1>1. PICK c, la, rc, rl, rla : NumbersAt(c, la, rc, rl, rla)
  BY DEF NumbersInv
<1>2. conn \in MessageSetups
  BY <1>1 DEF NumbersAt
<1>3. conn' = conn
  BY DEF MsgNext, PackData, msgVars, sender, Sendmsg, Expire, PickPacket, Retransmit, DropMessage,
         RunWild, SendNew, Exp, SendAck, Recvmsg, RecvmsgTimed, TimeOut, ReadOr, ReceiveAck,
         ReceiveNak, ReceiveData, ReceiveDrop, ReceiveAck2
<1>4. NumbersAt(c, la, rc, rl, rla)' => NumbersInv'
  BY <1>2, <1>3, InvFromAt
<1>5. CASE Sendmsg
  BY <1>1, <1>3, <1>4, <1>5, SendmsgKeeps
<1>6. CASE \E m \in Messages : Expire(m)
  BY <1>1, <1>3, <1>4, <1>6, ExpireKeeps
<1>7. CASE PickPacket
  BY <1>1, <1>3, <1>4, <1>7, PickPacketKeeps
<1>8. CASE Retransmit
  BY <1>1, <1>3, <1>4, <1>8, RetransmitKeeps
<1>9. CASE DropMessage
  BY <1>1, <1>3, <1>9, DropMessageKeeps
<1>10. CASE RunWild
  BY <1>1, <1>3, <1>4, <1>10, RunWildKeeps
<1>11. CASE SendNew
  BY <1>1, <1>3, <1>11, SendNewKeeps
<1>12. CASE Exp
  BY <1>1, <1>3, <1>4, <1>12, ExpKeeps
<1>13. CASE SendAck
  BY <1>1, <1>3, <1>13, SendAckNumbers
<1>14. CASE Recvmsg \/ RecvmsgTimed \/ TimeOut
  <2>1. UNCHANGED <<sender, rcvCurr, rcvLastAck, rcvLastAckAck, rcvLoss, net>>
    BY <1>14 DEF Recvmsg, RecvmsgTimed, TimeOut, ReadOr
  <2> QED BY <1>1, <1>3, <1>4, <2>1, NumbersStay
<1>15. ASSUME NEW p \in net, ReceiveAck(p) PROVE NumbersInv'
  BY <1>1, <1>3, <1>15, ReceiveAckKeeps
<1>16. ASSUME NEW p \in net, ReceiveNak(p) PROVE NumbersInv'
  BY <1>1, <1>3, <1>4, <1>16, ReceiveNakKeeps
<1>17. ASSUME NEW p \in net, ReceiveData(p) PROVE NumbersInv'
  BY <1>1, <1>3, <1>17, ReceiveDataNumbers
<1>18. ASSUME NEW p \in net, ReceiveDrop(p) PROVE NumbersInv'
  BY <1>1, <1>3, <1>18, ReceiveDropNumbers
<1>19. ASSUME NEW p \in net, ReceiveAck2(p) PROVE NumbersInv'
  BY <1>1, <1>3, <1>19, ReceiveAck2Keeps
<1>20. CASE UNCHANGED msgVars
  <2>1. UNCHANGED <<sender, rcvCurr, rcvLastAck, rcvLastAckAck, rcvLoss, net>>
    BY <1>20 DEF msgVars, receiver
  <2> QED BY <1>1, <1>3, <1>4, <2>1, NumbersStay
<1> QED BY <1>3, <1>5, <1>6, <1>7, <1>8, <1>9, <1>10, <1>11, <1>12, <1>13, <1>14, <1>15, <1>16,
           <1>17, <1>18, <1>19, <1>20 DEF MsgNext, PackData

\* The numbers on both sides are those of packets sent, or skipped.
THEOREM NumbersAreRight == MsgSpec => []NumbersInv
<1>1. MsgInit => NumbersInv
  BY NumbersInit
<1>2. NumbersInv /\ [MsgNext]_msgVars => NumbersInv'
  BY NumbersStep
<1> QED BY <1>1, <1>2, PTL DEF MsgSpec

(***************************************************************************)
(* The buffer of the receiver                                              *)
(***************************************************************************)
Buffers == [start : Slots, unit : [Slots -> Nat], flag : [Slots -> Nat]]

\* Slots are those of a buffer of at least one packet.
LEMMA SlotFacts ==
  ASSUME conn \in MessageSetups
  PROVE  /\ RcvBufSize \in Nat \ {0} /\ \A i \in Nat : Slot(i) \in Slots
         /\ \A i \in Slots : i \in Nat /\ Slot(i) = i /\ 0 <= i /\ i < RcvBufSize
<1>1. PICK r \in Nat \ {0} : r = RcvBufSize
  BY SetupIsSane
<1>2. \A i \in Nat : i % r \in 0..(r - 1)
  BY RemainderIsSlot
<1>3. \A i \in 0..(r - 1) : i % r = i
  BY Folded
<1> QED BY <1>1, <1>2, <1>3 DEF Slot, Slots

\* How many packets are acknowledged and not read.
LEMMA AckedIs ==
  ASSUME conn \in MessageSetups, lastAckPos \in Slots, NEW b, b.start \in Slots
  PROVE  Acked(b) \in Slots /\ Acked(b) \in Nat /\ (b.start = lastAckPos => Acked(b) = 0)
<1>1. PICK r \in Nat \ {0} : r = RcvBufSize
  BY SetupIsSane
<1>2. PICK l \in Nat, s \in Nat : l = lastAckPos /\ s = b.start /\ l < r /\ s < r
  BY <1>1, SlotFacts
<1>3. Acked(b) = (l - s + r) % r
  BY <1>1, <1>2 DEF Acked, Slot
<1>4. (l - s + r) % r \in 0..(r - 1)
  <2>1. l - s + r \in Nat
    BY <1>1, <1>2
  <2> QED BY <1>1, <2>1, RemainderIsSlot
<1>5. l = s => (l - s + r) % r = 0
  <2>1. l = s => l - s + r = r
    BY <1>1, <1>2
  <2>2. r % r = 0
    <3>1. r \in Nat /\ r < r + r /\ ~(r < r) /\ r - r = 0
      BY <1>1
    <3> QED BY <3>1, Folded
  <2> QED BY <2>1, <2>2
<1> QED BY <1>1, <1>2, <1>3, <1>4, <1>5 DEF Slots

\* Taking packets out leaves a buffer.
LEMMA TakenOutIs ==
  ASSUME conn \in MessageSetups, NEW b \in Buffers, NEW p, NEW q \in Int, q + 1 \in Nat
  PROVE  TakenOut(b, p, q) \in Buffers
<1>1. b.start \in Slots /\ b.unit \in [Slots -> Nat] /\ b.flag \in [Slots -> Nat]
  BY DEF Buffers
<1>2. Slot(b.start + q + 1) \in Slots
  <2>1. b.start \in Nat
    BY <1>1, SlotFacts
  <2>2. b.start + q + 1 \in Nat
    BY <2>1
  <2> QED BY <2>2, SlotFacts
<1> QED BY <1>1, <1>2 DEF TakenOut, Buffers

\* Throwing packets away at the start leaves a buffer.
LEMMA EmptiedIs ==
  ASSUME conn \in MessageSetups, NEW b \in Buffers, NEW n \in Nat
  PROVE  Emptied(b, n) \in Buffers
<1>1. n - 1 \in Int /\ (n - 1) + 1 \in Nat
  OBVIOUS
<1> QED BY <1>1, TakenOutIs DEF Emptied

\* scanMsg throws away what is acknowledged up to the first whole message.
LEMMA CleanedIs ==
  ASSUME conn \in MessageSetups, lastAckPos \in Slots, NEW b \in Buffers
  PROVE  \E k \in 0..Acked(b) :
           /\ Cleaned(b) = Emptied(b, k) /\ Cleaned(b) \in Buffers
           /\ k = Acked(b) \/ IsGoodHead(b, k)
           /\ \A j \in 0..(k - 1) : ~IsGoodHead(b, j)
<1>1. PICK a \in Nat : a = Acked(b)
  <2>1. b.start \in Slots
    BY DEF Buffers
  <2> QED BY <2>1, AckedIs
<1> DEFINE G == {k \in 0..a : k = a \/ IsGoodHead(b, k)}
<1>2. PICK m \in G : \A k \in G : m <= k
  <2>1. a \in G /\ G \in SUBSET Nat
    OBVIOUS
  <2> HIDE DEF G
  <2> QED BY <2>1, LeastNatural
<1>3. \A j \in 0..(m - 1) : ~IsGoodHead(b, j)
  <2> SUFFICES ASSUME NEW j \in 0..(m - 1), IsGoodHead(b, j) PROVE FALSE
    OBVIOUS
  <2>1. j \in G
    BY <1>2
  <2>2. m <= j
    BY <1>2, <2>1
  <2> QED BY <1>2, <2>2
<1>4. \E k \in 0..Acked(b) : (k = Acked(b) \/ IsGoodHead(b, k)) /\ \A j \in 0..(k - 1) : ~IsGoodHead(b, j)
  BY <1>1, <1>2, <1>3
<1> DEFINE k == CHOOSE k \in 0..Acked(b) :
               /\ k = Acked(b) \/ IsGoodHead(b, k)
               /\ \A j \in 0..(k - 1) : ~IsGoodHead(b, j)
<1>5. k \in 0..Acked(b) /\ (k = Acked(b) \/ IsGoodHead(b, k)) /\ \A j \in 0..(k - 1) : ~IsGoodHead(b, j)
  BY <1>4
<1>6. Cleaned(b) = Emptied(b, k)
  BY DEF Cleaned
<1> HIDE DEF k
<1>7. Emptied(b, k) \in Buffers
  <2>1. k \in Nat
    BY <1>1, <1>5
  <2> QED BY <2>1, EmptiedIs
<1> QED BY <1>5, <1>6, <1>7

\* What scanMsg finds: nothing, or the first message that ends.
LEMMA ScanIs ==
  ASSUME conn \in MessageSetups, lastAckPos \in Slots, maxPos \in Nat, NEW b \in Buffers
  PROVE  \/ /\ ScanMsg(b).found = FALSE /\ ScanMsg(b).buf \in Buffers
            /\ \/ NothingThere(b) /\ ScanMsg(b).buf = b
               \/ ScanMsg(b).buf = Cleaned(b) /\ Ends(ScanMsg(b).buf) = {}
         \/ /\ ScanMsg(b).found = TRUE /\ ScanMsg(b).buf = Cleaned(b) /\ Cleaned(b) \in Buffers
            /\ ScanMsg(b).q \in Ends(Cleaned(b)) /\ ScanMsg(b).q \in Nat
            /\ \A i \in Ends(Cleaned(b)) : ScanMsg(b).q <= i
            /\ ScanMsg(b).p \in Heads(Cleaned(b), ScanMsg(b).q) /\ ScanMsg(b).p \in 0..ScanMsg(b).q
<1>1. PICK c \in Buffers : c = Cleaned(b)
  BY CleanedIs
<1>2. Ends(c) \in SUBSET Nat
  <2>1. c.start \in Slots
    BY <1>1 DEF Buffers
  <2>2. Acked(c) \in Nat
    BY <2>1, AckedIs
  <2> QED BY <2>2 DEF Ends
<1>3. CASE NothingThere(b)
  <2>1. ScanMsg(b) = [found |-> FALSE, buf |-> b]
    BY <1>3 DEF ScanMsg
  <2> QED BY <1>3, <2>1
<1>4. CASE ~NothingThere(b) /\ Ends(c) = {}
  <2>1. ScanMsg(b) = [found |-> FALSE, buf |-> c]
    BY <1>1, <1>4 DEF ScanMsg
  <2> QED BY <1>1, <1>4, <2>1
<1>5. CASE ~NothingThere(b) /\ Ends(c) # {}
  <2> DEFINE q == CHOOSE i \in Ends(c) : \A j \in Ends(c) : i <= j
             p == CHOOSE k \in Heads(c, q) : TRUE
  <2>1. \E i \in Ends(c) : \A j \in Ends(c) : i <= j
    BY <1>2, <1>5, LeastNatural
  <2>2. q \in Ends(c) /\ \A j \in Ends(c) : q <= j
    BY <2>1
  <2>3. ScanMsg(b) = [found |-> TRUE, buf |-> c, p |-> p, q |-> q]
    BY <1>1, <1>5 DEF ScanMsg
  <2> HIDE DEF q
  <2>4. Heads(c, q) # {}
    BY <2>2 DEF Ends
  <2>5. p \in Heads(c, q)
    BY <2>4
  <2> HIDE DEF p
  <2>6. p \in 0..q
    BY <2>5 DEF Heads
  <2> QED BY <1>1, <1>2, <2>2, <2>3, <2>5, <2>6
<1> QED BY <1>3, <1>4, <1>5

\* Reading leaves a buffer.
LEMMA AfterReadIs ==
  ASSUME conn \in MessageSetups, lastAckPos \in Slots, NEW r, r.buf \in Buffers, r.q \in Nat
  PROVE  AfterRead(r) \in Buffers
<1>1. CASE r.q < Acked(r.buf)
  <2>1. r.q + 1 \in Nat
    OBVIOUS
  <2> QED BY <1>1, <2>1, TakenOutIs DEF AfterRead
<1>2. CASE ~(r.q < Acked(r.buf))
  <2>1. r.buf.flag \in [Slots -> Nat]
    BY DEF Buffers
  <2> DEFINE f == [s \in Slots |->
          IF \E i \in r.p..r.q : s = Slot(r.buf.start + i) THEN 2 ELSE r.buf.flag[s]]
  <2>2. f \in [Slots -> Nat]
    BY <2>1
  <2>3. AfterRead(r) = [r.buf EXCEPT !.flag = f]
    BY <1>2 DEF AfterRead
  <2> HIDE DEF f
  <2> QED BY <2>2, <2>3 DEF Buffers
<1> QED BY <1>1, <1>2

\* The parts of a buffer.
LEMMA BufferParts ==
  BufferIsTyped <=> /\ Buffer \in Buffers /\ lastAckPos \in Slots /\ maxPos \in Nat
                    /\ got \in Seq(Seq(Nat))
BY DEF BufferIsTyped, Buffer, Buffers

\* What recvmsg does: it returns the first message there is, or nothing.
LEMMA ReadOrIs ==
  ASSUME conn \in MessageSetups, BufferIsTyped, NEW otherwise, ReadOr(otherwise)
  PROVE  /\ UNCHANGED <<sender, lastAckPos, maxPos, rcvCurr, rcvLastAck, rcvLastAckAck, rcvLoss, net>>
         /\ BufferIsTyped'
         /\ \/ reader' = "idle" /\ got' # got
            \/ /\ reader' = otherwise /\ got' = got
               /\ \/ NothingThere(Buffer) /\ Buffer' = Buffer
                  \/ \E b \in Buffers : Buffer' = b /\ Ends(b) = {}
<1>1. Buffer \in Buffers /\ lastAckPos \in Slots /\ maxPos \in Nat /\ got \in Seq(Seq(Nat))
  BY BufferParts
<1> DEFINE r == ScanMsg(Buffer)
<1>2. /\ UNCHANGED <<sender, lastAckPos, maxPos, rcvCurr, rcvLastAck, rcvLastAckAck, rcvLoss, net>>
      /\ IF r.found
         THEN /\ got' = Append(got, [i \in 1..(r.q - r.p + 1) |-> At(r.buf, r.p + i - 1)])
              /\ SetBuffer(ScanMsg(AfterRead(r)).buf)
              /\ reader' = "idle"
         ELSE SetBuffer(r.buf) /\ reader' = otherwise /\ UNCHANGED got
  BY DEF ReadOr
<1>3. PICK t : t = r /\
        \/ /\ t.found = FALSE /\ t.buf \in Buffers
           /\ (NothingThere(Buffer) /\ t.buf = Buffer) \/ Ends(t.buf) = {}
        \/ /\ t.found = TRUE /\ t.buf \in Buffers /\ t.q \in Nat /\ t.p \in 0..t.q
  BY <1>1, ScanIs
<1>4. ASSUME NEW b \in Buffers, SetBuffer(b) PROVE Buffer' = b
  BY <1>4 DEF SetBuffer, Buffer, Buffers
<1>5. Slots' = Slots
  BY <1>2 DEF Slots, RcvBufSize, sender
<1>6. ASSUME Buffer' \in Buffers, got' \in Seq(Seq(Nat)) PROVE BufferIsTyped'
  BY <1>1, <1>2, <1>5, <1>6 DEF BufferIsTyped, Buffer, Buffers
<1> HIDE DEF r
<1>7. CASE t.found = FALSE
  <2>1. SetBuffer(t.buf) /\ reader' = otherwise /\ got' = got /\ t.buf \in Buffers
    BY <1>2, <1>3, <1>7
  <2>2. Buffer' = t.buf
    BY <1>4, <2>1
  <2>3. BufferIsTyped'
    BY <1>1, <1>6, <2>1, <2>2
  <2> QED BY <1>2, <1>3, <1>7, <2>1, <2>2, <2>3
<1>8. CASE t.found = TRUE
  <2>1. t.buf \in Buffers /\ t.q \in Nat /\ t.p \in 0..t.q
    BY <1>3, <1>8
  <2> DEFINE msg == [i \in 1..(t.q - t.p + 1) |-> At(t.buf, t.p + i - 1)]
             b   == ScanMsg(AfterRead(t)).buf
  <2>2. got' = Append(got, msg) /\ SetBuffer(b) /\ reader' = "idle"
    BY <1>2, <1>3, <1>8
  <2>3. b \in Buffers
    <3>1. AfterRead(t) \in Buffers
      BY <1>1, <2>1, AfterReadIs
    <3> QED BY <1>1, <3>1, ScanIs
  <2>4. msg \in Seq(Nat)
    <3>1. \A i \in 1..(t.q - t.p + 1) : At(t.buf, t.p + i - 1) \in Nat
      <4> SUFFICES ASSUME NEW i \in 1..(t.q - t.p + 1) PROVE At(t.buf, t.p + i - 1) \in Nat
        OBVIOUS
      <4>1. t.buf.start \in Slots /\ t.buf.unit \in [Slots -> Nat]
        BY <2>1 DEF Buffers
      <4>2. t.buf.start + (t.p + i - 1) \in Nat
        BY <2>1, <4>1, SlotFacts
      <4>3. Slot(t.buf.start + (t.p + i - 1)) \in Slots
        BY <4>2, SlotFacts
      <4> QED BY <4>1, <4>3 DEF At
    <3>2. t.q - t.p + 1 \in Nat
      BY <2>1
    <3> QED BY <3>1, <3>2
  <2> HIDE DEF msg, b
  <2>5. got' \in Seq(Seq(Nat)) /\ Len(got') = Len(got) + 1
    BY <1>1, <2>2, <2>4, AppendIs
  <2>6. got' # got
    <3>1. Len(got) \in Nat
      BY <1>1
    <3> QED BY <2>5, <3>1
  <2>7. Buffer' = b
    BY <1>4, <2>2, <2>3
  <2>8. BufferIsTyped'
    BY <1>6, <2>3, <2>5, <2>7
  <2> QED BY <1>2, <2>2, <2>6, <2>8
<1> QED BY <1>3, <1>7, <1>8

\* What a packet that comes does to the buffer.
LEMMA ReceiveDataIs ==
  ASSUME NEW c, NEW la, NEW rc, NEW rl, NEW rla, NumbersAt(c, la, rc, rl, rla), BufferIsTyped,
         NEW p \in net, ReceiveData(p)
  PROVE  \E k \in 0..c :
           /\ p.seq = Num(k) /\ p.data \in 1..Packets
           /\ UNCHANGED <<sender, startPos, lastAckPos, rcvLastAck, rcvLastAckAck, reader, got>>
           /\ maxPos' = IF k >= rl /\ k - rl < Avail /\ k - rl > maxPos THEN k - rl ELSE maxPos
           /\ \/ UNCHANGED <<unit, flag, rcvCurr, rcvLoss, net>>
              \/ /\ k >= rl /\ k - rl < Avail /\ unit[Slot(lastAckPos + (k - rl))] = 0
                 /\ unit' = [unit EXCEPT ![Slot(lastAckPos + (k - rl))] = p.data]
                 /\ flag' = [flag EXCEPT ![Slot(lastAckPos + (k - rl))] = 1]
<1>1. /\ conn \in MessageSetups /\ rl \in 0..(rc + 1) /\ c \in -1..Top /\ Top \in Nat /\ rc \in -1..c
  BY IndicesAreSane
<1>2. /\ \A q \in net : TruePacket(q, c, rl)
      /\ rcvLastAck = Num(rl) /\ p.kind = "data"
  BY DEF NumbersAt, ReceiverAt, ReceiveData
<1>3. p.seq \in Nums(0..c) /\ p.data \in 1..Packets
  BY <1>2 DEF TruePacket
<1>4. PICK k \in 0..c : p.seq = Num(k)
  BY <1>3, NumsHave
<1>5. seqoff(rcvLastAck, p.seq) = k - rl
  <2>1. k \in 0..(Top + 1) /\ rl \in 0..(Top + 1)
    BY <1>1
  <2> QED BY <1>1, <1>2, <1>4, <2>1, NumFacts
<1>6. k - rl \in Int /\ (k - rl >= 0 <=> k >= rl)
  BY <1>1
<1>7. PICK o \in Int : o = k - rl /\ (o >= 0 <=> k >= rl) /\ seqoff(rcvLastAck, p.seq) = o
  BY <1>5, <1>6
<1>8. /\ UNCHANGED <<sender, startPos, lastAckPos, rcvLastAck, rcvLastAckAck, reader, got>>
      /\ maxPos' = IF (o >= 0 /\ o < Avail) /\ o > maxPos THEN o ELSE maxPos
      /\ \/ UNCHANGED <<unit, flag, rcvCurr, rcvLoss, net>>
         \/ /\ o >= 0 /\ o < Avail /\ unit[Slot(lastAckPos + o)] = 0
            /\ unit' = [unit EXCEPT ![Slot(lastAckPos + o)] = p.data]
            /\ flag' = [flag EXCEPT ![Slot(lastAckPos + o)] = 1]
  BY <1>7 DEF ReceiveData, Takes
<1> QED BY <1>3, <1>4, <1>7, <1>8

\* How much room there is.
LEMMA AvailIs ==
  ASSUME conn \in MessageSetups, BufferIsTyped
  PROVE  Acked(Buffer) \in Nat /\ Avail = RcvBufSize - Acked(Buffer) - 1
<1>1. Buffer \in Buffers /\ lastAckPos \in Slots
  BY BufferParts
<1>2. Buffer.start \in Slots /\ Buffer.start = startPos
  BY <1>1 DEF Buffers, Buffer
<1> QED BY <1>1, <1>2, AckedIs DEF Avail, Readable, Acked

\* What acknowledging does to the buffer and the reader.
LEMMA SendAckIs ==
  ASSUME NEW c, NEW la, NEW rc, NEW rl, NEW rla, NumbersAt(c, la, rc, rl, rla), SendAck
  PROVE  \E a \in rl..(rc + 1) :
           /\ AckNow = Num(a) /\ \A k \in rl..(a - 1) : Num(k) \notin rcvLoss
           /\ UNCHANGED <<sender, unit, flag, startPos, rcvCurr, rcvLastAckAck, rcvLoss, got>>
           /\ rcvLastAck' = Num(a) /\ lastAckPos' = Slot(lastAckPos + (a - rl))
           /\ maxPos' = (IF maxPos < a - rl THEN 0 ELSE maxPos - (a - rl))
           /\ reader' = (IF reader = "asleep" /\ a - rl > 0 THEN "woken" ELSE reader)
<1>1. /\ conn \in MessageSetups /\ rl \in 0..(rc + 1) /\ c \in -1..Top /\ Top \in Nat /\ rc \in -1..c
  BY IndicesAreSane
<1>2. rcvLastAck = Num(rl)
  BY DEF NumbersAt, ReceiverAt
<1>3. PICK a \in rl..(rc + 1) : AckNow = Num(a) /\ \A k \in rl..(a - 1) : Num(k) \notin rcvLoss
  BY AckNowIs
<1>4. seqoff(rcvLastAck, AckNow) = a - rl
  <2>1. a \in 0..(Top + 1) /\ rl \in 0..(Top + 1)
    BY <1>1
  <2> QED BY <1>1, <1>2, <1>3, <2>1, NumFacts
<1>5. /\ UNCHANGED <<sender, unit, flag, startPos, rcvCurr, rcvLastAckAck, rcvLoss, got>>
      /\ rcvLastAck' = Num(a) /\ lastAckPos' = Slot(lastAckPos + (a - rl))
      /\ maxPos' = (IF maxPos < a - rl THEN 0 ELSE maxPos - (a - rl))
      /\ reader' = (IF reader = "asleep" /\ a - rl > 0 THEN "woken" ELSE reader)
  BY <1>3, <1>4 DEF SendAck, MaxPosAfter, ReaderAfter
<1> QED BY <1>3, <1>5

\* What the steps do that have nothing to do with the buffer.
OutsideTheBuffer ==
  \/ Sendmsg \/ (\E m \in Messages : Expire(m)) \/ PackData \/ Exp \/ UNCHANGED msgVars
  \/ \E p \in net : ReceiveAck(p) \/ ReceiveNak(p) \/ ReceiveAck2(p)

\* They change neither the buffer nor the reader.
LEMMA OutsideIs ==
  ASSUME OutsideTheBuffer
  PROVE  UNCHANGED <<conn, unit, flag, startPos, lastAckPos, maxPos, reader, got>>
<1>1. CASE Sendmsg \/ (\E m \in Messages : Expire(m)) \/ Exp \/ UNCHANGED msgVars
  BY <1>1 DEF Sendmsg, Expire, Exp, msgVars, receiver, sender
<1>2. CASE PackData
  BY <1>2 DEF PackData, PickPacket, Retransmit, DropMessage, RunWild, SendNew, receiver
<1>3. CASE \E p \in net : ReceiveAck(p) \/ ReceiveNak(p) \/ ReceiveAck2(p)
  BY <1>3 DEF ReceiveAck, ReceiveNak, ReceiveAck2, receiver, sender
<1> QED BY <1>1, <1>2, <1>3 DEF OutsideTheBuffer

\* Every step either is one of those or one of these.
LEMMA StepsAre ==
  ASSUME [MsgNext]_msgVars
  PROVE  \/ OutsideTheBuffer \/ SendAck \/ Recvmsg \/ RecvmsgTimed \/ TimeOut
         \/ \E p \in net : ReceiveData(p)
         \/ \E p \in net : ReceiveDrop(p)
BY DEF MsgNext, OutsideTheBuffer

\* Every step leaves a buffer.
LEMMA BufferStep ==
  ASSUME NumbersInv, BufferIsTyped, [MsgNext]_msgVars
  PROVE  BufferIsTyped'
<1>1. PICK c, la, rc, rl, rla : NumbersAt(c, la, rc, rl, rla)
  BY DEF NumbersInv
<1>2. conn \in MessageSetups /\ rl \in 0..(rc + 1) /\ rc \in -1..c /\ c \in Int
  BY <1>1, IndicesAreSane
<1>3. conn' = conn /\ Slots' = Slots
  BY NumbersStep DEF Slots, RcvBufSize
<1>4. /\ unit \in [Slots -> Nat] /\ flag \in [Slots -> Nat]
      /\ startPos \in Slots /\ lastAckPos \in Slots /\ maxPos \in Nat
      /\ got \in Seq(Seq(Nat))
  BY DEF BufferIsTyped
<1>5. CASE OutsideTheBuffer
  BY <1>3, <1>4, <1>5, OutsideIs DEF BufferIsTyped
<1>6. CASE SendAck
  <2>1. PICK a \in rl..(rc + 1) :
           /\ UNCHANGED <<unit, flag, startPos, got>>
           /\ lastAckPos' = Slot(lastAckPos + (a - rl))
           /\ maxPos' = (IF maxPos < a - rl THEN 0 ELSE maxPos - (a - rl))
    BY <1>1, <1>6, SendAckIs
  <2>2. a - rl \in Nat /\ lastAckPos \in Nat /\ maxPos' \in Nat
    BY <1>2, <1>4, <2>1, SlotFacts
  <2>3. lastAckPos' \in Slots
    <3>1. lastAckPos + (a - rl) \in Nat
      BY <2>2
    <3> QED BY <1>2, <2>1, <3>1, SlotFacts
  <2> QED BY <1>3, <1>4, <2>1, <2>2, <2>3 DEF BufferIsTyped
<1>7. CASE Recvmsg \/ TimeOut
  <2>1. PICK o : ReadOr(o)
    BY <1>7 DEF Recvmsg, TimeOut
  <2> QED BY <1>2, <2>1, ReadOrIs
<1>8. CASE RecvmsgTimed
  BY <1>3, <1>4, <1>8 DEF RecvmsgTimed, BufferIsTyped
<1>9. ASSUME NEW p \in net, ReceiveData(p) PROVE BufferIsTyped'
  <2>1. PICK k \in 0..c :
           /\ p.data \in 1..Packets
           /\ UNCHANGED <<startPos, lastAckPos, got>>
           /\ maxPos' = IF k >= rl /\ k - rl < Avail /\ k - rl > maxPos THEN k - rl ELSE maxPos
           /\ \/ UNCHANGED <<unit, flag>>
              \/ /\ k >= rl
                 /\ unit' = [unit EXCEPT ![Slot(lastAckPos + (k - rl))] = p.data]
                 /\ flag' = [flag EXCEPT ![Slot(lastAckPos + (k - rl))] = 1]
    BY <1>1, <1>9, ReceiveDataIs
  <2>2. maxPos' \in Nat
    BY <1>2, <1>4, <2>1
  <2>3. p.data \in Nat
    BY <1>2, <2>1, PacketsAreFew
  <2>4. PICK i, d : /\ d \in Nat
                    /\ \/ UNCHANGED <<unit, flag>>
                       \/ unit' = [unit EXCEPT ![i] = d] /\ flag' = [flag EXCEPT ![i] = 1]
    BY <2>1, <2>3
  <2>5. unit' \in [Slots -> Nat] /\ flag' \in [Slots -> Nat]
    <3>1. ASSUME NEW f \in [Slots -> Nat], NEW e \in Nat PROVE [f EXCEPT ![i] = e] \in [Slots -> Nat]
      OBVIOUS
    <3>2. [unit EXCEPT ![i] = d] \in [Slots -> Nat]
      BY <1>4, <2>4, <3>1
    <3>3. [flag EXCEPT ![i] = 1] \in [Slots -> Nat]
      BY <1>4, <3>1
    <3> QED BY <1>4, <2>4, <3>2, <3>3
  <2> QED BY <1>3, <1>4, <2>1, <2>2, <2>5 DEF BufferIsTyped
<1>10. ASSUME NEW p \in net, ReceiveDrop(p) PROVE BufferIsTyped'
  <2>1. PICK f : flag' = f /\ f \in [Slots -> Nat]
    <3>1. PICK P : flag' = [s \in Slots |-> IF s \in P /\ DropMatches(p.msg, unit[s]) THEN 3 ELSE flag[s]]
      BY <1>10 DEF ReceiveDrop
    <3> DEFINE f == [s \in Slots |-> IF s \in P /\ DropMatches(p.msg, unit[s]) THEN 3 ELSE flag[s]]
    <3>2. \A s \in Slots : f[s] = 3 \/ f[s] = flag[s]
      OBVIOUS
    <3>3. f = [s \in Slots |-> f[s]]
      OBVIOUS
    <3>4. flag' = f
      BY <3>1
    <3> HIDE DEF f
    <3>5. \A s \in Slots : f[s] \in Nat
      BY <1>4, <3>2
    <3> QED BY <3>3, <3>4, <3>5
  <2>2. UNCHANGED <<unit, startPos, lastAckPos, maxPos, got>>
    BY <1>10 DEF ReceiveDrop
  <2> QED BY <1>3, <1>4, <2>1, <2>2 DEF BufferIsTyped
<1> QED BY <1>5, <1>6, <1>7, <1>8, <1>9, <1>10, StepsAre

\* Where messages begin and end is settled from the start.
LEMMA MarksStay ==
  ASSUME conn' = conn
  PROVE  \A d : /\ MsgOf(d)' = MsgOf(d) /\ (IsFirst(d)' <=> IsFirst(d))
                /\ (IsLast(d)' <=> IsLast(d)) /\ (IsOrdered(d)' <=> IsOrdered(d))
<1> SUFFICES ASSUME NEW d
             PROVE  /\ MsgOf(d)' = MsgOf(d) /\ (IsFirst(d)' <=> IsFirst(d))
                    /\ (IsLast(d)' <=> IsLast(d)) /\ (IsOrdered(d)' <=> IsOrdered(d))
  OBVIOUS
<1>1. MsgOf(d)' = MsgOf(d)
  BY DEF MsgOf, Messages
<1> QED BY <1>1 DEF IsFirst, IsLast, IsOrdered

\* No message that is acknowledged and whole waits for the reader.
NothingReady == \A i \in Ends(Buffer) : i >= Acked(Buffer)

\* Packets that come, or are given up, beyond what is acknowledged make no message ready.
LEMMA NothingReadyStays ==
  ASSUME conn \in MessageSetups, conn' = conn, BufferIsTyped, NothingReady,
         Acked(Buffer)' = Acked(Buffer),
         \A i \in 0..(Acked(Buffer) - 1) :
           Fresh(Buffer, i)' => Fresh(Buffer, i) /\ At(Buffer, i)' = At(Buffer, i)
  PROVE  NothingReady'
<1>1. PICK a \in Nat : a = Acked(Buffer) /\ a = Acked(Buffer)'
  BY AvailIs
<1>2. maxPos \in Nat
  BY DEF BufferIsTyped
<1> SUFFICES ASSUME NEW i \in Ends(Buffer)', ~(i >= a) PROVE FALSE
  BY <1>1 DEF NothingReady
<1>3. /\ i \in Nat /\ Fresh(Buffer, i)' /\ IsLast(At(Buffer, i))' /\ Heads(Buffer, i)' # {}
  <2>1. \A j : j \in 0..(maxPos' + a) => j \in Nat
    OBVIOUS
  <2> QED BY <1>1, <2>1 DEF Ends
<1>4. i < a
  BY <1>1, <1>3
<1>5. \A j \in 0..i : j \in 0..(a - 1) /\ (Fresh(Buffer, j)' => Fresh(Buffer, j) /\ At(Buffer, j)' = At(Buffer, j))
  BY <1>1, <1>3, <1>4
<1>6. PICK k \in 0..i : /\ \A j \in k..i : Fresh(Buffer, j)'
                        /\ IsFirst(At(Buffer, k))'
                        /\ \A j \in (k + 1)..i : ~IsFirst(At(Buffer, j))'
  BY <1>3 DEF Heads
<1>7. \A j \in k..i : Fresh(Buffer, j) /\ At(Buffer, j)' = At(Buffer, j)
  <2>1. \A j \in k..i : j \in 0..i
    BY <1>3, <1>6
  <2> QED BY <1>5, <1>6, <2>1
<1>8. \A j \in k..i : IsFirst(At(Buffer, j))' <=> IsFirst(At(Buffer, j))
  BY <1>7, MarksStay
<1>9. k \in k..i /\ i \in k..i /\ \A j \in (k + 1)..i : j \in k..i
  BY <1>3, <1>6
<1>10. IsLast(At(Buffer, i))
  BY <1>3, <1>7, <1>9, MarksStay
<1>11. k \in Heads(Buffer, i)
  BY <1>6, <1>7, <1>8, <1>9 DEF Heads
<1>12. i \in Ends(Buffer)
  <2>1. i \in 0..(maxPos + a)
    BY <1>1, <1>2, <1>3, <1>4
  <2> QED BY <1>1, <1>4, <1>7, <1>9, <1>10, <1>11, <2>1 DEF Ends
<1> QED BY <1>1, <1>12 DEF NothingReady

\* What is seen of a buffer depends on nothing else.
LEMMA SeenThrough ==
  ASSUME conn' = conn, NEW b, Buffer' = b
  PROVE  /\ \A i : At(Buffer, i)' = At(b, i) /\ (Fresh(Buffer, i)' <=> Fresh(b, i))
         /\ lastAckPos' = lastAckPos => Acked(Buffer)' = Acked(b)
<1>1. \A i : Slot(i)' = Slot(i)
  BY DEF Slot, RcvBufSize
<1>2. \A i : At(Buffer, i)' = At(b, i) /\ (Fresh(Buffer, i)' <=> Fresh(b, i))
  BY <1>1 DEF At, Fresh
<1>3. lastAckPos' = lastAckPos => Acked(Buffer)' = Acked(b)
  BY DEF Acked, Slot, RcvBufSize
<1> QED BY <1>2, <1>3

\* Where nothing ends nothing is ready.
LEMMA NoEnds ==
  ASSUME conn' = conn, UNCHANGED <<lastAckPos, maxPos>>, NEW b, Buffer' = b, Ends(b) = {}
  PROVE  NothingReady'
<1> SUFFICES ASSUME NEW i \in Ends(Buffer)' PROVE i \in Ends(b)
  BY DEF NothingReady
<1>1. /\ \A j : At(Buffer, j)' = At(b, j) /\ (Fresh(Buffer, j)' <=> Fresh(b, j))
      /\ Acked(Buffer)' = Acked(b)
  BY SeenThrough
<1>2. \A j : /\ IsFirst(At(Buffer, j))' <=> IsFirst(At(b, j))
             /\ IsLast(At(Buffer, j))' <=> IsLast(At(b, j))
             /\ IsOrdered(At(Buffer, j))' <=> IsOrdered(At(b, j))
  BY <1>1, MarksStay
<1>3. Heads(Buffer, i)' = Heads(b, i)
  BY <1>1, <1>2 DEF Heads
<1> QED BY <1>1, <1>2, <1>3 DEF Ends

\* recvmsg that returns nothing leaves nothing that it could return.
LEMMA ReadsNothing ==
  ASSUME conn \in MessageSetups, BufferIsTyped, NEW o, ReadOr(o), got' = got
  PROVE  NothingReady'
<1>1. UNCHANGED <<sender, lastAckPos, maxPos>>
      /\ \/ NothingThere(Buffer) /\ Buffer' = Buffer
         \/ \E b \in Buffers : Buffer' = b /\ Ends(b) = {}
  BY ReadOrIs
<1>2. conn' = conn
  BY <1>1 DEF sender
<1>3. CASE NothingThere(Buffer) /\ Buffer' = Buffer
  <2>1. Acked(Buffer) = 0
    <3>1. Buffer \in Buffers /\ lastAckPos \in Slots
      BY BufferParts
    <3>2. Buffer.start \in Slots
      BY <3>1 DEF Buffers
    <3> QED BY <1>3, <3>1, <3>2, AckedIs DEF NothingThere
  <2>2. Acked(Buffer)' = 0
    <3>1. PICK b : b = Buffer
      OBVIOUS
    <3> QED BY <1>1, <1>2, <1>3, <2>1, <3>1, SeenThrough
  <2> QED BY <2>2 DEF NothingReady, Ends
<1>4. CASE \E b \in Buffers : Buffer' = b /\ Ends(b) = {}
  BY <1>1, <1>2, <1>4, NoEnds
<1> QED BY <1>1, <1>3, <1>4

\* What comes or is given up while the reader sleeps is beyond what is acknowledged.
LEMMA StillNothingReady ==
  ASSUME NumbersInv, BufferIsTyped, NothingReady,
         OutsideTheBuffer \/ RecvmsgTimed
           \/ (\E p \in net : ReceiveData(p)) \/ (\E p \in net : ReceiveDrop(p))
  PROVE  NothingReady'
<1>1. PICK c, la, rc, rl, rla : NumbersAt(c, la, rc, rl, rla)
  BY DEF NumbersInv
<1>2. conn \in MessageSetups /\ rl \in 0..(rc + 1) /\ rc \in -1..c /\ c \in Int
  BY <1>1, IndicesAreSane
<1>3. PICK r \in Nat \ {0} : r = RcvBufSize
  BY <1>2, SetupIsSane
<1>4. PICK a \in Nat : a = Acked(Buffer) /\ Avail = r - a - 1
  BY <1>2, <1>3, AvailIs
<1>5. /\ unit \in [Slots -> Nat] /\ flag \in [Slots -> Nat] /\ Slots = 0..(r - 1)
      /\ startPos \in 0..(r - 1) /\ lastAckPos \in 0..(r - 1)
  BY <1>3 DEF BufferIsTyped, Slots
<1>6. ASSUME conn' = conn, UNCHANGED <<startPos, lastAckPos>>,
             \A i \in 0..(a - 1) : LET s == Slot(startPos + i)
                                   IN  unit'[s] = unit[s] /\ (flag'[s] = 1 => flag[s] = 1)
      PROVE  NothingReady'
  <2>1. \A i : Slot(i)' = Slot(i)
    BY <1>6 DEF Slot, RcvBufSize
  <2>2. Acked(Buffer)' = Acked(Buffer)
    BY <1>6, <2>1 DEF Acked, Buffer, RcvBufSize
  <2>3. \A i \in 0..(a - 1) : Fresh(Buffer, i)' => Fresh(Buffer, i) /\ At(Buffer, i)' = At(Buffer, i)
    BY <1>6, <2>1 DEF Fresh, At, Buffer
  <2> QED BY <1>2, <1>4, <1>6, <2>2, <2>3, NothingReadyStays
<1>7. CASE OutsideTheBuffer
  BY <1>6, <1>7, OutsideIs
<1>8. CASE RecvmsgTimed
  BY <1>6, <1>8 DEF RecvmsgTimed, sender
<1>9. ASSUME NEW p \in net, ReceiveDrop(p) PROVE NothingReady'
  <2>1. UNCHANGED <<conn, unit, startPos, lastAckPos>>
    BY <1>9 DEF ReceiveDrop, sender
  <2>2. PICK P : flag' = [s \in Slots |-> IF s \in P /\ DropMatches(p.msg, unit[s]) THEN 3 ELSE flag[s]]
    BY <1>9 DEF ReceiveDrop
  <2>3. \A s \in Slots : flag'[s] = 1 => flag[s] = 1
    BY <2>2
  <2>4. \A i \in 0..(a - 1) : Slot(startPos + i) \in Slots
    <3>1. \A i \in 0..(a - 1) : startPos + i \in Nat
      BY <1>5
    <3> QED BY <1>2, <3>1, SlotFacts
  <2> QED BY <1>6, <2>1, <2>3, <2>4
<1>10. ASSUME NEW p \in net, ReceiveData(p) PROVE NothingReady'
  <2>1. PICK k \in 0..c :
           /\ UNCHANGED <<sender, startPos, lastAckPos>>
           /\ \/ UNCHANGED <<unit, flag>>
              \/ /\ k >= rl /\ k - rl < Avail
                 /\ unit' = [unit EXCEPT ![Slot(lastAckPos + (k - rl))] = p.data]
                 /\ flag' = [flag EXCEPT ![Slot(lastAckPos + (k - rl))] = 1]
    BY <1>1, <1>10, ReceiveDataIs
  <2>2. conn' = conn
    BY <2>1 DEF sender
  <2>3. CASE UNCHANGED <<unit, flag>>
    BY <1>6, <2>1, <2>2, <2>3
  <2>4. CASE /\ k >= rl /\ k - rl < Avail
             /\ unit' = [unit EXCEPT ![Slot(lastAckPos + (k - rl))] = p.data]
             /\ flag' = [flag EXCEPT ![Slot(lastAckPos + (k - rl))] = 1]
    <3>1. PICK o \in Nat : o = k - rl /\ o < r - a - 1
      BY <1>2, <1>4, <2>4
    <3>2. \A i \in 0..(a - 1) : Slot(startPos + i) # Slot(lastAckPos + o)
      <4> SUFFICES ASSUME NEW i \in 0..(a - 1), (startPos + i) % r = (lastAckPos + o) % r PROVE FALSE
        BY <1>3 DEF Slot
      <4>1. PICK s \in Nat, l \in Nat : s = startPos /\ l = lastAckPos /\ s < r /\ l < r
        BY <1>5
      <4>2. a = (l - s + r) % r
        BY <1>3, <1>4, <4>1 DEF Acked, Buffer, Slot
      <4>3. a = IF l >= s THEN l - s ELSE l - s + r
        <5>1. PICK x \in Nat : x = l - s + r /\ x < r + r /\ (x < r <=> l < s)
          BY <4>1
        <5>2. x % r = IF x < r THEN x ELSE x - r
          BY <5>1, Folded
        <5> QED BY <4>1, <4>2, <5>1, <5>2
      <4>4. (s + i) % r = (l + o) % r /\ s + i \in Nat /\ l + o \in Nat
        BY <4>1, <3>1
      <4>5. CASE l >= s
        <5>1. s + i <= l + o /\ l + o < s + i + r /\ s + i # l + o
          BY <1>4, <3>1, <4>1, <4>3, <4>5
        <5> QED BY <4>4, <5>1, SlotsDiffer
      <4>6. CASE l < s
        <5>1. /\ s + i <= l + o + r /\ l + o + r < s + i + r /\ s + i # l + o + r
              /\ l + o + r \in Nat
          BY <1>4, <3>1, <4>1, <4>3, <4>6
        <5>2. (l + o + r) % r = (l + o) % r
          BY <4>4, SlotRepeats
        <5> QED BY <4>4, <5>1, <5>2, SlotsDiffer
      <4> QED BY <4>1, <4>5, <4>6
    <3>3. PICK d, w : w = Slot(lastAckPos + o) /\ unit' = [unit EXCEPT ![w] = d]
                      /\ flag' = [flag EXCEPT ![w] = 1]
      BY <2>4, <3>1
    <3>4. \A i \in 0..(a - 1) : Slot(startPos + i) \in Slots /\ Slot(startPos + i) # w
      <4>1. \A i \in 0..(a - 1) : startPos + i \in Nat
        BY <1>5
      <4> QED BY <1>2, <3>2, <3>3, <4>1, SlotFacts
    <3>5. \A s \in Slots : s # w => unit'[s] = unit[s] /\ flag'[s] = flag[s]
      BY <1>5, <3>3
    <3> QED BY <1>6, <2>1, <2>2, <3>4, <3>5
  <2> QED BY <2>1, <2>3, <2>4
<1> QED BY <1>7, <1>8, <1>9, <1>10

\* The buffer starts empty.
LEMMA BufferInit == MsgInit => BufferIsTyped
<1> SUFFICES ASSUME MsgInit PROVE BufferIsTyped
  OBVIOUS
<1>1. RcvBufSize \in Nat \ {0}
  BY SetupIsSane DEF MsgInit
<1>2. 0 \in Slots
  BY <1>1 DEF Slots
<1>3. << >> \in Seq(Seq(Nat))
  OBVIOUS
<1> QED BY <1>2, <1>3 DEF MsgInit, BufferIsTyped, Slots

\* Whoever sleeps has missed nothing: this follows step by step from the numbers and the
\* buffer alone, whatever was given up.
ReaderInv == NumbersInv /\ BufferIsTyped /\ NoMessageMissed

\* Nobody sleeps at the start.
LEMMA ReaderInit == MsgInit => ReaderInv
<1> SUFFICES ASSUME MsgInit PROVE ReaderInv
  OBVIOUS
<1>1. NoMessageMissed
  BY DEF MsgInit, NoMessageMissed
<1> QED BY <1>1, NumbersInit, BufferInit DEF ReaderInv

\* A step of recvmsg to sleep, or back with nothing, leaves nothing ready.
LEMMA ReaderStep ==
  ASSUME ReaderInv, [MsgNext]_msgVars
  PROVE  /\ ReaderInv'
         /\ reader = "asleep" /\ reader' = "idle" /\ got' = got => NothingReady'
<1>1. NumbersInv' /\ BufferIsTyped' /\ conn' = conn
  BY NumbersStep, BufferStep DEF ReaderInv
<1>2. PICK c, la, rc, rl, rla : NumbersAt(c, la, rc, rl, rla)
  BY DEF ReaderInv, NumbersInv
<1>3. conn \in MessageSetups /\ rl \in 0..(rc + 1) /\ rc \in -1..c /\ c \in Int
  BY <1>2, IndicesAreSane
<1>4. NoMessageMissed' <=> (reader' = "asleep" /\ ~conn.timed => NothingReady')
  BY <1>1 DEF NoMessageMissed, NothingReady
<1>5. BufferIsTyped /\ NumbersInv /\ (reader = "asleep" /\ ~conn.timed => NothingReady)
  BY DEF ReaderInv, NoMessageMissed, NothingReady
<1> SUFFICES /\ reader' = "asleep" /\ ~conn.timed => NothingReady'
             /\ reader = "asleep" /\ reader' = "idle" /\ got' = got => NothingReady'
  BY <1>1, <1>4 DEF ReaderInv
<1>6. CASE OutsideTheBuffer
  <2>1. reader' = reader
    BY <1>6, OutsideIs
  <2> QED BY <1>5, <1>6, <2>1, StillNothingReady
<1>7. ASSUME NEW p \in net, ReceiveData(p) \/ ReceiveDrop(p)
      PROVE  /\ reader' = "asleep" /\ ~conn.timed => NothingReady'
             /\ reader = "asleep" /\ reader' = "idle" /\ got' = got => NothingReady'
  <2>1. reader' = reader
    BY <1>7 DEF ReceiveData, ReceiveDrop
  <2> QED BY <1>5, <1>7, <2>1, StillNothingReady
<1>8. CASE RecvmsgTimed
  BY <1>8 DEF RecvmsgTimed
<1>9. CASE Recvmsg
  <2>1. ReadOr("asleep") /\ reader # "asleep"
    BY <1>9 DEF Recvmsg
  <2>2. reader' = "asleep" => got' = got
    BY <1>3, <1>5, <2>1, ReadOrIs
  <2> QED BY <1>3, <1>5, <2>1, <2>2, ReadsNothing
<1>10. CASE TimeOut
  <2>1. ReadOr("idle") /\ conn.timed
    BY <1>10 DEF TimeOut
  <2> QED BY <1>3, <1>5, <2>1, ReadsNothing
<1>11. CASE SendAck
  <2>1. PICK a \in rl..(rc + 1) :
           /\ UNCHANGED <<conn, unit, flag, startPos>>
           /\ lastAckPos' = Slot(lastAckPos + (a - rl))
           /\ maxPos' = (IF maxPos < a - rl THEN 0 ELSE maxPos - (a - rl))
           /\ reader' = (IF reader = "asleep" /\ a - rl > 0 THEN "woken" ELSE reader)
    BY <1>2, <1>11, SendAckIs DEF sender
  <2>2. reader' # "asleep" \/ (reader = "asleep" /\ a = rl)
    <3>1. a - rl > 0 \/ a = rl
      BY <1>3, <2>1
    <3> QED BY <2>1, <3>1
  <2>3. reader = "asleep" => reader' # "idle"
    BY <2>1
  <2>4. CASE reader = "asleep" /\ ~conn.timed /\ a = rl
    <3>1. lastAckPos' = lastAckPos
      <4>1. lastAckPos \in Slots /\ a - rl = 0
        BY <1>3, <1>5, <2>4 DEF BufferIsTyped
      <4>2. lastAckPos + 0 = lastAckPos
        BY <1>3, <4>1, SlotFacts
      <4> QED BY <1>3, <2>1, <4>1, <4>2, SlotFacts
    <3>2. PICK b : b = Buffer /\ Buffer' = b
      BY <2>1 DEF Buffer
    <3>3. Acked(Buffer)' = Acked(Buffer) /\ \A i : At(Buffer, i)' = At(Buffer, i)
          /\ (Fresh(Buffer, i)' <=> Fresh(Buffer, i))
      BY <1>1, <3>1, <3>2, SeenThrough
    <3> QED BY <1>1, <1>3, <1>5, <2>4, <3>3, NothingReadyStays
  <2> QED BY <2>2, <2>3, <2>4
<1> QED BY <1>6, <1>7, <1>8, <1>9, <1>10, <1>11, StepsAre

\* Without a timeout, whoever sleeps in recvmsg has not missed a message that is acknowledged
\* and whole, whatever else came, was given up or acknowledged meanwhile: the one signal is
\* enough.
THEOREM NoMessageIsMissed == MsgSpec => []NoMessageMissed
<1>1. ReaderInv /\ [MsgNext]_msgVars => ReaderInv'
  BY ReaderStep
<1>2. ReaderInv => NoMessageMissed
  BY DEF ReaderInv
<1> QED BY ReaderInit, <1>1, <1>2, PTL DEF MsgSpec

\* A call with a timeout that comes back with nothing has looked once more: there is no
\* message that it could have returned.
THEOREM TimeoutsTellTheTruth == MsgSpec => TimeoutTellsTheTruth
<1>1. ReaderInv /\ [MsgNext]_msgVars => ReaderInv'
  BY ReaderStep
<1>2. ReaderInv /\ [MsgNext]_msgVars =>
        [reader = "asleep" /\ reader' = "idle" /\ got' = got =>
           \A i \in Ends(Buffer)' : i >= Acked(Buffer)']_msgVars
  BY ReaderStep DEF NothingReady
<1> QED BY ReaderInit, <1>1, <1>2, PTL DEF MsgSpec, TimeoutTellsTheTruth

(***************************************************************************)
(* What the buffer holds as long as no message is given up                 *)
(***************************************************************************)
\* Slots are counted from where the buffer starts.
LEMMA SlotAt ==
  ASSUME conn \in MessageSetups, NEW b, NEW n \in Nat, b.start = n % RcvBufSize, NEW i \in Nat
  PROVE  Slot(b.start + i) = (n + i) % RcvBufSize
<1>1. PICK r \in Nat \ {0} : r = RcvBufSize
  BY SetupIsSane
<1>2. ((n % r) + i) % r = (n + i) % r
  BY <1>1, SlotSum
<1> QED BY <1>1, <1>2 DEF Slot

\* Two packets of one buffer are not in the same slot.
LEMMA OneSlotEach ==
  ASSUME conn \in MessageSetups, NEW n \in Nat, NEW j \in n..(n + RcvBufSize - 1),
         NEW k \in n..(n + RcvBufSize - 1), j % RcvBufSize = k % RcvBufSize
  PROVE  j = k
<1>1. PICK r \in Nat \ {0} : r = RcvBufSize
  BY SetupIsSane
<1>2. /\ j \in Nat /\ k \in Nat /\ (j <= k \/ k <= j)
      /\ j < k + r /\ k < j + r /\ j % r = k % r
  BY <1>1
<1>3. ASSUME j <= k PROVE j = k
  BY <1>1, <1>2, <1>3, SlotsDiffer
<1>4. ASSUME k <= j PROVE j = k
  BY <1>1, <1>2, <1>4, SlotsDiffer
<1> QED BY <1>2, <1>3, <1>4

\* The slots of the packets of a buffer.
LEMMA SlotOfPacket ==
  ASSUME conn \in MessageSetups, NEW k \in Nat
  PROVE  k % RcvBufSize \in Slots /\ (k + RcvBufSize) % RcvBufSize = k % RcvBufSize
<1>1. PICK r \in Nat \ {0} : r = RcvBufSize
  BY SetupIsSane
<1>2. k % r \in 0..(r - 1) /\ (k + r) % r = k % r
  BY <1>1, RemainderIsSlot, SlotRepeats
<1> QED BY <1>1, <1>2 DEF Slots

\* What the slots of a buffer hold, counted from its start.
LEMMA HeldIs ==
  ASSUME conn \in MessageSetups, NEW rl \in Nat, NEW rc \in Int, lastAckPos = rl % RcvBufSize,
         NEW b, NEW n, NEW read, Holds(b, n, rc, rl, read)
  PROVE  /\ n \in Nat /\ n <= rl /\ Acked(b) = rl - n /\ Acked(b) \in Nat
         /\ \A i \in 0..(RcvBufSize - 1) :
              /\ At(b, i) = b.unit[(n + i) % RcvBufSize]
              /\ At(b, i) \in {0, n + i + 1}
              /\ n + i < rl => At(b, i) = n + i + 1
              /\ At(b, i) # 0 => n + i + 1 \in 1..Packets /\ n + i <= rc
              /\ Fresh(b, i) <=> At(b, i) # 0 /\ MsgOf(n + i + 1) \notin read
<1>1. PICK r \in Nat \ {0} : r = RcvBufSize
  BY SetupIsSane
<1>2. /\ n \in 0..rl /\ rl <= rc + 1 /\ rc + 1 < n + r /\ rc < Packets /\ b.start = n % r
      /\ \A k \in n..(n + r - 1) :
           /\ b.unit[k % r] \in {0, k + 1}
           /\ k < rl => b.unit[k % r] # 0
           /\ k > rc => b.unit[k % r] = 0
           /\ b.unit[k % r] # 0 => b.flag[k % r] = IF MsgOf(k + 1) \in read THEN 2 ELSE 1
  BY <1>1 DEF Holds
<1>3. n \in Nat /\ n <= rl /\ Packets \in Nat
  BY <1>2, PacketsAreFew
<1>4. Acked(b) = rl - n
  <2>1. PICK s \in 0..(r - 1), l \in 0..(r - 1) : s = n % r /\ l = rl % r
    BY <1>1, <1>3, RemainderIsSlot
  <2>2. (IF l >= s THEN l - s ELSE r + l - s) = rl - n
    <3>1. n <= rl /\ rl < n + r
      BY <1>1, <1>2, <1>3
    <3> QED BY <1>1, <1>3, <2>1, <3>1, SlotDistance
  <2>3. PICK x \in Nat : x = l - s + r /\ x < r + r
    BY <1>1, <2>1
  <2>4. x % r = IF x < r THEN x ELSE x - r
    BY <1>1, <2>3, Folded
  <2>5. x % r = rl - n
    BY <1>1, <2>1, <2>2, <2>3, <2>4
  <2>6. Acked(b) = x % r
    BY <1>1, <1>2, <2>1, <2>3 DEF Acked, Slot
  <2> QED BY <2>5, <2>6
<1>5. ASSUME NEW i \in 0..(r - 1)
      PROVE  /\ At(b, i) = b.unit[(n + i) % r]
             /\ At(b, i) \in {0, n + i + 1}
             /\ n + i < rl => At(b, i) = n + i + 1
             /\ At(b, i) # 0 => n + i + 1 \in 1..Packets /\ n + i <= rc
             /\ Fresh(b, i) <=> At(b, i) # 0 /\ MsgOf(n + i + 1) \notin read
  <2>1. Slot(b.start + i) = (n + i) % r
    <3>1. i \in Nat
      BY <1>5
    <3> QED BY <1>1, <1>2, <1>3, <3>1, SlotAt
  <2>2. PICK k \in n..(n + r - 1) : k = n + i
    BY <1>1, <1>3
  <2>3. /\ At(b, i) \in {0, k + 1}
        /\ k < rl => At(b, i) # 0
        /\ k > rc => At(b, i) = 0
        /\ At(b, i) # 0 => b.flag[k % r] = IF MsgOf(k + 1) \in read THEN 2 ELSE 1
    BY <1>2, <2>1, <2>2 DEF At
  <2>4. Fresh(b, i) <=> At(b, i) # 0 /\ b.flag[k % r] = 1
    BY <2>1, <2>2 DEF Fresh
  <2>5. At(b, i) # 0 => k + 1 \in 1..Packets /\ k <= rc
    BY <1>1, <1>2, <1>3, <2>2, <2>3
  <2> QED BY <2>1, <2>2, <2>3, <2>4, <2>5 DEF At
<1> QED BY <1>1, <1>3, <1>4, <1>5

\* What is not acknowledged is left as it was.
RestStays(e, b, rc, rl) == \A k \in rl..rc : e.unit[k % RcvBufSize] = b.unit[k % RcvBufSize]

\* Packets of read messages may be taken out from the start.
LEMMA EmptiedHolds ==
  ASSUME conn \in MessageSetups, NEW rl \in Nat, NEW rc \in Int, NEW b, NEW n, NEW read,
         Holds(b, n, rc, rl, read), NEW j \in 0..(rl - n), NEW read2,
         read \subseteq read2, read2 \subseteq Messages,
         \A m \in read2 : m \in read \/ (LastOf(m) <= n + j),
         \A d \in (n + 1)..(n + j) : MsgOf(d) \in read2
  PROVE  Holds(Emptied(b, j), n + j, rc, rl, read2) /\ RestStays(Emptied(b, j), b, rc, rl)
<1>1. PICK r \in Nat \ {0} : r = RcvBufSize
  BY SetupIsSane
<1>2. /\ n \in 0..rl /\ rl <= rc + 1 /\ rc + 1 < n + r /\ rc < Packets /\ b.start = n % r
      /\ b.unit \in [Slots -> Nat] /\ b.flag \in [Slots -> Nat]
      /\ \A k \in n..(n + r - 1) :
           /\ b.unit[k % r] \in {0, k + 1}
           /\ k < rl => b.unit[k % r] # 0
           /\ k > rc => b.unit[k % r] = 0
           /\ b.unit[k % r] # 0 => b.flag[k % r] = IF MsgOf(k + 1) \in read THEN 2 ELSE 1
      /\ \A m \in read : \A d \in Payloads(m) : d <= n \/ (d <= rc + 1 /\ b.unit[(d - 1) % r] # 0)
      /\ \A d \in 1..n : MsgOf(d) \in read
  BY <1>1 DEF Holds
<1>3. n \in Nat /\ j \in Nat /\ n + j \in Nat /\ n + j <= rl /\ Packets \in Nat
  BY <1>2, PacketsAreFew
<1> DEFINE e == Emptied(b, j)
           gone == {Slot(b.start + i) : i \in 0..(j - 1)}
<1>0. \A i \in Nat : Slot(b.start + i) = (n + i) % r
  <2>1. b.start = n % RcvBufSize
    BY <1>1, <1>2
  <2> QED BY <1>1, <1>3, <2>1, SlotAt
<1>4. /\ e.start = (n + j) % r
      /\ e.unit = [s \in Slots |-> IF s \in gone THEN 0 ELSE b.unit[s]]
      /\ e.flag = [s \in Slots |-> IF s \in gone THEN 0 ELSE b.flag[s]]
  <2>1. Slot(b.start + j) = (n + j) % r
    BY <1>0, <1>3
  <2>2. b.start \in Nat
    BY <1>1, <1>2, <1>3
  <2>3. b.start + (j - 1) + 1 = b.start + j
    BY <1>3, <2>2
  <2>4. e = TakenOut(b, 0, j - 1)
    BY DEF Emptied
  <2> HIDE DEF e
  <2> QED BY <2>1, <2>3, <2>4 DEF TakenOut
<1>5. \A s : s \in gone <=> \E i \in 0..(j - 1) : s = (n + i) % r
  <2>1. \A i \in 0..(j - 1) : Slot(b.start + i) = (n + i) % r
    BY <1>0
  <2> QED BY <2>1
<1> HIDE DEF e, gone
<1>6. e.unit \in [Slots -> Nat] /\ e.flag \in [Slots -> Nat]
  BY <1>2, <1>4
<1>7. ASSUME NEW k \in (n + j)..(n + r - 1)
      PROVE  e.unit[k % r] = b.unit[k % r] /\ e.flag[k % r] = b.flag[k % r]
  <2>1. k % r \notin gone
    <3> SUFFICES ASSUME NEW i \in 0..(j - 1), k % r = (n + i) % r PROVE FALSE
      BY <1>5
    <3>1. k \in n..(n + r - 1) /\ n + i \in n..(n + r - 1) /\ k # n + i
      BY <1>1, <1>3
    <3> QED BY <1>1, <1>3, <3>1, OneSlotEach
  <2>2. k % r \in Slots
    <3>1. k \in Nat
      BY <1>3
    <3> QED BY <1>1, <3>1, SlotOfPacket
  <2> QED BY <1>4, <2>1, <2>2
<1>8. ASSUME NEW k \in (n + r)..(n + j + r - 1)
      PROVE  e.unit[k % r] = 0
  <2>1. PICK i \in 0..(j - 1) : k = n + i + r
    <3>1. k - r - n \in 0..(j - 1) /\ k = n + (k - r - n) + r
      BY <1>1, <1>3
    <3> QED BY <3>1
  <2>2. n + i \in Nat
    BY <1>3
  <2>3. k % r = (n + i) % r /\ k % r \in Slots
    BY <1>1, <2>1, <2>2, SlotOfPacket
  <2> QED BY <1>4, <1>5, <2>3
<1>9. ASSUME NEW k \in (n + j)..(n + j + r - 1)
      PROVE  /\ e.unit[k % r] \in {0, k + 1}
             /\ k < rl => e.unit[k % r] # 0
             /\ k > rc => e.unit[k % r] = 0
             /\ e.unit[k % r] # 0 => e.flag[k % r] = IF MsgOf(k + 1) \in read2 THEN 2 ELSE 1
  <2>1. CASE k < n + r
    <3>1. k \in (n + j)..(n + r - 1) /\ k \in n..(n + r - 1) /\ k \in Nat
      BY <1>1, <1>3, <2>1
    <3>2. e.unit[k % r] = b.unit[k % r] /\ e.flag[k % r] = b.flag[k % r]
      BY <1>7, <3>1
    <3>3. /\ b.unit[k % r] \in {0, k + 1}
          /\ k < rl => b.unit[k % r] # 0
          /\ k > rc => b.unit[k % r] = 0
          /\ b.unit[k % r] # 0 => b.flag[k % r] = IF MsgOf(k + 1) \in read THEN 2 ELSE 1
      BY <1>2, <3>1
    <3>4. b.unit[k % r] # 0 => (MsgOf(k + 1) \in read <=> MsgOf(k + 1) \in read2)
      <4> SUFFICES ASSUME b.unit[k % r] # 0, MsgOf(k + 1) \in read2, MsgOf(k + 1) \notin read PROVE FALSE
        OBVIOUS
      <4>1. k + 1 \in 1..Packets
        BY <1>2, <1>3, <3>1, <3>3
      <4>2. k + 1 <= LastOf(MsgOf(k + 1)) /\ LastOf(MsgOf(k + 1)) \in Nat
        BY <4>1, PacketsHaveMessages, SetupIsSane
      <4>3. LastOf(MsgOf(k + 1)) <= n + j
        OBVIOUS
      <4> QED BY <1>3, <4>2, <4>3
    <3> QED BY <3>2, <3>3, <3>4
  <2>2. CASE ~(k < n + r)
    <3>1. k \in (n + r)..(n + j + r - 1) /\ ~(k < rl)
      BY <1>1, <1>2, <1>3, <2>2
    <3> QED BY <1>8, <3>1
  <2> QED BY <2>1, <2>2
<1>10. ASSUME NEW m \in read2, NEW d \in Payloads(m)
       PROVE  d <= n + j \/ (d <= rc + 1 /\ e.unit[(d - 1) % r] # 0)
  <2>1. m \in Messages /\ FirstOf(m) \in Nat /\ LastOf(m) \in Nat /\ d \in FirstOf(m)..LastOf(m)
    BY SetupIsSane DEF Payloads, FirstOf, LastOf
  <2>2. CASE m \notin read
    BY <1>3, <2>1, <2>2
  <2>3. CASE m \in read
    <3>1. d <= n \/ (d <= rc + 1 /\ b.unit[(d - 1) % r] # 0)
      BY <1>2, <2>3
    <3>2. CASE d - 1 >= n + j /\ d <= rc + 1
      <4>1. d - 1 \in (n + j)..(n + r - 1) /\ ~(d <= n)
        BY <1>1, <1>2, <1>3, <2>1, <3>2
      <4> QED BY <1>7, <3>1, <3>2, <4>1
    <3> QED BY <1>3, <2>1, <3>1, <3>2
  <2> QED BY <2>2, <2>3
<1>11. \A d \in 1..(n + j) : MsgOf(d) \in read2
  <2> SUFFICES ASSUME NEW d \in 1..(n + j) PROVE MsgOf(d) \in read2
    OBVIOUS
  <2>1. d \in 1..n \/ d \in (n + 1)..(n + j)
    BY <1>3
  <2> QED BY <1>2, <2>1
<1>12. n + j \in 0..rl /\ rc + 1 < (n + j) + r
  BY <1>1, <1>2, <1>3
<1>13. Holds(Emptied(b, j), n + j, rc, rl, read2)
  BY <1>1, <1>2, <1>4, <1>6, <1>9, <1>10, <1>11, <1>12 DEF Holds, e
<1>14. RestStays(Emptied(b, j), b, rc, rl)
  <2>1. \A k \in rl..rc : k \in (n + j)..(n + r - 1)
    BY <1>1, <1>2, <1>3
  <2> QED BY <1>1, <1>7, <2>1 DEF RestStays, e
<1> QED BY <1>13, <1>14

\* The message of a packet that is not read yet starts in the buffer.
LEMMA UnreadStarts ==
  ASSUME conn \in MessageSetups, NEW rl \in Nat, NEW rc \in Int, NEW b, NEW n \in Nat, NEW read,
         Holds(b, n, rc, rl, read), NEW e \in 1..Packets, MsgOf(e) \notin read
  PROVE  /\ MsgOf(e) \in Messages /\ FirstOf(MsgOf(e)) \in (n + 1)..e
         /\ LastOf(MsgOf(e)) \in e..Packets /\ Packets \in Nat
         /\ \A d \in FirstOf(MsgOf(e))..LastOf(MsgOf(e)) : d \in Nat /\ MsgOf(d) = MsgOf(e)
<1>1. PICK m \in Messages : m = MsgOf(e) /\ FirstOf(m) <= e /\ e <= LastOf(m)
  BY PacketsHaveMessages
<1>2. FirstOf(m) \in Nat /\ LastOf(m) \in Nat /\ FirstOf(m) >= 1 /\ LastOf(m) <= Packets /\ Packets \in Nat
      /\ FirstOf(m) <= LastOf(m)
  BY SetupIsSane, PacketsAreFew
<1>3. \A d \in FirstOf(m)..LastOf(m) : d \in Nat /\ MsgOf(d) = m
  <2>1. \A d \in FirstOf(m)..LastOf(m) : MsgOf(d) = m
    BY MessageOf
  <2> QED BY <1>2, <2>1
<1>4. \A d \in 1..n : MsgOf(d) \in read
  BY DEF Holds
<1>5. FirstOf(m) > n
  <2> SUFFICES ASSUME FirstOf(m) <= n PROVE FALSE
    BY <1>2
  <2>1. FirstOf(m) \in 1..n /\ FirstOf(m) \in FirstOf(m)..LastOf(m)
    BY <1>2
  <2> QED BY <1>1, <1>3, <1>4, <2>1
<1> QED BY <1>1, <1>2, <1>3, <1>5

\* What scanMsg throws away was read; it stops where nothing is acknowledged, or at the first
\* packet of a message not read.
LEMMA CleanedHolds ==
  ASSUME conn \in MessageSetups, NEW rl \in Nat, NEW rc \in Int, lastAckPos = rl % RcvBufSize,
         lastAckPos \in Slots, NEW b \in Buffers, NEW n, NEW read \in SUBSET Messages,
         Holds(b, n, rc, rl, read)
  PROVE  \E n2 \in n..rl :
           /\ Holds(Cleaned(b), n2, rc, rl, read) /\ RestStays(Cleaned(b), b, rc, rl)
           /\ n2 = rl \/ (n2 + 1 \in 1..Packets /\ MsgOf(n2 + 1) \notin read /\ IsFirst(n2 + 1))
<1>1. PICK r \in Nat \ {0} : r = RcvBufSize
  BY SetupIsSane
<1>2. /\ n \in Nat /\ n <= rl /\ Acked(b) = rl - n
      /\ \A i \in 0..(r - 1) :
              /\ n + i < rl => At(b, i) = n + i + 1
              /\ At(b, i) # 0 => n + i + 1 \in 1..Packets /\ n + i <= rc
              /\ Fresh(b, i) <=> At(b, i) # 0 /\ MsgOf(n + i + 1) \notin read
  <2>1. /\ n \in Nat /\ n <= rl /\ Acked(b) = rl - n
        /\ \A i \in 0..(RcvBufSize - 1) :
              /\ n + i < rl => At(b, i) = n + i + 1
              /\ At(b, i) # 0 => n + i + 1 \in 1..Packets /\ n + i <= rc
              /\ Fresh(b, i) <=> At(b, i) # 0 /\ MsgOf(n + i + 1) \notin read
    BY HeldIs
  <2> QED BY <1>1, <2>1
<1>3. rl <= rc + 1 /\ rc + 1 < n + r
  BY <1>1 DEF Holds
<1>4. PICK k \in 0..(rl - n) :
           /\ Cleaned(b) = Emptied(b, k)
           /\ k = rl - n \/ IsGoodHead(b, k)
           /\ \A j \in 0..(k - 1) : ~IsGoodHead(b, j)
  BY <1>2, CleanedIs
<1>5. \A i \in 0..(rl - n - 1) : /\ At(b, i) = n + i + 1 /\ n + i + 1 \in 1..Packets /\ i \in Nat
                                 /\ Fresh(b, i) <=> MsgOf(n + i + 1) \notin read
  <2> SUFFICES ASSUME NEW i \in 0..(rl - n - 1)
               PROVE  /\ At(b, i) = n + i + 1 /\ n + i + 1 \in 1..Packets /\ i \in Nat
                      /\ Fresh(b, i) <=> MsgOf(n + i + 1) \notin read
    OBVIOUS
  <2>1. i \in 0..(r - 1) /\ n + i < rl /\ n + i + 1 # 0
    BY <1>1, <1>2, <1>3
  <2>2. At(b, i) = n + i + 1 /\ At(b, i) # 0
    BY <1>2, <2>1
  <2>3. n + i + 1 \in 1..Packets /\ i \in Nat
    BY <1>2, <2>1, <2>2
  <2>4. Fresh(b, i) <=> MsgOf(n + i + 1) \notin read
    BY <1>2, <2>1, <2>2
  <2> QED BY <2>2, <2>3, <2>4
<1>6. ASSUME NEW d \in (n + 1)..(n + k), MsgOf(d) \notin read PROVE FALSE
  <2>1. d - 1 - n \in 0..(rl - n - 1) /\ n + (d - 1 - n) + 1 = d
    BY <1>2, <1>4
  <2>2. d \in 1..Packets
    BY <1>5, <2>1
  <2>3. PICK m \in Messages : /\ m = MsgOf(d) /\ FirstOf(m) \in (n + 1)..d /\ LastOf(m) \in d..Packets
                              /\ \A x \in FirstOf(m)..LastOf(m) : x \in Nat /\ MsgOf(x) = m
    BY <1>2, <1>6, <2>2, UnreadStarts
  <2>4. PICK j \in 0..(k - 1) : n + j + 1 = FirstOf(m)
    <3>1. FirstOf(m) - 1 - n \in 0..(k - 1) /\ n + (FirstOf(m) - 1 - n) + 1 = FirstOf(m)
      BY <1>2, <1>4, <2>3
    <3> QED BY <3>1
  <2>5. j \in 0..(rl - n - 1) /\ FirstOf(m) \in FirstOf(m)..LastOf(m)
    BY <1>2, <1>4, <2>3, <2>4
  <2>6. Fresh(b, j) /\ IsFirst(At(b, j))
    BY <1>5, <1>6, <2>3, <2>4, <2>5 DEF IsFirst, FirstOf
  <2>7. ASSUME NEW y \in j..(Acked(b) - 1), \A i \in j..(y - 1) : Fresh(b, i) /\ ~IsLast(At(b, i))
        PROVE  Fresh(b, y)
    <3>1. y \in 0..(rl - n - 1)
      BY <1>2, <2>4
    <3>2. n + y + 1 <= LastOf(m)
      <4> SUFFICES ASSUME LastOf(m) < n + y + 1 PROVE FALSE
        BY <1>2, <2>3, <3>1
      <4>1. PICK i \in j..(y - 1) : n + i + 1 = LastOf(m)
        <5>1. LastOf(m) - 1 - n \in j..(y - 1) /\ n + (LastOf(m) - 1 - n) + 1 = LastOf(m)
          BY <1>2, <2>3, <2>4, <3>1
        <5> QED BY <5>1
      <4>2. i \in 0..(rl - n - 1) /\ LastOf(m) \in FirstOf(m)..LastOf(m)
        <5>1. FirstOf(m) \in Int /\ LastOf(m) \in Int /\ FirstOf(m) <= LastOf(m)
          BY <1>2, <2>3
        <5> QED BY <1>2, <2>4, <3>1, <4>1, <5>1
      <4>3. IsLast(At(b, i))
        BY <1>5, <2>3, <4>1, <4>2 DEF IsLast, LastOf
      <4> QED BY <2>7, <4>3
    <3>3. n + y + 1 \in FirstOf(m)..LastOf(m)
      BY <1>2, <2>3, <2>4, <3>1, <3>2
    <3> QED BY <1>5, <1>6, <2>3, <3>1, <3>3
  <2>8. IsGoodHead(b, j)
    BY <2>6, <2>7 DEF IsGoodHead
  <2> QED BY <1>4, <2>8
<1>7. Holds(Emptied(b, k), n + k, rc, rl, read) /\ RestStays(Emptied(b, k), b, rc, rl)
  <2>1. \A d \in (n + 1)..(n + k) : MsgOf(d) \in read
    BY <1>6
  <2> QED BY <1>4, <2>1, EmptiedHolds
<1>8. n + k \in n..rl
  BY <1>2, <1>4
<1>9. n + k = rl \/ (n + k + 1 \in 1..Packets /\ MsgOf(n + k + 1) \notin read /\ IsFirst(n + k + 1))
  <2> SUFFICES ASSUME n + k # rl
               PROVE  n + k + 1 \in 1..Packets /\ MsgOf(n + k + 1) \notin read /\ IsFirst(n + k + 1)
    OBVIOUS
  <2>1. k \in 0..(rl - n - 1) /\ k # rl - n
    BY <1>2, <1>4
  <2>2. Fresh(b, k) /\ IsFirst(At(b, k))
    BY <1>4, <2>1 DEF IsGoodHead
  <2> QED BY <1>5, <2>1, <2>2
<1> QED BY <1>4, <1>7, <1>8, <1>9

\* Where a message ends there is a message not read, all of it in the buffer.
LEMMA EndsAre ==
  ASSUME conn \in MessageSetups, NEW rl \in Nat, NEW rc \in Int, lastAckPos = rl % RcvBufSize,
         NEW b, NEW n, NEW read, Holds(b, n, rc, rl, read), maxPos \in Nat,
         maxPos + (rl - n) < RcvBufSize, NEW q \in Ends(b), NEW h \in Heads(b, q)
  PROVE  \E m \in Messages :
           /\ m \notin read /\ FirstOf(m) = n + h + 1 /\ LastOf(m) = n + q + 1
           /\ q \in 0..(RcvBufSize - 1) /\ h \in 0..q /\ n + q <= rc
           /\ \A i \in h..q : At(b, i) = n + i + 1
           /\ q < Acked(b) \/ ~conn.msgs[m].order
<1>1. PICK r \in Nat \ {0} : r = RcvBufSize
  BY SetupIsSane
<1>2. /\ n \in Nat /\ n <= rl /\ Acked(b) = rl - n
      /\ \A i \in 0..(RcvBufSize - 1) :
           /\ At(b, i) \in {0, n + i + 1}
           /\ At(b, i) # 0 => n + i + 1 \in 1..Packets /\ n + i <= rc
           /\ Fresh(b, i) <=> At(b, i) # 0 /\ MsgOf(n + i + 1) \notin read
  BY HeldIs
<1>3. /\ q \in 0..(maxPos + Acked(b)) /\ Fresh(b, q) /\ IsLast(At(b, q))
      /\ q < Acked(b) \/ ~IsOrdered(At(b, q))
  BY DEF Ends
<1>4. /\ h \in 0..q /\ \A j \in h..q : Fresh(b, j)
      /\ IsFirst(At(b, h)) /\ \A j \in (h + 1)..q : ~IsFirst(At(b, j))
  BY DEF Heads
<1>5. q \in 0..(r - 1) /\ q \in Nat /\ h \in Nat
  BY <1>1, <1>2, <1>3, <1>4
<1>6. \A i \in h..q : /\ At(b, i) = n + i + 1 /\ n + i + 1 \in 1..Packets /\ n + i <= rc
                      /\ MsgOf(n + i + 1) \notin read
  <2> SUFFICES ASSUME NEW i \in h..q
               PROVE  /\ At(b, i) = n + i + 1 /\ n + i + 1 \in 1..Packets /\ n + i <= rc
                      /\ MsgOf(n + i + 1) \notin read
    OBVIOUS
  <2>1. i \in 0..(RcvBufSize - 1) /\ Fresh(b, i)
    BY <1>1, <1>4, <1>5
  <2> QED BY <1>2, <2>1
<1>7. q \in h..q /\ h \in h..q
  BY <1>4, <1>5
<1>8. PICK m \in Messages : /\ m = MsgOf(n + q + 1) /\ m \notin read
                            /\ FirstOf(m) \in (n + 1)..(n + q + 1) /\ LastOf(m) \in (n + q + 1)..Packets
                            /\ \A x \in FirstOf(m)..LastOf(m) : x \in Nat /\ MsgOf(x) = m
  BY <1>2, <1>6, <1>7, UnreadStarts
<1>9. LastOf(m) = n + q + 1
  BY <1>3, <1>6, <1>7, <1>8 DEF IsLast, LastOf
<1>10. ~(FirstOf(m) > n + h + 1)
  <2> SUFFICES ASSUME FirstOf(m) > n + h + 1 PROVE FALSE
    OBVIOUS
  <2>1. PICK i \in (h + 1)..q : n + i + 1 = FirstOf(m)
    <3>1. FirstOf(m) - n - 1 \in (h + 1)..q /\ n + (FirstOf(m) - n - 1) + 1 = FirstOf(m)
      BY <1>2, <1>4, <1>5, <1>8
    <3> QED BY <3>1
  <2>2. i \in h..q /\ FirstOf(m) \in FirstOf(m)..LastOf(m)
    BY <1>2, <1>4, <1>5, <1>8, <2>1
  <2>3. IsFirst(At(b, i))
    BY <1>6, <1>8, <2>1, <2>2 DEF IsFirst, FirstOf
  <2> QED BY <1>4, <2>3
<1>11. n + h + 1 = FirstOf(m)
  <2>1. n + h + 1 \in FirstOf(m)..LastOf(m)
    BY <1>2, <1>4, <1>5, <1>8, <1>10
  <2> QED BY <1>4, <1>6, <1>7, <1>8, <2>1 DEF IsFirst, FirstOf
<1>12. q < Acked(b) \/ ~conn.msgs[m].order
  BY <1>3, <1>6, <1>7, <1>8 DEF IsOrdered
<1> QED BY <1>1, <1>4, <1>5, <1>6, <1>7, <1>8, <1>9, <1>11, <1>12

\* A message not read that is acknowledged ends somewhere.
LEMMA EndsHave ==
  ASSUME conn \in MessageSetups, NEW rl \in Nat, NEW rc \in Int, lastAckPos = rl % RcvBufSize,
         NEW b, NEW n, NEW read, Holds(b, n, rc, rl, read), maxPos \in Nat,
         NEW m \in Messages, m \notin read, LastOf(m) <= rl
  PROVE  LastOf(m) - 1 - n \in Ends(b) /\ LastOf(m) > n
<1>1. PICK r \in Nat \ {0} : r = RcvBufSize
  BY SetupIsSane
<1>2. /\ n \in Nat /\ n <= rl /\ Acked(b) = rl - n
      /\ \A i \in 0..(RcvBufSize - 1) :
           /\ n + i < rl => At(b, i) = n + i + 1
           /\ Fresh(b, i) <=> At(b, i) # 0 /\ MsgOf(n + i + 1) \notin read
  BY HeldIs
<1>3. rl < n + r
  BY <1>1, <1>2 DEF Holds
<1>4. /\ FirstOf(m) \in (n + 1)..LastOf(m) /\ LastOf(m) \in Nat
      /\ \A d \in FirstOf(m)..LastOf(m) : d \in Nat /\ MsgOf(d) = m
  <2>1. FirstOf(m) \in Nat /\ LastOf(m) \in Nat /\ FirstOf(m) <= LastOf(m) /\ FirstOf(m) >= 1
        /\ LastOf(m) <= Packets /\ Packets \in Nat
    BY SetupIsSane, PacketsAreFew
  <2>2. LastOf(m) \in 1..Packets /\ LastOf(m) \in FirstOf(m)..LastOf(m)
    BY <2>1
  <2>3. MsgOf(LastOf(m)) = m
    BY <2>2, MessageOf
  <2> QED BY <1>2, <2>1, <2>2, <2>3, UnreadStarts
<1>5. PICK q \in Nat, h \in Nat : h <= q /\ n + q + 1 = LastOf(m) /\ n + h + 1 = FirstOf(m)
  <2>1. /\ LastOf(m) - 1 - n \in Nat /\ FirstOf(m) - 1 - n \in Nat
        /\ FirstOf(m) - 1 - n <= LastOf(m) - 1 - n
        /\ n + (LastOf(m) - 1 - n) + 1 = LastOf(m) /\ n + (FirstOf(m) - 1 - n) + 1 = FirstOf(m)
    BY <1>2, <1>4
  <2> QED BY <2>1
<1>6. \A i \in h..q : /\ At(b, i) = n + i + 1 /\ Fresh(b, i) /\ n + i + 1 \in FirstOf(m)..LastOf(m)
                      /\ MsgOf(n + i + 1) = m
  <2> SUFFICES ASSUME NEW i \in h..q
               PROVE  /\ At(b, i) = n + i + 1 /\ Fresh(b, i)
                      /\ n + i + 1 \in FirstOf(m)..LastOf(m) /\ MsgOf(n + i + 1) = m
    OBVIOUS
  <2>1. n + i + 1 \in FirstOf(m)..LastOf(m) /\ n + i < rl /\ n + i + 1 # 0 /\ i \in 0..(RcvBufSize - 1)
    BY <1>1, <1>2, <1>3, <1>4, <1>5
  <2>2. MsgOf(n + i + 1) = m
    BY <1>4, <2>1
  <2>3. At(b, i) = n + i + 1
    BY <1>2, <2>1
  <2> QED BY <1>2, <2>1, <2>2, <2>3
<1>7. q \in h..q /\ h \in h..q /\ \A i \in (h + 1)..q : i \in h..q /\ n + i + 1 # n + h + 1
  BY <1>2, <1>5
<1>8. IsLast(At(b, q)) /\ IsFirst(At(b, h))
  BY <1>5, <1>6, <1>7 DEF IsLast, IsFirst, LastOf, FirstOf
<1>9. \A i \in (h + 1)..q : ~IsFirst(At(b, i))
  BY <1>5, <1>6, <1>7 DEF IsFirst, FirstOf
<1>10. h \in Heads(b, q)
  BY <1>5, <1>6, <1>8, <1>9 DEF Heads
<1>11. q < Acked(b) /\ q \in 0..(maxPos + Acked(b))
  BY <1>2, <1>5
<1>12. q \in Ends(b)
  BY <1>6, <1>7, <1>8, <1>10, <1>11 DEF Ends
<1>13. LastOf(m) - 1 - n = q /\ LastOf(m) > n
  BY <1>2, <1>5
<1> QED BY <1>12, <1>13

\* Message m is in b from h to q.
InPlace(b, n, rc, m, h, q) ==
  /\ FirstOf(m) = n + h + 1 /\ LastOf(m) = n + q + 1 /\ n + q <= rc
  /\ \A i \in h..q : At(b, i) = n + i + 1

\* Buffer e is b with the packets from h to q marked as read.
MarkedFrom(e, b, h, q) ==
  /\ e.start = b.start /\ e.unit = b.unit /\ e.flag \in [Slots -> Nat]
  /\ \A s \in Slots : e.flag[s] = IF \E i \in h..q : s = Slot(b.start + i) THEN 2 ELSE b.flag[s]

\* A message that is read before it is acknowledged is marked.
LEMMA MarkedHolds ==
  ASSUME conn \in MessageSetups, NEW rl \in Nat, NEW rc \in Int, NEW b, NEW n \in Nat, NEW read,
         Holds(b, n, rc, rl, read), NEW m \in Messages, NEW h \in Nat, NEW q \in Nat,
         InPlace(b, n, rc, m, h, q), NEW e, MarkedFrom(e, b, h, q)
  PROVE  Holds(e, n, rc, rl, read \union {m})
<1>0. /\ FirstOf(m) = n + h + 1 /\ LastOf(m) = n + q + 1 /\ n + q <= rc
      /\ \A i \in h..q : At(b, i) = n + i + 1
      /\ e.start = b.start /\ e.unit = b.unit /\ e.flag \in [Slots -> Nat]
      /\ \A s \in Slots : e.flag[s] = IF \E i \in h..q : s = Slot(b.start + i) THEN 2 ELSE b.flag[s]
  BY DEF InPlace, MarkedFrom
<1>1. PICK r \in Nat \ {0} : r = RcvBufSize
  BY SetupIsSane
<1>2. /\ n \in 0..rl /\ rl <= rc + 1 /\ rc + 1 < n + r /\ rc < Packets /\ b.start = n % r
      /\ b.start = n % RcvBufSize
      /\ b.unit \in [Slots -> Nat] /\ b.flag \in [Slots -> Nat]
      /\ \A k \in n..(n + r - 1) :
           /\ b.unit[k % r] \in {0, k + 1}
           /\ k < rl => b.unit[k % r] # 0
           /\ k > rc => b.unit[k % r] = 0
           /\ b.unit[k % r] # 0 => b.flag[k % r] = IF MsgOf(k + 1) \in read THEN 2 ELSE 1
      /\ \A x \in read : \A d \in Payloads(x) : d <= n \/ (d <= rc + 1 /\ b.unit[(d - 1) % r] # 0)
      /\ \A d \in 1..n : MsgOf(d) \in read
  BY <1>1 DEF Holds
<1>3. \A i \in Nat : Slot(b.start + i) = (n + i) % r
  <2>1. b.start = n % RcvBufSize
    BY <1>2
  <2> QED BY <1>1, <2>1, SlotAt
<1>4. Packets \in Nat
  BY PacketsAreFew
<1>6. ASSUME NEW k \in n..(n + r - 1), b.unit[k % r] # 0
      PROVE  e.flag[k % r] = IF MsgOf(k + 1) \in read \union {m} THEN 2 ELSE 1
  <2>1. k \in Nat /\ k % r \in Slots
    <3>1. k \in Nat
      BY <1>1
    <3> QED BY <1>1, <3>1, SlotOfPacket
  <2>2. b.flag[k % r] = (IF MsgOf(k + 1) \in read THEN 2 ELSE 1) /\ k + 1 \in 1..Packets
    <3>1. b.flag[k % r] = (IF MsgOf(k + 1) \in read THEN 2 ELSE 1) /\ ~(k > rc)
      BY <1>2, <1>6
    <3> QED BY <1>2, <1>4, <2>1, <3>1
  <2>3. CASE k \in (n + h)..(n + q)
    <3>1. PICK i \in h..q : k = n + i
      <4>1. k - n \in h..q /\ k = n + (k - n)
        BY <2>1, <2>3
      <4> QED BY <4>1
    <3>2. k % r = Slot(b.start + i)
      BY <1>3, <3>1
    <3>3. e.flag[k % r] = 2
      BY <1>0, <2>1, <3>2
    <3>4. MsgOf(k + 1) = m
      <4>1. k + 1 \in FirstOf(m)..LastOf(m)
        BY <1>0, <2>1, <2>3
      <4> QED BY <4>1, MessageOf
    <3> QED BY <3>3, <3>4
  <2>4. CASE ~(k \in (n + h)..(n + q))
    <3>1. \A i \in h..q : k % r # Slot(b.start + i)
      <4> SUFFICES ASSUME NEW i \in h..q, k % r = Slot(b.start + i) PROVE FALSE
        OBVIOUS
      <4>1. i \in Nat /\ n + i \in n..(n + r - 1) /\ k # n + i
        BY <1>0, <1>1, <1>2, <2>1, <2>4
      <4>2. k % r = (n + i) % r
        BY <1>3, <4>1
      <4> QED BY <1>1, <4>1, <4>2, OneSlotEach
    <3>2. e.flag[k % r] = b.flag[k % r]
      BY <1>0, <2>1, <3>1
    <3>3. MsgOf(k + 1) # m
      <4> SUFFICES ASSUME MsgOf(k + 1) = m PROVE FALSE
        OBVIOUS
      <4>1. FirstOf(m) <= k + 1 /\ k + 1 <= LastOf(m)
        BY <2>2, PacketsHaveMessages
      <4> QED BY <1>0, <2>1, <2>4, <4>1
    <3> QED BY <2>2, <3>2, <3>3
  <2> QED BY <2>3, <2>4
<1>7. \A d \in Payloads(m) : d <= rc + 1 /\ b.unit[(d - 1) % r] # 0
  <2> SUFFICES ASSUME NEW d \in (n + h + 1)..(n + q + 1)
               PROVE  d <= rc + 1 /\ b.unit[(d - 1) % r] # 0
    BY <1>0 DEF Payloads, FirstOf, LastOf
  <2>1. PICK i \in h..q : d - 1 = n + i
    <3>1. d - 1 - n \in h..q /\ d - 1 = n + (d - 1 - n)
      OBVIOUS
    <3> QED BY <3>1
  <2>2. b.unit[(n + i) % r] = n + i + 1
    <3>1. i \in Nat /\ At(b, i) = n + i + 1
      BY <1>0
    <3> QED BY <1>3, <3>1 DEF At
  <2>3. n + i + 1 # 0 /\ d <= rc + 1
    BY <1>0, <2>1
  <2> QED BY <2>1, <2>2, <2>3
<1>8. \A x \in read \union {m} : \A d \in Payloads(x) :
        d <= n \/ (d <= rc + 1 /\ e.unit[(d - 1) % r] # 0)
  BY <1>0, <1>2, <1>7
<1> QED BY <1>0, <1>1, <1>2, <1>6, <1>8, ZenonT(60) DEF Holds

\* The message that scanMsg has found.
TextOf(t) == [i \in 1..(t.q - t.p + 1) |-> At(t.buf, t.p + i - 1)]

\* What is noted as received lies within the buffer.
NotedInside(rl, n) == maxPos \in Nat /\ maxPos + (rl - n) < RcvBufSize

\* Message m was found in b: it was not read before, it may be read now, and it is taken out.
FoundAs(t, b, rc, rl, read, m, n2) ==
  /\ m \notin read /\ (conn.msgs[m].order => \A k \in 1..(m - 1) : k \in read)
  /\ TextOf(t) = Whole(m)
  /\ AfterRead(t) \in Buffers /\ Holds(AfterRead(t), n2, rc, rl, read \union {m})
  /\ RestStays(AfterRead(t), b, rc, rl)

\* What recvmsg finds is a message not read yet, and the buffer is right afterwards.
LEMMA FoundIs ==
  ASSUME conn \in MessageSetups, NEW rl \in Nat, NEW rc \in Int, lastAckPos = rl % RcvBufSize,
         lastAckPos \in Slots, NEW b \in Buffers, NEW n, NEW read \in SUBSET Messages,
         Holds(b, n, rc, rl, read), NotedInside(rl, n),
         NEW t, t = ScanMsg(b), t.found = TRUE
  PROVE  \E m \in Messages, n2 \in n..rl : FoundAs(t, b, rc, rl, read, m, n2)
<1>0. maxPos \in Nat /\ maxPos + (rl - n) < RcvBufSize
  BY DEF NotedInside
<1>1. PICK c \in Buffers, n1 \in n..rl :
           /\ c = Cleaned(b) /\ Holds(c, n1, rc, rl, read) /\ RestStays(c, b, rc, rl)
           /\ n1 = rl \/ (n1 + 1 \in 1..Packets /\ MsgOf(n1 + 1) \notin read /\ IsFirst(n1 + 1))
  BY CleanedHolds, CleanedIs
<1>2. n \in Nat /\ n1 \in Nat /\ n <= n1 /\ n1 <= rl
  BY <1>1, HeldIs
<1>3. /\ t.buf = c /\ t.q \in Ends(c) /\ t.q \in Nat /\ \A i \in Ends(c) : t.q <= i
      /\ t.p \in Heads(c, t.q) /\ t.p \in 0..t.q
  BY <1>0, <1>1, ScanIs
<1>4. PICK q \in Nat, p \in Nat : q = t.q /\ p = t.p /\ p <= q
  BY <1>3
<1>5. PICK m \in Messages :
           /\ m \notin read /\ FirstOf(m) = n1 + p + 1 /\ LastOf(m) = n1 + q + 1
           /\ q \in 0..(RcvBufSize - 1) /\ n1 + q <= rc
           /\ \A i \in p..q : At(c, i) = n1 + i + 1
           /\ q < Acked(c) \/ ~conn.msgs[m].order
  <2>1. RcvBufSize \in Nat
    BY SetupIsSane
  <2>2. maxPos + (rl - n1) < RcvBufSize
    BY <1>0, <1>2, <2>1
  <2> QED BY <1>0, <1>1, <1>3, <1>4, <2>2, EndsAre
<1>6. TextOf(t) = Whole(m)
  <2>1. q - p + 1 = LastOf(m) - FirstOf(m) + 1
    BY <1>2, <1>4, <1>5
  <2>2. \A i \in 1..(q - p + 1) : At(c, p + i - 1) = FirstOf(m) + i - 1
    <3> SUFFICES ASSUME NEW i \in 1..(q - p + 1) PROVE At(c, p + i - 1) = FirstOf(m) + i - 1
      OBVIOUS
    <3>1. p + i - 1 \in p..q /\ n1 + (p + i - 1) + 1 = FirstOf(m) + i - 1
      BY <1>2, <1>4, <1>5
    <3> QED BY <1>5, <3>1
  <2> QED BY <1>3, <1>4, <2>1, <2>2 DEF Whole, TextOf
<1>7. AfterRead(t) \in Buffers
  BY <1>3, AfterReadIs
<1>8. Acked(c) = rl - n1
  BY <1>1, HeldIs
<1>9. CASE q < Acked(c)
  <2>1. q + 1 \in 0..(rl - n1) /\ n1 # rl /\ LastOf(m) <= rl
    BY <1>2, <1>5, <1>8, <1>9
  <2>2. PICK m1 \in Messages : m1 = MsgOf(n1 + 1) /\ m1 \notin read /\ FirstOf(m1) = n1 + 1
    <3>1. n1 + 1 \in 1..Packets /\ MsgOf(n1 + 1) \notin read /\ IsFirst(n1 + 1)
      BY <1>1, <2>1
    <3>2. MsgOf(n1 + 1) \in Messages
      BY <3>1, PacketsHaveMessages
    <3> QED BY <3>1, <3>2, SMTT(30) DEF IsFirst, FirstOf
  <2>3. m1 \in Nat /\ m \in Nat /\ LastOf(m1) \in Nat
    BY SetupIsSane, SMTT(60)
  <2>4. ~(m < m1)
    <3> SUFFICES ASSUME m < m1 PROVE FALSE
      OBVIOUS
    <3>1. LastOf(m) < FirstOf(m1)
      BY MessagesFollow
    <3> QED BY <1>2, <1>5, <2>2, <3>1
  <2>5. ~(m1 < m)
    <3> SUFFICES ASSUME m1 < m PROVE FALSE
      OBVIOUS
    <3>1. LastOf(m1) < FirstOf(m)
      BY MessagesFollow
    <3>2. LastOf(m1) <= rl
      BY <1>2, <1>4, <1>5, <2>1, <2>3, <3>1
    <3>3. LastOf(m1) - 1 - n1 \in Ends(c)
      BY <1>0, <1>1, <2>2, <3>2, EndsHave
    <3>4. q <= LastOf(m1) - 1 - n1
      BY <1>3, <1>4, <3>3
    <3> QED BY <1>2, <1>4, <1>5, <2>3, <3>1, <3>4
  <2>6. FirstOf(m) = n1 + 1
    BY <2>2, <2>3, <2>4, <2>5
  <2>7. \A d \in (n1 + 1)..(n1 + (q + 1)) : MsgOf(d) \in read \union {m}
    <3>1. \A d \in (n1 + 1)..(n1 + (q + 1)) : d \in FirstOf(m)..LastOf(m)
      BY <1>2, <1>5, <2>6
    <3> QED BY <3>1, MessageOf
  <2>8. Holds(Emptied(c, q + 1), n1 + (q + 1), rc, rl, read \union {m})
        /\ RestStays(Emptied(c, q + 1), c, rc, rl)
    <3>1. \A x \in read \union {m} : x \in read \/ LastOf(x) <= n1 + (q + 1)
      BY <1>2, <1>5
    <3>2. read \subseteq read \union {m} /\ read \union {m} \subseteq Messages
      OBVIOUS
    <3> QED BY <1>1, <2>1, <2>7, <3>1, <3>2, EmptiedHolds
  <2>9. AfterRead(t) = Emptied(c, q + 1)
    <3>1. p = 0 /\ (q + 1) - 1 = q
      BY <1>2, <1>4, <1>5, <2>6
    <3> QED BY <1>3, <1>4, <1>9, <3>1 DEF AfterRead, Emptied
  <2>10. \A k \in 1..(m - 1) : k \in read
    <3> SUFFICES ASSUME NEW k \in 1..(m - 1) PROVE k \in read
      OBVIOUS
    <3>1. k \in Messages /\ k < m
      <4>1. Messages = 1..Len(conn.msgs) /\ Len(conn.msgs) \in Nat
        BY SetupIsSane
      <4> QED BY <2>3, <4>1
    <3>2. /\ LastOf(k) < n1 + 1 /\ LastOf(k) \in Nat /\ FirstOf(k) \in Nat /\ FirstOf(k) >= 1
          /\ FirstOf(k) <= LastOf(k)
      BY <2>6, <3>1, MessagesFollow, SetupIsSane, PacketsAreFew
    <3>3. LastOf(k) \in 1..n1 /\ LastOf(k) \in FirstOf(k)..LastOf(k)
      BY <1>2, <3>2
    <3>4. MsgOf(LastOf(k)) = k
      BY <3>1, <3>3, MessageOf
    <3> QED BY <1>1, <3>3, <3>4 DEF Holds
  <2>11. n1 + (q + 1) \in n..rl
    BY <1>2, <2>1
  <2>12. RestStays(AfterRead(t), b, rc, rl)
    BY <1>1, <2>8, <2>9 DEF RestStays
  <2> QED BY <1>5, <1>6, <1>7, <2>8, <2>9, <2>10, <2>11, <2>12 DEF FoundAs
<1>10. CASE ~(q < Acked(c))
  <2> DEFINE f == [s \in Slots |-> IF \E i \in p..q : s = Slot(c.start + i) THEN 2 ELSE c.flag[s]]
  <2>1. AfterRead(t) = [c EXCEPT !.flag = f]
    BY <1>3, <1>4, <1>10 DEF AfterRead
  <2> HIDE DEF f
  <2>2. PICK e : e = AfterRead(t) /\ e.start = c.start /\ e.unit = c.unit /\ e.flag = f
    BY <2>1 DEF Buffers
  <2>3. Holds(e, n1, rc, rl, read \union {m})
    <3>1. \A s \in Slots : e.flag[s] = IF \E i \in p..q : s = Slot(c.start + i) THEN 2 ELSE c.flag[s]
      BY <2>2 DEF f
    <3>2. e.flag \in [Slots -> Nat]
      BY <1>7, <2>2 DEF Buffers
    <3>3. MarkedFrom(e, c, p, q)
      BY <2>2, <3>1, <3>2 DEF MarkedFrom
    <3>4. InPlace(c, n1, rc, m, p, q)
      BY <1>5 DEF InPlace
    <3> QED BY <1>1, <1>2, <3>3, <3>4, MarkedHolds
  <2>4. RestStays(e, b, rc, rl)
    BY <1>1, <2>2 DEF RestStays
  <2> QED BY <1>1, <1>5, <1>6, <1>7, <1>10, <2>2, <2>3, <2>4 DEF FoundAs
<1> QED BY <1>9, <1>10

\* One more message has been returned.
LEMMA OneMoreReturned ==
  ASSUME conn \in MessageSetups, conn' = conn, NEW g, Returned(g), NEW m \in Messages,
         m \notin ReadOf(g), conn.msgs[m].order => \A k \in 1..(m - 1) : k \in ReadOf(g),
         got' = Append(got, Whole(m))
  PROVE  \E h \in Seq(Messages) : Returned(h)' /\ ReadOf(h) = ReadOf(g) \union {m}
<1>1. /\ g \in Seq(Messages) /\ Once(g)
      /\ got = [i \in 1..Len(g) |-> Whole(g[i])]
      /\ \A i \in 1..Len(g) : conn.msgs[g[i]].order =>
           \A k \in 1..(g[i] - 1) : \E j \in 1..(i - 1) : g[j] = k
  BY DEF Returned
<1>2. PICK n \in Nat : n = Len(g)
  BY <1>1
<1>3. PICK h \in Seq(Messages) :
        /\ h = Append(g, m) /\ Len(h) = n + 1 /\ h[n + 1] = m /\ Once(h)
        /\ \A i \in 1..n : h[i] = g[i]
  <2>1. ~Contains(g, m)
    BY DEF ReadOf, Contains
  <2>2. /\ Append(g, m) \in Seq(Messages) /\ Len(Append(g, m)) = Len(g) + 1
        /\ \A i \in 1..Len(g) : Append(g, m)[i] = g[i]
        /\ Append(g, m)[Len(g) + 1] = m
    BY <1>1, AppendIs
  <2>3. Once(Append(g, m))
    BY <1>1, <2>1, AppendIs
  <2> QED BY <1>2, <2>2, <2>3
<1>4. ReadOf(h) = ReadOf(g) \union {m}
  <2>1. \A i \in 1..(n + 1) : i \in 1..n \/ i = n + 1
    OBVIOUS
  <2>2. \A i \in 1..n : i \in 1..(n + 1)
    OBVIOUS
  <2>3. n + 1 \in 1..(n + 1)
    OBVIOUS
  <2> QED BY <1>2, <1>3, <2>1, <2>2, <2>3 DEF ReadOf
<1>5. got' = [i \in 1..(n + 1) |-> Whole(h[i])]
  <2> DEFINE W == {Whole(k) : k \in Messages}
             f == [i \in 1..(n + 1) |-> Whole(h[i])]
  <2>1. \A i \in 1..n : g[i] \in Messages
    BY <1>1, <1>2
  <2>2. got = [i \in 1..n |-> Whole(g[i])] /\ \A i \in 1..n : Whole(g[i]) \in W
    BY <1>1, <1>2, <2>1
  <2>3. Whole(m) \in W
    OBVIOUS
  <2> HIDE DEF W
  <2>4. got \in Seq(W) /\ Len(got) = n /\ \A i \in 1..n : got[i] = Whole(g[i])
    BY <2>2
  <2>5. /\ got' \in Seq(W) /\ Len(got') = n + 1 /\ got'[n + 1] = Whole(m)
        /\ \A i \in 1..n : got'[i] = got[i]
    BY <2>3, <2>4, AppendIs
  <2>6. \A i \in 1..(n + 1) : got'[i] = f[i]
    <3> SUFFICES ASSUME NEW i \in 1..(n + 1) PROVE got'[i] = Whole(h[i])
      OBVIOUS
    <3>1. i \in 1..n \/ i = n + 1
      OBVIOUS
    <3> QED BY <1>3, <2>4, <2>5, <3>1
  <2>7. f = [i \in 1..(n + 1) |-> f[i]]
    OBVIOUS
  <2> HIDE DEF f
  <2>8. got' = [i \in 1..(n + 1) |-> f[i]]
    <3>1. PICK u : u = got' /\ u \in Seq(W) /\ Len(u) = n + 1
      BY <2>5
    <3>2. u \in [1..Len(u) -> W]
      BY <3>1, LenProperties
    <3>3. u \in [1..(n + 1) -> W]
      BY <3>1, <3>2
    <3>4. u = [i \in 1..(n + 1) |-> u[i]]
      BY <3>3
    <3> QED BY <2>6, <3>1, <3>4
  <2> QED BY <2>7, <2>8 DEF f
<1>6. ASSUME NEW i \in 1..(n + 1), conn.msgs[h[i]].order, NEW k \in 1..(h[i] - 1)
      PROVE  \E j \in 1..(i - 1) : h[j] = k
  <2>1. CASE i \in 1..n
    <3>1. PICK j \in 1..(i - 1) : g[j] = k
      BY <1>1, <1>2, <1>3, <1>6, <2>1
    <3> QED BY <1>3, <2>1, <3>1
  <2>2. CASE i = n + 1
    <3>1. k \in ReadOf(g)
      BY <1>3, <1>6, <2>2
    <3>2. PICK j \in 1..n : g[j] = k
      BY <1>2, <3>1 DEF ReadOf
    <3> QED BY <1>3, <2>2, <3>2
  <2> QED BY <2>1, <2>2
<1>7. Messages' = Messages /\ \A k : Whole(k)' = Whole(k)
  BY DEF Messages, Whole, FirstOf, LastOf
<1>8. Returned(h)'
  <2>1. h \in Seq(Messages)' /\ Once(h)
    BY <1>3, <1>7
  <2>2. got' = [i \in 1..Len(h) |-> Whole(h[i])']
    BY <1>3, <1>5, <1>7
  <2> QED BY <1>3, <1>6, <2>1, <2>2 DEF Returned
<1> QED BY <1>4, <1>8

(***************************************************************************)
(* Messages, step by step                                                  *)
(***************************************************************************)
\* The numbers after a step say which packets they are of.
LEMMA IndicesFollow ==
  ASSUME conn \in MessageSetups, conn' = conn,
         NEW c, NEW la, NEW rc, NEW rl, NEW rla, NumbersAt(c, la, rc, rl, rla)'
  PROVE  /\ c \in -1..Top /\ rc \in -1..c /\ rl \in 0..(rc + 1)
         /\ \A k \in -1..(Top + 1) : /\ sndCurr' = Num(k) => k = c
                                     /\ rcvCurr' = Num(k) => k = rc
                                     /\ rcvLastAck' = Num(k) => k = rl
<1>1. Top' = Top /\ Top \in Nat /\ \A k : Num(k)' = Num(k)
  BY PacketsAreFew DEF Top, Packets, Num, Isn
<1>2. c \in -1..Top /\ sndCurr' = Num(c)
  BY <1>1 DEF NumbersAt, SenderAt
<1>3. /\ rc \in Int /\ rl \in Nat /\ rl <= rc + 1 /\ rc <= c
      /\ rcvCurr' = Num(rc) /\ rcvLastAck' = Num(rl)
  BY <1>1 DEF NumbersAt, ReceiverAt
<1>4. PICK t \in Nat : t = Top
  BY <1>1
<1>5. c \in -1..(t + 1) /\ rc \in -1..(t + 1) /\ rl \in -1..(t + 1) /\ rc \in -1..c /\ rl \in 0..(rc + 1)
  <2>1. c \in Int /\ -1 <= c /\ c <= t
    BY <1>2, <1>4
  <2>2. rc \in -1..c /\ rl \in 0..(rc + 1)
    BY <1>3, <2>1
  <2> QED BY <1>4, <2>1, <2>2
<1>6. \A i \in -1..(t + 1), j \in -1..(t + 1) : Num(i) = Num(j) => i = j
  BY <1>4, NumFacts
<1> QED BY <1>2, <1>3, <1>4, <1>5, <1>6

\* What a buffer holds does not depend on anything else.
LEMMA HoldsStay ==
  ASSUME conn' = conn, NEW b, Buffer' = b, NEW n, NEW rc, NEW rl, NEW read,
         Holds(b, n, rc, rl, read)
  PROVE  Holds(Buffer, n, rc, rl, read)'
<1>1. /\ \A d : MsgOf(d)' = MsgOf(d)
      /\ RcvBufSize' = RcvBufSize /\ Packets' = Packets /\ Slots' = Slots
      /\ \A m : Payloads(m)' = Payloads(m)
  BY MarksStay DEF RcvBufSize, Packets, Slots, Payloads
<1> QED BY <1>1 DEF Holds

\* What is in the buffer and in the loss list of the receiver after a step.
LEMMA KeptFrom ==
  ASSUME conn' = conn, NEW b, Buffer' = b, NEW rc, NEW rl, NEW n, NEW g,
         Holds(b, n, rc, rl, ReadOf(g)), lastAckPos' = rl % RcvBufSize,
         rcvLoss' = Nums({k \in rl..rc : b.unit[k % RcvBufSize] = 0}),
         maxPos' \in Nat, maxPos' + (rl - n) < RcvBufSize, Returned(g)'
  PROVE  KeptInOrder(rc, rl, n, g)'
<1>1. Holds(Buffer, n, rc, rl, ReadOf(g))'
  BY HoldsStay DEF ReadOf
<1>2. RcvBufSize' = RcvBufSize /\ unit' = b.unit
  BY DEF RcvBufSize, Buffer
<1>3. rcvLoss' = Nums({k \in rl..rc : unit[k % RcvBufSize] = 0})'
  BY <1>2 DEF Nums, Isn
<1> QED BY <1>1, <1>2, <1>3 DEF KeptInOrder

\* What was returned does not change by itself.
LEMMA ReturnedStays ==
  ASSUME conn' = conn, got' = got, NEW g, Returned(g)
  PROVE  Returned(g)'
BY DEF Returned, Messages, Whole, FirstOf, LastOf

\* Steps that neither receive nor acknowledge nor read.
LEMMA KeptStays ==
  ASSUME UNCHANGED <<conn, unit, flag, startPos, lastAckPos, maxPos, rcvLoss, got>>,
         NEW rc, NEW rl, NEW n, NEW g, KeptInOrder(rc, rl, n, g)
  PROVE  KeptInOrder(rc, rl, n, g)'
<1>1. PICK b : b = Buffer /\ Buffer' = b
  BY DEF Buffer
<1>2. b.unit = unit
  BY <1>1 DEF Buffer
<1>3. /\ Holds(b, n, rc, rl, ReadOf(g)) /\ lastAckPos = rl % RcvBufSize
      /\ rcvLoss = Nums({k \in rl..rc : b.unit[k % RcvBufSize] = 0})
      /\ maxPos \in Nat /\ maxPos + (rl - n) < RcvBufSize
      /\ Returned(g)
  BY <1>1, <1>2 DEF KeptInOrder
<1>4. Returned(g)'
  BY <1>3, ReturnedStays
<1> QED BY <1>1, <1>3, <1>4, KeptFrom

\* Steps that send no data.
LEMMA SentStays ==
  ASSUME UNCHANGED <<conn, currBlock>>, NEW c, SentInOrder(c),
         \A p \in net' : p \in net \/ p.kind # "data"
  PROVE  SentInOrder(c)'
<1>1. \A k : Num(k)' = Num(k)
  BY DEF Num, Isn
<1> QED BY <1>1 DEF SentInOrder

\* Nothing sent is ever taken back.
LEMMA NothingWasGivenUp ==
  ASSUME NothingGivenUp', [MsgNext]_msgVars
  PROVE  NothingGivenUp
<1>1. net \subseteq net'
  BY DEF MsgNext, PackData, Sendmsg, Expire, PickPacket, Retransmit, DropMessage,
         RunWild, SendNew, Exp, SendAck, Recvmsg, RecvmsgTimed, TimeOut, ReadOr, ReceiveAck,
         ReceiveNak, ReceiveData, ReceiveDrop, ReceiveAck2, Takes, Sends, msgVars
<1> QED BY <1>1 DEF NothingGivenUp

\* The sender puts each block into the packet of its number.
LEMMA OutsideKeepsContent ==
  ASSUME NEW c, NEW la, NEW rc, NEW rl, NEW rla, NumbersAt(c, la, rc, rl, rla),
         NEW c2, NEW la2, NEW rc2, NEW rl2, NEW rla2, NumbersAt(c2, la2, rc2, rl2, rla2)',
         conn' = conn, NothingGivenUp', NEW n, NEW g, ContentAt(c, rc, rl, n, g),
         OutsideTheBuffer
  PROVE  ContentAt(c2, rc2, rl2, n, g)'
<1>1. /\ conn \in MessageSetups /\ c \in -1..Top /\ rc \in -1..c /\ rl \in 0..(rc + 1) /\ Top \in Nat
      /\ la \in 0..(c + 1) /\ sndCurr = Num(c) /\ rcvCurr = Num(rc) /\ rcvLastAck = Num(rl)
  BY IndicesAreSane DEF NumbersAt, SenderAt, ReceiverAt
<1>2. SentInOrder(c) /\ KeptInOrder(rc, rl, n, g)
  BY DEF ContentAt
<1>3. UNCHANGED <<unit, flag, startPos, lastAckPos, maxPos, reader, got>>
  BY OutsideIs
<1>4. UNCHANGED <<rcvCurr, rcvLastAck, rcvLoss>>
  <2>1. CASE Sendmsg \/ (\E m \in Messages : Expire(m)) \/ Exp \/ UNCHANGED msgVars
    BY <2>1 DEF Sendmsg, Expire, Exp, msgVars, receiver
  <2>2. CASE PackData
    BY <2>2 DEF PackData, PickPacket, Retransmit, DropMessage, RunWild, SendNew, receiver
  <2>3. CASE \E p \in net : ReceiveAck(p) \/ ReceiveNak(p) \/ ReceiveAck2(p)
    BY <2>3 DEF ReceiveAck, ReceiveNak, ReceiveAck2, receiver
  <2> QED BY <2>1, <2>2, <2>3 DEF OutsideTheBuffer
<1>5. PICK t \in Nat : t = Top /\ c \in -1..t /\ rc \in -1..t /\ rl \in 0..(t + 1)
  BY <1>1
<1>6. c \in -1..(t + 1) /\ rc \in -1..(t + 1) /\ rl \in -1..(t + 1)
  BY <1>5
<1>7. \A k \in -1..(t + 1) : /\ sndCurr' = Num(k) => k = c2
                             /\ rcvCurr' = Num(k) => k = rc2
                             /\ rcvLastAck' = Num(k) => k = rl2
  BY <1>1, <1>5, IndicesFollow
<1>8. rc2 = rc /\ rl2 = rl
  BY <1>1, <1>4, <1>6, <1>7
<1>9. KeptInOrder(rc2, rl2, n, g)'
  BY <1>2, <1>3, <1>4, <1>8, KeptStays
<1>10. ASSUME UNCHANGED <<sndCurr, currBlock>>, \A p \in net' : p \in net \/ p.kind # "data"
       PROVE  SentInOrder(c2)'
  <2>1. c2 = c
    BY <1>1, <1>6, <1>7, <1>10
  <2> QED BY <1>2, <1>10, <2>1, SentStays
<1>11. CASE Sendmsg \/ (\E m \in Messages : Expire(m)) \/ Exp \/ UNCHANGED msgVars
  <2>1. UNCHANGED <<sndCurr, currBlock, net>>
    BY <1>11 DEF Sendmsg, Expire, Exp, msgVars, sender
  <2> QED BY <1>9, <1>10, <2>1 DEF ContentAt
<1>12. CASE PickPacket \/ RunWild
  <2>1. UNCHANGED <<sndCurr, currBlock, net>>
    BY <1>12 DEF PickPacket, RunWild
  <2> QED BY <1>9, <1>10, <2>1 DEF ContentAt
<1>13. CASE \E p \in net : ReceiveAck(p) \/ ReceiveNak(p) \/ ReceiveAck2(p)
  <2>1. UNCHANGED <<sndCurr, currBlock>>
    BY <1>13 DEF ReceiveAck, ReceiveNak, ReceiveAck2, sender
  <2>2. \A p \in net' : p \in net \/ p.kind # "data"
    <3>1. PICK p \in net : ReceiveAck(p) \/ ReceiveNak(p) \/ ReceiveAck2(p)
      BY <1>13
    <3>2. PICK q : q = Ack2(p.ack)
      OBVIOUS
    <3>3. net' \subseteq net \union {q}
      BY <3>1, <3>2 DEF ReceiveAck, ReceiveNak, ReceiveAck2, Takes
    <3>4. q.kind # "data"
      BY <3>2 DEF Ack2
    <3> QED BY <3>3, <3>4
  <2> QED BY <1>9, <1>10, <2>1, <2>2 DEF ContentAt
<1>14. CASE DropMessage
  <2>1. PICK m, lo, hi : Drop(m, lo, hi) \in net'
    BY <1>14 DEF DropMessage, Sends
  <2>2. Drop(m, lo, hi).kind = "drop"
    BY DEF Drop
  <2> QED BY <2>1, <2>2 DEF NothingGivenUp
<1>15. CASE Retransmit
  <2>1. PICK k \in 0..c : packing = Num(k) /\ LostBlock = k + 1
    BY <1>15, PackingIs DEF Retransmit
  <2>2. UNCHANGED <<sndCurr, currBlock>> /\ net' \subseteq net \union {Data(Num(k), k + 1)}
    BY <1>15, <2>1 DEF Retransmit, Sends
  <2>3. c2 = c
    BY <1>1, <1>6, <1>7, <2>2
  <2>4. \A i : Num(i)' = Num(i)
    BY DEF Num, Isn
  <2>5. Data(Num(k), k + 1).seq = Num(k) /\ Data(Num(k), k + 1).data = k + 1
    BY DEF Data
  <2>6. SentInOrder(c2)'
    BY <1>2, <2>2, <2>3, <2>4, <2>5 DEF SentInOrder
  <2> QED BY <1>9, <2>6 DEF ContentAt
<1>16. CASE SendNew
  <2>1. CASE UNCHANGED <<sndCurr, currBlock, net>>
    BY <1>9, <1>10, <2>1 DEF ContentAt
  <2>2. CASE /\ sndCurr' = incseq(sndCurr) /\ currBlock' = currBlock + 1
             /\ net' = net \union {Data(sndCurr', currBlock)}
    <3>1. PICK e \in -1..(t + 1) : e = c + 1 /\ e \in 0..e /\ sndCurr' = Num(e)
      <4>1. incseq(Num(c)) = Num(c + 1)
        BY <1>1, NumFacts
      <4> QED BY <1>1, <1>5, <2>2, <4>1
    <3>2. c2 = e /\ currBlock = c + 2
      BY <1>2, <1>7, <3>1 DEF SentInOrder
    <3>3. PICK q : q = Data(sndCurr', currBlock) /\ q.seq = Num(e) /\ q.data = e + 1
      <4>1. currBlock = e + 1
        BY <1>5, <3>1, <3>2
      <4>2. PICK q : q = Data(sndCurr', currBlock)
        OBVIOUS
      <4>3. q.seq = Num(e) /\ q.data = e + 1
        BY <3>1, <4>1, <4>2 DEF Data
      <4> QED BY <4>2, <4>3
    <3>4. \A i : Num(i)' = Num(i)
      BY DEF Num, Isn
    <3>5. \A k \in 0..c : k \in 0..e
      BY <1>5, <3>1
    <3>6. \A p \in net' : p.kind = "data" => \E k \in 0..e : p.seq = Num(k) /\ p.data = k + 1
      BY <1>2, <2>2, <3>1, <3>3, <3>5 DEF SentInOrder
    <3>7. currBlock' = e + 2
      BY <1>5, <2>2, <3>1, <3>2
    <3>8. SentInOrder(c2)'
      BY <3>2, <3>4, <3>6, <3>7 DEF SentInOrder
    <3> QED BY <1>9, <3>8 DEF ContentAt
  <2> QED BY <1>16, <2>1, <2>2 DEF SendNew, Sends
<1> QED BY <1>11, <1>12, <1>13, <1>14, <1>15, <1>16 DEF OutsideTheBuffer, PackData

\* What scanMsg leaves behind, whether it finds a message or not.
LEMMA ScanHolds ==
  ASSUME conn \in MessageSetups, NEW rl \in Nat, NEW rc \in Int, lastAckPos = rl % RcvBufSize,
         lastAckPos \in Slots, maxPos \in Nat, NEW b \in Buffers, NEW n, NEW read \in SUBSET Messages,
         Holds(b, n, rc, rl, read)
  PROVE  \E n2 \in n..rl : /\ Holds(ScanMsg(b).buf, n2, rc, rl, read) /\ ScanMsg(b).buf \in Buffers
                           /\ RestStays(ScanMsg(b).buf, b, rc, rl)
<1>1. PICK e \in Buffers : e = ScanMsg(b).buf /\ (e = b \/ e = Cleaned(b))
  BY ScanIs, CleanedIs
<1>2. CASE e = b
  <2>1. n \in n..rl
    BY HeldIs
  <2> QED BY <1>1, <1>2, <2>1 DEF RestStays
<1>3. CASE e = Cleaned(b)
  BY <1>1, <1>3, CleanedHolds
<1> QED BY <1>1, <1>2, <1>3

\* The messages returned are messages.
LEMMA ReadAreMessages ==
  ASSUME NEW g, Returned(g)
  PROVE  ReadOf(g) \in SUBSET Messages
<1>1. g \in Seq(Messages)
  BY DEF Returned
<1>2. ASSUME NEW i \in 1..Len(g) PROVE g[i] \in Messages
  BY <1>1
<1> QED BY <1>2 DEF ReadOf

\* recvmsg returns a message that is whole, and takes it out of the buffer, or marks it.
LEMMA ReadKeepsContent ==
  ASSUME NEW c, NEW la, NEW rc, NEW rl, NEW rla, NumbersAt(c, la, rc, rl, rla),
         NEW c2, NEW la2, NEW rc2, NEW rl2, NEW rla2, NumbersAt(c2, la2, rc2, rl2, rla2)',
         conn' = conn, BufferIsTyped, NEW n, NEW g, ContentAt(c, rc, rl, n, g),
         NEW otherwise, ReadOr(otherwise)
  PROVE  \E n2 \in 0..rl2, h \in Seq(Messages) : ContentAt(c2, rc2, rl2, n2, h)'
<1>1. /\ conn \in MessageSetups /\ c \in -1..Top /\ rc \in -1..c /\ rl \in 0..(rc + 1) /\ Top \in Nat
      /\ sndCurr = Num(c) /\ rcvCurr = Num(rc) /\ rcvLastAck = Num(rl)
  BY IndicesAreSane DEF NumbersAt, SenderAt, ReceiverAt
<1>2. SentInOrder(c) /\ KeptInOrder(rc, rl, n, g)
  BY DEF ContentAt
<1>3. UNCHANGED <<sender, lastAckPos, maxPos, rcvCurr, rcvLastAck, rcvLastAckAck, rcvLoss, net>>
  BY DEF ReadOr
<1>4. rc2 = rc /\ rl2 = rl /\ c2 = c
  <2>1. c \in -1..(Top + 1) /\ rc \in -1..(Top + 1) /\ rl \in -1..(Top + 1)
    BY <1>1
  <2>2. sndCurr' = sndCurr
    BY <1>3 DEF sender
  <2> QED BY <1>1, <1>3, <2>1, <2>2, IndicesFollow
<1>5. SentInOrder(c2)'
  <2>1. currBlock' = currBlock /\ net' = net
    BY <1>3 DEF sender
  <2> QED BY <1>2, <1>4, <2>1, SentStays
<1>6. PICK b \in Buffers : b = Buffer
  BY BufferParts
<1>7. /\ Holds(b, n, rc, rl, ReadOf(g)) /\ lastAckPos = rl % RcvBufSize /\ lastAckPos \in Slots
      /\ rcvLoss = Nums({k \in rl..rc : b.unit[k % RcvBufSize] = 0})
      /\ maxPos \in Nat /\ maxPos + (rl - n) < RcvBufSize
      /\ Returned(g)
  <2>1. b.unit = unit
    BY <1>6 DEF Buffer
  <2> QED BY <1>2, <1>6, <2>1, BufferParts DEF KeptInOrder
<1>8. rl \in Nat /\ rc \in Int /\ ReadOf(g) \in SUBSET Messages /\ n \in Nat /\ n <= rl
      /\ g \in Seq(Messages) /\ RcvBufSize \in Nat \ {0}
  <2>1. rl \in Nat /\ rc \in Int
    BY <1>1
  <2> QED BY <1>1, <1>7, <2>1, HeldIs, ReadAreMessages, SetupIsSane DEF Returned
<1>9. ASSUME NEW e \in Buffers, SetBuffer(e), NEW n2 \in n..rl, NEW h \in Seq(Messages),
             Holds(e, n2, rc, rl, ReadOf(h)), RestStays(e, b, rc, rl), Returned(h)'
      PROVE  \E i \in 0..rl2, j \in Seq(Messages) : ContentAt(c2, rc2, rl2, i, j)'
  <2>1. Buffer' = e
    BY <1>9 DEF SetBuffer, Buffer, Buffers
  <2>2. lastAckPos' = rl % RcvBufSize
    BY <1>3, <1>7
  <2>3. rcvLoss' = Nums({k \in rl..rc : e.unit[k % RcvBufSize] = 0})
    <3>1. {k \in rl..rc : e.unit[k % RcvBufSize] = 0} = {k \in rl..rc : b.unit[k % RcvBufSize] = 0}
      BY <1>9 DEF RestStays
    <3> QED BY <1>3, <1>7, <3>1
  <2>4. maxPos' \in Nat /\ maxPos' + (rl - n2) < RcvBufSize
    BY <1>3, <1>7, <1>8
  <2>5. KeptInOrder(rc, rl, n2, h)'
    BY <1>9, <2>1, <2>2, <2>3, <2>4, KeptFrom
  <2>6. n2 \in 0..rl2
    BY <1>4, <1>8
  <2> QED BY <1>4, <1>5, <2>5, <2>6 DEF ContentAt
<1>10. PICK t : t = ScanMsg(b)
  OBVIOUS
<1>11. IF t.found
         THEN /\ got' = Append(got, TextOf(t))
              /\ SetBuffer(ScanMsg(AfterRead(t)).buf)
         ELSE SetBuffer(t.buf) /\ got' = got
  BY <1>6, <1>10 DEF ReadOr, TextOf
<1>12. t.found \in BOOLEAN
  BY <1>1, <1>7, <1>10, ScanIs
<1>13. CASE t.found = FALSE
  <2>1. PICK n2 \in n..rl : /\ Holds(t.buf, n2, rc, rl, ReadOf(g)) /\ t.buf \in Buffers
                            /\ RestStays(t.buf, b, rc, rl)
    BY <1>1, <1>7, <1>8, <1>10, ScanHolds
  <2>2. SetBuffer(t.buf) /\ got' = got
    BY <1>11, <1>13
  <2>3. Returned(g)'
    BY <1>7, <2>2, ReturnedStays
  <2> QED BY <1>8, <1>9, <2>1, <2>2, <2>3
<1>14. CASE t.found = TRUE
  <2>1. PICK m \in Messages, n1 \in n..rl :
           /\ m \notin ReadOf(g) /\ (conn.msgs[m].order => \A k \in 1..(m - 1) : k \in ReadOf(g))
           /\ TextOf(t) = Whole(m)
           /\ AfterRead(t) \in Buffers /\ Holds(AfterRead(t), n1, rc, rl, ReadOf(g) \union {m})
           /\ RestStays(AfterRead(t), b, rc, rl)
    <3>1. PICK read \in SUBSET Messages : read = ReadOf(g)
      BY <1>8
    <3>2. Holds(b, n, rc, rl, read)
      BY <1>7, <3>1
    <3>3. \E m \in Messages, n1 \in n..rl : FoundAs(t, b, rc, rl, read, m, n1)
      <4>1. NotedInside(rl, n)
        BY <1>7 DEF NotedInside
      <4>2. rl \in Nat /\ rc \in Int /\ lastAckPos = rl % RcvBufSize /\ lastAckPos \in Slots
        BY <1>7, <1>8
      <4> QED BY <1>1, <1>10, <1>14, <3>2, <4>1, <4>2, FoundIs
    <3> QED BY <3>1, <3>3 DEF FoundAs
  <2>2. PICK u \in Buffers : u = AfterRead(t)
    BY <2>1
  <2>3. got' = Append(got, Whole(m)) /\ SetBuffer(ScanMsg(u).buf)
    BY <1>11, <1>14, <2>1, <2>2
  <2>4. PICK h \in Seq(Messages) : Returned(h)' /\ ReadOf(h) = ReadOf(g) \union {m}
    BY <1>1, <1>7, <2>1, <2>3, OneMoreReturned
  <2>5. PICK e \in Buffers, n2 \in n1..rl :
           e = ScanMsg(u).buf /\ Holds(e, n2, rc, rl, ReadOf(h)) /\ RestStays(e, u, rc, rl)
    <3>1. ReadOf(h) \in SUBSET Messages /\ Holds(u, n1, rc, rl, ReadOf(h))
      BY <1>8, <2>1, <2>2, <2>4
    <3> QED BY <1>1, <1>7, <1>8, <3>1, ScanHolds
  <2>6. RestStays(e, b, rc, rl)
    BY <2>1, <2>2, <2>5 DEF RestStays
  <2>7. n2 \in n..rl
    BY <1>8
  <2> QED BY <1>9, <2>3, <2>4, <2>5, <2>6, <2>7
<1> QED BY <1>12, <1>13, <1>14

\* A call that waits first changes nothing.
LEMMA WaitKeepsContent ==
  ASSUME NEW c, NEW la, NEW rc, NEW rl, NEW rla, NumbersAt(c, la, rc, rl, rla),
         NEW c2, NEW la2, NEW rc2, NEW rl2, NEW rla2, NumbersAt(c2, la2, rc2, rl2, rla2)',
         conn' = conn, NEW n, NEW g, ContentAt(c, rc, rl, n, g), RecvmsgTimed
  PROVE  ContentAt(c2, rc2, rl2, n, g)'
<1>1. /\ conn \in MessageSetups /\ c \in -1..Top /\ rc \in -1..c /\ rl \in 0..(rc + 1) /\ Top \in Nat
      /\ sndCurr = Num(c) /\ rcvCurr = Num(rc) /\ rcvLastAck = Num(rl)
  BY IndicesAreSane DEF NumbersAt, SenderAt, ReceiverAt
<1>2. SentInOrder(c) /\ KeptInOrder(rc, rl, n, g)
  BY DEF ContentAt
<1>3. UNCHANGED <<sender, unit, flag, startPos, lastAckPos, maxPos, rcvCurr, rcvLastAck,
                 rcvLastAckAck, rcvLoss, got, net>>
  BY DEF RecvmsgTimed
<1>4. sndCurr' = sndCurr /\ currBlock' = currBlock
  BY <1>3 DEF sender
<1>5. rc2 = rc /\ rl2 = rl /\ c2 = c
  <2>1. c \in -1..(Top + 1) /\ rc \in -1..(Top + 1) /\ rl \in -1..(Top + 1)
    BY <1>1
  <2> QED BY <1>1, <1>3, <1>4, <2>1, IndicesFollow
<1> QED BY <1>2, <1>3, <1>4, <1>5, SentStays, KeptStays DEF ContentAt

\* Acknowledging leaves the buffer as it is: what is acknowledged is there.
LEMMA AckKeepsContent ==
  ASSUME NEW c, NEW la, NEW rc, NEW rl, NEW rla, NumbersAt(c, la, rc, rl, rla),
         NEW c2, NEW la2, NEW rc2, NEW rl2, NEW rla2, NumbersAt(c2, la2, rc2, rl2, rla2)',
         conn' = conn, NEW n, NEW g, ContentAt(c, rc, rl, n, g), SendAck
  PROVE  ContentAt(c2, rc2, rl2, n, g)'
<1>1. /\ conn \in MessageSetups /\ c \in -1..Top /\ rc \in -1..c /\ rl \in 0..(rc + 1) /\ Top \in Nat
      /\ sndCurr = Num(c) /\ rcvCurr = Num(rc)
  BY IndicesAreSane DEF NumbersAt, SenderAt, ReceiverAt
<1>2. SentInOrder(c) /\ KeptInOrder(rc, rl, n, g)
  BY DEF ContentAt
<1>3. PICK a \in rl..(rc + 1) :
           /\ \A k \in rl..(a - 1) : Num(k) \notin rcvLoss
           /\ UNCHANGED <<sender, unit, flag, startPos, rcvCurr, rcvLastAckAck, rcvLoss, got>>
           /\ rcvLastAck' = Num(a) /\ lastAckPos' = Slot(lastAckPos + (a - rl))
           /\ maxPos' = (IF maxPos < a - rl THEN 0 ELSE maxPos - (a - rl))
  BY SendAckIs
<1>4. sndCurr' = sndCurr /\ currBlock' = currBlock
  BY <1>3 DEF sender
<1>5. rc2 = rc /\ rl2 = a /\ c2 = c
  <2>1. c \in -1..(Top + 1) /\ rc \in -1..(Top + 1) /\ a \in -1..(Top + 1)
    BY <1>1
  <2> QED BY <1>1, <1>3, <1>4, <2>1, IndicesFollow
<1>6. SentInOrder(c2)'
  <2>1. \A p \in net' : p \in net \/ p.kind # "data"
    <3>1. PICK q : net' \subseteq net \union {q} /\ q.kind # "data"
      <4>1. PICK w : net' \subseteq net \union {Ack(AckNow, w)}
        BY DEF SendAck, Sends
      <4>2. Ack(AckNow, w).kind = "ack"
        BY DEF Ack
      <4> QED BY <4>1, <4>2
    <3> QED BY <3>1
  <2> QED BY <1>2, <1>4, <1>5, <2>1, SentStays
<1>7. PICK r \in Nat \ {0} : r = RcvBufSize
  BY <1>1, SetupIsSane
<1>8. PICK b : b = Buffer /\ Buffer' = b
  BY <1>3 DEF Buffer
<1>9. b.unit = unit
  BY <1>8 DEF Buffer
<1>10. /\ Holds(b, n, rc, rl, ReadOf(g)) /\ lastAckPos = rl % r
       /\ rcvLoss = Nums({k \in rl..rc : b.unit[k % r] = 0})
       /\ maxPos \in Nat /\ maxPos + (rl - n) < r
       /\ Returned(g)
  BY <1>2, <1>7, <1>8, <1>9 DEF KeptInOrder
<1>11. /\ n \in 0..rl /\ rl <= rc + 1 /\ rc + 1 < n + r /\ rc < Packets /\ b.start = n % r
       /\ b.unit \in [Slots -> Nat] /\ b.flag \in [Slots -> Nat]
       /\ \A k \in n..(n + r - 1) :
            /\ b.unit[k % r] \in {0, k + 1}
            /\ k < rl => b.unit[k % r] # 0
            /\ k > rc => b.unit[k % r] = 0
            /\ b.unit[k % r] # 0 => b.flag[k % r] = IF MsgOf(k + 1) \in ReadOf(g) THEN 2 ELSE 1
       /\ \A m \in ReadOf(g) : \A d \in Payloads(m) :
            d <= n \/ (d <= rc + 1 /\ b.unit[(d - 1) % r] # 0)
       /\ \A d \in 1..n : MsgOf(d) \in ReadOf(g)
  BY <1>7, <1>10 DEF Holds
<1>12. \A k \in rl..(a - 1) : b.unit[k % r] # 0
  <2> SUFFICES ASSUME NEW k \in rl..(a - 1), b.unit[k % r] = 0 PROVE FALSE
    OBVIOUS
  <2>1. k \in {i \in rl..rc : b.unit[i % r] = 0}
    BY <1>1
  <2>2. Num(k) \in rcvLoss
    BY <1>10, <2>1, NumsTake
  <2> QED BY <1>3, <2>2
<1>13. Holds(b, n, rc, a, ReadOf(g))
  <2>1. n \in 0..a /\ a <= rc + 1
    BY <1>1, <1>11
  <2>2. \A k \in n..(n + r - 1) : k < a => b.unit[k % r] # 0
    <3> SUFFICES ASSUME NEW k \in n..(n + r - 1), k < a PROVE b.unit[k % r] # 0
      OBVIOUS
    <3>1. k < rl \/ k \in rl..(a - 1)
      BY <1>1, <1>11
    <3> QED BY <1>11, <1>12, <3>1
  <2> QED BY <1>7, <1>11, <2>1, <2>2 DEF Holds
<1>14. lastAckPos' = a % r
  <2>1. rl \in Nat /\ a - rl \in Nat /\ rl + (a - rl) = a
    BY <1>1
  <2>2. ((rl % r) + (a - rl)) % r = a % r
    <3>1. PICK x \in Nat, i \in Nat : x = rl /\ i = a - rl /\ x + i = a
      BY <2>1
    <3>2. ((x % r) + i) % r = (x + i) % r
      BY <1>7, SlotSum
    <3> QED BY <3>1, <3>2
  <2> QED BY <1>3, <1>7, <1>10, <2>2 DEF Slot
<1>15. rcvLoss' = Nums({k \in a..rc : b.unit[k % r] = 0})
  <2>1. {k \in a..rc : b.unit[k % r] = 0} = {k \in rl..rc : b.unit[k % r] = 0}
    <3>1. \A k \in rl..rc : k \in a..rc \/ k \in rl..(a - 1)
      BY <1>1
    <3>2. \A k \in a..rc : k \in rl..rc
      BY <1>1
    <3> QED BY <1>12, <3>1, <3>2
  <2> QED BY <1>3, <1>10, <2>1
<1>16. maxPos' \in Nat /\ maxPos' + (a - n) < r
  <2>1. CASE maxPos < a - rl
    BY <1>1, <1>3, <1>7, <1>10, <1>11, <2>1
  <2>2. CASE ~(maxPos < a - rl)
    BY <1>1, <1>3, <1>7, <1>10, <1>11, <2>2
  <2> QED BY <2>1, <2>2
<1>17. KeptInOrder(rc, a, n, g)'
  <2>1. Returned(g)'
    BY <1>3, <1>10, ReturnedStays
  <2>2. /\ lastAckPos' = a % RcvBufSize
        /\ rcvLoss' = Nums({k \in a..rc : b.unit[k % RcvBufSize] = 0})
        /\ maxPos' + (a - n) < RcvBufSize
    BY <1>7, <1>14, <1>15, <1>16
  <2> QED BY <1>8, <1>13, <1>16, <2>1, <2>2, KeptFrom
<1> QED BY <1>5, <1>6, <1>17 DEF ContentAt

\* The packets that are missing in the buffer.
Missing(b, rl, rc) == {j \in rl..rc : b.unit[j % RcvBufSize] = 0}

\* A packet that comes goes into its slot; the others stay.
LEMMA ReceivedHolds ==
  ASSUME conn \in MessageSetups, NEW rl \in Nat, NEW rc \in Int, NEW b, NEW n, NEW read,
         Holds(b, n, rc, rl, read), NEW k \in rl..(n + RcvBufSize - 2), k + 1 \in 1..Packets,
         b.unit[k % RcvBufSize] = 0, NEW e, e.start = b.start,
         e.unit = [b.unit EXCEPT ![k % RcvBufSize] = k + 1],
         e.flag = [b.flag EXCEPT ![k % RcvBufSize] = 1],
         NEW rc2, rc2 = IF k > rc THEN k ELSE rc
  PROVE  /\ Holds(e, n, rc2, rl, read)
         /\ Missing(e, rl, rc2)
              = (Missing(b, rl, rc) \union (IF k > rc THEN (rc + 1)..(k - 1) ELSE {})) \ {k}
<1>1. PICK r \in Nat \ {0} : r = RcvBufSize
  BY SetupIsSane
<1>2. /\ n \in 0..rl /\ rl <= rc + 1 /\ rc + 1 < n + r /\ rc < Packets /\ b.start = n % r
      /\ b.unit \in [Slots -> Nat] /\ b.flag \in [Slots -> Nat]
      /\ \A j \in n..(n + r - 1) :
           /\ b.unit[j % r] \in {0, j + 1}
           /\ j < rl => b.unit[j % r] # 0
           /\ j > rc => b.unit[j % r] = 0
           /\ b.unit[j % r] # 0 => b.flag[j % r] = IF MsgOf(j + 1) \in read THEN 2 ELSE 1
      /\ \A m \in read : \A d \in Payloads(m) : d <= n \/ (d <= rc + 1 /\ b.unit[(d - 1) % r] # 0)
      /\ \A d \in 1..n : MsgOf(d) \in read
  BY <1>1 DEF Holds
<1>3. /\ n \in Nat /\ k \in Nat /\ k \in n..(n + r - 1) /\ k + 1 < n + r /\ rl <= k /\ Packets \in Nat
      /\ rc2 \in Int /\ rc <= rc2 /\ k <= rc2 /\ rc2 + 1 < n + r /\ rl <= rc2 + 1 /\ rc2 < Packets
  <2>1. n \in Nat /\ k \in Nat /\ rl <= k /\ k + 1 < n + r /\ Packets \in Nat /\ k + 1 <= Packets
    BY <1>1, <1>2, PacketsAreFew
  <2>2. CASE k > rc
    BY <1>1, <1>2, <2>1, <2>2
  <2>3. CASE ~(k > rc)
    BY <1>1, <1>2, <2>1, <2>3
  <2> QED BY <2>2, <2>3
<1>4. k % r \in Slots /\ b.unit[k % r] = 0
  BY <1>1, <1>3, SlotOfPacket
<1>5. /\ e.unit \in [Slots -> Nat] /\ e.flag \in [Slots -> Nat]
      /\ e.unit[k % r] = k + 1 /\ e.flag[k % r] = 1
      /\ \A s \in Slots : s # k % r => e.unit[s] = b.unit[s] /\ e.flag[s] = b.flag[s]
  <2>1. PICK x \in Slots, y \in Nat : x = k % r /\ y = k + 1
    BY <1>3, <1>4
  <2>2. e.unit = [b.unit EXCEPT ![x] = y] /\ e.flag = [b.flag EXCEPT ![x] = 1]
    BY <1>1, <2>1
  <2>3. ASSUME NEW f \in [Slots -> Nat], NEW v \in Nat
        PROVE  /\ [f EXCEPT ![x] = v] \in [Slots -> Nat] /\ [f EXCEPT ![x] = v][x] = v
               /\ \A s \in Slots : s # x => [f EXCEPT ![x] = v][s] = f[s]
    OBVIOUS
  <2>4. /\ e.unit \in [Slots -> Nat] /\ e.unit[x] = y
        /\ \A s \in Slots : s # x => e.unit[s] = b.unit[s]
    <3>1. PICK f \in [Slots -> Nat] : f = b.unit
      BY <1>2
    <3>2. e.unit = [f EXCEPT ![x] = y]
      BY <2>2, <3>1
    <3>3. /\ [f EXCEPT ![x] = y] \in [Slots -> Nat] /\ [f EXCEPT ![x] = y][x] = y
          /\ \A s \in Slots : s # x => [f EXCEPT ![x] = y][s] = f[s]
      BY <2>3
    <3> QED BY <3>1, <3>2, <3>3
  <2>5. /\ e.flag \in [Slots -> Nat] /\ e.flag[x] = 1
        /\ \A s \in Slots : s # x => e.flag[s] = b.flag[s]
    <3>1. PICK f \in [Slots -> Nat] : f = b.flag
      BY <1>2
    <3>2. e.flag = [f EXCEPT ![x] = 1]
      BY <2>2, <3>1
    <3>3. /\ [f EXCEPT ![x] = 1] \in [Slots -> Nat] /\ [f EXCEPT ![x] = 1][x] = 1
          /\ \A s \in Slots : s # x => [f EXCEPT ![x] = 1][s] = f[s]
      BY <2>3
    <3> QED BY <3>1, <3>2, <3>3
  <2> QED BY <2>1, <2>4, <2>5
<1>6. MsgOf(k + 1) \notin read
  <2> SUFFICES ASSUME MsgOf(k + 1) \in read PROVE FALSE
    OBVIOUS
  <2>1. k + 1 \in Payloads(MsgOf(k + 1))
    <3>1. /\ MsgOf(k + 1) \in Messages /\ FirstOf(MsgOf(k + 1)) <= k + 1 /\ k + 1 <= LastOf(MsgOf(k + 1))
      BY PacketsHaveMessages
    <3>2. FirstOf(MsgOf(k + 1)) \in Nat /\ LastOf(MsgOf(k + 1)) \in Nat
      BY <3>1, SetupIsSane
    <3> QED BY <1>3, <3>1, <3>2 DEF Payloads, FirstOf, LastOf
  <2>2. k + 1 <= n \/ b.unit[((k + 1) - 1) % r] # 0
    BY <1>2, <2>1
  <2>3. (k + 1) - 1 = k /\ ~(k + 1 <= n)
    BY <1>2, <1>3
  <2> QED BY <1>4, <2>2, <2>3
<1>7. \A j \in n..(n + r - 1) : (j # k => j % r # k % r) /\ j % r \in Slots
  <2>1. \A j \in n..(n + r - 1) : j % r \in Slots
    <3>1. \A j \in n..(n + r - 1) : j \in Nat
      BY <1>3
    <3> QED BY <1>1, <3>1, SlotOfPacket
  <2> QED BY <1>1, <1>3, <2>1, OneSlotEach
<1>8. ASSUME NEW j \in n..(n + r - 1)
      PROVE  /\ e.unit[j % r] \in {0, j + 1}
             /\ j < rl => e.unit[j % r] # 0
             /\ j > rc2 => e.unit[j % r] = 0
             /\ e.unit[j % r] # 0 => e.flag[j % r] = IF MsgOf(j + 1) \in read THEN 2 ELSE 1
  <2>1. CASE j = k
    BY <1>3, <1>5, <1>6, <2>1
  <2>2. CASE j # k
    <3>1. e.unit[j % r] = b.unit[j % r] /\ e.flag[j % r] = b.flag[j % r]
      BY <1>5, <1>7, <2>2
    <3>2. j > rc2 => j > rc
      BY <1>3
    <3> QED BY <1>2, <3>1, <3>2
  <2> QED BY <2>1, <2>2
<1>9. ASSUME NEW m \in read, NEW d \in Payloads(m)
      PROVE  d <= n \/ (d <= rc2 + 1 /\ e.unit[(d - 1) % r] # 0)
  <2>1. d \in Int
    BY DEF Payloads
  <2>2. d <= n \/ (d <= rc + 1 /\ b.unit[(d - 1) % r] # 0)
    BY <1>2
  <2>3. CASE d <= n
    BY <2>3
  <2>4. CASE ~(d <= n)
    <3>1. PICK i \in Nat : i = d - 1 /\ i + 1 = d
      BY <1>3, <2>1, <2>4
    <3>2. i % r \in Slots
      BY <1>1, SlotOfPacket
    <3>3. e.unit[i % r] = k + 1 \/ e.unit[i % r] = b.unit[i % r]
      BY <1>5, <3>2
    <3>4. d <= rc2 + 1 /\ k + 1 # 0
      BY <1>3, <2>1, <2>2, <2>4
    <3> QED BY <2>2, <2>4, <3>1, <3>3, <3>4
  <2> QED BY <2>3, <2>4
<1>10. Holds(e, n, rc2, rl, read)
  <2>1. \A m \in read : \A d \in Payloads(m) : d <= n \/ (d <= rc2 + 1 /\ e.unit[(d - 1) % r] # 0)
    BY <1>9
  <2>2. \A j \in n..(n + r - 1) :
           /\ e.unit[j % r] \in {0, j + 1}
           /\ j < rl => e.unit[j % r] # 0
           /\ j > rc2 => e.unit[j % r] = 0
           /\ e.unit[j % r] # 0 => e.flag[j % r] = IF MsgOf(j + 1) \in read THEN 2 ELSE 1
    BY <1>8
  <2>3. /\ n \in 0..rl /\ rl <= rc2 + 1 /\ rc2 + 1 < n + r /\ rc2 < Packets /\ e.start = n % r
        /\ e.unit \in [Slots -> Nat] /\ e.flag \in [Slots -> Nat]
        /\ \A d \in 1..n : MsgOf(d) \in read
    BY <1>1, <1>2, <1>3, <1>5
  <2>4. \A m \in read : \A d \in Payloads(m) :
           d <= n \/ (d <= rc2 + 1 /\ e.unit[(d - 1) % RcvBufSize] # 0)
    BY ONLY <1>1, <2>1
  <2>5. \A j \in n..(n + RcvBufSize - 1) :
           /\ e.unit[j % RcvBufSize] \in {0, j + 1}
           /\ j < rl => e.unit[j % RcvBufSize] # 0
           /\ j > rc2 => e.unit[j % RcvBufSize] = 0
           /\ e.unit[j % RcvBufSize] # 0 =>
                e.flag[j % RcvBufSize] = IF MsgOf(j + 1) \in read THEN 2 ELSE 1
    BY ONLY <1>1, <2>2
  <2>6. /\ n \in 0..rl /\ rl <= rc2 + 1 /\ rc2 + 1 < n + RcvBufSize /\ rc2 < Packets
        /\ e.start = n % RcvBufSize
        /\ e.unit \in [Slots -> Nat] /\ e.flag \in [Slots -> Nat]
        /\ \A d \in 1..n : MsgOf(d) \in read
    BY ONLY <1>1, <2>3
  <2> QED BY ONLY <2>4, <2>5, <2>6, Zenon DEF Holds
<1>11. ASSUME NEW j
       PROVE  (j \in rl..rc2 /\ e.unit[j % r] = 0) <=>
                (/\ (j \in rl..rc /\ b.unit[j % r] = 0) \/ (k > rc /\ j \in (rc + 1)..(k - 1))
                 /\ j # k)
  <2>1. CASE j = k
    BY <1>3, <1>5, <2>1
  <2>2. CASE j # k
    <3>1. CASE j \in rl..rc2
      <4>1. j \in n..(n + r - 1) /\ j \in Int
        BY <1>2, <1>3, <3>1
      <4>2. e.unit[j % r] = b.unit[j % r] /\ (j > rc => b.unit[j % r] = 0)
        BY <1>2, <1>5, <1>7, <2>2, <4>1
      <4>3. CASE k > rc
        BY <1>2, <1>3, <2>2, <3>1, <4>1, <4>2, <4>3
      <4>4. CASE ~(k > rc)
        BY <1>2, <1>3, <2>2, <3>1, <4>1, <4>2, <4>4
      <4> QED BY <4>3, <4>4
    <3>2. CASE j \notin rl..rc2
      BY <1>2, <1>3, <3>2
    <3> QED BY <3>1, <3>2
  <2> QED BY <2>1, <2>2
<1>12. {j \in rl..rc2 : e.unit[j % r] = 0}
         = ({j \in rl..rc : b.unit[j % r] = 0} \union (IF k > rc THEN (rc + 1)..(k - 1) ELSE {})) \ {k}
  BY <1>11
<1> QED BY <1>1, <1>10, <1>12 DEF Missing

\* What a packet that comes does to the numbers and to the loss list.
LEMMA ReceivedNumbers ==
  ASSUME NEW c, NEW la, NEW rc, NEW rl, NEW rla, NumbersAt(c, la, rc, rl, rla),
         NEW p \in net, ReceiveData(p), NEW k \in 0..c, p.seq = Num(k)
  PROVE  \/ /\ UNCHANGED <<unit, flag, rcvCurr, rcvLoss>>
         \/ /\ k >= rl /\ k - rl < Avail /\ unit[Slot(lastAckPos + (k - rl))] = 0
            /\ unit' = [unit EXCEPT ![Slot(lastAckPos + (k - rl))] = p.data]
            /\ flag' = [flag EXCEPT ![Slot(lastAckPos + (k - rl))] = 1]
            /\ rcvCurr' = Num(IF k > rc THEN k ELSE rc)
            /\ rcvLoss' = IF k > rc THEN rcvLoss \union Nums((rc + 1)..(k - 1))
                          ELSE rcvLoss \ {Num(k)}
<1>1. /\ conn \in MessageSetups /\ rl \in 0..(rc + 1) /\ c \in -1..Top /\ Top \in Nat /\ rc \in -1..c
  BY IndicesAreSane
<1>2. rcvCurr = Num(rc) /\ rcvLastAck = Num(rl)
  BY DEF NumbersAt, ReceiverAt
<1>3. PICK t \in Nat : t = Top
  BY <1>1
<1>4. k \in 0..t /\ rc \in -1..t /\ rl \in 0..(t + 1) /\ rc + 1 \in 0..(t + 1) /\ k \in 0..(t + 1)
      /\ rc \in Int /\ rl \in Nat
  BY <1>1, <1>3
<1>5. incseq(rcvCurr) = Num(rc + 1)
  BY <1>1, <1>2, <1>3, <1>4, NumFacts
<1>6. seqcmp(p.seq, incseq(rcvCurr)) > 0 <=> k > rc + 1
  BY <1>1, <1>3, <1>4, <1>5, NumFacts
<1>7. seqcmp(p.seq, rcvCurr) > 0 <=> k > rc
  BY <1>1, <1>2, <1>3, <1>4, NumFacts
<1>8. k > rc + 1 => Span(incseq(rcvCurr), decseq(p.seq)) = Nums((rc + 1)..(k - 1))
  <2> SUFFICES ASSUME k > rc + 1
               PROVE  Span(incseq(rcvCurr), decseq(p.seq)) = Nums((rc + 1)..(k - 1))
    OBVIOUS
  <2>1. k \in 1..(t + 1) /\ k - 1 \in ((rc + 1) - 1)..t
    BY <1>4
  <2>2. decseq(p.seq) = Num(k - 1)
    BY <1>1, <1>3, <2>1, NumFacts
  <2> QED BY <1>1, <1>3, <1>4, <1>5, <2>1, <2>2, SpanIs
<1>9. seqoff(rcvLastAck, p.seq) = k - rl
  BY <1>1, <1>2, <1>3, <1>4, NumFacts
<1>10. PICK o \in Int : o = k - rl /\ (o >= 0 <=> k >= rl) /\ seqoff(rcvLastAck, p.seq) = o
  BY <1>4, <1>9
<1> DEFINE gap   == seqcmp(p.seq, incseq(rcvCurr)) > 0
           newer == seqcmp(p.seq, rcvCurr) > 0
           span  == Span(incseq(rcvCurr), decseq(p.seq))
<1>11. \/ UNCHANGED <<unit, flag, rcvCurr, rcvLoss>>
       \/ /\ o >= 0 /\ o < Avail /\ unit[Slot(lastAckPos + o)] = 0
          /\ unit' = [unit EXCEPT ![Slot(lastAckPos + o)] = p.data]
          /\ flag' = [flag EXCEPT ![Slot(lastAckPos + o)] = 1]
          /\ rcvCurr' = (IF newer THEN p.seq ELSE rcvCurr)
          /\ rcvLoss' = (IF gap THEN rcvLoss \union span ELSE rcvLoss)
                        \ (IF newer THEN {} ELSE {p.seq})
  BY <1>10 DEF ReceiveData
<1>12. (gap <=> k > rc + 1) /\ (newer <=> k > rc) /\ (k > rc + 1 => span = Nums((rc + 1)..(k - 1)))
  BY <1>6, <1>7, <1>8
<1> HIDE DEF gap, newer, span
<1>13. (IF newer THEN p.seq ELSE rcvCurr) = Num(IF k > rc THEN k ELSE rc)
  BY <1>2, <1>12
<1>14. (IF gap THEN rcvLoss \union span ELSE rcvLoss) \ (IF newer THEN {} ELSE {p.seq})
         = IF k > rc THEN rcvLoss \union Nums((rc + 1)..(k - 1)) ELSE rcvLoss \ {Num(k)}
  <2>1. CASE k > rc + 1
    <3>1. k > rc
      BY <1>4, <2>1
    <3> QED BY <1>12, <2>1, <3>1
  <2>2. CASE k = rc + 1
    <3>1. k > rc /\ ~(k > rc + 1) /\ (rc + 1)..(k - 1) = {}
      BY <1>4, <2>2
    <3>2. Nums((rc + 1)..(k - 1)) = {}
      BY <3>1 DEF Nums, NumsOf
    <3> QED BY <1>12, <3>1, <3>2
  <2>3. CASE k < rc + 1
    <3>1. ~(k > rc) /\ ~(k > rc + 1)
      BY <1>4, <2>3
    <3> QED BY <1>12, <3>1
  <2> QED BY <1>4, <2>1, <2>2, <2>3
<1> QED BY <1>10, <1>11, <1>13, <1>14

\* The loss list has what is missing.
LEMMA MissingNumbers ==
  ASSUME conn \in MessageSetups, NEW L \in SUBSET (0..(Top + 1)), NEW rc \in -1..Top,
         NEW k \in 0..Top, \A j \in L : j <= rc
  PROVE  (IF k > rc THEN Nums(L) \union Nums((rc + 1)..(k - 1)) ELSE Nums(L) \ {Num(k)})
           = Nums((L \union (IF k > rc THEN (rc + 1)..(k - 1) ELSE {})) \ {k})
<1>1. Top \in Nat /\ Top + 1 <= Half /\ Half \in Nat /\ Isn \in SeqNo
  BY SetupIsSane, PacketsAreFew DEF Top
<1> HIDE DEF Top
<1>2. CASE k > rc
  <2>1. (L \union (rc + 1)..(k - 1)) \ {k} = L \union (rc + 1)..(k - 1)
    <3>1. k \notin L /\ k \notin (rc + 1)..(k - 1)
      BY <1>1, <1>2
    <3> QED BY <3>1
  <2>2. Nums(L \union (rc + 1)..(k - 1)) = Nums(L) \union Nums((rc + 1)..(k - 1))
    BY DEF Nums, NumsOf
  <2> QED BY <1>2, <2>1, <2>2
<1>3. CASE ~(k > rc)
  <2>1. L \in SUBSET (0..Half) /\ k \in 0..Half
    BY <1>1
  <2>2. Nums(L) \ {Num(k)} = Nums(L \ {k})
    BY <1>1, <2>1, NumbersWithout DEF Nums, Num
  <2> QED BY <1>3, <2>2
<1> QED BY <1>2, <1>3

\* A packet that comes brings its block, and only to its own slot.
LEMMA DataKeepsContent ==
  ASSUME NEW c, NEW la, NEW rc, NEW rl, NEW rla, NumbersAt(c, la, rc, rl, rla),
         NEW c2, NEW la2, NEW rc2, NEW rl2, NEW rla2, NumbersAt(c2, la2, rc2, rl2, rla2)',
         conn' = conn, BufferIsTyped, NEW n, NEW g, ContentAt(c, rc, rl, n, g),
         NEW p \in net, ReceiveData(p)
  PROVE  ContentAt(c2, rc2, rl2, n, g)'
<1>1. /\ conn \in MessageSetups /\ c \in -1..Top /\ rc \in -1..c /\ rl \in 0..(rc + 1) /\ Top \in Nat
      /\ sndCurr = Num(c) /\ rcvCurr = Num(rc) /\ rcvLastAck = Num(rl)
  BY IndicesAreSane DEF NumbersAt, SenderAt, ReceiverAt
<1>2. SentInOrder(c) /\ KeptInOrder(rc, rl, n, g)
  BY DEF ContentAt
<1>3. PICK k \in 0..c :
           /\ p.seq = Num(k) /\ p.data \in 1..Packets
           /\ UNCHANGED <<sender, startPos, lastAckPos, rcvLastAck, rcvLastAckAck, reader, got>>
           /\ maxPos' = IF k >= rl /\ k - rl < Avail /\ k - rl > maxPos THEN k - rl ELSE maxPos
  BY ReceiveDataIs
<1>4. sndCurr' = sndCurr /\ currBlock' = currBlock
  BY <1>3 DEF sender
<1>5. PICK t \in Nat : /\ t = Top /\ c \in -1..t /\ rc \in -1..t /\ rl \in 0..(t + 1) /\ k \in 0..t
  BY <1>1
<1>6. c \in -1..(t + 1) /\ rc \in -1..(t + 1) /\ rl \in -1..(t + 1) /\ k \in -1..(t + 1)
      /\ rc \in Int /\ rl \in Nat /\ k \in Nat
  BY <1>5
<1>7. \A i \in -1..(t + 1) : /\ sndCurr' = Num(i) => i = c2
                             /\ rcvCurr' = Num(i) => i = rc2
                             /\ rcvLastAck' = Num(i) => i = rl2
  BY <1>1, <1>5, IndicesFollow
<1>8. c2 = c /\ rl2 = rl
  BY <1>1, <1>3, <1>4, <1>6, <1>7
<1>9. SentInOrder(c2)'
  <2>1. \A q \in net' : q \in net \/ q.kind # "data"
    <3>1. PICK q : net' \subseteq net \union {q} /\ q.kind # "data"
      <4>1. PICK lo, hi : net' \subseteq net \union {Nak(lo, hi)}
        BY DEF ReceiveData, Takes
      <4>2. Nak(lo, hi).kind = "nak"
        BY DEF Nak
      <4> QED BY <4>1, <4>2
    <3> QED BY <3>1
  <2> QED BY <1>2, <1>4, <1>8, <2>1, SentStays
<1>10. p.data = k + 1
  <2>1. p.kind = "data"
    BY DEF ReceiveData
  <2>2. PICK j \in 0..c : p.seq = Num(j) /\ p.data = j + 1
    BY <1>2, <2>1 DEF SentInOrder
  <2>3. j \in -1..(t + 1)
    BY <1>5
  <2>4. j = k
    BY <1>1, <1>3, <1>5, <1>6, <2>2, <2>3, NumFacts
  <2> QED BY <2>2, <2>4
<1>11. PICK r \in Nat \ {0} : r = RcvBufSize
  BY <1>1, SetupIsSane
<1>12. PICK b : b = Buffer
  OBVIOUS
<1>13. b.unit = unit /\ b.flag = flag /\ b.start = startPos /\ b = [start |-> b.start, unit |-> b.unit, flag |-> b.flag]
  BY <1>12 DEF Buffer
<1>14. /\ Holds(b, n, rc, rl, ReadOf(g)) /\ lastAckPos = rl % r
       /\ rcvLoss = Nums({j \in rl..rc : b.unit[j % r] = 0})
       /\ maxPos \in Nat /\ maxPos + (rl - n) < r
       /\ Returned(g)
  BY <1>2, <1>11, <1>12, <1>13 DEF KeptInOrder
<1>15. n \in Nat /\ n <= rl /\ Avail = r - (rl - n) - 1
  <2>1. lastAckPos = rl % RcvBufSize
    BY <1>11, <1>14
  <2>2. n \in Nat /\ n <= rl /\ Acked(b) = rl - n
    BY <1>1, <1>6, <1>14, <2>1, HeldIs
  <2> QED BY <1>1, <1>11, <1>12, <2>2, AvailIs
<1>16. maxPos' \in Nat /\ maxPos' + (rl - n) < r
  <2>1. CASE k >= rl /\ k - rl < Avail /\ k - rl > maxPos
    BY <1>3, <1>6, <1>11, <1>15, <2>1
  <2>2. CASE ~(k >= rl /\ k - rl < Avail /\ k - rl > maxPos)
    BY <1>3, <1>14, <2>2
  <2> QED BY <2>1, <2>2
<1>17. Returned(g)'
  BY <1>3, <1>14, ReturnedStays
<1>18. lastAckPos' = rl % RcvBufSize /\ maxPos' + (rl - n) < RcvBufSize
  BY <1>3, <1>11, <1>14, <1>16
<1>19. CASE UNCHANGED <<unit, flag, rcvCurr, rcvLoss>>
  <2>1. rc2 = rc
    BY <1>1, <1>6, <1>7, <1>19
  <2>2. Buffer' = b
    BY <1>3, <1>12, <1>19 DEF Buffer
  <2>3. rcvLoss' = Nums({j \in rl..rc : b.unit[j % RcvBufSize] = 0})
    BY <1>11, <1>14, <1>19
  <2>4. KeptInOrder(rc, rl, n, g)'
    BY <1>14, <1>16, <1>17, <1>18, <2>2, <2>3, KeptFrom
  <2> QED BY <1>8, <1>9, <2>1, <2>4 DEF ContentAt
<1>20. CASE /\ k >= rl /\ k - rl < Avail /\ unit[Slot(lastAckPos + (k - rl))] = 0
            /\ unit' = [unit EXCEPT ![Slot(lastAckPos + (k - rl))] = p.data]
            /\ flag' = [flag EXCEPT ![Slot(lastAckPos + (k - rl))] = 1]
            /\ rcvCurr' = Num(IF k > rc THEN k ELSE rc)
            /\ rcvLoss' = IF k > rc THEN rcvLoss \union Nums((rc + 1)..(k - 1))
                          ELSE rcvLoss \ {Num(k)}
  <2>1. k \in rl..(n + r - 2)
    BY <1>6, <1>11, <1>15, <1>20
  <2>2. Slot(lastAckPos + (k - rl)) = k % r
    <3>1. PICK x \in Nat, i \in Nat : x = rl /\ i = k - rl /\ x + i = k
      BY <1>6, <1>20
    <3>2. ((x % r) + i) % r = (x + i) % r
      BY <1>11, SlotSum
    <3> QED BY <1>11, <1>14, <3>1, <3>2 DEF Slot
  <2>3. PICK e : e = [start |-> b.start, unit |-> [b.unit EXCEPT ![k % r] = k + 1],
                      flag |-> [b.flag EXCEPT ![k % r] = 1]]
    OBVIOUS
  <2>4. Buffer' = e
    BY <1>3, <1>10, <1>13, <1>20, <2>2, <2>3 DEF Buffer
  <2>5. PICK m \in Int : m = (IF k > rc THEN k ELSE rc) /\ m \in -1..(t + 1)
    BY <1>6
  <2>6. rc2 = m
    BY <1>7, <1>20, <2>5
  <2>7. /\ Holds(e, n, m, rl, ReadOf(g))
        /\ Missing(e, rl, m)
             = (Missing(b, rl, rc) \union (IF k > rc THEN (rc + 1)..(k - 1) ELSE {})) \ {k}
    <3>1. k + 1 \in 1..Packets
      BY <1>3, <1>10
    <3>2. b.unit[k % r] = 0
      BY <1>13, <1>20, <2>2
    <3>3. e.start = b.start /\ e.unit = [b.unit EXCEPT ![k % r] = k + 1]
          /\ e.flag = [b.flag EXCEPT ![k % r] = 1]
      BY <2>3
    <3> QED BY <1>1, <1>6, <1>11, <1>14, <2>1, <2>5, <3>1, <3>2, <3>3, ReceivedHolds
  <2>8. PICK L \in SUBSET (0..(t + 1)) : L = Missing(b, rl, rc) /\ \A j \in L : j <= rc
    <3>1. \A j \in rl..rc : j \in 0..(t + 1) /\ j <= rc
      BY <1>5
    <3> QED BY <3>1 DEF Missing
  <2>9. (IF k > rc THEN Nums(L) \union Nums((rc + 1)..(k - 1)) ELSE Nums(L) \ {Num(k)})
           = Nums((L \union (IF k > rc THEN (rc + 1)..(k - 1) ELSE {})) \ {k})
    BY <1>1, <1>5, <2>8, MissingNumbers
  <2>10. rcvLoss' = Nums(Missing(e, rl, m))
    <3>1. rcvLoss = Nums(L)
      BY <1>11, <1>14, <2>8 DEF Missing
    <3>2. Missing(e, rl, m) = (L \union (IF k > rc THEN (rc + 1)..(k - 1) ELSE {})) \ {k}
      BY <2>7, <2>8
    <3> QED BY <1>20, <2>9, <3>1, <3>2
  <2>11. KeptInOrder(m, rl, n, g)'
    <3>1. rcvLoss' = Nums({j \in rl..m : e.unit[j % RcvBufSize] = 0})
      BY <2>10 DEF Missing
    <3> QED BY <1>16, <1>17, <1>18, <2>4, <2>7, <3>1, KeptFrom
  <2> QED BY <1>8, <1>9, <2>6, <2>11 DEF ContentAt
<1>21. \/ /\ UNCHANGED <<unit, flag, rcvCurr, rcvLoss>>
       \/ /\ k >= rl /\ k - rl < Avail /\ unit[Slot(lastAckPos + (k - rl))] = 0
          /\ unit' = [unit EXCEPT ![Slot(lastAckPos + (k - rl))] = p.data]
          /\ flag' = [flag EXCEPT ![Slot(lastAckPos + (k - rl))] = 1]
          /\ rcvCurr' = Num(IF k > rc THEN k ELSE rc)
          /\ rcvLoss' = IF k > rc THEN rcvLoss \union Nums((rc + 1)..(k - 1))
                        ELSE rcvLoss \ {Num(k)}
  BY <1>3, ReceivedNumbers
<1> QED BY <1>19, <1>20, <1>21

\* Nothing is sent, kept or returned at the start.
LEMMA MessagesInit == MsgInit => MessagesInv
<1> SUFFICES ASSUME MsgInit PROVE MessagesInv
  OBVIOUS
<1>1. NumbersAt(-1, 0, -1, 0, 0)
  BY NumbersStart
<1>2. conn \in MessageSetups /\ Top \in Nat /\ Packets \in Nat /\ RcvBufSize \in Nat \ {0}
  BY <1>1, IndicesAreSane, SetupIsSane
<1>3. PICK r \in Nat \ {0} : r = RcvBufSize
  BY <1>2
<1>4. /\ currBlock = 1 /\ net = {} /\ startPos = 0 /\ lastAckPos = 0 /\ maxPos = 0 /\ rcvLoss = {}
      /\ unit = [i \in 0..(r - 1) |-> 0] /\ flag = [i \in 0..(r - 1) |-> 0] /\ got = <<>>
  BY <1>3 DEF MsgInit
<1>5. \A k \in 0..(r - 1) : k % r = k
  BY <1>3, Folded
<1>6. Returned(<<>>) /\ ReadOf(<<>>) = {} /\ <<>> \in Seq(Messages)
  BY <1>4 DEF Returned, ReadOf, Once
<1>7. Holds(Buffer, 0, -1, 0, {})
  <2>1. Buffer.start = 0 /\ Buffer.unit = unit /\ Buffer.flag = flag
    BY <1>4 DEF Buffer
  <2>2. 0 % r = 0
    BY <1>3, <1>5
  <2>3. unit \in [Slots -> Nat] /\ flag \in [Slots -> Nat]
    BY <1>3, <1>4 DEF Slots
  <2>4. \A k \in 0..(0 + r - 1) : unit[k % r] = 0
    BY <1>3, <1>4, <1>5
  <2> QED BY <1>2, <1>3, <2>1, <2>2, <2>3, <2>4 DEF Holds
<1>8. rcvLoss = Nums({k \in 0..(-1) : unit[k % RcvBufSize] = 0})
  <2>1. {k \in 0..(-1) : unit[k % RcvBufSize] = 0} = {}
    OBVIOUS
  <2> QED BY <1>4, <2>1 DEF Nums, NumsOf
<1>9. KeptInOrder(-1, 0, 0, <<>>)
  <2>1. 0 = 0 % RcvBufSize
    BY <1>3, <1>5
  <2>2. maxPos \in Nat /\ maxPos + (0 - 0) < RcvBufSize
    BY <1>3, <1>4
  <2> QED BY <1>4, <1>6, <1>7, <1>8, <2>1, <2>2 DEF KeptInOrder
<1>10. ContentAt(-1, -1, 0, 0, <<>>)
  BY <1>4, <1>9 DEF ContentAt, SentInOrder
<1>11. -1 \in -1..Top /\ 0 \in 0..(Top + 1)
  BY <1>2
<1> QED BY <1>1, <1>6, <1>10, <1>11 DEF MessagesInv

\* Every step keeps packets, blocks and messages together, as long as none is given up.
LEMMA ContentStep ==
  ASSUME NEW c, NEW la, NEW rc, NEW rl, NEW rla, NumbersAt(c, la, rc, rl, rla),
         NEW c2, NEW la2, NEW rc2, NEW rl2, NEW rla2, NumbersAt(c2, la2, rc2, rl2, rla2)',
         conn' = conn, BufferIsTyped, NothingGivenUp', NEW n, NEW g, ContentAt(c, rc, rl, n, g),
         [MsgNext]_msgVars
  PROVE  \E n2 \in 0..rl2, h \in Seq(Messages) : ContentAt(c2, rc2, rl2, n2, h)'
<1>1. ASSUME ContentAt(c2, rc2, rl2, n, g)'
      PROVE  \E n2 \in 0..rl2, h \in Seq(Messages) : ContentAt(c2, rc2, rl2, n2, h)'
  <2>1. n \in 0..rl2
    BY <1>1 DEF ContentAt, KeptInOrder, Holds
  <2>2. g \in Seq(Messages)
    BY DEF ContentAt, KeptInOrder, Returned
  <2> QED BY <1>1, <2>1, <2>2
<1>2. CASE OutsideTheBuffer
  BY <1>1, <1>2, OutsideKeepsContent
<1>3. CASE SendAck
  BY <1>1, <1>3, AckKeepsContent
<1>4. CASE Recvmsg \/ TimeOut
  <2>1. PICK o : ReadOr(o)
    BY <1>4 DEF Recvmsg, TimeOut
  <2> QED BY <2>1, ReadKeepsContent
<1>5. CASE RecvmsgTimed
  BY <1>1, <1>5, WaitKeepsContent
<1>6. ASSUME NEW p \in net, ReceiveData(p)
      PROVE  \E n2 \in 0..rl2, h \in Seq(Messages) : ContentAt(c2, rc2, rl2, n2, h)'
  BY <1>1, <1>6, DataKeepsContent
<1>7. ASSUME NEW p \in net, ReceiveDrop(p) PROVE FALSE
  <2>1. p.kind = "drop" /\ p \in net'
    BY <1>7 DEF ReceiveDrop, Takes
  <2> QED BY <2>1 DEF NothingGivenUp
<1> QED BY <1>2, <1>3, <1>4, <1>5, <1>6, <1>7, StepsAre

\* Every step keeps the invariant.
LEMMA MessagesStep ==
  ASSUME MessagesInv, BufferIsTyped, [MsgNext]_msgVars
  PROVE  MessagesInv' /\ BufferIsTyped'
<1>1. PICK c, la, rc, rl, rla :
        /\ NumbersAt(c, la, rc, rl, rla)
        /\ NothingGivenUp =>
             \E n \in 0..(Top + 1), g \in Seq(Messages) : ContentAt(c, rc, rl, n, g)
  BY DEF MessagesInv
<1>2. NumbersInv
  BY DEF MessagesInv, NumbersInv
<1>3. NumbersInv' /\ conn' = conn /\ BufferIsTyped'
  BY <1>2, NumbersStep, BufferStep
<1>4. conn \in MessageSetups /\ Top' = Top /\ Top \in Nat /\ Messages' = Messages
  BY <1>1, <1>3, IndicesAreSane DEF Top, Packets, Messages
<1>5. PICK c2 \in -1..Top, la2 \in 0..(Top + 1), rc2 \in -1..Top, rl2 \in 0..(Top + 1),
           rla2 \in 0..(Top + 1) : NumbersAt(c2, la2, rc2, rl2, rla2)'
  BY <1>3, <1>4 DEF NumbersInv
<1>6. NothingGivenUp' =>
        \E n2 \in 0..(Top + 1), h \in Seq(Messages) : ContentAt(c2, rc2, rl2, n2, h)'
  <2> SUFFICES ASSUME NothingGivenUp'
               PROVE  \E n2 \in 0..(Top + 1), h \in Seq(Messages) : ContentAt(c2, rc2, rl2, n2, h)'
    OBVIOUS
  <2>1. PICK n, g : ContentAt(c, rc, rl, n, g)
    BY <1>1, NothingWasGivenUp
  <2>2. PICK n2 \in 0..rl2, h \in Seq(Messages) : ContentAt(c2, rc2, rl2, n2, h)'
    BY <1>1, <1>3, <1>5, <2>1, ContentStep
  <2>3. n2 \in 0..(Top + 1)
    BY <1>4, <1>5
  <2> QED BY <2>2, <2>3
<1> QED BY <1>3, <1>4, <1>5, <1>6 DEF MessagesInv

\* As long as no message is given up, the buffer holds what was sent, where it belongs.
THEOREM MessagesAreKept == MsgSpec => [](MessagesInv /\ BufferIsTyped)
<1>1. MsgInit => MessagesInv /\ BufferIsTyped
  BY MessagesInit, BufferInit
<1>2. MessagesInv /\ BufferIsTyped /\ [MsgNext]_msgVars => MessagesInv' /\ BufferIsTyped'
  BY MessagesStep
<1> QED BY <1>1, <1>2, PTL DEF MsgSpec

(***************************************************************************)
(* What follows                                                            *)
(***************************************************************************)
\* Different messages have different texts.
LEMMA WholeIs ==
  ASSUME conn \in MessageSetups, NEW m \in Messages
  PROVE  /\ Whole(m) = [k \in 1..Cardinality(Payloads(m)) |-> conn.msgs[m].first + k - 1]
         /\ Whole(m)[1] = FirstOf(m)
         /\ \A k \in Messages : FirstOf(k) = FirstOf(m) => k = m
<1>1. FirstOf(m) \in Nat /\ LastOf(m) \in Nat /\ FirstOf(m) <= LastOf(m)
  BY SetupIsSane
<1>2. Cardinality(FirstOf(m)..LastOf(m)) = LastOf(m) - FirstOf(m) + 1
  <2>1. PICK a \in Int, b \in Int : a = FirstOf(m) /\ b = LastOf(m) /\ ~(a > b)
    BY <1>1
  <2>2. Cardinality(a..b) = IF a > b THEN 0 ELSE b - a + 1
    BY FS_Interval
  <2> QED BY <2>1, <2>2
<1>3. 1 \in 1..(LastOf(m) - FirstOf(m) + 1) /\ FirstOf(m) + 1 - 1 = FirstOf(m)
  BY <1>1
<1>4. ASSUME NEW k \in Messages, FirstOf(k) = FirstOf(m) PROVE k = m
  <2>1. k \in Nat /\ m \in Nat /\ FirstOf(k) <= LastOf(k) /\ LastOf(k) \in Nat
    BY SetupIsSane
  <2>2. ~(k < m) /\ ~(m < k)
    <3>1. k < m => LastOf(k) < FirstOf(m)
      BY MessagesFollow
    <3>2. m < k => LastOf(m) < FirstOf(k)
      BY MessagesFollow
    <3> QED BY <1>1, <1>4, <2>1, <3>1, <3>2
  <2> QED BY <2>1, <2>2
<1> QED BY <1>2, <1>3, <1>4 DEF Whole, Payloads, FirstOf, LastOf

\* What recvmsg has returned.
LEMMA ReturnedIs ==
  ASSUME conn \in MessageSetups, NEW g, Returned(g)
  PROVE  /\ Len(g) \in Nat /\ DOMAIN got = 1..Len(g)
         /\ \A i \in 1..Len(g) : g[i] \in Messages /\ got[i] = Whole(g[i])
         /\ \A i \in 1..Len(g), m \in Messages : got[i][1] = FirstOf(m) <=> g[i] = m
<1>1. g \in Seq(Messages) /\ got = [i \in 1..Len(g) |-> Whole(g[i])]
  BY DEF Returned
<1>2. PICK n \in Nat : n = Len(g)
  BY <1>1
<1>3. \A i \in 1..n : g[i] \in Messages
  BY <1>1, <1>2
<1>4. DOMAIN got = 1..n /\ \A i \in 1..n : got[i] = Whole(g[i])
  BY <1>1, <1>2
<1>5. \A i \in 1..n, m \in Messages : got[i][1] = FirstOf(m) <=> g[i] = m
  BY <1>3, <1>4, WholeIs
<1> QED BY <1>2, <1>3, <1>4, <1>5

\* What recvmsg returns are messages that were sent, each whole and once, and in order where
\* order is asked for, as long as no message is given up.
THEOREM MessagesComeAsSent == MsgSpec => []DeliveredAsSent
<1>1. MessagesInv => DeliveredAsSent
  <2> SUFFICES ASSUME MessagesInv, NothingGivenUp
               PROVE  MessagesAreWhole /\ NoMessageTwice /\ OrderIsKept
    BY DEF DeliveredAsSent
  <2>1. PICK g : conn \in MessageSetups /\ Returned(g)
    <3>1. PICK c, la, rc, rl, rla : /\ NumbersAt(c, la, rc, rl, rla)
                                    /\ \E n, g : ContentAt(c, rc, rl, n, g)
      BY DEF MessagesInv
    <3>2. PICK n, g : ContentAt(c, rc, rl, n, g)
      BY <3>1
    <3>3. conn \in MessageSetups /\ Returned(g)
      BY <3>1, <3>2 DEF NumbersAt, ContentAt, KeptInOrder
    <3> QED BY <3>3
  <2>2. /\ Len(g) \in Nat /\ DOMAIN got = 1..Len(g) /\ Once(g)
        /\ \A i \in 1..Len(g) : g[i] \in Messages /\ got[i] = Whole(g[i])
        /\ \A i \in 1..Len(g), m \in Messages : got[i][1] = FirstOf(m) <=> g[i] = m
        /\ \A i \in 1..Len(g) : conn.msgs[g[i]].order =>
             \A m \in 1..(g[i] - 1) : \E j \in 1..(i - 1) : g[j] = m
    BY <2>1, ReturnedIs DEF Returned
  <2>3. MessagesAreWhole
    <3> SUFFICES ASSUME NEW i \in 1..Len(g)
                 PROVE  \E m \in Messages :
                          got[i] = [k \in 1..Cardinality(Payloads(m)) |-> conn.msgs[m].first + k - 1]
      BY <2>2 DEF MessagesAreWhole
    <3>1. PICK m \in Messages : m = g[i] /\ got[i] = Whole(m)
      BY <2>2
    <3> QED BY <2>1, <3>1, WholeIs
  <2>4. NoMessageTwice
    <3> SUFFICES ASSUME NEW i \in 1..Len(g), NEW j \in 1..Len(g), got[i] = got[j]
                 PROVE  i = j
      BY <2>2 DEF NoMessageTwice
    <3>1. PICK m \in Messages : m = g[j]
      BY <2>2
    <3>2. got[i][1] = FirstOf(m)
      BY <2>2, <3>1
    <3>3. g[i] = g[j]
      BY <2>2, <3>1, <3>2
    <3> QED BY <2>2, <3>3 DEF Once
  <2>5. OrderIsKept
    <3> SUFFICES ASSUME NEW m \in Messages, conn.msgs[m].order, Read(m), NEW n \in 1..(m - 1)
                 PROVE  Read(n) /\ Position(n) < Position(m)
      BY DEF OrderIsKept
    <3>1. PICK i \in 1..Len(g) : g[i] = m
      <4>1. PICK i \in DOMAIN got : got[i][1] = conn.msgs[m].first
        BY DEF Read
      <4> QED BY <2>2, <4>1 DEF FirstOf
    <3>2. PICK j \in 1..(i - 1) : g[j] = n
      BY <2>2, <3>1
    <3>3. j \in 1..Len(g) /\ n \in Messages /\ j < i
      <4>1. j \in 1..Len(g) /\ j < i
        BY <2>2, <3>1, <3>2
      <4> QED BY <2>2, <3>2, <4>1
    <3>4. ASSUME NEW k \in Messages, NEW a \in 1..Len(g), g[a] = k
          PROVE  Read(k) /\ Position(k) = a
      <4>1. \A x \in DOMAIN got : got[x][1] = conn.msgs[k].first <=> x = a
        BY <2>2, <3>4 DEF Once, FirstOf
      <4>2. a \in DOMAIN got
        BY <2>2, <3>4
      <4> QED BY <4>1, <4>2 DEF Read, Position
    <3> QED BY <3>1, <3>2, <3>3, <3>4
  <2> QED BY <2>3, <2>4, <2>5
<1> QED BY <1>1, MessagesAreKept, PTL

\* A message whose blocks the sender has freed was read, or lies whole in the buffer.
LEMMA FreedIsThere ==
  ASSUME conn \in MessageSetups, NEW rc \in Int, NEW rl \in Nat, NEW n, NEW g,
         KeptInOrder(rc, rl, n, g), NEW m \in Messages, LastOf(m) <= rl
  PROVE  Read(m) \/ InBuffer(m)
<1>1. PICK r \in Nat \ {0} : r = RcvBufSize
  BY SetupIsSane
<1>2. PICK b : b = Buffer /\ b.unit = unit
  <2>1. Buffer.unit = unit
    BY DEF Buffer
  <2> QED BY <2>1
<1>3. PICK read : read = ReadOf(g) /\ Holds(b, n, rc, rl, read) /\ Returned(g)
  BY <1>2 DEF KeptInOrder
<1>4. CASE m \in read
  <2>1. PICK i \in 1..Len(g) : g[i] = m
    BY <1>3, <1>4 DEF ReadOf
  <2>2. i \in DOMAIN got /\ got[i][1] = FirstOf(m)
    BY <1>3, <2>1, ReturnedIs
  <2> QED BY <2>2 DEF Read, FirstOf
<1>5. CASE m \notin read
  <2>1. /\ n \in 0..rl /\ rl <= rc + 1 /\ rc + 1 < n + r
        /\ \A k \in n..(n + r - 1) : b.unit[k % r] \in {0, k + 1} /\ (k < rl => b.unit[k % r] # 0)
    BY <1>1, <1>3 DEF Holds
  <2>2. /\ FirstOf(m) \in Nat /\ LastOf(m) \in Nat /\ FirstOf(m) >= 1 /\ LastOf(m) <= Packets
        /\ FirstOf(m) <= LastOf(m) /\ Packets \in Nat
    BY SetupIsSane, PacketsAreFew
  <2>3. PICK e \in 1..Packets : e = FirstOf(m)
    BY <2>2
  <2>4. MsgOf(e) = m
    <3>1. e \in FirstOf(m)..LastOf(m)
      BY <2>2, <2>3
    <3> QED BY <3>1, MessageOf
  <2>5. FirstOf(m) >= n + 1
    <3>1. n \in Nat
      BY <2>1
    <3>2. FirstOf(MsgOf(e)) \in (n + 1)..e
      BY <1>3, <1>5, <2>4, <3>1, UnreadStarts
    <3> QED BY <2>1, <2>2, <2>4, <3>2
  <2>6. ASSUME NEW d \in FirstOf(m)..LastOf(m) PROVE \E s \in Slots : unit[s] = d
    <3>1. PICK k \in n..(n + r - 1) : k = d - 1 /\ k + 1 = d /\ k < rl /\ k \in Nat
      BY <2>1, <2>2, <2>5
    <3>2. b.unit[k % r] = d
      BY <2>1, <3>1
    <3>3. k % r \in Slots
      BY <1>1, <3>1, SlotOfPacket
    <3> QED BY <1>2, <3>2, <3>3
  <2> QED BY <2>6 DEF InBuffer, Payloads, FirstOf, LastOf
<1> QED BY <1>4, <1>5

\* Acknowledgements and skipped numbers mislead neither side: the receiver is never ahead of
\* the sender, no answer looks like an attack, and what the sender frees was delivered, or can
\* be, as long as no message is given up.
THEOREM AcksAreAlwaysTrue == MsgSpec => []AcksAreTrue
<1>1. MessagesInv => AcksAreTrue
  <2> SUFFICES ASSUME MessagesInv PROVE AcksAreTrue
    OBVIOUS
  <2>1. PICK c, la, rc, rl, rla :
          /\ NumbersAt(c, la, rc, rl, rla)
          /\ NothingGivenUp => \E n, g : ContentAt(c, rc, rl, n, g)
    BY DEF MessagesInv
  <2>2. /\ conn \in MessageSetups /\ c \in -1..Top /\ rc \in -1..c /\ rl \in 0..(rc + 1)
        /\ la <= rl /\ la \in 0..(c + 1) /\ Top \in Nat
    BY <2>1, IndicesAreSane
  <2>3. /\ sndCurr = Num(c) /\ rcvCurr = Num(rc) /\ firstBlock = la + 1 /\ (broken => wild)
    BY <2>1 DEF NumbersAt, SenderAt, ReceiverAt
  <2>4. ReceiverIsNotAhead
    <3>1. CASE rc = -1
      <4>1. Isn \in SeqNo /\ c \in -1..(Half - 1)
        <5>1. Isn \in SeqNo /\ Top + 1 <= Half /\ Half \in Nat
          BY <2>2, SetupIsSane, PacketsAreFew
        <5> QED BY <2>2, <5>1
      <4> QED BY <2>3, <3>1, <4>1, FirstIsOldest DEF ReceiverIsNotAhead, Num
    <3>2. CASE rc # -1
      <4>1. rc \in 0..Top /\ c \in -1..Top /\ ~(rc > c)
        BY <2>2, <3>2
      <4>2. seqcmp(Num(rc), Num(c)) \in Int /\ ~(seqcmp(Num(rc), Num(c)) > 0)
        BY <2>2, <4>1, NumFacts
      <4> QED BY <2>3, <4>2 DEF ReceiverIsNotAhead
    <3> QED BY <3>1, <3>2
  <2>5. MsgNoFalseAlarm
    BY <2>3 DEF MsgNoFalseAlarm
  <2>6. AckedIsDelivered
    <3> SUFFICES ASSUME NEW m \in Messages, NothingGivenUp, conn.msgs[m].last < firstBlock
                 PROVE  Read(m) \/ InBuffer(m)
      BY DEF AckedIsDelivered
    <3>1. PICK n, g : KeptInOrder(rc, rl, n, g)
      BY <2>1 DEF ContentAt
    <3>2. LastOf(m) \in Nat
      BY <2>2, SetupIsSane
    <3>3. LastOf(m) <= rl /\ rl \in Nat /\ rc \in Int
      BY <2>2, <2>3, <3>2 DEF LastOf
    <3> QED BY <2>2, <3>1, <3>3, FreedIsThere
  <2> QED BY <2>4, <2>5, <2>6 DEF AcksAreTrue
<1> QED BY <1>1, MessagesAreKept, PTL
=============================================================================
