----------------------------- MODULE UdtMessages -----------------------------
(***************************************************************************)
(* Messages over a connected socket of type SOCK_DGRAM, in one direction:  *)
(* CUDT::sendmsg and recvmsg, CSndBuffer and CRcvBuffer, message drop.     *)
(* client.cpp sends its lines this way, without a time to live and without *)
(* the order flag.                                                         *)
(*                                                                         *)
(* The i-th block of the send buffer is block i for ever, and payload i is *)
(* what addBuffer wrote there, so that the pointers into the buffer are     *)
(* numbers.  Windows and acknowledgements are those of UdtTransfer, which  *)
(* has their finer steps; the network loses, duplicates and reorders.      *)
(***************************************************************************)
EXTENDS UdtSeqNo, Sequences, FiniteSets

CONSTANT MessageSetups  \* the connections: isn, snd, rcv, timed, msgs

\* Messages are numbered in the order of sendmsg; each has its payloads, its order flag
\* and whether it has a time to live.  Numbers that are skipped included, no number
\* comes again within half the ring.
ASSUME MessageAssumption ==
  \A s \in MessageSetups :
    /\ s.isn \in SeqNo /\ s.snd \in Nat \ {0} /\ s.rcv \in Nat \ {0} /\ s.timed \in BOOLEAN
    /\ s.msgs # <<>>
    /\ s.msgs \in Seq([first : Nat, last : Nat, order : BOOLEAN, ttl : BOOLEAN])
    /\ \A m \in DOMAIN s.msgs :
         /\ s.msgs[m].first = (IF m = 1 THEN 1 ELSE s.msgs[m - 1].last + 1)
         /\ s.msgs[m].last \in s.msgs[m].first..(s.msgs[m].first + s.snd - 1)
         /\ 2 * s.msgs[m].last + 2 < SeqNoTH

Idle    == -2    \* packData is between two packets
Nothing == -1    \* getLostSeq has found nothing to retransmit

VARIABLES
  conn,            \* the one of MessageSetups that this connection has
  \* sender
  sent,            \* m_pLastBlock: the blocks written
  expired,         \* messages whose time to live is over
  firstBlock, currBlock,   \* m_pFirstBlock, m_pCurrBlock
  sndCurr, sndLastAck, sndWin, sndLoss, packing, broken,
  wild,            \* readData has read a block that nobody wrote
  \* receiver
  unit, flag,      \* the payload of each unit, 0 for NULL; m_iFlag
  startPos, lastAckPos, maxPos,
  rcvCurr, rcvLastAck, rcvLastAckAck, rcvLoss,
  reader,          \* recvmsg: "idle"; "asleep" on m_RecvDataCond; "woken"
  got,             \* the messages recvmsg has returned
  \* network
  net

sender   == <<conn, sent, expired, firstBlock, currBlock, sndCurr, sndLastAck, sndWin,
              sndLoss, packing, broken, wild>>
receiver == <<unit, flag, startPos, lastAckPos, maxPos, rcvCurr, rcvLastAck,
              rcvLastAckAck, rcvLoss, reader, got>>
msgVars  == <<sender, receiver, net>>

Isn        == conn.isn
SndBufSize == conn.snd
RcvBufSize == conn.rcv
Messages   == DOMAIN conn.msgs
Packets    == conn.msgs[Len(conn.msgs)].last

MsgOf(d)   == CHOOSE m \in Messages : d \in conn.msgs[m].first..conn.msgs[m].last
Payloads(m) == conn.msgs[m].first..conn.msgs[m].last

\* What addBuffer writes into the header beside the message number.
IsFirst(d)   == d = conn.msgs[MsgOf(d)].first
IsLast(d)    == d = conn.msgs[MsgOf(d)].last
IsOrdered(d) == conn.msgs[MsgOf(d)].order

Data(s, d)      == [kind |-> "data", seq |-> s, data |-> d]
Ack(a, w)       == [kind |-> "ack", ack |-> a, win |-> w]
Ack2(a)         == [kind |-> "ack2", ack |-> a]
Nak(lo, hi)     == [kind |-> "nak", lo |-> lo, hi |-> hi]
Drop(m, lo, hi) == [kind |-> "drop", msg |-> m, lo |-> lo, hi |-> hi]

Oldest(S)    == CHOOSE s \in S : \A t \in S : seqcmp(s, t) <= 0
Span(lo, hi) == {incseqBy(lo, k) : k \in 0..seqoff(lo, hi)}
Through(S, s) == {t \in S : seqcmp(t, s) <= 0}

MsgInit ==
  /\ conn \in MessageSetups
  /\ sent = 0 /\ expired = {} /\ firstBlock = 1 /\ currBlock = 1
  /\ sndCurr = Isn - 1 /\ sndLastAck = Isn /\ sndWin = RcvBufSize /\ sndLoss = {}
  /\ packing = Idle /\ broken = FALSE /\ wild = FALSE
  /\ unit = [i \in 0..(RcvBufSize - 1) |-> 0] /\ flag = [i \in 0..(RcvBufSize - 1) |-> 0]
  /\ startPos = 0 /\ lastAckPos = 0 /\ maxPos = 0
  /\ rcvCurr = Isn - 1 /\ rcvLastAck = Isn /\ rcvLastAckAck = Isn /\ rcvLoss = {}
  /\ reader = "idle" /\ got = <<>>
  /\ net = {}

Takes(p, P) == p \in net /\ net' = net \union P
Sends(P)    == net' = net \union P

(***************************************************************************)
(* Sender                                                                  *)
(***************************************************************************)
CurrBufSize == sent - firstBlock + 1

\* sendmsg waits until the whole message fits; addBuffer writes its blocks.
Sendmsg ==
  /\ ~broken /\ sent < Packets
  /\ LET m == MsgOf(sent + 1)
     IN  /\ SndBufSize - CurrBufSize >= Cardinality(Payloads(m))
         /\ sent' = conn.msgs[m].last
  /\ UNCHANGED <<conn, expired, firstBlock, currBlock, sndCurr, sndLastAck, sndWin,
                 sndLoss, packing, broken, wild, receiver, net>>

\* The time to live of a message in the buffer runs out.
Expire(m) ==
  /\ conn.msgs[m].ttl /\ m \notin expired /\ conn.msgs[m].last <= sent
  /\ expired' = expired \union {m}
  /\ UNCHANGED <<conn, sent, firstBlock, currBlock, sndCurr, sndLastAck, sndWin, sndLoss,
                 packing, broken, wild, receiver, net>>

PickPacket ==
  /\ ~broken /\ packing = Idle
  /\ packing' = IF sndLoss = {} THEN Nothing ELSE Oldest(sndLoss)
  /\ sndLoss' = sndLoss \ {packing'}
  /\ UNCHANGED <<conn, sent, expired, firstBlock, currBlock, sndCurr, sndLastAck, sndWin,
                 broken, wild, receiver, net>>

LostBlock == firstBlock + seqoff(sndLastAck, packing)

\* packData, a lost packet: acknowledged meanwhile; or sent again.
Retransmit ==
  /\ packing \in SeqNo
  /\ packing' = Idle
  /\ seqoff(sndLastAck, packing) >= 0 => LostBlock <= sent /\ MsgOf(LostBlock) \notin expired
  /\ Sends(IF seqoff(sndLastAck, packing) >= 0 THEN {Data(packing, LostBlock)} ELSE {})
  /\ UNCHANGED <<conn, sent, expired, firstBlock, currBlock, sndCurr, sndLastAck, sndWin,
                 sndLoss, broken, wild, receiver>>

\* The newest number after packets up to hi have been given up.
Skipped(hi) == IF seqcmp(sndCurr, incseq(hi)) < 0 THEN incseq(hi) ELSE sndCurr

\* packData, a lost packet whose message has lived too long: readData counts what is left
\* of the message and moves m_pCurrBlock behind it; the peer is told; the loss list and
\* m_iSndCurrSeqNo move on, to the number after the next one.
DropMessage ==
  /\ packing \in SeqNo /\ seqoff(sndLastAck, packing) >= 0
  /\ LostBlock <= sent /\ MsgOf(LostBlock) \in expired
  /\ packing' = Idle
  /\ LET m      == MsgOf(LostBlock)
         last   == conn.msgs[m].last
         msglen == last - LostBlock + 1
         hi     == incseqBy(packing, msglen)
     IN  /\ currBlock' = IF currBlock \in (LostBlock + 1)..last THEN last + 1 ELSE currBlock
         /\ Sends({Drop(m, packing, hi)})
         /\ sndLoss' = sndLoss \ Through(sndLoss, hi)
         /\ sndCurr' = Skipped(hi)
  /\ UNCHANGED <<conn, sent, expired, firstBlock, sndLastAck, sndWin, broken, wild, receiver>>

\* readData is sent beyond m_pLastBlock: what it finds there is undefined, and nothing
\* that follows is modelled.
RunWild ==
  /\ packing \in SeqNo /\ seqoff(sndLastAck, packing) >= 0 /\ LostBlock > sent
  /\ packing' = Idle /\ wild' = TRUE /\ broken' = TRUE
  /\ UNCHANGED <<conn, sent, expired, firstBlock, currBlock, sndCurr, sndLastAck, sndWin,
                 sndLoss, receiver, net>>

\* packData, a new packet.
SendNew ==
  /\ packing = Nothing
  /\ packing' = Idle
  /\ IF sndWin >= seqlen(sndLastAck, incseq(sndCurr)) /\ currBlock # sent + 1
     THEN /\ sndCurr' = incseq(sndCurr)
          /\ currBlock' = currBlock + 1
          /\ Sends({Data(sndCurr', currBlock)})
     ELSE UNCHANGED <<sndCurr, currBlock, net>>
  /\ UNCHANGED <<conn, sent, expired, firstBlock, sndLastAck, sndWin, sndLoss, broken,
                 wild, receiver>>

\* "This should not happen: attack or bug" (core.cpp 2000).
AcksUnsent(ack) == seqcmp(ack, incseq(sndCurr)) > 0

\* processCtrl, case 2, in one step.
ReceiveAck(p) ==
  /\ ~broken /\ p.kind = "ack"
  /\ Takes(p, {Ack2(p.ack)})
  /\ LET attack == AcksUnsent(p.ack)
         offset == seqoff(sndLastAck, p.ack)
     IN  /\ broken' = attack
         /\ sndWin' = IF ~attack /\ offset >= 0 THEN p.win ELSE sndWin
         /\ IF ~attack /\ offset > 0
            THEN /\ sndLastAck' = p.ack
                 /\ firstBlock' = firstBlock + offset
                 /\ sndLoss' = sndLoss \ Through(sndLoss, decseq(p.ack))
            ELSE UNCHANGED <<sndLastAck, firstBlock, sndLoss>>
  /\ UNCHANGED <<conn, sent, expired, currBlock, sndCurr, packing, wild, receiver>>

\* processCtrl, case 3.
ReceiveNak(p) ==
  /\ ~broken /\ p.kind = "nak"
  /\ Takes(p, {})
  /\ LET stale  == seqcmp(p.hi, sndLastAck) < 0
         attack == /\ seqcmp(p.lo, p.hi) > 0 \/ seqcmp(p.hi, sndCurr) > 0
                   /\ ~(p.lo = p.hi /\ stale)
         from   == IF seqcmp(p.lo, sndLastAck) >= 0 THEN p.lo ELSE sndLastAck
     IN  /\ broken' = attack
         /\ sndLoss' = IF attack \/ stale THEN sndLoss ELSE sndLoss \union Span(from, p.hi)
  /\ UNCHANGED <<conn, sent, expired, firstBlock, currBlock, sndCurr, sndLastAck, sndWin,
                 packing, wild, receiver>>

\* checkTimers: nothing heard for long, and no retransmission waiting.
Exp ==
  /\ ~broken
  /\ CurrBufSize > 0 /\ incseq(sndCurr) # sndLastAck /\ sndLoss = {}
  /\ sndLoss' = Span(sndLastAck, sndCurr)
  /\ UNCHANGED <<conn, sent, expired, firstBlock, currBlock, sndCurr, sndLastAck, sndWin,
                 packing, broken, wild, receiver, net>>

(***************************************************************************)
(* Receiver: the receiving thread                                          *)
(***************************************************************************)
Slots    == 0..(RcvBufSize - 1)
Slot(i)  == i % RcvBufSize
Readable == Slot(lastAckPos - startPos + RcvBufSize)
Avail    == RcvBufSize - Readable - 1

\* processData and CRcvBuffer::addData.
ReceiveData(p) ==
  /\ p.kind = "data"
  /\ LET offset == seqoff(rcvLastAck, p.seq)
         pos    == Slot(lastAckPos + offset)
         gap    == seqcmp(p.seq, incseq(rcvCurr)) > 0
         lo     == incseq(rcvCurr)
         hi     == decseq(p.seq)
         newer  == seqcmp(p.seq, rcvCurr) > 0
         inside == offset >= 0 /\ offset < Avail
     IN  /\ maxPos' = IF inside /\ offset > maxPos THEN offset ELSE maxPos
         /\ IF ~inside \/ unit[pos] # 0
            THEN Takes(p, {}) /\ UNCHANGED <<unit, flag, rcvCurr, rcvLoss>>
            ELSE /\ unit' = [unit EXCEPT ![pos] = p.data]
                 /\ flag' = [flag EXCEPT ![pos] = 1]
                 /\ Takes(p, IF gap THEN {Nak(lo, hi)} ELSE {})
                 /\ rcvCurr' = IF newer THEN p.seq ELSE rcvCurr
                 /\ rcvLoss' = (IF gap THEN rcvLoss \union Span(lo, hi) ELSE rcvLoss)
                               \ (IF newer THEN {} ELSE {p.seq})
  /\ UNCHANGED <<sender, startPos, lastAckPos, rcvLastAck, rcvLastAckAck, reader, got>>

\* dropMsg compares the message number with the whole field, which holds it alone only
\* in the middle of a message without the order flag.
DropMatches(m, d) == d # 0 /\ MsgOf(d) = m /\ ~IsFirst(d) /\ ~IsLast(d) /\ ~IsOrdered(d)

\* CRcvLossList::remove(seqno1, seqno2): a range that wraps leaves its largest number in the
\* list, list.cpp 640.
CrossedOut(lo, hi) == IF lo <= hi THEN Span(lo, hi) ELSE Span(lo, hi) \ {MaxSeqNo}

\* processCtrl, case 7.
ReceiveDrop(p) ==
  /\ p.kind = "drop"
  /\ Takes(p, {})
  /\ LET reach == {Slot(startPos + i) : i \in 0..(Slot(lastAckPos + maxPos - startPos
                                                        + RcvBufSize) - 1)}
     IN  flag' = [s \in Slots |-> IF s \in reach /\ DropMatches(p.msg, unit[s])
                                  THEN 3 ELSE flag[s]]
  /\ rcvLoss' = rcvLoss \ CrossedOut(p.lo, p.hi)
  /\ rcvCurr' = IF seqcmp(p.lo, incseq(rcvCurr)) <= 0 /\ seqcmp(p.hi, rcvCurr) > 0
                THEN p.hi ELSE rcvCurr
  /\ UNCHANGED <<sender, unit, startPos, lastAckPos, maxPos, rcvLastAck, rcvLastAckAck,
                 reader, got>>

\* Mutant: the loss list is not consulted.
AckNowNewest == incseq(rcvCurr)

\* The first packet not received.
AckNow == IF rcvLoss = {} THEN incseq(rcvCurr) ELSE Oldest(rcvLoss)

\* ackData.
MaxPosAfter(acksize) == IF maxPos < acksize THEN 0 ELSE maxPos - acksize

\* Mutant: no signal for a single packet.
ReaderAfterMany(acksize) == IF reader = "asleep" /\ acksize > 1 THEN "woken" ELSE reader

\* The signal on m_RecvDataCond.
ReaderAfter(acksize) == IF reader = "asleep" /\ acksize > 0 THEN "woken" ELSE reader

\* sendCtrl, case 2: what is new is handed to the reader, who is woken.
SendAck ==
  /\ AckNow # rcvLastAckAck /\ seqcmp(AckNow, rcvLastAck) >= 0
  /\ LET acksize == seqoff(rcvLastAck, AckNow)
     IN  /\ rcvLastAck' = AckNow
         /\ lastAckPos' = Slot(lastAckPos + acksize)
         /\ maxPos' = MaxPosAfter(acksize)
         /\ reader' = ReaderAfter(acksize)
  /\ UNCHANGED <<sender, unit, flag, startPos, rcvCurr, rcvLastAckAck, rcvLoss, got>>
  /\ Sends(IF seqcmp(AckNow, rcvLastAckAck) > 0
           THEN {Ack(AckNow, IF Avail' < 2 THEN 2 ELSE Avail')} ELSE {})

\* processCtrl, case 6.
ReceiveAck2(p) ==
  /\ p.kind = "ack2"
  /\ Takes(p, {})
  /\ rcvLastAckAck' = IF seqcmp(p.ack, rcvLastAckAck) > 0 THEN p.ack ELSE rcvLastAckAck
  /\ UNCHANGED <<sender, unit, flag, startPos, lastAckPos, maxPos, rcvCurr, rcvLastAck,
                 rcvLoss, reader, got>>

(***************************************************************************)
(* Receiver: the application                                               *)
(***************************************************************************)
\* A state of CRcvBuffer as far as reading changes it.
Buffer == [start |-> startPos, unit |-> unit, flag |-> flag]

At(b, i)    == b.unit[Slot(b.start + i)]
Fresh(b, i) == At(b, i) # 0 /\ b.flag[Slot(b.start + i)] = 1
Acked(b)    == Slot(lastAckPos - b.start + RcvBufSize)

\* scanMsg, first loop: what is acknowledged and is not the head of a message of which all
\* the acknowledged packets are there is thrown away.
IsGoodHead(b, k) ==
  /\ Fresh(b, k) /\ IsFirst(At(b, k))
  /\ \A j \in k..(Acked(b) - 1) :
       (\A i \in k..(j - 1) : Fresh(b, i) /\ ~IsLast(At(b, i))) => Fresh(b, j)

\* The slots from p to q are freed, and the buffer starts behind them.
TakenOut(b, p, q) ==
  LET gone == {Slot(b.start + i) : i \in p..q}
  IN  [start |-> Slot(b.start + q + 1),
       unit  |-> [s \in Slots |-> IF s \in gone THEN 0 ELSE b.unit[s]],
       flag  |-> [s \in Slots |-> IF s \in gone THEN 0 ELSE b.flag[s]]]

Emptied(b, n) == TakenOut(b, 0, n - 1)

Cleaned(b) ==
  Emptied(b, CHOOSE k \in 0..Acked(b) :
               /\ k = Acked(b) \/ IsGoodHead(b, k)
               /\ \A j \in 0..(k - 1) : ~IsGoodHead(b, j))

\* Mutant: a hole does not end the search for the tail.
HeadsAcrossHoles(b, i) ==
  {k \in 0..i : /\ Fresh(b, k) /\ IsFirst(At(b, k))
                /\ \A j \in (k + 1)..i : Fresh(b, j) => ~IsFirst(At(b, j))}

\* scanMsg, second loop: the last head before i, with no hole up to i.
Heads(b, i) == {k \in 0..i : /\ \A j \in k..i : Fresh(b, j)
                             /\ IsFirst(At(b, k))
                             /\ \A j \in (k + 1)..i : ~IsFirst(At(b, j))}

\* Where messages end that may be read: acknowledged, or allowed to be read before that.
Ends(b) == {i \in 0..(maxPos + Acked(b)) :
              /\ Fresh(b, i) /\ IsLast(At(b, i)) /\ Heads(b, i) # {}
              /\ i < Acked(b) \/ ~IsOrdered(At(b, i))}

NothingThere(b) == b.start = lastAckPos /\ maxPos <= 0

\* scanMsg: nothing, or the buffer after the first loop, and where a message starts and
\* ends.  A message as large as the buffer is found too, but nothing of it is read.
ScanMsg(b) ==
  LET c == Cleaned(b)
  IN  IF NothingThere(b) THEN [found |-> FALSE, buf |-> b]
      ELSE IF Ends(c) = {} THEN [found |-> FALSE, buf |-> c]
      ELSE LET q == CHOOSE i \in Ends(c) : \A j \in Ends(c) : i <= j
           IN  [found |-> TRUE, buf |-> c, p |-> CHOOSE k \in Heads(c, q) : TRUE, q |-> q]

\* readMsg: an acknowledged message is taken out of the buffer (what lies before its head,
\* if anything does, keeps its slots); another one is marked as read.
AfterRead(r) ==
  IF r.q < Acked(r.buf) THEN TakenOut(r.buf, r.p, r.q)
  ELSE [r.buf EXCEPT !.flag = [s \in Slots |->
          IF \E i \in r.p..r.q : s = Slot(r.buf.start + i) THEN 2 ELSE @[s]]]

SetBuffer(b) == startPos' = b.start /\ unit' = b.unit /\ flag' = b.flag

\* recvmsg: readMsg, then getRcvMsgNum, which scans once more; or what follows otherwise.
ReadOr(otherwise) ==
  /\ LET r == ScanMsg(Buffer)
     IN  IF r.found
         THEN /\ got' = Append(got, [i \in 1..(r.q - r.p + 1) |-> At(r.buf, r.p + i - 1)])
              /\ SetBuffer(ScanMsg(AfterRead(r)).buf)
              /\ reader' = "idle"
         ELSE /\ SetBuffer(r.buf)
              /\ reader' = otherwise
              /\ UNCHANGED got
  /\ UNCHANGED <<sender, lastAckPos, maxPos, rcvCurr, rcvLastAck, rcvLastAckAck, rcvLoss, net>>

\* Without a timeout recvmsg reads, and waits if there is nothing; woken, it reads again.
Recvmsg ==
  /\ reader = "woken" \/ (reader = "idle" /\ ~conn.timed)
  /\ ReadOr("asleep")

\* With UDT_RCVTIMEO it waits first, whatever there is.
RecvmsgTimed ==
  /\ reader = "idle" /\ conn.timed
  /\ reader' = "asleep"
  /\ UNCHANGED <<sender, unit, flag, startPos, lastAckPos, maxPos, rcvCurr, rcvLastAck,
                 rcvLastAckAck, rcvLoss, got, net>>

\* Mutant: no look at the buffer once the time is over.
TimeOutWithoutReading ==
  /\ reader = "asleep" /\ conn.timed
  /\ reader' = "idle"
  /\ UNCHANGED <<sender, unit, flag, startPos, lastAckPos, maxPos, rcvCurr, rcvLastAck,
                 rcvLastAckAck, rcvLoss, got, net>>

\* The time is over: it reads once more before it gives up.
TimeOut ==
  /\ reader = "asleep" /\ conn.timed
  /\ ReadOr("idle")

PackData == PickPacket \/ Retransmit \/ DropMessage \/ RunWild \/ SendNew

MsgNext ==
  /\ ~wild
  /\ \/ Sendmsg \/ (\E m \in Messages : Expire(m)) \/ PackData \/ Exp \/ SendAck
     \/ Recvmsg \/ RecvmsgTimed \/ TimeOut
     \/ \E p \in net : \/ ReceiveAck(p) \/ ReceiveNak(p) \/ ReceiveData(p)
                       \/ ReceiveDrop(p) \/ ReceiveAck2(p)

MsgSpec == MsgInit /\ [][MsgNext]_msgVars

-----------------------------------------------------------------------------

\* "A message will be either completely delivered or not delivered at all" (t-msg.htm:14):
\* what recvmsg returns is one message, whole.
MessagesAreWhole ==
  \A i \in DOMAIN got : \E m \in Messages :
    got[i] = [k \in 1..Cardinality(Payloads(m)) |-> conn.msgs[m].first + k - 1]

\* No message is returned twice, though it may be read before it is acknowledged.
NoMessageTwice == \A i, j \in DOMAIN got : got[i] = got[j] => i = j

Read(m)     == \E i \in DOMAIN got : got[i][1] = conn.msgs[m].first
Position(m) == CHOOSE i \in DOMAIN got : got[i][1] = conn.msgs[m].first
InBuffer(m) == \A d \in Payloads(m) : \E s \in Slots : unit[s] = d

\* A message with the order flag comes after all messages before it.
OrderIsKept ==
  \A m \in Messages : conn.msgs[m].order /\ Read(m) =>
    \A n \in 1..(m - 1) : Read(n) /\ Position(n) < Position(m)

\* Whoever sleeps in recvmsg has not missed a message that is acknowledged and complete:
\* the one signal, with an acknowledgement, is enough.
NoMessageMissed ==
  reader = "asleep" /\ ~conn.timed => \A i \in Ends(Buffer) : i >= Acked(Buffer)

\* A call with a timeout that comes back with nothing leaves nothing that it could return.
TimeoutTellsTheTruth ==
  [][reader = "asleep" /\ reader' = "idle" /\ got' = got =>
       \A i \in Ends(Buffer)' : i >= Acked(Buffer)']_msgVars

\* The sender skips the numbers of a message it gives up: the receiver is never ahead of
\* it, and no answer looks like an attack.
ReceiverIsNotAhead == seqcmp(rcvCurr, sndCurr) <= 0
MsgNoFalseAlarm    == broken => wild

\* No message has been given up: from the first drop request on numbers and blocks do not
\* match, and packets are sent under each other's numbers.
NothingGivenUp == \A p \in net : p.kind # "drop"

\* Once the sender has freed the blocks of a message, the receiver has read it or can.
AckedIsDelivered ==
  \A m \in Messages : NothingGivenUp /\ conn.msgs[m].last < firstBlock =>
    Read(m) \/ InBuffer(m)

\* What recvmsg returns are messages that were sent, whole, once, and in order where order
\* is asked for, as long as none is given up.
DeliveredAsSent == NothingGivenUp => MessagesAreWhole /\ NoMessageTwice /\ OrderIsKept

\* Acknowledgements and skipped numbers mislead neither side.
AcksAreTrue == ReceiverIsNotAhead /\ MsgNoFalseAlarm /\ AckedIsDelivered

\* The packet of d was sent, and the number it had is acknowledged: no copy of it is taken
\* any more.
IsAcked(d) == \E p \in net : p.kind = "data" /\ p.data = d /\ seqcmp(p.seq, sndLastAck) < 0

\* "The default value is infinite, which means that the message will always be delivered"
\* (t-msg.htm:30-31), whatever becomes of the others: once all its packets were sent and
\* acknowledged, and the sender has freed its blocks, the receiver has read it or can.
InfiniteIsDelivered ==
  \A m \in Messages :
    /\ ~conn.msgs[m].ttl /\ conn.msgs[m].last < firstBlock
    /\ \A d \in Payloads(m) : IsAcked(d)
    => Read(m) \/ InBuffer(m)

\* list.h 137, the comment on CRcvLossList::remove(seqno1, seqno2): "Remove all packets
\* between seqno1 and seqno2": the receiver does not wait any more for a packet that it was
\* told to drop.
DroppedIsNotAwaited ==
  [][\A p \in net : ReceiveDrop(p) => rcvLoss' \cap Span(p.lo, p.hi) = {}]_msgVars
=============================================================================
