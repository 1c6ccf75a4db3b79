----------------------------- MODULE UdtTransfer -----------------------------
(***************************************************************************)
(* Data transfer over a connected stream socket of the UDT library, in one *)
(* direction: CUDT::send, packData and the control packets that the sender *)
(* processes on one side; processData, acknowledgements and CUDT::recv on  *)
(* the other.  The network loses, duplicates and reorders.                 *)
(*                                                                         *)
(* At the sender three threads run: the application, the sending thread    *)
(* (packData) and the receiving thread (processCtrl, checkTimers).  The    *)
(* steps below are split where one of them can see another halfway.        *)
(*                                                                         *)
(* Payloads are numbered as they are sent and fill one packet each; timers *)
(* may run out at any moment.                                              *)
(***************************************************************************)
EXTENDS UdtSeqNo, Sequences, FiniteSets

CONSTANTS
  Setups,       \* what the two sides may start with, see Isn, SndBufSize, RcvBufSize
  Payloads,     \* bound: how many payloads the application sends
  Duplicating,  \* whether a packet may arrive more than once
  MaxLoss       \* bound: packets lost, when they arrive only once

ASSUME TransferAssumption ==
  /\ Setups \subseteq [isn : SeqNo, snd : Nat \ {0}, rcv : Nat \ {0}]
  /\ Payloads \in 1..(SeqNoTH - 1) /\ Duplicating \in BOOLEAN /\ MaxLoss \in Nat

NoSeq == -2     \* packData is between two packets
NewSeq == -1    \* getLostSeq has found nothing to retransmit
NoAck == [kind |-> "none"]

VARIABLES
  setup,           \* the one of Setups that this connection has
  \* sender
  sent,            \* payloads handed to send()
  sndBuf,          \* CSndBuffer, from m_pFirstBlock to m_pLastBlock
  currBlock,       \* blocks before m_pCurrBlock
  sndCurr, sndLastAck, sndLastDataAck,
  sndWin,          \* m_iFlowWindowSize
  sndLoss,         \* CSndLossList
  packing,         \* the sequence number packData is at, NewSeq or NoSeq
  acking,          \* the acknowledgement processCtrl is halfway through
  broken,          \* m_bBroken
  \* receiver
  unit,            \* m_pUnit, 0 for NULL
  startPos, lastAckPos,
  rcvCurr, rcvLastAck, rcvLastAckAck,
  rcvLoss,         \* CRcvLossList
  got,             \* what recv() has returned
  \* network
  net, losses

sndVars == <<setup, sent, sndBuf, currBlock, sndCurr, sndLastAck, sndLastDataAck, sndWin,
             sndLoss, packing, acking, broken>>
rcvVars == <<setup, unit, startPos, lastAckPos, rcvCurr, rcvLastAck, rcvLastAckAck, rcvLoss,
             got>>
vars    == <<sndVars, rcvVars, net, losses>>

Isn        == setup.isn     \* m_iISN of the sender
SndBufSize == setup.snd     \* m_iSndBufSize of the sender
RcvBufSize == setup.rcv     \* m_iRcvBufSize of the receiver

Data(s, d)  == [kind |-> "data", seq |-> s, data |-> d]
\* The number of an ACK names the data acknowledgement stored with it in m_pACKWindow.
Ack(a, w)   == [kind |-> "ack", ack |-> a, win |-> w]
LiteAck(a)  == [kind |-> "lite", ack |-> a]
Ack2(a)     == [kind |-> "ack2", ack |-> a]
Nak(lo, hi) == [kind |-> "nak", lo |-> lo, hi |-> hi]

\* Both loss lists hold their numbers by age, in ranges.
Oldest(S)     == CHOOSE s \in S : \A t \in S : seqcmp(s, t) <= 0
Span(lo, hi)  == {incseqBy(lo, k) : k \in 0..seqoff(lo, hi)}
UpTo(S, s)    == {t \in S : seqcmp(t, s) <= 0}

\* core.cpp 603-610, 742-750: what connect() leaves on the two sides.
Init ==
  /\ setup \in Setups
  /\ sent = 0 /\ sndBuf = <<>> /\ currBlock = 0
  /\ sndCurr = Isn - 1 /\ sndLastAck = Isn /\ sndLastDataAck = Isn
  /\ sndWin = RcvBufSize /\ sndLoss = {} /\ packing = NoSeq /\ acking = NoAck
  /\ broken = FALSE
  /\ unit = [i \in 0..(RcvBufSize - 1) |-> 0] /\ startPos = 0 /\ lastAckPos = 0
  /\ rcvCurr = Isn - 1 /\ rcvLastAck = Isn /\ rcvLastAckAck = Isn
  /\ rcvLoss = {} /\ got = <<>>
  /\ net = {} /\ losses = 0

\* A step takes p from the network and sends the packets of P.
Takes(p, P) == /\ p \in net
               /\ net' = (IF Duplicating THEN net ELSE net \ {p}) \union P
               /\ UNCHANGED losses
Sends(P)    == net' = net \union P /\ UNCHANGED losses

(***************************************************************************)
(* Sender: the application                                                 *)
(***************************************************************************)
Send ==
  /\ ~broken /\ sent < Payloads /\ Len(sndBuf) < SndBufSize
  /\ sent' = sent + 1
  /\ sndBuf' = Append(sndBuf, sent + 1)
  /\ UNCHANGED <<currBlock, sndCurr, sndLastAck, sndLastDataAck, sndWin, sndLoss,
                 packing, acking, broken, rcvVars, net, losses>>

(***************************************************************************)
(* Sender: the sending thread, packData                                    *)
(***************************************************************************)
\* getLostSeq takes the oldest lost packet out of the loss list, or finds none.
PickPacket ==
  /\ ~broken /\ packing = NoSeq
  /\ packing' = IF sndLoss = {} THEN NewSeq ELSE Oldest(sndLoss)
  /\ sndLoss' = sndLoss \ {packing'}
  /\ UNCHANGED <<sent, sndBuf, currBlock, sndCurr, sndLastAck, sndLastDataAck, sndWin,
                 acking, broken, rcvVars, net, losses>>

\* Mutant: the block is found by its distance from m_iSndLastAck.
RetransmitFromLastAck ==
  /\ packing \in SeqNo
  /\ packing' = NoSeq
  /\ LET offset == seqoff(sndLastAck, packing)
         block  == IF offset + 1 \in 1..Len(sndBuf) THEN sndBuf[offset + 1] ELSE 0
     IN  Sends(IF offset < 0 THEN {} ELSE {Data(packing, block)})
  /\ UNCHANGED <<sent, sndBuf, currBlock, sndCurr, sndLastAck, sndLastDataAck, sndWin,
                 sndLoss, acking, broken, rcvVars>>

\* Under m_AckLock: the block is found by its distance from what is acknowledged.
Retransmit ==
  /\ packing \in SeqNo
  /\ packing' = NoSeq
  /\ LET offset == seqoff(sndLastDataAck, packing)
         block  == IF offset + 1 \in 1..Len(sndBuf) THEN sndBuf[offset + 1] ELSE 0
     IN  Sends(IF offset < 0 THEN {} ELSE {Data(packing, block)})
  /\ UNCHANGED <<sent, sndBuf, currBlock, sndCurr, sndLastAck, sndLastDataAck, sndWin,
                 sndLoss, acking, broken, rcvVars>>

\* Mutant: the packet about to be sent is not counted.
WindowOpenOneMore == sndWin >= seqlen(sndLastAck, incseq(sndCurr)) - 1

WindowOpen == sndWin >= seqlen(sndLastAck, incseq(sndCurr))

\* A new packet, if the flow window admits it and there is one.
SendNew ==
  /\ packing = NewSeq
  /\ packing' = NoSeq
  /\ IF WindowOpen /\ currBlock < Len(sndBuf)
     THEN /\ sndCurr' = incseq(sndCurr)
          /\ currBlock' = currBlock + 1
          /\ Sends({Data(sndCurr', sndBuf[currBlock + 1])})
     ELSE UNCHANGED <<sndCurr, currBlock, net, losses>>
  /\ UNCHANGED <<sent, sndBuf, sndLastAck, sndLastDataAck, sndWin, sndLoss, acking,
                 broken, rcvVars>>

(***************************************************************************)
(* Sender: the receiving thread, processCtrl and checkTimers               *)
(***************************************************************************)
\* Mutant: the check of the acknowledgement is off by one.
StartAckStrict(p) ==
  /\ ~broken /\ acking = NoAck /\ p.kind = "ack"
  /\ Takes(p, {Ack2(p.ack)})
  /\ LET attack == seqcmp(p.ack, sndCurr) > 0
     IN  /\ broken' = attack
         /\ acking' = IF attack THEN NoAck ELSE p
         /\ sndWin' = IF ~attack /\ seqcmp(p.ack, sndLastAck) >= 0 THEN p.win ELSE sndWin
  /\ UNCHANGED <<sent, sndBuf, currBlock, sndCurr, sndLastAck, sndLastDataAck, sndLoss,
                 packing, rcvVars>>

\* A full ACK is answered with an ACK2 and checked; then the window is set, before
\* m_iSndLastAck.
StartAck(p) ==
  /\ ~broken /\ acking = NoAck /\ p.kind = "ack"
  /\ Takes(p, {Ack2(p.ack)})
  /\ LET attack == seqcmp(p.ack, incseq(sndCurr)) > 0
     IN  /\ broken' = attack
         /\ acking' = IF attack THEN NoAck ELSE p
         /\ sndWin' = IF ~attack /\ seqcmp(p.ack, sndLastAck) >= 0 THEN p.win ELSE sndWin
  /\ UNCHANGED <<sent, sndBuf, currBlock, sndCurr, sndLastAck, sndLastDataAck, sndLoss,
                 packing, rcvVars>>

\* A lite ACK only moves the window along.
StartLiteAck(p) ==
  /\ ~broken /\ acking = NoAck /\ p.kind = "lite"
  /\ Takes(p, {})
  /\ acking' = p
  /\ sndWin' = IF seqcmp(p.ack, sndLastAck) >= 0
               THEN sndWin - seqoff(sndLastAck, p.ack) ELSE sndWin
  /\ UNCHANGED <<sent, sndBuf, currBlock, sndCurr, sndLastAck, sndLastDataAck, sndLoss,
                 packing, broken, rcvVars>>

\* m_iSndLastAck, and for a full ACK the buffer and the loss list under m_AckLock.
FinishAck ==
  /\ acking # NoAck
  /\ acking' = NoAck
  /\ sndLastAck' = IF seqcmp(acking.ack, sndLastAck) >= 0 THEN acking.ack ELSE sndLastAck
  /\ LET offset == seqoff(sndLastDataAck, acking.ack)
     IN  IF acking.kind = "ack" /\ offset > 0
         THEN /\ sndBuf' = SubSeq(sndBuf, offset + 1, Len(sndBuf))
              /\ currBlock' = currBlock - offset
              /\ sndLastDataAck' = acking.ack
              /\ sndLoss' = sndLoss \ UpTo(sndLoss, decseq(acking.ack))
         ELSE UNCHANGED <<sndBuf, currBlock, sndLastDataAck, sndLoss>>
  /\ UNCHANGED <<sent, sndCurr, sndWin, packing, broken, rcvVars, net, losses>>

\* A loss report: one packet, or a range of which the acknowledged part is skipped.
ReceiveNak(p) ==
  /\ ~broken /\ acking = NoAck /\ p.kind = "nak"
  /\ Takes(p, {})
  /\ LET stale  == seqcmp(p.hi, sndLastAck) < 0
         attack == /\ seqcmp(p.lo, p.hi) > 0 \/ seqcmp(p.hi, sndCurr) > 0
                   /\ ~(p.lo = p.hi /\ stale)
         from   == IF seqcmp(p.lo, sndLastAck) >= 0 THEN p.lo ELSE sndLastAck
     IN  /\ broken' = attack
         /\ sndLoss' = IF attack \/ stale THEN sndLoss ELSE sndLoss \union Span(from, p.hi)
  /\ UNCHANGED <<sent, sndBuf, currBlock, sndCurr, sndLastAck, sndLastDataAck, sndWin,
                 packing, acking, rcvVars>>

\* checkTimers: nothing heard for long, and no retransmission waiting.
Exp ==
  /\ ~broken /\ acking = NoAck
  /\ sndBuf # <<>> /\ incseq(sndCurr) # sndLastAck /\ sndLoss = {}
  /\ sndLoss' = Span(sndLastAck, sndCurr)
  /\ UNCHANGED <<sent, sndBuf, currBlock, sndCurr, sndLastAck, sndLastDataAck, sndWin,
                 packing, acking, broken, rcvVars, net, losses>>

(***************************************************************************)
(* Receiver                                                                *)
(***************************************************************************)
Readable == IF lastAckPos >= startPos THEN lastAckPos - startPos
            ELSE RcvBufSize + lastAckPos - startPos
Avail    == RcvBufSize - Readable - 1

\* Mutant: the range of a loss includes the packet that revealed it.
ReceiveDataLossTooLong(p) ==
  /\ p.kind = "data"
  /\ LET offset == seqoff(rcvLastAck, p.seq)
         pos    == (lastAckPos + offset) % RcvBufSize
         gap    == seqcmp(p.seq, incseq(rcvCurr)) > 0
         lo     == incseq(rcvCurr)
         newer  == seqcmp(p.seq, rcvCurr) > 0
     IN  IF offset < 0 \/ offset >= Avail \/ unit[pos] # 0
         THEN Takes(p, {}) /\ UNCHANGED <<unit, rcvCurr, rcvLoss>>
         ELSE /\ unit' = [unit EXCEPT ![pos] = p.data]
              /\ Takes(p, IF gap THEN {Nak(lo, p.seq)} ELSE {})
              /\ rcvCurr' = IF newer THEN p.seq ELSE rcvCurr
              /\ rcvLoss' = (IF gap THEN rcvLoss \union Span(lo, p.seq) ELSE rcvLoss)
                            \ (IF newer THEN {} ELSE {p.seq})
  /\ UNCHANGED <<sndVars, startPos, lastAckPos, rcvLastAck, rcvLastAckAck, got>>

\* processData: a packet out of the buffer's reach or there already is dropped; one
\* that is new may reveal a loss, which is reported at once.
ReceiveData(p) ==
  /\ p.kind = "data"
  /\ LET offset == seqoff(rcvLastAck, p.seq)
         pos    == (lastAckPos + offset) % RcvBufSize
         gap    == seqcmp(p.seq, incseq(rcvCurr)) > 0
         lo     == incseq(rcvCurr)
         hi     == decseq(p.seq)
         newer  == seqcmp(p.seq, rcvCurr) > 0
     IN  IF offset < 0 \/ offset >= Avail \/ unit[pos] # 0
         THEN Takes(p, {}) /\ UNCHANGED <<unit, rcvCurr, rcvLoss>>
         ELSE /\ unit' = [unit EXCEPT ![pos] = p.data]
              /\ Takes(p, IF gap THEN {Nak(lo, hi)} ELSE {})
              /\ rcvCurr' = IF newer THEN p.seq ELSE rcvCurr
              /\ rcvLoss' = (IF gap THEN rcvLoss \union Span(lo, hi) ELSE rcvLoss)
                            \ (IF newer THEN {} ELSE {p.seq})
  /\ UNCHANGED <<sndVars, startPos, lastAckPos, rcvLastAck, rcvLastAckAck, got>>

\* Mutant: the loss list is not consulted.
AckNowNewest == incseq(rcvCurr)

\* The first packet not received.
AckNow == IF rcvLoss = {} THEN incseq(rcvCurr) ELSE Oldest(rcvLoss)

\* Mutant: the room is announced as it is, even if it is none.
SendAckNoMinimum ==
  /\ AckNow # rcvLastAckAck
  /\ seqcmp(AckNow, rcvLastAck) >= 0
  /\ rcvLastAck' = AckNow
  /\ lastAckPos' = (lastAckPos + seqoff(rcvLastAck, AckNow)) % RcvBufSize
  /\ UNCHANGED <<sndVars, unit, startPos, rcvCurr, rcvLastAckAck, rcvLoss, got>>
  /\ Sends(IF seqcmp(AckNow, rcvLastAckAck) > 0 THEN {Ack(AckNow, Avail')} ELSE {})

\* sendCtrl, case 2: what is new is handed to the reader, and acknowledged again and
\* again until an ACK2 tells that the sender has heard of it.  Never less than 2
\* packets are announced.
SendAck ==
  /\ AckNow # rcvLastAckAck
  /\ seqcmp(AckNow, rcvLastAck) >= 0
  /\ rcvLastAck' = AckNow
  /\ lastAckPos' = (lastAckPos + seqoff(rcvLastAck, AckNow)) % RcvBufSize
  /\ UNCHANGED <<sndVars, unit, startPos, rcvCurr, rcvLastAckAck, rcvLoss, got>>
  /\ Sends(IF seqcmp(AckNow, rcvLastAckAck) > 0
           THEN {Ack(AckNow, IF Avail' < 2 THEN 2 ELSE Avail')} ELSE {})

\* Between two full ones, after every 64 packets; here, after any.  One that repeats
\* the number of a full one is as good as one sent before it and delayed.
SendLiteAck ==
  /\ AckNow # rcvLastAckAck /\ AckNow # rcvLastAck
  /\ Sends({LiteAck(AckNow)})
  /\ UNCHANGED <<sndVars, unit, startPos, lastAckPos, rcvCurr, rcvLastAck, rcvLastAckAck,
                 rcvLoss, got>>

\* processCtrl, case 6.
ReceiveAck2(p) ==
  /\ p.kind = "ack2"
  /\ Takes(p, {})
  /\ rcvLastAckAck' = IF seqcmp(p.ack, rcvLastAckAck) > 0 THEN p.ack ELSE rcvLastAckAck
  /\ UNCHANGED <<sndVars, unit, startPos, lastAckPos, rcvCurr, rcvLastAck, rcvLoss,
                 got>>

\* recv(): readBuffer returns up to k payloads that were acknowledged, and frees them.
Recv(k) ==
  /\ k <= Readable
  /\ LET slot(i) == (startPos + i - 1) % RcvBufSize
     IN  /\ got' = got \o [i \in 1..k |-> unit[slot(i)]]
         /\ unit' = [j \in DOMAIN unit |->
                       IF \E i \in 1..k : j = slot(i) THEN 0 ELSE unit[j]]
  /\ startPos' = (startPos + k) % RcvBufSize
  /\ UNCHANGED <<sndVars, lastAckPos, rcvCurr, rcvLastAck, rcvLastAckAck, rcvLoss,
                 net, losses>>

\* The network.
Lose(p) ==
  /\ ~Duplicating /\ losses < MaxLoss
  /\ net' = net \ {p} /\ losses' = losses + 1
  /\ UNCHANGED <<sndVars, rcvVars>>

Packs == PickPacket \/ Retransmit \/ SendNew

Next == \/ Send \/ Packs \/ FinishAck \/ Exp \/ SendAck \/ SendLiteAck
        \/ \E k \in 1..RcvBufSize : Recv(k)
        \/ \E p \in net : \/ StartAck(p) \/ StartLiteAck(p) \/ ReceiveNak(p)
                          \/ ReceiveData(p) \/ ReceiveAck2(p) \/ Lose(p)

\* Threads run, timers run out, the application reads what there is, and a packet in
\* the network arrives unless it is lost; packets of one number are one kind of packet.
Fairness ==
  /\ WF_vars(Send) /\ WF_vars(Packs) /\ WF_vars(FinishAck) /\ WF_vars(Exp)
  /\ WF_vars(SendAck) /\ WF_vars(\E k \in 1..RcvBufSize : Recv(k))
  /\ WF_vars(\E p \in net : ReceiveNak(p))
  /\ WF_vars(\E p \in net : StartLiteAck(p))
  /\ \A i \in 1..Payloads :
       /\ WF_vars(\E p \in net : ReceiveData(p) /\ p.data = i)
       /\ WF_vars(\E p \in net : StartAck(p) /\ p.ack = incseqBy(Isn, i))
       /\ WF_vars(\E p \in net : ReceiveAck2(p) /\ p.ack = incseqBy(Isn, i))

Spec     == Init /\ [][Next]_vars
FairSpec == Spec /\ Fairness

-----------------------------------------------------------------------------
\* "This should not happen: attack or bug" (core.cpp 2000, 2161): no acknowledgement
\* and no loss report of an honest receiver, however late, breaks the connection.
NoFalseAlarm == ~broken

\* A packet carries the same payload whenever it is sent: the distance from
\* m_iSndLastDataAck finds its block even while acknowledgements free blocks; and the loss
\* list, with the number that packData has taken from it, names packets that were sent.
RetransmitsTheSame ==
  /\ \A p \in net : p.kind = "data" => p.seq = incseqBy(Isn, p.data - 1)
  /\ \A s \in sndLoss \union ({packing} \intersect SeqNo) : seqcmp(s, sndCurr) <= 0

\* Between the acknowledged packets and the newest one the receiver has every
\* packet, or has it in its loss list, and not both.
EveryPacketIsAccounted ==
  rcvLoss = {s \in Span(rcvLastAck, rcvCurr) :
               unit[(lastAckPos + seqoff(rcvLastAck, s)) % RcvBufSize] = 0}

\* The sender is never further ahead than what the receiver has room for, one packet
\* more that the first window admits, or the 2 packets it always may send.
WindowIsHonoured ==
  seqoff(rcvLastAck, sndCurr) < IF Avail < 1 THEN 2 ELSE Avail + 1

\* What the application reads is what was sent, in order, each payload once, with no
\* more than the two buffers between.
Stream == INSTANCE ReliableStream WITH capacity <- SndBufSize + RcvBufSize - 1
ImplementsStream == Stream!Spec

\* Everything sent is read in the end.
EverythingArrives == <>(Len(got) = Payloads)
=============================================================================
