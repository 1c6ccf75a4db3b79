----------------------------- MODULE UdtAckWindow -----------------------------
(***************************************************************************)
(* CACKWindow: the acknowledgements that have been sent and for which no   *)
(* ACK2 has come back, in a ring.  store is the sending of one (sendCtrl   *)
(* 2), acknowledge the arrival of an ACK2 (processCtrl 6): it gives the    *)
(* data acknowledgement that the ACK carried, and everything older is      *)
(* forgotten.  Positions are counted from 0.                               *)
(***************************************************************************)
EXTENDS Integers, Sequences, SequencesExt

CONSTANTS
  RingSize,  \* m_iSize (1024)
  MaxAcks    \* bound: acknowledgements sent, numbered from 1

ASSUME AckWindowAssumption == RingSize \in Nat \ {0, 1} /\ MaxAcks \in Nat

VARIABLES
  ackSeqNo, ackOf,   \* m_piACKSeqNo, m_piACK
  ackHead, ackTail,  \* m_iHead, m_iTail
  ackSent,           \* how many have been stored
  carried,           \* history: the data acknowledgement of each
  ackPending,        \* history: a queue of the last RingSize - 1 that nothing has forgotten
  answered           \* the last ACK2 and what acknowledge made of it: the data
                     \* acknowledgement, -1 when it is not found

ackWindowVars == <<ackSeqNo, ackOf, ackHead, ackTail, ackSent, carried, ackPending, answered>>

AckWindowInit ==
  /\ ackSeqNo = [i \in 0..(RingSize - 1) |-> -1] /\ ackOf = [i \in 0..(RingSize - 1) |-> 0]
  /\ ackHead = 0 /\ ackTail = 0 /\ ackSent = 0 /\ carried = <<>> /\ ackPending = <<>>
  /\ answered = [seq |-> 0, ack |-> -1, expected |-> -1]

\* The oldest is lost when the ring is full.
LastOf(s, n) == SubSeq(s, IF Len(s) > n THEN Len(s) - n + 1 ELSE 1, Len(s))

StoreAck(ack) ==
  /\ ackSent < MaxAcks /\ ackSent' = ackSent + 1
  /\ ackSeqNo' = [ackSeqNo EXCEPT ![ackHead] = ackSent'] /\ ackOf' = [ackOf EXCEPT ![ackHead] = ack]
  /\ ackHead' = (ackHead + 1) % RingSize
  /\ ackTail' = IF ackHead' = ackTail THEN (ackTail + 1) % RingSize ELSE ackTail
  /\ carried' = Append(carried, ack)
  /\ ackPending' = LastOf(Append(ackPending, ackSent'), RingSize - 1)
  /\ UNCHANGED answered

\* Mutant: a ring that has come round is searched to its end only.
SearchedUnwrapped == ackTail..(IF ackHead >= ackTail THEN ackHead - 1 ELSE RingSize - 1)

\* The positions searched, counted on past the end of the ring.
Searched == ackTail..(IF ackHead >= ackTail THEN ackHead - 1 ELSE ackHead + RingSize - 1)

\* m_iTail and, with it, m_iHead, when j is found.
TailAfter(j) == IF ackHead >= ackTail /\ j + 1 = ackHead THEN 0 ELSE (j + 1) % RingSize
HeadAfter(j) == IF ackHead >= ackTail /\ j + 1 = ackHead THEN 0 ELSE ackHead

Acknowledge(seq) ==
  LET found == {j \in Searched : ackSeqNo[j % RingSize] = seq}
      place == SelectInSeq(ackPending, LAMBDA s : s = seq)
  IN  /\ ackPending' = SubSeq(ackPending, place + 1, Len(ackPending))
      /\ answered' = [seq |-> seq, ack |-> IF found = {} THEN -1 ELSE ackOf[(CHOOSE j \in found : TRUE) % RingSize],
                      expected |-> IF place = 0 THEN -1 ELSE carried[seq]]
      /\ IF found = {} THEN UNCHANGED <<ackSeqNo, ackHead, ackTail>>
         ELSE LET j == CHOOSE k \in found : \A l \in found : k <= l IN
              /\ ackTail' = TailAfter(j) /\ ackHead' = HeadAfter(j)
              /\ ackSeqNo' = IF ackHead >= ackTail /\ j + 1 = ackHead THEN [ackSeqNo EXCEPT ![0] = -1]
                             ELSE ackSeqNo
      /\ UNCHANGED <<ackOf, ackSent, carried>>

AckWindowNext ==
  \/ \E ack \in 1..2 : StoreAck(ack)
  \/ \E seq \in 1..ackSent : Acknowledge(seq)

AckWindowSpec == AckWindowInit /\ [][AckWindowNext]_ackWindowVars

-----------------------------------------------------------------------------
\* Whatever ACK2s come, late, twice or never, and however often the ring has gone round: the
\* data acknowledgement found is the one that this very ACK carried, and an ACK2 is in vain
\* only when its ACK, or a later one, has been answered before or the ring was full.
Ack2FindsItsAck == answered.ack = answered.expected

\* The ring holds the pending acknowledgements in the order they were sent.
RingIsQueue ==
  LET n == (ackHead - ackTail + RingSize) % RingSize
  IN  ackPending = [i \in 1..n |-> ackSeqNo[(ackTail + i - 1) % RingSize]]

\* The ring gives every ACK2 the acknowledgement it is for, when it is full and when it wraps.
AckWindowIsRight == Ack2FindsItsAck /\ RingIsQueue
=============================================================================
