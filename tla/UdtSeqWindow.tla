----------------------------- MODULE UdtSeqWindow -----------------------------
(***************************************************************************)
(* What CSeqNo promises its users.  A window of consecutive packets slides *)
(* and stretches over the ring of packet numbers, as m_iSndLastAck and     *)
(* m_iSndCurrSeqNo, or m_iRcvLastAck and m_iRcvCurrSeqNo, do; the numbers  *)
(* of its ends are computed by incseq and decseq only, and gap, which no   *)
(* code holds, is the true distance between them.                          *)
(***************************************************************************)
EXTENDS UdtSeqNo

VARIABLES first, last, gap

vars == <<first, last, gap>>

Init == /\ first \in SeqNo /\ last = first /\ gap = 0

\* packData, processData: the next packet.
Grow == /\ gap + 1 < SeqNoTH
        /\ last' = incseq(last) /\ gap' = gap + 1 /\ UNCHANGED first

\* A message drop request, or the first of several lost packets: many at once.
GrowBy(n) == /\ gap + n < SeqNoTH
             /\ last' = incseqBy(last, n) /\ gap' = gap + n /\ UNCHANGED first

\* An acknowledgement.
Retire == /\ gap > 0
          /\ first' = incseq(first) /\ gap' = gap - 1 /\ UNCHANGED last

\* The last packet before one that was lost.
Back == /\ gap > 0
        /\ last' = decseq(last) /\ gap' = gap - 1 /\ UNCHANGED first

Next == Grow \/ Retire \/ Back \/ \E n \in 1..(SeqNoTH - 1) : GrowBy(n)

Spec == Init /\ [][Next]_vars

TypeOK == first \in SeqNo /\ last \in SeqNo /\ gap \in 0..(SeqNoTH - 1)

\* seqoff is the signed distance of two packets of a window, wherever on the ring
\* the window lies: list.cpp and buffer.cpp index arrays with it.
OffsetIsDistance == /\ seqoff(first, last) = gap
                    /\ seqoff(last, first) = -gap

\* The sign of seqcmp is the order of two packets, whichever of them has wrapped.
ComparesByAge == /\ seqcmp(last, first) > 0 <=> gap > 0
                 /\ seqcmp(first, last) < 0 <=> gap > 0
                 /\ seqcmp(first, last) = 0 <=> gap = 0

\* seqlen counts the packets of a range, both ends included: packData compares it
\* with the flow window and the loss lists add it to their lengths.
LengthIsCount == seqlen(first, last) = gap + 1

\* The numbers of a window are told apart, ordered and counted right, all round the ring.
WindowIsRight == TypeOK /\ OffsetIsDistance /\ ComparesByAge /\ LengthIsCount
=============================================================================
