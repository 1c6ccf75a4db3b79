------------------------------- MODULE LossSet -------------------------------
(***************************************************************************)
(* What a loss list is for: a set of packet numbers.  Ranges go in; single *)
(* numbers, ranges and everything up to a number come out, or the oldest,  *)
(* which is the answer then.  answer is what the last call has returned,   *)
(* 0 when it returns nothing.                                              *)
(***************************************************************************)
EXTENDS UdtSeqNo

VARIABLES lost, answer

Range(lo, hi) == {incseqBy(lo, k) : k \in 0..seqoff(lo, hi)}
First(S)      == CHOOSE s \in S : \A t \in S : seqcmp(s, t) <= 0

Init == lost = {} /\ answer = 0

Insert == /\ \E lo, hi \in lost' : lost' = lost \union Range(lo, hi)
          /\ answer' = 0

TakeFirst == /\ answer' = IF lost = {} THEN -1 ELSE First(lost)
             /\ lost' = lost \ {answer'}

RemoveUpTo == /\ \E s \in SeqNo : lost' = {t \in lost : seqcmp(t, s) > 0}
              /\ answer' = 0

RemoveOne == \E s \in SeqNo :
               /\ lost' = lost \ {s}
               /\ answer' = IF s \in lost THEN 1 ELSE 0

\* From the first to the last that goes; a range that wraps leaves its largest number
\* in, list.cpp 640.
RemoveRange == /\ \E lo, hi \in lost \ lost' :
                    /\ seqcmp(lo, hi) <= 0
                    /\ lost' = lost \ (IF lo <= hi THEN lo..hi ELSE Range(lo, hi) \ {MaxSeqNo})
               /\ answer' = 0

Next == Insert \/ TakeFirst \/ RemoveUpTo \/ RemoveOne \/ RemoveRange

Spec == Init /\ [][Next]_<<lost, answer>>
=============================================================================
