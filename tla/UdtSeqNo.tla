------------------------------- MODULE UdtSeqNo -------------------------------
(***************************************************************************)
(* CSeqNo of the UDT library: arithmetic on packet numbers that wrap       *)
(* around.  Packet numbers are 0..MaxSeqNo, held in an int of one bit more; *)
(* the difference of two of them fits, what is computed from it need not.  *)
(* m_iSndCurrSeqNo starts at the initial number minus 1, which may be -1, so *)
(* -1 is an operand too.                                                   *)
(***************************************************************************)
EXTENDS Integers

CONSTANTS SeqNoTH,    \* CSeqNo::m_iSeqNoTH, 0x3FFFFFFF
          MaxSeqNo    \* CSeqNo::m_iMaxSeqNo, 0x7FFFFFFF

\* core.cpp 71-73: the threshold is half the ring, less one.
ASSUME SeqNoAssumption == /\ SeqNoTH \in Nat \ {0}
                          /\ MaxSeqNo = 2 * SeqNoTH + 1

SeqNo == 0..MaxSeqNo

\* A sum or difference as the int of the machine holds it.
Int32(i) == IF i > MaxSeqNo THEN i - 2 * (MaxSeqNo + 1)
            ELSE IF i < -(MaxSeqNo + 1) THEN i + 2 * (MaxSeqNo + 1)
            ELSE i
Abs32(i) == IF i < 0 THEN Int32(-i) ELSE i

\* Mutant: a plain difference.
seqcmpPlain(seq1, seq2) == Int32(seq1 - seq2)

seqcmp(seq1, seq2) ==
  IF Abs32(Int32(seq1 - seq2)) < SeqNoTH THEN Int32(seq1 - seq2) ELSE Int32(seq2 - seq1)

seqlen(seq1, seq2) ==
  IF seq1 <= seq2 THEN Int32(seq2 - seq1 + 1) ELSE Int32(seq2 - seq1 + MaxSeqNo + 2)

seqoff(seq1, seq2) ==
  IF Abs32(Int32(seq1 - seq2)) < SeqNoTH THEN Int32(seq2 - seq1)
  ELSE IF seq1 < seq2 THEN Int32(seq2 - seq1 - MaxSeqNo - 1)
  ELSE Int32(seq2 - seq1 + MaxSeqNo + 1)

incseq(seq) == IF seq = MaxSeqNo THEN 0 ELSE seq + 1
decseq(seq) == IF seq = 0 THEN MaxSeqNo ELSE seq - 1

\* The overload with an increment.
incseqBy(seq, inc) ==
  IF MaxSeqNo - seq >= inc THEN seq + inc ELSE seq - MaxSeqNo + inc - 1
=============================================================================
