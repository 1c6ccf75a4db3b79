----------------------------- MODULE UdtSndBuffer -----------------------------
(***************************************************************************)
(* CSndBuffer: a circular list of blocks with three pointers, which grows  *)
(* while it is in use.  The application thread fills blocks (addBuffer,    *)
(* addBufferFromFile), the sending thread reads them, first in turn and    *)
(* again when they are lost, and the receiving thread takes acknowledged   *)
(* ones away.  Only m_iCount and the retransmission are under m_BufLock.   *)
(* Payloads are numbered in the order they are sent.                       *)
(***************************************************************************)
EXTENDS Integers, Sequences, FiniteSets

CONSTANTS
  BufferSize,  \* m_iSize at first, and how much an increase adds (32)
  MaxBlocks,   \* bound: memory
  MaxPayload,  \* bound: payloads sent
  SendSizes    \* packets of a call

ASSUME SndBufferAssumption ==
  BufferSize \in Nat \ {0} /\ MaxBlocks \in Nat /\ BufferSize <= MaxBlocks /\ MaxPayload \in Nat /\ SendSizes \subseteq Nat \ {0}

Blocks == 1..MaxBlocks

VARIABLES
  nextBlk,                   \* m_pNext of every block
  content,                   \* the payload of a block
  firstBlk, currBlk, lastBlk,\* m_pFirstBlock, m_pCurrBlock, m_pLastBlock
  size, count,               \* m_iSize, m_iCount
  adder,                     \* where a send is: idle, grow (before the blocks are filled), count;
                             \* blocks it is for, and those the file has data for
  payload,                   \* payloads numbered so far
  toAck,                     \* history: payloads sent to the buffer and not acknowledged
  sentOn,                    \* history: how many of them have been read to be sent
  missing                    \* history: blocks that files had no data for

sndBufferVars == <<nextBlk, content, firstBlk, currBlk, lastBlk, size, count, adder, payload,
                   toAck, sentOn, missing>>

SndBufferInit ==
  /\ nextBlk = [b \in Blocks |-> IF b < BufferSize THEN b + 1 ELSE IF b = BufferSize THEN 1 ELSE 0]
  /\ content = [b \in Blocks |-> 0]
  /\ firstBlk = 1 /\ currBlk = 1 /\ lastBlk = 1 /\ size = BufferSize /\ count = 0
  /\ adder = [at |-> "idle", blocks |-> 0, full |-> 0] /\ payload = 0
  /\ toAck = <<>> /\ sentOn = 0 /\ missing = 0

\* The block n places after b.
After(b, n) == LET f[i \in 0..MaxBlocks] == IF i = 0 THEN b ELSE nextBlk[f[i - 1]] IN f[n]

\* A call; a file may end before its last block.
AddBegins(blocks, full) ==
  /\ adder.at = "idle" /\ payload + full <= MaxPayload /\ blocks + count < MaxBlocks
  /\ adder' = [at |-> "grow", blocks |-> blocks, full |-> full]
  /\ UNCHANGED <<nextBlk, content, firstBlk, currBlk, lastBlk, size, count, payload, toAck, sentOn, missing>>

NeedsMore     == adder.blocks + count >= size

Increase ==
  /\ adder.at = "grow" /\ NeedsMore /\ size + BufferSize <= MaxBlocks
  /\ nextBlk' = [b \in Blocks |-> IF b = lastBlk THEN size + 1
                                  ELSE IF b = size + BufferSize THEN nextBlk[lastBlk]
                                  ELSE IF b > size /\ b < size + BufferSize THEN b + 1 ELSE nextBlk[b]]
  /\ size' = size + BufferSize
  /\ UNCHANGED <<content, firstBlk, currBlk, lastBlk, count, adder, payload, toAck, sentOn, missing>>

Fill ==
  /\ adder.at = "grow" /\ ~NeedsMore
  /\ content' = [b \in Blocks |-> IF \E i \in 1..adder.full : b = After(lastBlk, i - 1)
                                  THEN payload + (CHOOSE i \in 1..adder.full : b = After(lastBlk, i - 1))
                                  ELSE content[b]]
  /\ lastBlk' = After(lastBlk, adder.full)
  /\ payload' = payload + adder.full
  /\ toAck' = toAck \o [i \in 1..adder.full |-> payload + i]
  /\ adder' = [adder EXCEPT !.at = "count"]
  /\ UNCHANGED <<nextBlk, firstBlk, currBlk, size, count, sentOn, missing>>

\* m_iCount grows by the blocks that were asked for.
CountUp ==
  /\ adder.at = "count" /\ count' = count + adder.blocks /\ missing' = missing + adder.blocks - adder.full
  /\ adder' = [at |-> "idle", blocks |-> 0, full |-> 0]
  /\ UNCHANGED <<nextBlk, content, firstBlk, currBlk, lastBlk, size, payload, toAck, sentOn>>

\* readData without an offset.
ReadInTurn ==
  /\ currBlk # lastBlk /\ currBlk' = nextBlk[currBlk] /\ sentOn' = sentOn + 1
  /\ UNCHANGED <<nextBlk, content, firstBlk, lastBlk, size, count, adder, payload, toAck, missing>>

\* Mutant: one block is left to be the first.
AckDataFew(n) ==
  /\ n \in 1..sentOn /\ firstBlk' = After(firstBlk, n - 1) /\ count' = count - n
  /\ toAck' = SubSeq(toAck, n + 1, Len(toAck)) /\ sentOn' = sentOn - n
  /\ UNCHANGED <<nextBlk, content, currBlk, lastBlk, size, adder, payload, missing>>

\* Only what has been sent is acknowledged.
AckData(n) ==
  /\ n \in 1..sentOn /\ firstBlk' = After(firstBlk, n) /\ count' = count - n
  /\ toAck' = SubSeq(toAck, n + 1, Len(toAck)) /\ sentOn' = sentOn - n
  /\ UNCHANGED <<nextBlk, content, currBlk, lastBlk, size, adder, payload, missing>>

SndBufferNext ==
  \/ \E blocks \in SendSizes : \E full \in 0..blocks : AddBegins(blocks, full)
  \/ Increase \/ Fill \/ CountUp \/ ReadInTurn
  \/ \E n \in 1..MaxBlocks : AckData(n)

SndBufferSpec == SndBufferInit /\ [][SndBufferNext]_sndBufferVars

-----------------------------------------------------------------------------
\* readData with an offset finds at every offset the packet that was sent there, however the
\* ring has grown around the pointers; the next to send is the first that was not sent.
BlocksAreInOrder ==
  /\ \A i \in 1..Len(toAck) : content[After(firstBlk, i - 1)] = toAck[i]
  /\ currBlk = After(firstBlk, sentOn) /\ lastBlk = After(firstBlk, Len(toAck))

\* A block is always left between the last and the first, or full could not be told from empty.
OneBlockIsFree == Len(toAck) < size

\* m_iCount, by which send blocks and linger waits, counts the blocks in use; when a file ends
\* early it also counts, for ever, those the file had no data for.
CountsWithMissing == adder.at # "count" => count = Len(toAck) + missing

\* The ring of blocks keeps packets, order and count, while it grows and while files end early.
SndBufferIsRight == BlocksAreInOrder /\ OneBlockIsFree /\ CountsWithMissing
=============================================================================
