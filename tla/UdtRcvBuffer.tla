----------------------------- MODULE UdtRcvBuffer -----------------------------
(***************************************************************************)
(* CRcvBuffer of a stream socket: a ring of units between the receiving    *)
(* thread, which puts packets in (addData) and makes them readable         *)
(* (ackData), and the application, which reads any number of bytes         *)
(* (readBuffer, readBufferToFile), a packet in several pieces if it likes. *)
(* Neither takes a lock: m_iStartPos is read by the one and written by the *)
(* other, and m_iLastAckPos the other way round.                           *)
(***************************************************************************)
EXTENDS Integers, Sequences, FiniteSets, FiniteSetsExt

CONSTANTS
  RcvSlots,    \* m_iSize
  MaxArrivals, \* bound: packets, numbered from 1 in the order of their sequence numbers
  ReadSizes    \* bytes a call asks for

ASSUME RcvBufferAssumption == RcvSlots \in Nat \ {0, 1} /\ MaxArrivals \in Nat /\ ReadSizes \subseteq Nat \ {0}

PacketBytes(n) == 1 + (n % 2)

VARIABLES
  slot,        \* m_pUnit: the packet, or 0
  startPos, lastAckPos, notch,  \* m_iStartPos, m_iLastAckPos, m_iNotch
  rcvLastAck,  \* m_iRcvLastAck: the first packet that is not readable
  arriving,    \* the packet whose offset is about to be compared, and how the comparison of
               \* m_iLastAckPos with m_iStartPos in getRcvDataSize came out
  reading,     \* where a read is: p, lastack and rs of the loop
  consumed     \* history: packets read whole

rcvBufferVars == <<slot, startPos, lastAckPos, notch, rcvLastAck, arriving, reading, consumed>>

NoArrival == [n |-> 0, wrapped |-> FALSE]
NoReading == [at |-> "idle", p |-> 0, lastack |-> 0, rs |-> 0]

RcvBufferInit ==
  /\ slot = [i \in 0..(RcvSlots - 1) |-> 0] /\ startPos = 0 /\ lastAckPos = 0 /\ notch = 0
  /\ rcvLastAck = 1 /\ arriving = NoArrival /\ reading = NoReading /\ consumed = 0

\* Mutant: no slot is kept empty.
AvailAll(wrapped) ==
  RcvSlots - (IF wrapped THEN RcvSlots + lastAckPos - startPos ELSE lastAckPos - startPos)

\* getAvailBufSize, after the comparison in getRcvDataSize.
AvailSize(wrapped) ==
  RcvSlots - (IF wrapped THEN RcvSlots + lastAckPos - startPos ELSE lastAckPos - startPos) - 1

\* processData up to the comparison.  A packet may come from beyond the window, for the
\* sender is always allowed two, and again after it was read.
Arrive(n) ==
  /\ arriving = NoArrival /\ arriving' = [n |-> n, wrapped |-> lastAckPos < startPos]
  /\ UNCHANGED <<slot, startPos, lastAckPos, notch, rcvLastAck, reading, consumed>>

\* addData, unless the offset is refused.
SlotFor(offset) == (lastAckPos + offset) % RcvSlots
AddData ==
  /\ arriving # NoArrival /\ arriving' = NoArrival
  /\ LET offset == arriving.n - rcvLastAck
     IN  slot' = IF offset \in 0..(AvailSize(arriving.wrapped) - 1) /\ slot[SlotFor(offset)] = 0
                 THEN [slot EXCEPT ![SlotFor(offset)] = arriving.n] ELSE slot
  /\ UNCHANGED <<startPos, lastAckPos, notch, rcvLastAck, reading, consumed>>

\* sendCtrl 2: everything before the first packet that is lost.
AckUpTo == Min({n \in rcvLastAck..(rcvLastAck + RcvSlots) : ~\E i \in DOMAIN slot : slot[i] = n})
AckArrived ==
  /\ arriving = NoArrival /\ AckUpTo > rcvLastAck
  /\ lastAckPos' = (lastAckPos + (AckUpTo - rcvLastAck)) % RcvSlots /\ rcvLastAck' = AckUpTo
  /\ UNCHANGED <<slot, startPos, notch, arriving, reading, consumed>>

\* recv or recvfile, when there is data.
ReadBegins(len) ==
  /\ reading = NoReading /\ startPos # lastAckPos
  /\ reading' = [at |-> "unit", p |-> startPos, lastack |-> lastAckPos, rs |-> len]
  /\ UNCHANGED <<slot, startPos, lastAckPos, notch, rcvLastAck, arriving, consumed>>

HasUnit == reading.at = "unit" /\ reading.p # reading.lastack /\ reading.rs > 0
Left    == PacketBytes(slot[reading.p]) - notch

ReadWhole ==
  /\ HasUnit /\ reading.rs >= Left
  /\ slot' = [slot EXCEPT ![reading.p] = 0]
  /\ reading' = [reading EXCEPT !.p = (reading.p + 1) % RcvSlots, !.rs = reading.rs - Left]
  /\ notch' = 0 /\ consumed' = consumed + 1
  /\ UNCHANGED <<startPos, lastAckPos, rcvLastAck, arriving>>

ReadPart ==
  /\ HasUnit /\ reading.rs < Left
  /\ notch' = notch + reading.rs /\ reading' = [reading EXCEPT !.rs = 0]
  /\ UNCHANGED <<slot, startPos, lastAckPos, rcvLastAck, arriving, consumed>>

\* Nothing more to read or to fill, or the file could not be written.
ReadEnds ==
  /\ reading.at = "unit" /\ reading' = NoReading
  /\ startPos' = reading.p
  /\ UNCHANGED <<slot, lastAckPos, notch, rcvLastAck, arriving, consumed>>

RcvBufferNext ==
  \/ \E n \in 1..MaxArrivals : n < rcvLastAck + RcvSlots + 2 /\ Arrive(n)
  \/ AddData \/ AckArrived
  \/ \E len \in ReadSizes : ReadBegins(len)
  \/ ReadWhole \/ ReadPart \/ ReadEnds

RcvBufferSpec == RcvBufferInit /\ [][RcvBufferNext]_rcvBufferVars

-----------------------------------------------------------------------------
\* The next unit a read takes is there, is the next in the order of sending, and some of it is
\* left: bytes come in order, once, whatever pieces they are read in.
NextUnitIsNext == HasUnit => slot[reading.p] = consumed + 1 /\ notch < PacketBytes(consumed + 1)

\* A packet whose offset is accepted finds its slot free, or taken by itself: none is taken
\* for a duplicate and confirmed without being there, though startPos moves under the check.
NoFalseDuplicate ==
  arriving # NoArrival =>
    LET offset == arriving.n - rcvLastAck
    IN  offset \in 0..(AvailSize(arriving.wrapped) - 1) =>
          slot[SlotFor(offset)] \in {0, arriving.n}

\* Bytes come out in order and once, and no packet is refused for one that is not there.
RcvBufferIsRight == NextUnitIsNext /\ NoFalseDuplicate
=============================================================================
