------------------------------- MODULE UdtUnits -------------------------------
(***************************************************************************)
(* CUnitQueue: the memory for packets of a receiving queue.  Entries of    *)
(* EntrySize units are added while at least 9/10 are in use, none is ever  *)
(* taken away.  The receiving thread looks for a free unit; a receive      *)
(* buffer occupies and frees units, and counts them in m_iCount, which     *)
(* two threads change without a lock, so that a change may be lost.        *)
(***************************************************************************)
EXTENDS Integers, FiniteSets, FiniteSetsExt

CONSTANTS
  EntrySize,         \* units of an entry (32)
  FullOf, FullParts, \* when to add one: 9 of 10
  MaxEntries,        \* bound: memory
  MaxDrift           \* bound: lost changes of m_iCount

ASSUME UnitsAssumption == /\ EntrySize \in Nat \ {0, 1} /\ MaxEntries \in Nat \ {0}
                          /\ FullOf \in Nat /\ FullParts \in Nat \ {0}
                          /\ (EntrySize - 1) * FullParts >= EntrySize * FullOf

VARIABLES
  used,     \* units with a flag that is not 0
  entries,  \* number of entries
  avail,    \* m_pAvailUnit; m_pCurrQueue is its entry
  inUse,    \* m_iCount
  misses    \* how often NULL was returned in a row, with nothing freed in between

unitVars == <<used, entries, avail, inUse, misses>>

UnitsInit == used = {} /\ entries = 1 /\ avail = 0 /\ inUse = 0 /\ misses = 0

EntryOf(u)  == u \div EntrySize
FirstOf(u)  == EntryOf(u) * EntrySize
IsLastOf(u) == u % EntrySize = EntrySize - 1

\* Mutant: the corrected m_iCount is not looked at.
IncreasedAlways(c, n) ==
  <<Cardinality(used), IF n = MaxEntries THEN n ELSE n + 1>>

\* increase: <<m_iCount, entries>> after it.
Increased(c, n) ==
  IF Cardinality(used) * FullParts < n * EntrySize * FullOf \/ n = MaxEntries
  THEN <<Cardinality(used), n>> ELSE <<Cardinality(used), n + 1>>

\* The units that one round looks at: the last of an entry never, of the entry it begins in
\* those from m_pAvailUnit on, and the first.
Looked(n) == {u \in 0..(n * EntrySize - 1) :
                ~IsLastOf(u) /\ (EntryOf(u) # EntryOf(avail) \/ u >= avail \/ u = FirstOf(u))}
\* In which order.
Turn(u, n) == ((EntryOf(u) - EntryOf(avail) + n) % n) * (EntrySize + 1)
                + IF EntryOf(u) = EntryOf(avail) /\ u < avail THEN EntrySize ELSE u % EntrySize

\* Where the search ends.
AvailAfter(c, n) ==
  LET free == Looked(n) \ used
  IN  IF c >= n * EntrySize THEN avail
      ELSE IF free = {} THEN FirstOf(avail)
      ELSE CHOOSE u \in free : \A v \in free : Turn(u, n) <= Turn(v, n)

\* getNextAvailUnit, and addData if a packet arrives that a buffer takes.
Receive(taken) ==
  LET a == IF inUse * FullParts > entries * EntrySize * FullOf THEN Increased(inUse, entries)
           ELSE <<inUse, entries>>
      found == a[1] < a[2] * EntrySize /\ Looked(a[2]) \ used # {}
      b == IF found \/ a[1] >= a[2] * EntrySize THEN a ELSE Increased(a[1], a[2])
  IN  /\ avail' = AvailAfter(a[1], a[2])
      /\ entries' = b[2]
      /\ misses' = IF found THEN 0 ELSE IF misses < 2 THEN misses + 1 ELSE misses
      /\ \/ /\ found /\ taken
            /\ used' = used \union {avail'}
            /\ inUse' \in {b[1], b[1] + 1}
         \/ /\ ~(found /\ taken) /\ used' = used /\ inUse' = b[1]

\* readBuffer, readMsg, scanMsg and the buffer's destructor.
Free(u) ==
  /\ used' = used \ {u} /\ inUse' \in {inUse, inUse - 1} /\ misses' = 0
  /\ UNCHANGED <<entries, avail>>

UnitsNext ==
  /\ (\E taken \in BOOLEAN : Receive(taken)) \/ \E u \in used : Free(u)
  /\ inUse' - Cardinality(used') \in -MaxDrift..MaxDrift

UnitsSpec == UnitsInit /\ [][UnitsNext]_unitVars

-----------------------------------------------------------------------------
\* A packet may be thrown away for want of a unit, but not twice in a row with a unit free
\* or with memory left, however wrong m_iCount is: only the last unit of each entry is never
\* looked at.
UnitIsFound ==
  misses >= 2 => /\ entries = MaxEntries
                 /\ \A u \in 0..(entries * EntrySize - 1) : ~IsLastOf(u) => u \in used

\* A wrong m_iCount does not take memory: an entry is added when 9/10 are really in use.
GrowsWhenFull ==
  [][entries' > entries => Cardinality(used) * FullParts >= entries * EntrySize * FullOf]_unitVars

\* Units are found as long as there are any, and memory is taken only when they are in use.
UnitsSuffice == []UnitIsFound /\ GrowsWhenFull
=============================================================================
