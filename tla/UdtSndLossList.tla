---------------------------- MODULE UdtSndLossList ----------------------------
(***************************************************************************)
(* CSndLossList: the lost packets of a sender, as ranges in three arrays.  *)
(* A range that starts at s is a node at the place that is as far from the *)
(* head's place as s is from the head's number.  The list is driven as     *)
(* processCtrl, packData and checkTimers drive it: the packets that are    *)
(* not acknowledged are a window of at most Size numbers.                  *)
(***************************************************************************)
EXTENDS UdtSeqNo, FiniteSets

CONSTANTS SndListSize,   \* m_iSize
          SndListStart,  \* the first packet
          SndListEnd     \* bound: the last packet

ASSUME SndListAssumption == /\ SndListSize \in 2..(SeqNoTH - 1)
                            /\ SndListStart \in SeqNo /\ SndListEnd \in SeqNo

VARIABLES
  sl,              \* the list, a record: d1, d2, next, head, len, last
  sFirst, sNewest, \* the oldest packet not acknowledged, the newest one sent
  sAnswer          \* what getLostSeq has returned

sndListVars == <<sl, sFirst, sNewest, sAnswer>>

SndPlaces == 0..(SndListSize - 1)

SndListInit ==
  /\ sl = [d1 |-> [i \in SndPlaces |-> -1], d2 |-> [i \in SndPlaces |-> -1],
           next |-> [i \in SndPlaces |-> -1], head |-> -1, len |-> 0, last |-> -1]
  /\ sFirst = SndListStart /\ sNewest = decseq(sFirst) /\ sAnswer = 0

\* The place of a number.
SndLoc(l, s) == (l.head + seqoff(l.d1[l.head], s) + SndListSize) % SndListSize

\* A new node for lo..hi at place i.
NewNode(l, i, lo, hi) ==
  [l EXCEPT !.d1[i] = lo, !.d2[i] = IF hi # lo THEN hi ELSE @, !.last = i,
            !.len = @ + seqlen(lo, hi)]

\* Node i ends at hi from now on.
Stretched(l, i, hi) ==
  [l EXCEPT !.d2[i] = hi,
            !.len = @ + seqlen(IF l.d2[i] = -1 THEN l.d1[i] ELSE l.d2[i], hi) - 1]

\* Whether that is further than before.
Stretches(l, i, hi) ==
  IF l.d2[i] = -1 THEN hi # l.d1[i] ELSE seqcmp(hi, l.d2[i]) > 0

\* The node before s, searched from the place of the last insertion if that is before s.
PriorNode(l, s) ==
  LET start == IF l.last # -1 /\ seqcmp(l.d1[l.last], s) < 0 THEN l.last ELSE l.head
      walk[n \in 0..SndListSize] ==
        IF n = 0 THEN start
        ELSE LET i == walk[n - 1]
             IN  IF l.next[i] # -1 /\ seqcmp(l.d1[l.next[i]], s) < 0 THEN l.next[i] ELSE i
  IN  walk[SndListSize]

\* Node i swallows the next one; what both have is counted once.
Merged(l, i) ==
  LET j      == l.next[i]
      end    == IF l.d2[j] = -1 THEN l.d1[j] ELSE l.d2[j]
      common == IF seqcmp(end, l.d2[i]) > 0
                THEN IF seqcmp(l.d2[i], l.d1[j]) >= 0 THEN seqlen(l.d1[j], l.d2[i]) ELSE 0
                ELSE seqlen(l.d1[j], end)
  IN  [l EXCEPT !.d2[i] = IF seqcmp(end, @) > 0 THEN end ELSE @, !.len = @ - common,
                !.d1[j] = -1, !.d2[j] = -1, !.next[j] = -1, !.next[i] = l.next[j]]

\* The last loop of insert: node i swallows what it touches.
Coalesced(l, i) ==
  LET step[n \in 0..SndListSize] ==
        IF n = 0 THEN l
        ELSE LET m == step[n - 1]
             IN  IF /\ m.next[i] # -1 /\ m.d2[i] # -1
                    /\ seqcmp(m.d1[m.next[i]], incseq(m.d2[i])) <= 0
                 THEN Merged(m, i) ELSE m
  IN  step[SndListSize]

\* insert: into an empty list; before the head; at a node; at a place without a node,
\* which may be inside the node before it.
SndInsert(l, lo, hi) ==
  IF l.len = 0 THEN [NewNode(l, 0, lo, hi) EXCEPT !.head = 0, !.next[0] = -1]
  ELSE LET offset == seqoff(l.d1[l.head], lo)
           loc    == SndLoc(l, lo)
           prior  == PriorNode(l, lo)
           seen   == IF lo = l.d1[loc] THEN loc ELSE prior
       IN  IF offset < 0
           THEN Coalesced([NewNode(l, loc, lo, hi) EXCEPT !.next[loc] = l.head, !.head = loc],
                          loc)
           ELSE IF lo # l.d1[loc] /\ (l.d2[prior] = -1 \/ seqcmp(l.d2[prior], lo) < 0)
           THEN Coalesced([NewNode(l, loc, lo, hi) EXCEPT !.next[loc] = l.next[prior],
                                                          !.next[prior] = loc], loc)
           ELSE IF Stretches(l, seen, hi)
           THEN Coalesced([Stretched(l, seen, hi) EXCEPT !.last = seen], seen)
           ELSE [l EXCEPT !.last = seen]

\* Node i gives up its numbers through s: what is left moves to the place after s's.
Shifted(l, i, s) ==
  LET loc == (SndLoc(l, s) + 1) % SndListSize
  IN  [l EXCEPT !.d1[loc] = incseq(s),
                !.d2[loc] = IF seqcmp(l.d2[i], incseq(s)) > 0 THEN l.d2[i] ELSE @,
                !.next[loc] = l.next[i], !.head = loc]

\* Node i is empty; its link, which the code leaves and never reads again, goes as well.
Forgotten(l, i) ==
  [l EXCEPT !.d1[i] = -1, !.d2[i] = -1, !.next[i] = -1, !.last = IF @ = i THEN -1 ELSE @]

\* The last loop of remove: the nodes from h on, up to the new head, are emptied.
Beheaded(l, h) ==
  LET step[n \in 0..SndListSize] ==
        IF n = 0 THEN [list |-> l, at |-> h]
        ELSE LET s == step[n - 1]
                 m == s.list
                 i == s.at
             IN  IF i = m.head THEN s
                 ELSE [list |-> [Forgotten(m, i) EXCEPT !.len = @ -
                                   IF m.d2[i] = -1 THEN 1 ELSE seqlen(m.d1[i], m.d2[i])],
                       at   |-> m.next[i]]
  IN  step[SndListSize].list

\* The node that remove finds to hold s, or before s.
NodeUpTo(l, s) ==
  LET walk[n \in 0..SndListSize] ==
        IF n = 0 THEN l.head
        ELSE LET i == walk[n - 1]
             IN  IF l.next[i] # -1 /\ seqcmp(l.d1[l.next[i]], s) < 0 THEN l.next[i] ELSE i
  IN  IF l.d1[SndLoc(l, s)] = s THEN SndLoc(l, s) ELSE walk[SndListSize]

\* remove: everything through s.
SndRemove(l, s) ==
  IF l.len = 0 \/ seqoff(l.d1[l.head], s) < 0 THEN l
  ELSE LET i    == NodeUpTo(l, s)
           cut  == l.d2[i] # -1 /\ seqcmp(l.d2[i], s) > 0
           rest == IF ~cut THEN [l EXCEPT !.head = l.next[i]]
                   ELSE LET m == Shifted(l, i, s)
                        IN  [m EXCEPT !.d2[i] = IF l.d1[i] = s THEN -1 ELSE s,
                                      !.next[i] = m.head]
       IN  Beheaded(rest, l.head)

\* Mutant: the end of the first range is returned.
LostSeqEnd(l) ==
  IF l.len = 0 THEN -1 ELSE IF l.d2[l.head] = -1 THEN l.d1[l.head] ELSE l.d2[l.head]

\* getLostSeq: the oldest number; the rest of its node moves on by one place.
SndRest(l) ==
  IF l.len = 0 THEN l
  ELSE LET h == l.head
           m == IF l.d2[h] = -1 THEN [l EXCEPT !.head = l.next[h]] ELSE Shifted(l, h, l.d1[h])
       IN  [Forgotten(m, h) EXCEPT !.len = @ - 1]

LostSeq(l) == IF l.len = 0 THEN -1 ELSE l.d1[l.head]

(***************************************************************************)
(* The callers                                                             *)
(***************************************************************************)
\* packData sends a new packet.
SndAdvance == /\ seqoff(sFirst, sNewest) + 1 < SndListSize /\ sNewest # SndListEnd
              /\ sNewest' = incseq(sNewest)
              /\ UNCHANGED <<sl, sFirst, sAnswer>>

\* A loss report, or the EXP timer.
SndLose(lo, hi) == /\ sl' = SndInsert(sl, lo, hi) /\ sAnswer' = 0
                   /\ UNCHANGED <<sFirst, sNewest>>

\* An acknowledgement of everything before s.
SndAcked(s) == /\ sl' = SndRemove(sl, decseq(s)) /\ sFirst' = s /\ sAnswer' = 0
               /\ UNCHANGED sNewest

SndGet == /\ sAnswer' = LostSeq(sl) /\ sl' = SndRest(sl)
          /\ UNCHANGED <<sFirst, sNewest>>

SndInFlight == seqoff(sFirst, sNewest) + 1

SndListNext ==
  \/ SndAdvance \/ SndGet
  \/ \E j \in 1..SndInFlight : \E i \in 0..(j - 1) :
       SndLose(incseqBy(sFirst, i), incseqBy(sFirst, j - 1))
  \/ \E j \in 1..SndInFlight : SndAcked(incseqBy(sFirst, j))

SndListSpec == SndListInit /\ [][SndListNext]_sndListVars

-----------------------------------------------------------------------------
SndNodes == {i \in SndPlaces : sl.d1[i] # -1}
SndEnd(i) == IF sl.d2[i] = -1 THEN sl.d1[i] ELSE sl.d2[i]
SndListed == UNION {{incseqBy(sl.d1[i], k) : k \in 0..seqoff(sl.d1[i], SndEnd(i))} : i \in SndNodes}

\* Following next from the head visits every node, by age, and no range reaches into the
\* following one.
SndListIsLinked ==
  /\ sl.head # -1 <=> SndNodes # {}
  /\ \A i \in SndNodes : seqcmp(sl.d1[sl.head], sl.d1[i]) <= 0
  /\ \A i, j \in SndNodes : seqcmp(sl.d1[i], sl.d1[j]) < 0 =>
       /\ sl.next[i] \in SndNodes /\ seqcmp(sl.d1[sl.next[i]], sl.d1[j]) <= 0
       /\ seqcmp(SndEnd(i), sl.d1[sl.next[i]]) < 0

\* The length counts the numbers in the list: checkTimers and getLostSeq take 0 for empty.
SndLengthCounts == sl.len = Cardinality(SndListed)

\* With its links and its length right, the list is a set of numbers, and getLostSeq returns
\* the oldest.
SndSet == INSTANCE LossSet WITH lost <- SndListed, answer <- sAnswer
SndListIsSet == SndSet!Spec /\ []SndListIsLinked /\ []SndLengthCounts
=============================================================================
