---------------------------- MODULE UdtRcvLossList ----------------------------
(***************************************************************************)
(* CRcvLossList: the packets a receiver misses, as ranges in arrays, with  *)
(* links in both directions and a tail.  It is driven as processData,      *)
(* sendCtrl and message drop requests drive it: what is missing lies       *)
(* between the last acknowledgement and the newest packet.                 *)
(***************************************************************************)
EXTENDS UdtSeqNo, FiniteSets

CONSTANTS RcvListSize,   \* m_iSize
          RcvListStart,  \* the first packet
          RcvListEnd     \* bound: the last packet

ASSUME RcvListAssumption == /\ RcvListSize \in 2..(SeqNoTH - 1)
                            /\ RcvListStart \in SeqNo /\ RcvListEnd \in SeqNo

VARIABLES
  rl,              \* the list, a record: d1, d2, next, prior, head, tail, len
  rFirst, rNewest, \* m_iRcvLastAck, m_iRcvCurrSeqNo
  rAnswer          \* what remove has returned for one number: 1 for true, 0 for false

rcvListVars == <<rl, rFirst, rNewest, rAnswer>>

RcvPlaces == 0..(RcvListSize - 1)

RcvListInit ==
  /\ rl = [d1 |-> [i \in RcvPlaces |-> -1], d2 |-> [i \in RcvPlaces |-> -1],
           next |-> [i \in RcvPlaces |-> -1], prior |-> [i \in RcvPlaces |-> -1],
           head |-> -1, tail |-> -1, len |-> 0]
  /\ rFirst = RcvListStart /\ rNewest = decseq(RcvListStart) /\ rAnswer = 0

RcvLoc(l, s) == (l.head + seqoff(l.d1[l.head], s)) % RcvListSize

\* Node i holds lo..hi.
Filled(l, i, lo, hi) == [l EXCEPT !.d1[i] = lo, !.d2[i] = IF hi # lo THEN hi ELSE @]

\* insert: what is inserted is newer than all there is.  A range that begins where the
\* last one ends continues it.
RcvInsert(l, lo, hi) ==
  LET grown == [l EXCEPT !.len = @ + seqlen(lo, hi)]
      t     == l.tail
      loc   == RcvLoc(l, lo)
  IN  IF l.len = 0
      THEN [Filled(grown, 0, lo, hi) EXCEPT !.head = 0, !.tail = 0, !.next[0] = -1,
                                            !.prior[0] = -1]
      ELSE IF l.d2[t] # -1 /\ incseq(l.d2[t]) = lo THEN [grown EXCEPT !.d2[t] = hi]
      ELSE [Filled(grown, loc, lo, hi) EXCEPT !.next[t] = loc, !.prior[loc] = t,
                                              !.next[loc] = -1, !.tail = loc]

\* Node i, of a single number, leaves the list; its own links are never read again.
Unlinked(l, i) ==
  LET p == l.prior[i]
      n == l.next[i]
      m == IF l.head = i
           THEN [l EXCEPT !.head = n,
                          !.prior = IF n # -1 THEN [@ EXCEPT ![n] = -1] ELSE @]
           ELSE [l EXCEPT !.next[p] = n, !.tail = IF n = -1 THEN p ELSE @,
                          !.prior = IF n # -1 THEN [@ EXCEPT ![n] = p] ELSE @]
  IN  [m EXCEPT !.d1[i] = -1, !.next[i] = -1, !.prior[i] = -1]

\* Node i gives up its first number and moves to the next place.
MovedOn(l, i) ==
  LET j == (i + 1) % RcvListSize
      s == incseq(l.d1[i])
      p == l.prior[i]
      n == l.next[i]
      m == [l EXCEPT !.d1[j] = s, !.d2[j] = IF seqcmp(l.d2[i], s) > 0 THEN l.d2[i] ELSE @,
                     !.d1[i] = -1, !.d2[i] = -1,
                     !.next[j] = n, !.prior[j] = p, !.next[i] = -1, !.prior[i] = -1,
                     !.head = IF @ = i THEN j ELSE @, !.tail = IF @ = i THEN j ELSE @]
  IN  [m EXCEPT !.next  = IF l.head = i THEN @ ELSE [@ EXCEPT ![p] = j],
                !.prior = IF l.tail = i THEN @ ELSE [@ EXCEPT ![n] = j]]

\* Node i ends before s.
Shortened(l, i, s) ==
  [l EXCEPT !.d2[i] = IF s = incseq(l.d1[i]) THEN -1 ELSE decseq(s)]

\* Node i is cut in two around s, which was at place loc.
Split(l, i, s, loc) ==
  LET j == (loc + 1) % RcvListSize
      t == incseq(s)
      n == l.next[i]
      m == [Shortened(l, i, s) EXCEPT !.d1[j] = t,
                                      !.d2[j] = IF seqcmp(l.d2[i], t) > 0 THEN l.d2[i] ELSE @]
  IN  [m EXCEPT !.next[j] = n, !.next[i] = j, !.tail = IF @ = i THEN j ELSE @,
                !.prior = [IF l.tail = i THEN @ ELSE [@ EXCEPT ![n] = j] EXCEPT ![j] = i]]

\* The nearest place before loc with a node.
NodeBefore(l, loc) ==
  LET at(k) == (loc - k + RcvListSize) % RcvListSize
  IN  at(CHOOSE k \in 1..RcvListSize : /\ l.d1[at(k)] # -1
                                       /\ \A h \in 1..(k - 1) : l.d1[at(h)] = -1)

\* remove of one number: the list after it, and whether the number was there.
RcvHas(l, s) ==
  /\ l.len # 0 /\ seqoff(l.d1[l.head], s) >= 0
  /\ \/ l.d1[RcvLoc(l, s)] = s
     \/ LET i == NodeBefore(l, RcvLoc(l, s)) IN l.d2[i] # -1 /\ seqcmp(s, l.d2[i]) <= 0

RcvRemove(l, s) ==
  IF ~RcvHas(l, s) THEN l
  ELSE LET loc  == RcvLoc(l, s)
           i    == NodeBefore(l, loc)
           rest == IF l.d1[loc] = s
                   THEN IF l.d2[loc] = -1 THEN Unlinked(l, loc) ELSE MovedOn(l, loc)
                   ELSE IF l.d2[i] = s THEN Shortened(l, i, s)
                   ELSE Split(l, i, s, loc)
       IN  [rest EXCEPT !.len = @ - 1]

\* Mutant: the second loop of a range that wraps starts at 1.
RcvRemoveRangeFromOne(l, lo, hi) ==
  LET n == seqoff(lo, hi)
      step[k \in 0..(n + 1)] ==
        IF k = 0 THEN l
        ELSE LET s == incseqBy(lo, k - 1)
                 m == step[k - 1]
             IN  IF lo > hi /\ s \in {MaxSeqNo, 0} THEN m ELSE RcvRemove(m, s)
  IN  step[n + 1]

\* remove of a range, number by number; one that wraps stops short of the largest.
RcvRemoveRange(l, lo, hi) ==
  LET n == seqoff(lo, hi)
      step[k \in 0..(n + 1)] ==
        IF k = 0 THEN l
        ELSE LET s == incseqBy(lo, k - 1)
                 m == step[k - 1]
             IN  IF lo > hi /\ s = MaxSeqNo THEN m ELSE RcvRemove(m, s)
  IN  step[n + 1]

\* find: whether some node overlaps lo..hi.
RcvFind(l, lo, hi) ==
  \E i \in RcvPlaces :
    /\ l.d1[i] # -1
    /\ \/ seqcmp(l.d1[i], lo) >= 0 /\ seqcmp(l.d1[i], hi) <= 0
       \/ seqcmp(l.d1[i], lo) < 0 /\ l.d2[i] # -1 /\ seqcmp(l.d2[i], lo) >= 0

FirstLost(l) == IF l.len = 0 THEN -1 ELSE l.d1[l.head]

\* getLossArray: how many words a loss report gets, and the packets it names; one word
\* for a single packet, two for a range, as long as two fit.
LossArray(l, limit) ==
  LET walk[n \in 0..RcvListSize] ==
        IF n = 0 THEN [at |-> l.head, len |-> 0, seqs |-> {}]
        ELSE LET w == walk[n - 1]
                 i == w.at
             IN  IF w.len >= limit - 1 \/ i = -1 THEN w
                 ELSE [at   |-> l.next[i],
                       len  |-> w.len + IF l.d2[i] = -1 THEN 1 ELSE 2,
                       seqs |-> w.seqs \union IF l.d2[i] = -1 THEN {l.d1[i]}
                                ELSE {incseqBy(l.d1[i], k) : k \in 0..seqoff(l.d1[i], l.d2[i])}]
  IN  walk[RcvListSize]

(***************************************************************************)
(* The callers                                                             *)
(***************************************************************************)
RcvReach == seqoff(rFirst, rNewest) + 1

\* processData: a packet that is n numbers ahead of the newest.
RcvNew(n) ==
  LET s == incseqBy(rNewest, n)
  IN  /\ RcvReach + n <= RcvListSize
      /\ \A k \in 0..(n - 1) : incseqBy(rNewest, k) # RcvListEnd
      /\ rl' = IF n = 1 THEN rl ELSE RcvInsert(rl, incseq(rNewest), decseq(s))
      /\ rNewest' = s /\ rAnswer' = 0
      /\ UNCHANGED rFirst

\* processData: a packet that was sent again, or comes late.
RcvOld(s) ==
  /\ rl' = RcvRemove(rl, s)
  /\ rAnswer' = IF RcvHas(rl, s) THEN 1 ELSE 0
  /\ UNCHANGED <<rFirst, rNewest>>

\* processCtrl, case 7: a message from lo to hi is dropped.
RcvDropped(lo, hi) ==
  /\ rl' = RcvRemoveRange(rl, lo, hi)
  /\ rAnswer' = 0
  /\ UNCHANGED <<rFirst, rNewest>>

\* sendCtrl, case 2.
RcvAck ==
  /\ rFirst' = IF rl.len = 0 THEN incseq(rNewest) ELSE FirstLost(rl)
  /\ rAnswer' = 0
  /\ UNCHANGED <<rl, rNewest>>

RcvListNext ==
  \/ \E n \in 1..RcvListSize : RcvNew(n)
  \/ \E k \in 0..(RcvReach - 1) : RcvOld(incseqBy(rFirst, k))
  \/ \E j \in 1..RcvReach : \E i \in 0..(j - 1) :
       RcvDropped(incseqBy(rFirst, i), incseqBy(rFirst, j - 1))
  \/ RcvAck

RcvListSpec == RcvListInit /\ [][RcvListNext]_rcvListVars

-----------------------------------------------------------------------------
RcvNodes == {i \in RcvPlaces : rl.d1[i] # -1}
RcvEnd(i) == IF rl.d2[i] = -1 THEN rl.d1[i] ELSE rl.d2[i]
RcvListed == UNION {{incseqBy(rl.d1[i], k) : k \in 0..seqoff(rl.d1[i], RcvEnd(i))} : i \in RcvNodes}

\* Both directions, the head and the tail agree with the ages of the nodes.
RcvListIsLinked ==
  /\ rl.len = Cardinality(RcvListed)
  /\ rl.len # 0 => /\ rl.head \in RcvNodes /\ rl.tail \in RcvNodes
                   /\ rl.prior[rl.head] = -1 /\ rl.next[rl.tail] = -1
  /\ \A i \in RcvNodes : /\ seqcmp(rl.d1[rl.head], rl.d1[i]) <= 0
                         /\ i # rl.tail => /\ rl.next[i] \in RcvNodes
                                           /\ rl.prior[rl.next[i]] = i
                                           /\ seqcmp(RcvEnd(i), rl.d1[rl.next[i]]) < 0

RcvSet == INSTANCE LossSet WITH lost <- RcvListed, answer <- rAnswer

\* getFirstLostSeq returns the oldest, which the receiver acknowledges up to.
FirstLostIsOldest ==
  FirstLost(rl) = IF RcvListed = {} THEN -1 ELSE RcvSet!First(RcvListed)

\* find is right about every range of the window: it is how duplicates are told from
\* packets that were lost.
FindIsRight ==
  \A j \in 1..RcvReach : \A i \in 0..(j - 1) :
    LET lo == incseqBy(rFirst, i)
        hi == incseqBy(rFirst, j - 1)
    IN  RcvFind(rl, lo, hi) <=> \E k \in i..(j - 1) : incseqBy(rFirst, k) \in RcvListed

\* A loss report stays within its packet, and names the oldest losses: all, or as many as
\* fit.
ReportFits ==
  rl.len > 0 => \A limit \in 2..RcvListSize :
    LET a == LossArray(rl, limit)
    IN  /\ a.len <= limit
        /\ a.seqs = RcvListed \/ a.len >= limit - 1
        /\ \A s \in a.seqs, t \in RcvListed \ a.seqs : seqcmp(s, t) < 0

\* With its links right, the list is a set of numbers, and what is asked of it is answered
\* from that set.
RcvListIsSet ==
  /\ RcvSet!Spec
  /\ []RcvListIsLinked /\ []FirstLostIsOldest /\ []FindIsRight /\ []ReportFits
=============================================================================
