--------------------------- MODULE UdtQueueProofs ---------------------------
(***************************************************************************)
(* The parts with which threads find sockets, handshakes and peers, for    *)
(* every set of them and every limit: the handshakes kept for connects,    *)
(* the list and the table of the receiving thread, the cache of peers, the *)
(* heap of the sending thread.                                             *)
(***************************************************************************)
EXTENDS UdtPassed, UdtRcvQueue, UdtPeerCache, UdtSndQueue, UdtLemmas

-----------------------------------------------------------------------------
(***************************************************************************)
(* UdtPassed: the properties are inductive together with the types of the  *)
(* variables.                                                              *)
(***************************************************************************)
Where == {"no", "yes", "waiting", "woken", "left"}

\* The types of the variables.
PassedTypes ==
  /\ passed \in [Calls -> Nat]
  /\ calling \in [Calls -> Where]
  /\ held \subseteq Calls /\ wokeOther \subseteq Calls /\ lateStore \subseteq Calls

PassedInv == PassedTypes /\ PassedReachCalls

\* What storePkt leaves is at least as much, at most one more, and within the limit.
LEMMA StoredIsBounded ==
  ASSUME NEW n \in Nat, n <= KeepLimit + 1
  PROVE  Stored(n) \in Nat /\ Stored(n) <= KeepLimit + 1 /\ Stored(n) >= n
BY PassedAssumption DEF Stored

\* Nothing is stored and nobody calls at first.
LEMMA PassedInvInit == PassedInit => PassedInv
BY PassedAssumption
   DEF PassedInit, PassedInv, PassedTypes, PassedReachCalls, SleepsOnlyIfStolen,
       LeftoversAreLate, PassedIsBounded, Where

\* Every step of the calls and of the receiving thread keeps the types.
LEMMA PassedTypesStep == PassedInv /\ [PassedNext]_passedVars => PassedTypes'
<1> SUFFICES ASSUME PassedInv, [PassedNext]_passedVars PROVE PassedTypes'
  OBVIOUS
<1> USE DEF PassedInv, PassedTypes, Where
<1>1. CASE UNCHANGED passedVars
  BY <1>1 DEF passedVars
<1>2. ASSUME NEW c \in Calls, RegisterConnector(c) PROVE PassedTypes'
  BY <1>2 DEF RegisterConnector
<1>3. ASSUME NEW c \in Calls, RetrieveConnector(c) PROVE PassedTypes'
  BY <1>3 DEF RetrieveConnector
<1>4. ASSUME NEW c \in Calls, StorePkt(c) PROVE PassedTypes'
  <2>1. passed' \in [Calls -> Nat]
    BY <1>4, StoredIsBounded DEF StorePkt, PassedReachCalls, PassedIsBounded
  <2>2. calling' \in [Calls -> Where]
    BY <1>4 DEF StorePkt
  <2>3. held' \subseteq Calls /\ wokeOther' \subseteq Calls /\ lateStore' \subseteq Calls
    BY <1>4 DEF StorePkt
  <2> QED BY <2>1, <2>2, <2>3
<1>5. ASSUME NEW c \in Calls, TakePassed(c) PROVE PassedTypes'
  BY <1>5 DEF TakePassed
<1>6. ASSUME NEW c \in Calls, WaitForPassed(c) PROVE PassedTypes'
  BY <1>6 DEF WaitForPassed
<1>7. ASSUME NEW c \in Calls, WakeUp(c) PROVE PassedTypes'
  BY <1>7 DEF WakeUp
<1>8. ASSUME NEW c \in Calls, RemoveEntry(c) PROVE PassedTypes'
  BY <1>8 DEF RemoveEntry
<1>9. ASSUME NEW c \in Calls, RemovePassed(c) PROVE PassedTypes'
  BY <1>9 DEF RemovePassed
<1> QED
  BY <1>1, <1>2, <1>3, <1>4, <1>5, <1>6, <1>7, <1>8, <1>9 DEF PassedNext

\* A connect that sleeps while its packet is there was passed over by the signal: the
\* packet that comes first signals, and a call goes to sleep only when there is none.
LEMMA SleepsOnlyIfStolenStep ==
  PassedInv /\ [PassedNext]_passedVars => SleepsOnlyIfStolen'
<1> SUFFICES ASSUME PassedInv, [PassedNext]_passedVars,
                    NEW d \in Calls, calling'[d] = "waiting", passed'[d] > 0
             PROVE  d \in wokeOther'
  BY DEF SleepsOnlyIfStolen
<1> USE DEF PassedInv, PassedTypes, PassedReachCalls, SleepsOnlyIfStolen, Where
<1>1. CASE UNCHANGED passedVars
  BY <1>1 DEF passedVars
<1>2. ASSUME NEW c \in Calls, RegisterConnector(c) PROVE d \in wokeOther'
  BY <1>2 DEF RegisterConnector
<1>3. ASSUME NEW c \in Calls, RetrieveConnector(c) PROVE d \in wokeOther'
  BY <1>3 DEF RetrieveConnector
<1>4. ASSUME NEW c \in Calls, StorePkt(c) PROVE d \in wokeOther'
  <2>1. calling[d] = "waiting" /\ wokeOther \subseteq wokeOther'
    BY <1>4 DEF StorePkt
  <2>2. CASE passed[d] > 0
    BY <2>1, <2>2
  <2>3. CASE passed[d] = 0
    <3>1. c = d
      BY <1>4, <2>3 DEF StorePkt
    <3>2. d \in Signalled(c)
      BY <2>1, <2>3, <3>1 DEF Signalled, Waiters
    <3>3. PICK w \in Signalled(c) :
             /\ calling' = [calling EXCEPT ![w] = "woken"]
             /\ wokeOther' = IF w # c THEN wokeOther \union {c} ELSE wokeOther
      BY <1>4, <3>2 DEF StorePkt
    <3>4. w # c
      BY <3>1, <3>3
    <3> QED BY <3>1, <3>3, <3>4
  <2> QED BY <2>2, <2>3
<1>5. ASSUME NEW c \in Calls, TakePassed(c) PROVE d \in wokeOther'
  BY <1>5 DEF TakePassed
<1>6. ASSUME NEW c \in Calls, WaitForPassed(c) PROVE d \in wokeOther'
  BY <1>6 DEF WaitForPassed
<1>7. ASSUME NEW c \in Calls, WakeUp(c) PROVE d \in wokeOther'
  BY <1>7 DEF WakeUp
<1>8. ASSUME NEW c \in Calls, RemoveEntry(c) PROVE d \in wokeOther'
  BY <1>8 DEF RemoveEntry
<1>9. ASSUME NEW c \in Calls, RemovePassed(c) PROVE d \in wokeOther'
  BY <1>9 DEF RemovePassed
<1> QED
  BY <1>1, <1>2, <1>3, <1>4, <1>5, <1>6, <1>7, <1>8, <1>9 DEF PassedNext

\* What is left of a connect that is over was stored by a worker that had found its entry.
LEMMA LeftoversAreLateStep ==
  PassedInv /\ [PassedNext]_passedVars => LeftoversAreLate'
<1> SUFFICES ASSUME PassedInv, [PassedNext]_passedVars,
                    NEW d \in Calls, calling'[d] = "no", passed'[d] > 0
             PROVE  d \in lateStore'
  BY DEF LeftoversAreLate
<1> USE DEF PassedInv, PassedTypes, PassedReachCalls, LeftoversAreLate, Where
<1>1. CASE UNCHANGED passedVars
  BY <1>1 DEF passedVars
<1>2. ASSUME NEW c \in Calls, RegisterConnector(c) PROVE d \in lateStore'
  BY <1>2 DEF RegisterConnector
<1>3. ASSUME NEW c \in Calls, RetrieveConnector(c) PROVE d \in lateStore'
  BY <1>3 DEF RetrieveConnector
<1>4. ASSUME NEW c \in Calls, StorePkt(c) PROVE d \in lateStore'
  <2>1. calling[d] = "no" /\ lateStore \subseteq lateStore'
    BY <1>4 DEF StorePkt
  <2>2. CASE c = d
    BY <1>4, <2>1, <2>2 DEF StorePkt
  <2>3. CASE c # d
    BY <1>4, <2>1, <2>3 DEF StorePkt
  <2> QED BY <2>2, <2>3
<1>5. ASSUME NEW c \in Calls, TakePassed(c) PROVE d \in lateStore'
  BY <1>5 DEF TakePassed
<1>6. ASSUME NEW c \in Calls, WaitForPassed(c) PROVE d \in lateStore'
  BY <1>6 DEF WaitForPassed
<1>7. ASSUME NEW c \in Calls, WakeUp(c) PROVE d \in lateStore'
  BY <1>7 DEF WakeUp
<1>8. ASSUME NEW c \in Calls, RemoveEntry(c) PROVE d \in lateStore'
  BY <1>8 DEF RemoveEntry
<1>9. ASSUME NEW c \in Calls, RemovePassed(c) PROVE d \in lateStore'
  BY <1>9 DEF RemovePassed
<1> QED
  BY <1>1, <1>2, <1>3, <1>4, <1>5, <1>6, <1>7, <1>8, <1>9 DEF PassedNext

\* storePkt is all that adds, and it stops at one more than the limit.
LEMMA PassedIsBoundedStep ==
  PassedInv /\ [PassedNext]_passedVars => PassedIsBounded'
<1> SUFFICES ASSUME PassedInv, [PassedNext]_passedVars, NEW d \in Calls
             PROVE  passed'[d] <= KeepLimit + 1
  BY DEF PassedIsBounded
<1> USE PassedAssumption DEF PassedInv, PassedTypes, PassedReachCalls, PassedIsBounded
<1>1. passed[d] \in Nat /\ passed[d] <= KeepLimit + 1
  OBVIOUS
<1>2. CASE passed' = passed
  BY <1>1, <1>2
<1>3. ASSUME NEW c \in Calls, StorePkt(c) PROVE passed'[d] <= KeepLimit + 1
  <2>1. passed' = [passed EXCEPT ![c] = Stored(@)]
    BY <1>3 DEF StorePkt
  <2>2. Stored(passed[c]) <= KeepLimit + 1
    BY StoredIsBounded
  <2> QED BY <1>1, <2>1, <2>2
<1>4. ASSUME NEW c \in Calls, TakePassed(c) \/ WakeUp(c) \/ RemovePassed(c)
      PROVE  passed'[d] <= KeepLimit + 1
  <2>1. passed[c] \in Nat /\ passed[c] <= KeepLimit + 1
    OBVIOUS
  <2>2. CASE TakePassed(c) BY <1>1, <2>1, <2>2 DEF TakePassed
  <2>3. CASE WakeUp(c) BY <1>1, <2>1, <2>3 DEF WakeUp
  <2>4. CASE RemovePassed(c) BY <1>1, <2>1, <2>4 DEF RemovePassed
  <2> QED BY <1>4, <2>2, <2>3, <2>4
<1> QED
  BY <1>2, <1>3, <1>4 DEF PassedNext, passedVars, RegisterConnector, RetrieveConnector,
     WaitForPassed, RemoveEntry

\* Packets passed to connect calls wake them unless the signal wakes another, stay within
\* the limit, and go with the call, for any number of calls.
THEOREM PassedAlwaysReachCalls == PassedSpec => []PassedReachCalls
<1>1. PassedInv /\ [PassedNext]_passedVars => PassedInv'
  BY PassedTypesStep, SleepsOnlyIfStolenStep, LeftoversAreLateStep, PassedIsBoundedStep
     DEF PassedInv, PassedReachCalls
<1>2. PassedInv => PassedReachCalls
  BY DEF PassedInv
<1> QED BY PassedInvInit, <1>1, <1>2, PTL DEF PassedSpec

-----------------------------------------------------------------------------
(***************************************************************************)
(* UdtRcvQueue                                                             *)
(***************************************************************************)
\* The invariant: c lists the sockets as the pointers link them, from the one whose timers
\* were looked at first.
RcvQueueTypeOK ==
  /\ nextOf \in [Receivers -> Receivers \union {None}] /\ prevOf \in [Receivers -> Receivers \union {None}]
  /\ seenAt \in [Receivers -> Int] /\ rcvTime \in Int /\ \A u \in Receivers : seenAt[u] <= rcvTime
  /\ onList \in [Receivers -> BOOLEAN] /\ bucket \in [0..(HashSize - 1) -> Seq(Receivers)]
  /\ \A b \in 0..(HashSize - 1) : Once(bucket[b])
  /\ newEntry \in Seq(Receivers) /\ stage \in [Receivers -> {"new", "serving", "over"}]
  /\ rcvWorker \in [at : {"entries", "timers", "list", "unlist", "unflag"}, ctime : Int,
                    out : Receivers \union {None}]

Linked(c) ==
  /\ c \in Seq(Receivers) /\ Once(c)
  /\ firstOn = (IF Len(c) = 0 THEN None ELSE c[1]) /\ lastOn = (IF Len(c) = 0 THEN None ELSE c[Len(c)])
  /\ \A i \in 1..Len(c) : nextOf[c[i]] = IF i < Len(c) THEN c[i + 1] ELSE None
  /\ \A i \in 1..Len(c) : prevOf[c[i]] = IF i > 1 THEN c[i - 1] ELSE None

Sorted(c) == \A i \in 1..Len(c) : \A j \in 1..Len(c) : i <= j => seenAt[c[i]] <= seenAt[c[j]]

\* New entries are in no list yet, and nothing that a socket was in keeps it when it is let go.
Kept(c) ==
  /\ Once(newEntry)
  /\ \A u \in Receivers :
       /\ Contains(newEntry, u) => onList[u] /\ stage[u] # "new" /\ ~Contains(c, u) /\ rcvWorker.out # u
       /\ Contains(c, u) => onList[u] /\ stage[u] # "new"
       /\ Lookup(u) => Contains(c, u) /\ rcvWorker.out # u
       /\ rcvWorker.out = u => stage[u] # "new"
  /\ rcvWorker.at = "unlist" => rcvWorker.out # None /\ Contains(c, rcvWorker.out)
  /\ rcvWorker.at = "unflag" => rcvWorker.out # None /\ ~Contains(c, rcvWorker.out)
  /\ rcvWorker.at \notin {"unlist", "unflag"} => rcvWorker.out = None

RcvQueueInv == RcvQueueTypeOK /\ \E c \in Seq(Receivers) : Linked(c) /\ Sorted(c) /\ Kept(c)

\* A hash is the index of a bucket.
LEMMA HashIsIndex == ASSUME NEW u \in Receivers PROVE Hash(u) \in 0..(HashSize - 1)
BY RcvQueueAssumption, RemainderIsSlot DEF Hash

\* A lookup searches one bucket.
LEMMA LookupIs == \A u : Lookup(u) <=> Contains(bucket[Hash(u)], u)
BY DEF Lookup, Contains

\* What is followed from the front is the list.
LEMMA ChainIs ==
  ASSUME RcvQueueTypeOK, NEW c \in Seq(Receivers), Linked(c) PROVE Chain = c
<1> DEFINE C == Cardinality(Receivers)
           len == Len(c)
           Step(d) == LET v == IF d = <<>> THEN firstOn ELSE nextOf[Last(d)]
                      IN  IF v = None THEN d ELSE Append(d, v)
           Is(f) == f = [n \in 0..C |-> IF n = 0 THEN <<>> ELSE Step(f[n - 1])]
           Cut(k) == SubSeq(c, 1, IF k <= len THEN k ELSE len)
<1>0. C \in Nat /\ len \in Nat /\ len <= C /\ None \notin Receivers
  <2>1. C \in Nat /\ IsFiniteSet(Receivers)
    BY RcvQueueAssumption, FS_CardinalityType
  <2>2. c \in [1..len -> Receivers] /\ len \in Nat
    OBVIOUS
  <2>3. c \in Injection(1..len, Receivers)
    BY <2>2 DEF Injection, IsInjective, Linked, Once
  <2>4. Cardinality(1..len) <= C /\ Cardinality(1..len) = len
    <3>1. Cardinality(1..len) = len
      <4>1. Cardinality(1..len) = IF 1 > len THEN 0 ELSE len - 1 + 1
        BY <2>2, FS_Interval
      <4>2. (IF 1 > len THEN 0 ELSE len - 1 + 1) = len
        BY <2>2
      <4> QED BY <4>1, <4>2
    <3>2. Cardinality(1..len) <= C
      BY <2>1, <2>3, FS_Injection
    <3> QED BY <3>1, <3>2
  <2> QED BY <2>1, <2>2, <2>4, RcvQueueAssumption DEF None
<1>1. ASSUME NEW k \in Nat
      PROVE  /\ Cut(k) \in Seq(Receivers)
             /\ k <= len => Len(Cut(k)) = k /\ \A i \in 1..k : Cut(k)[i] = c[i]
             /\ k >= len => Len(Cut(k)) = len /\ \A i \in 1..len : Cut(k)[i] = c[i]
  <2>1. PICK m \in Nat : m = (IF k <= len THEN k ELSE len) /\ m <= len
    BY <1>0
  <2>2. \A i \in 1..m : c[i] \in Receivers
    BY <1>0, <2>1
  <2>3. /\ SubSeq(c, 1, m) \in Seq(Receivers) /\ Len(SubSeq(c, 1, m)) = IF 1 <= m THEN m - 1 + 1 ELSE 0
        /\ \A i \in 1..(m - 1 + 1) : SubSeq(c, 1, m)[i] = c[1 + i - 1]
    BY <2>2, SubSeqProperties
  <2>4. Cut(k) = SubSeq(c, 1, m) /\ Len(Cut(k)) = m
    BY <2>1, <2>3
  <2>5. ASSUME NEW i \in 1..m PROVE SubSeq(c, 1, m)[i] = c[i]
    <3>1. i \in 1..(m - 1 + 1) /\ 1 + i - 1 = i
      OBVIOUS
    <3> QED BY <2>3, <3>1
  <2>6. (k <= len => m = k) /\ (k >= len => m = len)
    BY <1>0, <2>1
  <2> HIDE DEF Cut
  <2> QED BY <2>3, <2>4, <2>5, <2>6, Zenon
<1>2. Cut(0) = <<>>
  <2>1. Len(Cut(0)) = 0 /\ Cut(0) \in Seq(Receivers)
    BY <1>0, <1>1
  <2> HIDE DEF Cut
  <2> QED BY <2>1, EmptySeq
<1>3. Cut(C) = c
  <2>1. Len(Cut(C)) = len /\ Cut(C) \in Seq(Receivers) /\ \A i \in 1..len : Cut(C)[i] = c[i]
    <3> HIDE DEF Cut, len, C
    <3> QED BY <1>0, <1>1
  <2> HIDE DEF Cut
  <2> QED BY <2>1, SeqEqual
<1> HIDE DEF Cut
<1>4. ASSUME NEW k \in Nat PROVE Step(Cut(k)) = Cut(k + 1)
  <2>1. CASE k < len
    <3>1. Len(Cut(k)) = k /\ Cut(k) \in Seq(Receivers) /\ \A i \in 1..k : Cut(k)[i] = c[i]
      <4>1. k <= len
        BY <1>0, <2>1
      <4> QED BY <1>1, <4>1
    <3>2. Len(Cut(k + 1)) = k + 1 /\ Cut(k + 1) \in Seq(Receivers) /\ \A i \in 1..(k + 1) : Cut(k + 1)[i] = c[i]
      <4>1. k + 1 \in Nat /\ k + 1 <= len
        BY <1>0, <2>1
      <4> QED BY <1>0, <1>1, <4>1
    <3>3. (IF Cut(k) = <<>> THEN firstOn ELSE nextOf[Last(Cut(k))]) = c[k + 1]
      <4>1. CASE k = 0
        <5>1. Cut(k) = <<>>
          BY <1>2, <4>1
        <5> QED BY <1>0, <2>1, <4>1, <5>1 DEF Linked
      <4>2. CASE k # 0
        <5>1. Cut(k) # <<>> /\ Last(Cut(k)) = c[k] /\ k \in 1..len
          BY <1>0, <2>1, <3>1, <4>2 DEF Last
        <5> QED BY <2>1, <5>1 DEF Linked
      <4> QED BY <4>1, <4>2
    <3>4. c[k + 1] \in Receivers /\ c[k + 1] # None
      BY <1>0, <2>1
    <3>5. Step(Cut(k)) = Append(Cut(k), c[k + 1])
      BY <3>3, <3>4
    <3>6. PICK d : d = Append(Cut(k), c[k + 1])
      OBVIOUS
    <3>7. d \in Seq(Receivers) /\ Len(d) = k + 1 /\ \A i \in 1..(k + 1) : d[i] = c[i]
      <4>1. d \in Seq(Receivers) /\ Len(d) = Len(Cut(k)) + 1 /\ (\A i \in 1..Len(Cut(k)) : d[i] = Cut(k)[i])
            /\ d[Len(Cut(k)) + 1] = c[k + 1]
        BY <3>1, <3>4, <3>6, AppendIs
      <4> QED BY <3>1, <4>1
    <3>8. d = Cut(k + 1)
      <4>1. PICK e \in Seq(Receivers) : e = Cut(k + 1)
        BY <3>2
      <4>2. Len(d) = Len(e) /\ \A i \in 1..Len(d) : d[i] = e[i]
        BY <3>2, <3>7, <4>1
      <4> QED BY <3>7, <4>1, <4>2, SeqEqual
    <3> QED BY <3>5, <3>6, <3>8
  <2>2. CASE ~(k < len)
    <3>1. Cut(k) = c /\ Cut(k + 1) = c
      <4>1. \A m \in Nat : m >= len => Cut(m) = c
        <5> SUFFICES ASSUME NEW m \in Nat, m >= len PROVE Cut(m) = c
          OBVIOUS
        <5>1. Cut(m) \in Seq(Receivers) /\ Len(Cut(m)) = len /\ \A i \in 1..len : Cut(m)[i] = c[i]
          BY <1>1
        <5> QED BY <5>1, SeqEqual
      <4>2. k \in Nat /\ k >= len /\ k + 1 \in Nat /\ k + 1 >= len
        BY <1>0, <2>2
      <4> QED BY <4>1, <4>2
    <3>2. (IF c = <<>> THEN firstOn ELSE nextOf[Last(c)]) = None
      <4>1. CASE c = <<>>
        BY <4>1 DEF Linked
      <4>2. CASE c # <<>>
        <5>1. len \in 1..len
          BY <1>0, <4>2
        <5> QED BY <4>2, <5>1 DEF Linked, Last
      <4> QED BY <4>1, <4>2
    <3> QED BY <3>1, <3>2
  <2> QED BY <2>1, <2>2
<1> HIDE DEF Step
<1>5. PICK f : f = [n \in 0..C |-> Cut(n)]
  OBVIOUS
<1>6. Is(f)
  <2>1. ASSUME NEW n \in 0..C PROVE f[n] = IF n = 0 THEN <<>> ELSE Step(f[n - 1])
    <3>1. CASE n = 0
      BY <1>0, <1>2, <1>5, <3>1
    <3>2. CASE n # 0
      <4>1. n - 1 \in 0..C /\ n - 1 \in Nat /\ n - 1 + 1 = n
        BY <1>0, <3>2
      <4>2. Step(Cut(n - 1)) = Cut(n)
        BY <1>4, <4>1
      <4> QED BY <1>5, <3>2, <4>1, <4>2
    <3> QED BY <3>1, <3>2
  <2>2. f = [n \in 0..C |-> f[n]]
    BY <1>5
  <2> HIDE DEF C
  <2> QED BY <2>1, <2>2
<1> DEFINE g == CHOOSE x : Is(x)
<1>7. Is(g)
  <2> HIDE DEF Is
  <2> QED BY <1>6
<1>8. Chain = g[C]
  BY DEF Chain, Step
<1> HIDE DEF g, C
<1>9. g[0] = <<>> /\ \A n \in 1..C : g[n] = Step(g[n - 1])
  BY <1>0, <1>7
<1> DEFINE S == {n \in Nat : n <= C => g[n] = Cut(n)}
<1>10. 0 \in S
  BY <1>2, <1>9
<1>11. ASSUME NEW n \in S PROVE n + 1 \in S
  <2> SUFFICES ASSUME n + 1 <= C PROVE g[n + 1] = Cut(n + 1)
    OBVIOUS
  <2>1. n \in Nat /\ n + 1 \in 1..C /\ n + 1 - 1 = n /\ g[n] = Cut(n)
    BY <1>0
  <2>2. g[n + 1] = Step(g[n + 1 - 1])
    BY <1>9, <2>1
  <2>3. g[n + 1 - 1] = Cut(n)
    BY <2>1
  <2> QED BY <1>4, <2>1, <2>2, <2>3
<1>12. S \in SUBSET Nat
  OBVIOUS
<1> HIDE DEF S
<1>13. S = Nat
  BY <1>10, <1>11, <1>12, InductiveSet
<1>14. g[C] = Cut(C)
  BY <1>0, <1>13 DEF S
<1> QED BY <1>3, <1>8, <1>14

\* The invariant implies the property.
LEMMA RcvQueueImplies == ASSUME RcvQueueInv PROVE EverySocketIsVisited
<1> PICK c \in Seq(Receivers) : Linked(c) /\ Sorted(c) /\ Kept(c)
  BY DEF RcvQueueInv
<1>0. RcvQueueTypeOK /\ Chain = c /\ Len(c) \in Nat /\ None \notin Receivers
  BY ChainIs, RcvQueueAssumption DEF RcvQueueInv, None
<1>1. RcvListIsChain
  <2>1. CASE Len(c) = 0
    <3>1. c = <<>> /\ lastOn = None
      BY <2>1, EmptySeq DEF Linked
    <3> QED BY <1>0, <3>1 DEF RcvListIsChain
  <2>2. CASE Len(c) # 0
    <3>1. c # <<>> /\ 1 \in 1..Len(c) /\ Len(c) \in 1..Len(c)
      BY <1>0, <2>2
    <3>2. lastOn = c[Len(c)] /\ lastOn # None /\ Last(c) = lastOn
      BY <1>0, <2>2, <3>1 DEF Linked, Last
    <3>3. prevOf[c[1]] = None /\ nextOf[lastOn] = None
      BY <3>1, <3>2 DEF Linked
    <3>4. ASSUME NEW i \in 1..(Len(c) - 1) PROVE prevOf[c[i + 1]] = c[i]
      <4>1. i + 1 \in 1..Len(c) /\ i + 1 > 1 /\ i + 1 - 1 = i
        BY <1>0
      <4>2. prevOf[c[i + 1]] = c[i + 1 - 1]
        BY <4>1 DEF Linked
      <4> QED BY <4>1, <4>2
    <3> QED BY <1>0, <3>1, <3>2, <3>3, <3>4 DEF RcvListIsChain
  <2> QED BY <2>1, <2>2
<1>2. NobodyIsForgotten
  <2> SUFFICES ASSUME ~IsDue, NEW i \in 1..Len(c) PROVE seenAt[c[i]] >= rcvWorker.ctime
    BY <1>0 DEF NobodyIsForgotten
  <2>1. 1 \in 1..Len(c) /\ 1 <= i /\ firstOn = c[1] /\ c[1] \in Receivers /\ c[i] \in Receivers
    BY <1>0 DEF Linked
  <2>2. seenAt[c[1]] <= seenAt[c[i]]
    BY <2>1 DEF Sorted
  <2>3. PICK x \in Int, y \in Int, z \in Int : x = seenAt[c[1]] /\ y = seenAt[c[i]] /\ z = rcvWorker.ctime
    BY <1>0, <2>1 DEF RcvQueueTypeOK
  <2>4. ~(x < z)
    BY <1>0, <2>1, <2>3 DEF IsDue
  <2> QED BY <2>2, <2>3, <2>4
<1>3. UnlistedIsUnreachable
  BY <1>0 DEF UnlistedIsUnreachable, Kept
<1> QED BY <1>1, <1>2, <1>3 DEF EverySocketIsVisited

\* The list and the table are empty at first.
LEMMA RcvQueueStarts == RcvQueueInit => RcvQueueInv
<1> SUFFICES ASSUME RcvQueueInit PROVE RcvQueueInv
  OBVIOUS
<1> USE RcvQueueAssumption DEF RcvQueueInit
<1>1. RcvQueueTypeOK
  BY DEF RcvQueueTypeOK, Once
<1>2. Linked(<<>>) /\ Sorted(<<>>)
  BY DEF Linked, Sorted, Once
<1>3. ASSUME NEW u \in Receivers PROVE ~Lookup(u) /\ ~Contains(newEntry, u) /\ ~Contains(<<>>, u)
  BY HashIsIndex DEF Lookup, Contains
<1>4. Kept(<<>>)
  BY <1>3 DEF Kept, Once, None
<1>5. <<>> \in Seq(Receivers)
  OBVIOUS
<1> HIDE DEF RcvQueueInit
<1> QED BY <1>1, <1>2, <1>4, <1>5, Zenon DEF RcvQueueInv

-----------------------------------------------------------------------------
\* The three operations of the list.
ListTypes ==
  /\ nextOf \in [Receivers -> Receivers \union {None}] /\ prevOf \in [Receivers -> Receivers \union {None}]
  /\ seenAt \in [Receivers -> Int] /\ rcvTime \in Int /\ \A u \in Receivers : seenAt[u] <= rcvTime

\* What is said of the sockets in terms of their places.
LEMMA InPlace ==
  ASSUME NEW c \in Seq(Receivers), Linked(c), NEW i \in 1..Len(c)
  PROVE  /\ c[i] \in Receivers /\ c[i] # None
         /\ i < Len(c) => nextOf[c[i]] = c[i + 1] /\ i + 1 \in 1..Len(c)
         /\ i = Len(c) => nextOf[c[i]] = None /\ lastOn = c[i]
         /\ i > 1 => prevOf[c[i]] = c[i - 1] /\ i - 1 \in 1..Len(c)
         /\ i = 1 => prevOf[c[i]] = None /\ firstOn = c[i]
         /\ \A j \in 1..Len(c) : c[j] = c[i] => j = i
BY RcvQueueAssumption DEF Linked, Once, None

\* insert puts a socket at the end, with the time of now.
LEMMA InsertIs ==
  ASSUME ListTypes, NEW c \in Seq(Receivers), Linked(c), Sorted(c), NEW u \in Receivers, ~Contains(c, u),
         ListInsert(u), rcvTime' = rcvTime
  PROVE  \E d \in Seq(Receivers) :
           ListTypes' /\ Linked(d)' /\ Sorted(d)' /\ \A v : Contains(d, v) <=> Contains(c, v) \/ v = u
<1>0. PICK d : d = Append(c, u)
  OBVIOUS
<1>1. PICK n \in Nat : d = Append(c, u) /\ n = Len(c)
  BY <1>0
<1>2. /\ d \in Seq(Receivers) /\ Len(d) = n + 1 /\ (\A i \in 1..n : d[i] = c[i]) /\ d[n + 1] = u
      /\ (\A v : Contains(d, v) <=> Contains(c, v) \/ v = u) /\ Once(d)
  <2>1. Once(c)
    BY DEF Linked
  <2> QED BY <1>1, <2>1, AppendIs
<1>3. u # None /\ \A i \in 1..n : c[i] # u /\ c[i] \in Receivers /\ c[i] # None
  BY <1>1, RcvQueueAssumption DEF Contains, None
<1>4. seenAt' = [seenAt EXCEPT ![u] = rcvTime] /\ lastOn' = u
  BY DEF ListInsert
<1>5. ListTypes' /\ (\A v \in Receivers : seenAt'[v] = IF v = u THEN rcvTime ELSE seenAt[v])
  <2>1. lastOn \in Receivers \/ firstOn = None
    <3>1. CASE n = 0
      BY <1>1, <3>1 DEF Linked
    <3>2. CASE n # 0
      <4>1. n \in 1..n
        BY <3>2
      <4> QED BY <1>1, <1>3, <3>2, <4>1 DEF Linked
    <3> QED BY <3>1, <3>2
  <2>2. nextOf' \in [Receivers -> Receivers \union {None}] /\ prevOf' \in [Receivers -> Receivers \union {None}]
    BY <2>1 DEF ListInsert, ListTypes
  <2>3. seenAt' \in [Receivers -> Int] /\ \A v \in Receivers : seenAt'[v] = IF v = u THEN rcvTime ELSE seenAt[v]
    BY <1>4 DEF ListTypes
  <2>4. \A v \in Receivers : seenAt'[v] <= rcvTime
    <3>1. rcvTime <= rcvTime
      BY DEF ListTypes
    <3> QED BY <2>3, <3>1 DEF ListTypes
  <2> QED BY <2>2, <2>3, <2>4 DEF ListTypes
<1>6. Sorted(d)'
  <2> SUFFICES ASSUME NEW i \in 1..(n + 1), NEW j \in 1..(n + 1), i <= j PROVE seenAt'[d[i]] <= seenAt'[d[j]]
    BY <1>2 DEF Sorted
  <2>1. CASE j = n + 1
    <3>1. seenAt'[d[j]] = rcvTime
      BY <1>2, <1>5, <2>1
    <3>2. d[i] \in Receivers
      BY <1>2
    <3> QED BY <1>5, <3>1, <3>2 DEF ListTypes
  <2>2. CASE j \in 1..n
    <3>1. i \in 1..n
      BY <2>2
    <3>2. seenAt'[d[i]] = seenAt[c[i]] /\ seenAt'[d[j]] = seenAt[c[j]]
      BY <1>2, <1>3, <1>5, <2>2, <3>1
    <3> QED BY <1>1, <2>2, <3>1, <3>2 DEF Sorted
  <2> QED BY <2>1, <2>2
<1>7. Linked(d)'
  <2>1. CASE n = 0
    <3>1. firstOn = None /\ firstOn' = u /\ nextOf' = [nextOf EXCEPT ![u] = None] /\ prevOf' = [prevOf EXCEPT ![u] = None]
      BY <1>1, <2>1 DEF Linked, ListInsert
    <3>2. nextOf'[u] = None /\ prevOf'[u] = None
      BY <3>1 DEF ListTypes
    <3> QED BY <1>2, <1>4, <2>1, <3>1, <3>2 DEF Linked
  <2>2. CASE n # 0
    <3>0. 1 \in 1..n /\ n \in 1..n /\ n + 1 # 0
      BY <2>2
    <3>1. firstOn = c[1] /\ lastOn = c[n] /\ firstOn # None
      BY <1>1, <1>3, <2>2, <3>0 DEF Linked
    <3>2. /\ firstOn' = firstOn /\ nextOf' = [nextOf EXCEPT ![u] = None, ![lastOn] = u]
          /\ prevOf' = [prevOf EXCEPT ![u] = lastOn]
      BY <3>1 DEF ListInsert
    <3>3. ASSUME NEW i \in 1..n
          PROVE  nextOf'[c[i]] = IF i < n THEN c[i + 1] ELSE u
      <4>1. c[i] = c[n] => i = n
        BY <1>1, <3>0 DEF Linked, Once
      <4>2. CASE i = n
        BY <1>3, <3>0, <3>1, <3>2, <4>2 DEF ListTypes
      <4>3. CASE i # n
        <5>1. i < n /\ nextOf[c[i]] = c[i + 1]
          BY <1>1, <4>3 DEF Linked
        <5>2. nextOf'[c[i]] = nextOf[c[i]]
          BY <1>3, <3>1, <3>2, <4>1, <4>3 DEF ListTypes
        <5> QED BY <5>1, <5>2
      <4> QED BY <4>2, <4>3
    <3>4. nextOf'[u] = None
      BY <1>3, <3>0, <3>1, <3>2 DEF ListTypes
    <3>5. ASSUME NEW i \in 1..(n + 1) PROVE nextOf'[d[i]] = IF i < n + 1 THEN d[i + 1] ELSE None
      <4>1. CASE i = n + 1
        BY <1>2, <3>4, <4>1
      <4>2. CASE i \in 1..n
        <5>1. d[i] = c[i] /\ (i < n => d[i + 1] = c[i + 1]) /\ (i = n => d[i + 1] = u) /\ i < n + 1
          BY <1>2, <4>2
        <5> QED BY <3>3, <4>2, <5>1
      <4> QED BY <4>1, <4>2
    <3>6. ASSUME NEW i \in 1..(n + 1) PROVE prevOf'[d[i]] = IF i > 1 THEN d[i - 1] ELSE None
      <4>1. CASE i = n + 1
        <5>1. i > 1 /\ i - 1 = n /\ d[n] = c[n] /\ d[i] = u
          BY <1>2, <3>0, <4>1
        <5>2. prevOf'[u] = c[n]
          BY <3>1, <3>2 DEF ListTypes
        <5> QED BY <5>1, <5>2
      <4>2. CASE i \in 1..n
        <5>1. d[i] = c[i] /\ (i > 1 => d[i - 1] = c[i - 1])
          BY <1>2, <4>2
        <5>2. prevOf'[c[i]] = prevOf[c[i]]
          BY <1>3, <3>2, <4>2 DEF ListTypes
        <5>3. prevOf[c[i]] = IF i > 1 THEN c[i - 1] ELSE None
          BY <1>1, <4>2 DEF Linked
        <5> QED BY <5>1, <5>2, <5>3
      <4> QED BY <4>1, <4>2
    <3>7. firstOn' = d[1] /\ lastOn' = d[n + 1]
      BY <1>2, <1>4, <3>0, <3>1, <3>2
    <3> QED BY <1>2, <3>0, <3>5, <3>6, <3>7 DEF Linked
  <2> QED BY <2>1, <2>2
<1> QED BY <1>2, <1>5, <1>6, <1>7

\* The pointers when the p-th of the list is taken out: those of the others.
LEMMA UnlinkIs ==
  ASSUME NEW c \in Seq(Receivers), Linked(c), NEW n \in Nat, n = Len(c), NEW p \in 1..n, NEW u, u = c[p],
         NEW i \in 1..(n - 1), NEW v, v = Without(c, p)[i]
  PROVE  /\ v \in Receivers /\ v # u
         /\ (IF v = prevOf[u] THEN nextOf[u] ELSE nextOf[v]) = IF i < n - 1 THEN Without(c, p)[i + 1] ELSE None
         /\ (IF v = nextOf[u] THEN prevOf[u] ELSE prevOf[v]) = IF i > 1 THEN Without(c, p)[i - 1] ELSE None
<1> DEFINE d == Without(c, p)
<1>1. \A k \in 1..(n - 1) : d[k] = IF k < p THEN c[k] ELSE c[k + 1]
  BY DEF Without
<1> HIDE DEF d
<1>2. \A k \in 1..n : c[k] \in Receivers /\ c[k] # None /\ (\A j \in 1..n : c[j] = c[k] => j = k)
  <2> SUFFICES ASSUME NEW k \in 1..n
               PROVE  c[k] \in Receivers /\ c[k] # None /\ (\A j \in 1..n : c[j] = c[k] => j = k)
    OBVIOUS
  <2> QED BY InPlace, ZenonT(60)
<1>3. \A k \in 1..n : /\ nextOf[c[k]] = IF k < n THEN c[k + 1] ELSE None
                      /\ prevOf[c[k]] = IF k > 1 THEN c[k - 1] ELSE None
  BY DEF Linked
<1>4. CASE i < p
  <2>1. v = c[i] /\ i \in 1..n
    BY <1>1, <1>4 DEF d
  <2>2. v \in Receivers /\ v # u
    BY <1>2, <1>4, <2>1
  <2>3. v # nextOf[u]
    <3>1. CASE p < n
      <4>1. nextOf[u] = c[p + 1] /\ p + 1 \in 1..n /\ p + 1 # i
        BY <1>3, <1>4, <3>1
      <4> QED BY <1>2, <2>1, <4>1
    <3>2. CASE ~(p < n)
      BY <1>2, <1>3, <2>1, <3>2
    <3> QED BY <3>1, <3>2
  <2>4. prevOf[v] = IF i > 1 THEN d[i - 1] ELSE None
    <3>1. i > 1 => i - 1 \in 1..(n - 1) /\ i - 1 < p
      BY <1>4
    <3>2. i > 1 => d[i - 1] = c[i - 1]
      BY <1>1, <3>1
    <3> QED BY <1>3, <2>1, <3>2
  <2>5. CASE i + 1 < p
    <3>1. v # prevOf[u]
      <4>1. prevOf[u] = c[p - 1] /\ p - 1 \in 1..n /\ p - 1 # i
        BY <1>3, <2>5
      <4> QED BY <1>2, <2>1, <4>1
    <3>2. i < n - 1 /\ i + 1 \in 1..(n - 1) /\ i < n
      BY <2>5
    <3>3. d[i + 1] = c[i + 1] /\ nextOf[v] = c[i + 1]
      BY <1>1, <1>3, <2>1, <2>5, <3>2
    <3> QED BY <2>2, <2>3, <2>4, <3>1, <3>2, <3>3 DEF d
  <2>6. CASE i + 1 = p
    <3>1. v = prevOf[u]
      <4>1. p > 1 /\ p - 1 = i
        BY <2>6
      <4> QED BY <1>3, <2>1, <4>1
    <3>2. nextOf[u] = IF i < n - 1 THEN d[i + 1] ELSE None
      <4>1. CASE i < n - 1
        <5>1. p < n /\ i + 1 \in 1..(n - 1) /\ ~(i + 1 < p) /\ i + 1 + 1 = p + 1
          BY <2>6, <4>1
        <5> QED BY <1>1, <1>3, <4>1, <5>1
      <4>2. CASE ~(i < n - 1)
        <5>1. ~(p < n)
          BY <2>6, <4>2
        <5> QED BY <1>3, <4>2, <5>1
      <4> QED BY <4>1, <4>2
    <3> QED BY <2>2, <2>3, <2>4, <3>1, <3>2 DEF d
  <2> QED BY <1>4, <2>5, <2>6
<1>5. CASE ~(i < p)
  <2>1. v = c[i + 1] /\ i + 1 \in 1..n /\ i + 1 # p
    BY <1>1, <1>5 DEF d
  <2>2. v \in Receivers /\ v # u
    BY <1>2, <2>1
  <2>3. v # prevOf[u]
    <3>1. CASE p > 1
      <4>1. prevOf[u] = c[p - 1] /\ p - 1 \in 1..n /\ p - 1 # i + 1
        BY <1>3, <1>5, <3>1
      <4> QED BY <1>2, <2>1, <4>1
    <3>2. CASE ~(p > 1)
      BY <1>2, <1>3, <2>1, <3>2
    <3> QED BY <3>1, <3>2
  <2>4. nextOf[v] = IF i < n - 1 THEN d[i + 1] ELSE None
    <3>1. nextOf[v] = IF i + 1 < n THEN c[i + 1 + 1] ELSE None
      BY <1>3, <2>1
    <3>2. i + 1 < n <=> i < n - 1
      OBVIOUS
    <3>3. i < n - 1 => i + 1 \in 1..(n - 1) /\ ~(i + 1 < p)
      BY <1>5
    <3>4. i < n - 1 => d[i + 1] = c[i + 1 + 1]
      BY <1>1, <3>3
    <3> QED BY <3>1, <3>2, <3>4
  <2>5. CASE i > p
    <3>1. v # nextOf[u]
      <4>1. nextOf[u] = c[p + 1] /\ p + 1 \in 1..n /\ p + 1 # i + 1
        BY <1>3, <2>5
      <4> QED BY <1>2, <2>1, <4>1
    <3>2. i > 1 /\ i - 1 \in 1..(n - 1) /\ ~(i - 1 < p) /\ i - 1 + 1 = i /\ i + 1 - 1 = i /\ i + 1 > 1
      BY <2>5
    <3>3. d[i - 1] = c[i] /\ prevOf[v] = c[i]
      BY <1>1, <1>3, <2>1, <3>2
    <3> QED BY <2>2, <2>3, <2>4, <3>1, <3>2, <3>3 DEF d
  <2>6. CASE i = p
    <3>1. v = nextOf[u]
      <4>1. p < n
        BY <2>6
      <4> QED BY <1>3, <2>1, <2>6, <4>1
    <3>2. prevOf[u] = IF i > 1 THEN d[i - 1] ELSE None
      <4>1. i > 1 => i - 1 \in 1..(n - 1) /\ i - 1 < p
        BY <2>6
      <4>2. i > 1 => d[i - 1] = c[i - 1]
        BY <1>1, <4>1
      <4> QED BY <1>3, <2>6, <4>2
    <3> QED BY <2>2, <2>3, <2>4, <3>1, <3>2 DEF d
  <2> QED BY <1>5, <2>5, <2>6
<1> QED BY <1>4, <1>5

\* remove takes it out, wherever it is.
LEMMA RemoveIs ==
  ASSUME ListTypes, NEW c \in Seq(Receivers), Linked(c), Sorted(c), NEW u \in Receivers, Contains(c, u),
         ListRemove(u), rcvTime' = rcvTime
  PROVE  \E d \in Seq(Receivers) :
           ListTypes' /\ Linked(d)' /\ Sorted(d)' /\ \A v : Contains(d, v) <=> Contains(c, v) /\ v # u
<1>1. PICK n \in Nat : n = Len(c)
  OBVIOUS
<1>2. PICK p \in 1..n : c[p] = u
  BY <1>1 DEF Contains
<1>3. PICK d : d = Without(c, p)
  OBVIOUS
<1>4. /\ d \in Seq(Receivers) /\ Len(d) = n - 1 /\ Once(d)
      /\ \A i \in 1..(n - 1) : d[i] = IF i < p THEN c[i] ELSE c[i + 1]
      /\ \A v : Contains(d, v) <=> Contains(c, v) /\ v # u
  <2>1. Once(c) /\ p \in 1..Len(c)
    BY <1>1 DEF Linked
  <2>2. /\ d \in Seq(Receivers) /\ Len(d) = Len(c) - 1 /\ Once(d)
        /\ \A i \in 1..(Len(c) - 1) : d[i] = IF i < p THEN c[i] ELSE c[i + 1]
        /\ \A v : Contains(d, v) <=> Contains(c, v) /\ v # c[p]
    <3>1. /\ Without(c, p) \in Seq(Receivers) /\ Len(Without(c, p)) = Len(c) - 1 /\ Once(Without(c, p))
          /\ \A i \in 1..(Len(c) - 1) : Without(c, p)[i] = IF i < p THEN c[i] ELSE c[i + 1]
          /\ \A v : Contains(Without(c, p), v) <=> Contains(c, v) /\ v # c[p]
      BY <2>1, WithoutIs
    <3> QED BY <1>3, <3>1
  <2> QED BY <1>1, <1>2, <2>2
<1>5. ASSUME NEW i \in 1..(n - 1)
      PROVE  /\ nextOf'[d[i]] = IF i < n - 1 THEN d[i + 1] ELSE None
             /\ prevOf'[d[i]] = IF i > 1 THEN d[i - 1] ELSE None
  <2>1. PICK v : v = d[i]
    OBVIOUS
  <2>2. /\ v \in Receivers /\ v # u
        /\ (IF v = prevOf[u] THEN nextOf[u] ELSE nextOf[v]) = IF i < n - 1 THEN d[i + 1] ELSE None
        /\ (IF v = nextOf[u] THEN prevOf[u] ELSE prevOf[v]) = IF i > 1 THEN d[i - 1] ELSE None
    BY <1>1, <1>2, <1>3, <2>1, UnlinkIs
  <2>3. /\ nextOf'[v] = (IF v = prevOf[u] THEN nextOf[u] ELSE nextOf[v])
        /\ prevOf'[v] = (IF v = nextOf[u] THEN prevOf[u] ELSE prevOf[v])
    BY <2>2 DEF ListRemove
  <2> QED BY <2>1, <2>2, <2>3
<1>6. ListTypes'
  <2>1. nextOf[u] \in Receivers \union {None} /\ prevOf[u] \in Receivers \union {None} /\ seenAt' = seenAt
    BY DEF ListTypes, ListRemove
  <2>2. nextOf' \in [Receivers -> Receivers \union {None}] /\ prevOf' \in [Receivers -> Receivers \union {None}]
    BY <2>1 DEF ListTypes, ListRemove
  <2> QED BY <2>1, <2>2 DEF ListTypes
<1>7. Sorted(d)'
  <2> SUFFICES ASSUME NEW i \in 1..(n - 1), NEW j \in 1..(n - 1), i <= j PROVE seenAt[d[i]] <= seenAt[d[j]]
    BY <1>4 DEF Sorted, ListRemove
  <2>1. PICK k \in 1..n : d[i] = c[k] /\ k = IF i < p THEN i ELSE i + 1
    BY <1>4
  <2>2. PICK l \in 1..n : d[j] = c[l] /\ l = IF j < p THEN j ELSE j + 1
    BY <1>4
  <2>3. k <= l
    BY <2>1, <2>2
  <2> QED BY <1>1, <2>1, <2>2, <2>3 DEF Sorted
<1>8. firstOn' = (IF n - 1 = 0 THEN None ELSE d[1])
  <2>1. p = 1 => prevOf[u] = None /\ nextOf[u] = IF 1 < n THEN c[2] ELSE None
    BY <1>1, <1>2 DEF Linked
  <2>2. p # 1 => prevOf[u] # None /\ firstOn = c[1] /\ n > 1
    <3> SUFFICES ASSUME p # 1 PROVE prevOf[u] # None /\ firstOn = c[1] /\ n > 1
      OBVIOUS
    <3>1. p > 1 /\ p - 1 \in 1..n /\ 1 \in 1..n
      OBVIOUS
    <3>2. prevOf[u] = c[p - 1]
      BY <1>1, <1>2, <3>1 DEF Linked
    <3>3. firstOn = c[1] /\ c[p - 1] # None
      BY <1>1, <3>1, InPlace
    <3> QED BY <3>1, <3>2, <3>3
  <2>3. firstOn' = IF prevOf[u] = None THEN nextOf[u] ELSE firstOn
    BY DEF ListRemove
  <2>4. CASE p = 1
    <3>1. 1 < n => 1 \in 1..(n - 1) /\ ~(1 < p) /\ 1 + 1 = 2
      BY <2>4
    <3>2. 1 < n => d[1] = c[2]
      BY <1>4, <3>1
    <3> QED BY <2>1, <2>3, <2>4, <3>2
  <2>5. CASE p # 1
    <3>1. 1 \in 1..(n - 1) /\ 1 < p
      BY <2>2, <2>5
    <3>2. d[1] = c[1]
      BY <1>4, <3>1
    <3> QED BY <2>2, <2>3, <2>5, <3>1, <3>2
  <2> QED BY <2>4, <2>5
<1>9. lastOn' = (IF n - 1 = 0 THEN None ELSE d[n - 1])
  <2>1. p = n => nextOf[u] = None /\ prevOf[u] = IF n > 1 THEN c[n - 1] ELSE None
    BY <1>1, <1>2 DEF Linked
  <2>2. p # n => nextOf[u] # None /\ lastOn = c[n] /\ n > 1
    <3> SUFFICES ASSUME p # n PROVE nextOf[u] # None /\ lastOn = c[n] /\ n > 1
      OBVIOUS
    <3>1. p < n /\ p + 1 \in 1..n /\ n \in 1..n
      OBVIOUS
    <3>2. nextOf[u] = c[p + 1]
      BY <1>1, <1>2, <3>1 DEF Linked
    <3>3. lastOn = c[n] /\ c[p + 1] # None
      BY <1>1, <3>1, InPlace
    <3> QED BY <3>1, <3>2, <3>3
  <2>3. lastOn' = IF nextOf[u] = None THEN prevOf[u] ELSE lastOn
    BY DEF ListRemove
  <2>4. CASE p = n
    <3>1. n > 1 => n - 1 \in 1..(n - 1) /\ n - 1 < p
      BY <2>4
    <3>2. n > 1 => d[n - 1] = c[n - 1]
      BY <1>4, <3>1
    <3> QED BY <2>1, <2>3, <2>4, <3>2
  <2>5. CASE p # n
    <3>1. n - 1 \in 1..(n - 1) /\ ~(n - 1 < p) /\ n - 1 + 1 = n /\ n - 1 # 0
      BY <2>2, <2>5
    <3>2. d[n - 1] = c[n]
      BY <1>4, <3>1
    <3> QED BY <2>2, <2>3, <2>5, <3>1, <3>2
  <2> QED BY <2>4, <2>5
<1>10. Linked(d)'
  BY <1>4, <1>5, <1>8, <1>9 DEF Linked
<1> QED BY <1>4, <1>6, <1>7, <1>10

\* update moves it to the end.
LEMMA UpdateIs ==
  ASSUME ListTypes, NEW c \in Seq(Receivers), Linked(c), Sorted(c), NEW u \in Receivers, Contains(c, u),
         ListUpdate(u), rcvTime' = rcvTime
  PROVE  \E d \in Seq(Receivers) :
           ListTypes' /\ Linked(d)' /\ Sorted(d)' /\ \A v : Contains(d, v) <=> Contains(c, v)
<1>1. PICK n \in Nat : n = Len(c)
  OBVIOUS
<1>2. PICK p \in 1..n : c[p] = u
  BY <1>1 DEF Contains
<1>3. seenAt' = [seenAt EXCEPT ![u] = rcvTime]
  BY DEF ListUpdate
<1>4. seenAt' \in [Receivers -> Int] /\ \A v \in Receivers : seenAt'[v] = IF v = u THEN rcvTime ELSE seenAt[v]
  BY <1>3 DEF ListTypes
<1>5. \A v \in Receivers : seenAt'[v] <= rcvTime
  <2>1. rcvTime <= rcvTime
    BY DEF ListTypes
  <2> QED BY <1>4, <2>1 DEF ListTypes
<1>6. n \in 1..n /\ Once(c) /\ u # None /\ lastOn = c[n] /\ \A k \in 1..n : c[k] \in Receivers
  <2>1. n \in 1..n
    OBVIOUS
  <2> QED BY <1>1, <2>1, RcvQueueAssumption DEF Linked, None
<1>7. CASE p = n
  <2>1. nextOf[u] = None
    BY <1>1, <1>2, <1>7 DEF Linked
  <2>2. UNCHANGED <<nextOf, prevOf, firstOn, lastOn>>
    BY <2>1 DEF ListUpdate
  <2>3. ListTypes'
    BY <1>4, <1>5, <2>2 DEF ListTypes
  <2>4. Linked(c)'
    BY <2>2 DEF Linked
  <2>5. Sorted(c)'
    <3> SUFFICES ASSUME NEW i \in 1..n, NEW j \in 1..n, i <= j PROVE seenAt'[c[i]] <= seenAt'[c[j]]
      BY <1>1 DEF Sorted
    <3>1. CASE j = n
      BY <1>2, <1>4, <1>5, <1>6, <1>7, <3>1
    <3>2. CASE j # n
      <4>1. i # n
        BY <3>2
      <4>2. c[i] # u /\ c[j] # u
        BY <1>1, <1>2, <1>6, <1>7, <3>2, <4>1 DEF Once
      <4> QED BY <1>1, <1>4, <1>6, <4>2 DEF Sorted
    <3> QED BY <3>1, <3>2
  <2> QED BY <2>3, <2>4, <2>5
<1>8. CASE p # n
  <2>0. p < n /\ n - 1 \in Nat /\ n - 1 \in 1..(n - 1) /\ p + 1 \in 1..n
    BY <1>8
  <2>1. nextOf[u] = c[p + 1] /\ nextOf[u] # None
    <3>1. nextOf[u] = c[p + 1]
      BY <1>1, <1>2, <2>0 DEF Linked
    <3>2. c[p + 1] # None
      BY <1>1, <2>0, InPlace
    <3> QED BY <3>1, <3>2
  <2>2. /\ firstOn' = IF prevOf[u] = None THEN nextOf[u] ELSE firstOn
        /\ lastOn' = u
        /\ nextOf' = [v \in Receivers |-> IF v = u THEN None ELSE IF v = lastOn THEN u
                                          ELSE IF v = prevOf[u] THEN nextOf[u] ELSE nextOf[v]]
        /\ prevOf' = [v \in Receivers |-> IF v = u THEN lastOn ELSE IF v = nextOf[u] THEN prevOf[u]
                                          ELSE prevOf[v]]
    BY <2>1 DEF ListUpdate
  <2>3. PICK w : w = Without(c, p)
    OBVIOUS
  <2>4. /\ w \in Seq(Receivers) /\ Len(w) = n - 1 /\ Once(w)
        /\ \A i \in 1..(n - 1) : w[i] = IF i < p THEN c[i] ELSE c[i + 1]
        /\ \A v : Contains(w, v) <=> Contains(c, v) /\ v # u
    <3>1. p \in 1..Len(c)
      BY <1>1
    <3>2. /\ w \in Seq(Receivers) /\ Len(w) = Len(c) - 1 /\ Once(w)
          /\ \A i \in 1..(Len(c) - 1) : w[i] = IF i < p THEN c[i] ELSE c[i + 1]
          /\ \A v : Contains(w, v) <=> Contains(c, v) /\ v # c[p]
      <4>1. /\ Without(c, p) \in Seq(Receivers) /\ Len(Without(c, p)) = Len(c) - 1 /\ Once(Without(c, p))
            /\ \A i \in 1..(Len(c) - 1) : Without(c, p)[i] = IF i < p THEN c[i] ELSE c[i + 1]
            /\ \A v : Contains(Without(c, p), v) <=> Contains(c, v) /\ v # c[p]
        BY <1>6, <3>1, WithoutIs
      <4> QED BY <2>3, <4>1
    <3> QED BY <1>1, <1>2, <3>2
  <2>5. PICK d : d = Append(w, u)
    OBVIOUS
  <2>6. /\ d \in Seq(Receivers) /\ Len(d) = n /\ (\A i \in 1..(n - 1) : d[i] = w[i]) /\ d[n] = u /\ Once(d)
        /\ \A v : Contains(d, v) <=> Contains(w, v) \/ v = u
    <3>1. ~Contains(w, u) /\ n - 1 + 1 = n
      BY <2>4
    <3> QED BY <2>4, <2>5, <3>1, AppendIs
  <2>7. \A v : Contains(d, v) <=> Contains(c, v)
    BY <2>4, <2>6
  <2>8. ListTypes'
    <3>1. nextOf[u] \in Receivers \union {None} /\ prevOf[u] \in Receivers \union {None} /\ lastOn \in Receivers
      BY <1>6 DEF ListTypes
    <3>2. nextOf' \in [Receivers -> Receivers \union {None}] /\ prevOf' \in [Receivers -> Receivers \union {None}]
      BY <2>2, <3>1 DEF ListTypes
    <3> QED BY <1>4, <1>5, <3>2 DEF ListTypes
  <2>9. ASSUME NEW i \in 1..(n - 1)
        PROVE  /\ w[i] \in Receivers /\ w[i] # u
               /\ (IF w[i] = prevOf[u] THEN nextOf[u] ELSE nextOf[w[i]]) = IF i < n - 1 THEN w[i + 1] ELSE None
               /\ (IF w[i] = nextOf[u] THEN prevOf[u] ELSE prevOf[w[i]]) = IF i > 1 THEN w[i - 1] ELSE None
    <3>1. PICK v : v = w[i]
      OBVIOUS
    <3>2. /\ v \in Receivers /\ v # u
          /\ (IF v = prevOf[u] THEN nextOf[u] ELSE nextOf[v]) = IF i < n - 1 THEN w[i + 1] ELSE None
          /\ (IF v = nextOf[u] THEN prevOf[u] ELSE prevOf[v]) = IF i > 1 THEN w[i - 1] ELSE None
      BY <1>1, <1>2, <2>3, <3>1, UnlinkIs
    <3> QED BY <3>1, <3>2
  <2>10. w[n - 1] = c[n] /\ lastOn = w[n - 1]
    <3>1. ~(n - 1 < p) /\ n - 1 + 1 = n
      BY <2>0
    <3> QED BY <1>6, <2>0, <2>4, <3>1
  <2>11. ASSUME NEW i \in 1..n PROVE nextOf'[d[i]] = IF i < n THEN d[i + 1] ELSE None
    <3>1. CASE i = n
      BY <2>2, <2>6, <3>1
    <3>2. CASE i # n
      <4>1. i \in 1..(n - 1) /\ d[i] = w[i]
        BY <2>6, <3>2
      <4>2. CASE i = n - 1
        <5>1. w[i] = lastOn /\ d[i + 1] = u /\ i < n
          BY <2>6, <2>10, <4>2
        <5> QED BY <2>2, <2>9, <4>1, <5>1
      <4>3. CASE i # n - 1
        <5>1. i < n - 1 /\ i < n /\ i + 1 \in 1..(n - 1)
          BY <3>2, <4>3
        <5>2. d[i + 1] = w[i + 1]
          BY <2>6, <5>1
        <5>3. w[i] # lastOn
          BY <2>0, <2>4, <2>10, <4>1, <4>3 DEF Once
        <5>4. nextOf'[w[i]] = IF w[i] = prevOf[u] THEN nextOf[u] ELSE nextOf[w[i]]
          BY <2>2, <2>9, <4>1, <5>3
        <5> QED BY <2>9, <4>1, <5>1, <5>2, <5>4
      <4> QED BY <4>2, <4>3
    <3> QED BY <3>1, <3>2
  <2>12. ASSUME NEW i \in 1..n PROVE prevOf'[d[i]] = IF i > 1 THEN d[i - 1] ELSE None
    <3>1. CASE i = n
      <4>1. i > 1 /\ d[i - 1] = w[n - 1]
        BY <2>0, <2>6, <3>1
      <4> QED BY <2>2, <2>6, <2>10, <3>1, <4>1
    <3>2. CASE i # n
      <4>1. i \in 1..(n - 1) /\ d[i] = w[i] /\ (i > 1 => i - 1 \in 1..(n - 1))
        BY <2>6, <3>2
      <4>2. i > 1 => d[i - 1] = w[i - 1]
        BY <2>6, <4>1
      <4>3. prevOf'[w[i]] = IF w[i] = nextOf[u] THEN prevOf[u] ELSE prevOf[w[i]]
        BY <2>2, <2>9, <4>1
      <4> QED BY <2>9, <4>1, <4>2, <4>3
    <3> QED BY <3>1, <3>2
  <2>13. firstOn' = d[1] /\ lastOn' = d[n] /\ n # 0
    <3>0. 1 \in 1..(n - 1)
      BY <2>0
    <3>1. CASE p = 1
      <4>1. prevOf[u] = None
        BY <1>1, <1>2, <3>1 DEF Linked
      <4>2. w[1] = c[2]
        BY <2>4, <3>0, <3>1
      <4> QED BY <2>1, <2>2, <2>6, <3>0, <3>1, <4>1, <4>2
    <3>2. CASE p # 1
      <4>1. p > 1 /\ p - 1 \in 1..n /\ 1 \in 1..n /\ 1 < p
        BY <3>2
      <4>2. prevOf[u] = c[p - 1] /\ firstOn = c[1]
        BY <1>1, <1>2, <4>1 DEF Linked
      <4>3. c[p - 1] # None
        BY <1>1, <4>1, InPlace
      <4>4. w[1] = c[1]
        BY <2>4, <3>0, <4>1
      <4> QED BY <2>2, <2>6, <3>0, <4>2, <4>3, <4>4
    <3> QED BY <3>1, <3>2
  <2>14. Linked(d)'
    BY <2>6, <2>11, <2>12, <2>13 DEF Linked
  <2>15. Sorted(d)'
    <3> SUFFICES ASSUME NEW i \in 1..n, NEW j \in 1..n, i <= j PROVE seenAt'[d[i]] <= seenAt'[d[j]]
      BY <2>6 DEF Sorted
    <3>1. CASE j = n
      <4>1. d[i] \in Receivers
        BY <2>6
      <4> QED BY <1>4, <1>5, <2>6, <3>1, <4>1
    <3>2. CASE j # n
      <4>1. i \in 1..(n - 1) /\ j \in 1..(n - 1)
        BY <3>2
      <4>2. d[i] = w[i] /\ d[j] = w[j]
        BY <2>6, <4>1
      <4>3. seenAt'[d[i]] = seenAt[d[i]] /\ seenAt'[d[j]] = seenAt[d[j]]
        BY <1>4, <2>9, <4>1, <4>2
      <4>4. PICK k \in 1..n : w[i] = c[k] /\ k = IF i < p THEN i ELSE i + 1
        BY <2>4, <4>1
      <4>5. PICK l \in 1..n : w[j] = c[l] /\ l = IF j < p THEN j ELSE j + 1
        BY <2>4, <4>1
      <4>6. k <= l
        BY <4>4, <4>5
      <4> QED BY <1>1, <4>2, <4>3, <4>4, <4>5, <4>6 DEF Sorted
    <3> QED BY <3>1, <3>2
  <2> QED BY <2>6, <2>7, <2>8, <2>14, <2>15
<1> QED BY <1>7, <1>8

-----------------------------------------------------------------------------
\* Every action keeps the invariant.
LEMMA StartServingKeeps == ASSUME RcvQueueInv, NEW u \in Receivers, StartServing(u) PROVE RcvQueueInv'
<1> PICK c \in Seq(Receivers) : Linked(c) /\ Sorted(c) /\ Kept(c)
  BY DEF RcvQueueInv
<1>1. RcvQueueTypeOK
  BY DEF RcvQueueInv
<1>2. /\ stage[u] = "new" /\ stage' = [stage EXCEPT ![u] = "serving"] /\ onList' = [onList EXCEPT ![u] = TRUE]
      /\ newEntry' = Append(newEntry, u) /\ UNCHANGED <<nextOf, prevOf, firstOn, lastOn, seenAt, bucket, rcvWorker, rcvTime>>
  BY DEF StartServing, listVars
<1>3. ~Contains(newEntry, u) /\ ~Contains(c, u) /\ rcvWorker.out # u /\ Once(newEntry)
  BY <1>2 DEF Kept
<1>4. newEntry' \in Seq(Receivers) /\ Once(newEntry') /\ \A v : Contains(newEntry', v) <=> Contains(newEntry, v) \/ v = u
  BY <1>1, <1>2, <1>3, AppendIs DEF RcvQueueTypeOK
<1>5. stage' \in [Receivers -> {"new", "serving", "over"}] /\ onList' \in [Receivers -> BOOLEAN]
  BY <1>1, <1>2 DEF RcvQueueTypeOK
<1>6. RcvQueueTypeOK'
  BY <1>1, <1>2, <1>4, <1>5 DEF RcvQueueTypeOK
<1>7. Linked(c)' /\ Sorted(c)' /\ \A v : Lookup(v)' <=> Lookup(v)
  BY <1>2 DEF Linked, Sorted, Lookup, Hash
<1>8. \A v \in Receivers : /\ stage'[v] = IF v = u THEN "serving" ELSE stage[v]
                           /\ onList'[v] = IF v = u THEN TRUE ELSE onList[v]
  BY <1>1, <1>2 DEF RcvQueueTypeOK
<1>9. Kept(c)'
  <2>1. ASSUME NEW v \in Receivers
        PROVE  /\ Contains(newEntry', v) => onList'[v] /\ stage'[v] # "new" /\ ~Contains(c, v) /\ rcvWorker'.out # v
               /\ Contains(c, v) => onList'[v] /\ stage'[v] # "new"
               /\ Lookup(v)' => Contains(c, v) /\ rcvWorker'.out # v
               /\ rcvWorker'.out = v => stage'[v] # "new"
    <3>1. CASE v = u
      <4>1. ~Lookup(u)' /\ ~Contains(c, u) /\ rcvWorker'.out # u
        BY <1>2, <1>3, <1>7 DEF Kept
      <4>2. onList'[u] /\ stage'[u] # "new"
        BY <1>8
      <4> QED BY <3>1, <4>1, <4>2
    <3>2. CASE v # u
      BY <1>2, <1>4, <1>7, <1>8, <3>2 DEF Kept
    <3> QED BY <3>1, <3>2
  <2> QED BY <1>2, <1>4, <2>1 DEF Kept
<1> QED BY <1>6, <1>7, <1>9 DEF RcvQueueInv

\* A socket breaks or is closed.
LEMMA EndServingKeeps == ASSUME RcvQueueInv, NEW u \in Receivers, EndServing(u) PROVE RcvQueueInv'
<1> PICK c \in Seq(Receivers) : Linked(c) /\ Sorted(c) /\ Kept(c)
  BY DEF RcvQueueInv
<1>1. RcvQueueTypeOK
  BY DEF RcvQueueInv
<1>2. /\ stage[u] = "serving" /\ stage' = [stage EXCEPT ![u] = "over"]
      /\ UNCHANGED <<nextOf, prevOf, firstOn, lastOn, seenAt, onList, bucket, newEntry, rcvWorker, rcvTime>>
  BY DEF EndServing, listVars
<1>3. stage' \in [Receivers -> {"new", "serving", "over"}] /\ \A v \in Receivers : stage'[v] = IF v = u THEN "over" ELSE stage[v]
  BY <1>1, <1>2 DEF RcvQueueTypeOK
<1>4. RcvQueueTypeOK'
  BY <1>1, <1>2, <1>3 DEF RcvQueueTypeOK
<1>5. Linked(c)' /\ Sorted(c)' /\ \A v : Lookup(v)' <=> Lookup(v)
  BY <1>2 DEF Linked, Sorted, Lookup, Hash
<1>6. Kept(c)'
  BY <1>2, <1>3, <1>5 DEF Kept
<1> QED BY <1>4, <1>5, <1>6 DEF RcvQueueInv

\* Time goes on.
LEMMA PassTimeKeeps == ASSUME RcvQueueInv, PassTime PROVE RcvQueueInv'
<1> PICK c \in Seq(Receivers) : Linked(c) /\ Sorted(c) /\ Kept(c)
  BY DEF RcvQueueInv
<1>1. RcvQueueTypeOK
  BY DEF RcvQueueInv
<1>2. /\ rcvTime' = rcvTime + 1
      /\ UNCHANGED <<nextOf, prevOf, firstOn, lastOn, seenAt, onList, bucket, newEntry, stage, rcvWorker>>
  BY DEF PassTime, listVars
<1>3. rcvTime' \in Int /\ \A v \in Receivers : seenAt'[v] <= rcvTime'
  BY <1>1, <1>2 DEF RcvQueueTypeOK
<1>4. RcvQueueTypeOK'
  BY <1>1, <1>2, <1>3 DEF RcvQueueTypeOK
<1>5. Linked(c)' /\ Sorted(c)' /\ \A v : Lookup(v)' <=> Lookup(v)
  BY <1>2 DEF Linked, Sorted, Lookup, Hash
<1>6. Kept(c)'
  BY <1>2, <1>5 DEF Kept
<1> QED BY <1>4, <1>5, <1>6 DEF RcvQueueInv

\* The worker puts a new socket on its list and into its table.
LEMMA TakeNewEntryKeeps == ASSUME RcvQueueInv, TakeNewEntry PROVE RcvQueueInv'
<1> PICK c \in Seq(Receivers) : Linked(c) /\ Sorted(c) /\ Kept(c)
  BY DEF RcvQueueInv
<1>1. RcvQueueTypeOK /\ Once(newEntry) /\ newEntry # <<>> /\ rcvWorker.at = "entries"
  BY DEF RcvQueueInv, Kept, TakeNewEntry
<1>2. PICK u \in Receivers : u = Head(newEntry) /\ u = newEntry[1] /\ 1 \in 1..Len(newEntry)
  BY <1>1 DEF RcvQueueTypeOK
<1>3. /\ ListInsert(u) /\ bucket' = [bucket EXCEPT ![Hash(u)] = <<u>> \o @] /\ newEntry' = Tail(newEntry)
      /\ UNCHANGED <<onList, stage, rcvWorker, rcvTime>>
  BY <1>2 DEF TakeNewEntry
<1>4. Contains(newEntry, u)
  BY <1>2 DEF Contains
<1>5. onList[u] /\ stage[u] # "new" /\ ~Contains(c, u) /\ rcvWorker.out # u /\ ~Lookup(u)
  BY <1>4 DEF Kept
<1>6. PICK d \in Seq(Receivers) :
        ListTypes' /\ Linked(d)' /\ Sorted(d)' /\ \A v : Contains(d, v) <=> Contains(c, v) \/ v = u
  <2>1. ListTypes
    BY <1>1 DEF RcvQueueTypeOK, ListTypes
  <2> QED BY <1>3, <1>5, <2>1, InsertIs
<1>7. newEntry' \in Seq(Receivers) /\ Once(newEntry') /\ \A v : Contains(newEntry', v) => Contains(newEntry, v) /\ v # u
  <2>1. PICK n \in Nat : n = Len(newEntry)
    BY <1>1 DEF RcvQueueTypeOK
  <2>2. /\ newEntry' \in Seq(Receivers) /\ Len(newEntry') = n - 1
        /\ \A i \in 1..(n - 1) : newEntry'[i] = newEntry[i + 1]
    BY <1>1, <1>3, <2>1 DEF RcvQueueTypeOK
  <2>3. Once(newEntry')
    <3> SUFFICES ASSUME NEW i \in 1..(n - 1), NEW j \in 1..(n - 1), newEntry'[i] = newEntry'[j] PROVE i = j
      BY <2>2 DEF Once
    <3>1. i + 1 \in 1..n /\ j + 1 \in 1..n
      OBVIOUS
    <3>2. i + 1 = j + 1
      BY <1>1, <2>1, <2>2, <3>1 DEF Once
    <3> QED BY <3>2
  <2>4. ASSUME NEW i \in 1..(n - 1) PROVE Contains(newEntry, newEntry'[i]) /\ newEntry'[i] # u
    <3>1. i + 1 \in 1..n /\ 1 \in 1..n /\ i + 1 # 1
      OBVIOUS
    <3>2. newEntry[i + 1] # newEntry[1]
      BY <1>1, <2>1, <3>1 DEF Once
    <3> QED BY <1>2, <2>1, <2>2, <3>1, <3>2 DEF Contains
  <2> QED BY <2>2, <2>3, <2>4 DEF Contains
<1>8. /\ bucket' \in [0..(HashSize - 1) -> Seq(Receivers)] /\ \A b \in 0..(HashSize - 1) : Once(bucket'[b])
      /\ \A v \in Receivers : Lookup(v)' => Lookup(v) \/ v = u
  <2>1. PICK h \in 0..(HashSize - 1) : h = Hash(u)
    BY HashIsIndex
  <2>2. PICK s \in Seq(Receivers) : s = bucket[h] /\ Once(s) /\ ~Contains(s, u)
    BY <1>1, <1>5, <2>1, LookupIs DEF RcvQueueTypeOK
  <2>3. PICK t : t = <<u>> \o s
    OBVIOUS
  <2>4. t \in Seq(Receivers) /\ Once(t) /\ \A v : Contains(t, v) <=> Contains(s, v) \/ v = u
    BY <2>2, <2>3, PrependIs
  <2>5. bucket' = [bucket EXCEPT ![h] = t]
    BY <1>3, <2>1, <2>2, <2>3
  <2>6. bucket' \in [0..(HashSize - 1) -> Seq(Receivers)] /\ \A b \in 0..(HashSize - 1) : bucket'[b] = IF b = h THEN t ELSE bucket[b]
    BY <1>1, <2>4, <2>5 DEF RcvQueueTypeOK
  <2>7. \A b \in 0..(HashSize - 1) : Once(bucket'[b])
    BY <1>1, <2>4, <2>6 DEF RcvQueueTypeOK
  <2>8. ASSUME NEW v \in Receivers, Lookup(v)' PROVE Lookup(v) \/ v = u
    <3>1. Hash(v) \in 0..(HashSize - 1) /\ Contains(bucket'[Hash(v)], v)
      BY <2>8, HashIsIndex DEF Lookup, Contains, Hash
    <3>2. CASE Hash(v) = h
      <4>1. Contains(t, v)
        BY <2>6, <3>1, <3>2
      <4> QED BY <2>2, <2>4, <3>2, <4>1, LookupIs
    <3>3. CASE Hash(v) # h
      BY <2>6, <3>1, <3>3, LookupIs
    <3> QED BY <3>2, <3>3
  <2> QED BY <2>6, <2>7, <2>8
<1>9. RcvQueueTypeOK'
  BY <1>1, <1>3, <1>6, <1>7, <1>8 DEF RcvQueueTypeOK, ListTypes
<1>10. Kept(d)'
  <2>1. ASSUME NEW v \in Receivers
        PROVE  /\ Contains(newEntry', v) => onList[v] /\ stage[v] # "new" /\ ~Contains(d, v) /\ rcvWorker.out # v
               /\ Contains(d, v) => onList[v] /\ stage[v] # "new"
               /\ Lookup(v)' => Contains(d, v) /\ rcvWorker.out # v
               /\ rcvWorker.out = v => stage[v] # "new"
    BY <1>5, <1>6, <1>7, <1>8 DEF Kept
  <2> QED BY <1>1, <1>3, <1>7, <2>1 DEF Kept
<1> QED BY <1>6, <1>9, <1>10 DEF RcvQueueInv

\* Steps of the worker that take no socket out keep the invariant.
LEMMA RoundsKeep ==
  ASSUME RcvQueueTypeOK, RcvQueueTypeOK', NEW c \in Seq(Receivers), Kept(c), NEW d \in Seq(Receivers),
         \A v : Contains(d, v) <=> Contains(c, v), UNCHANGED <<onList, bucket, newEntry, stage>>,
         rcvWorker'.out = rcvWorker.out, rcvWorker.at \notin {"unlist", "unflag"},
         rcvWorker'.at \notin {"unlist", "unflag"}
  PROVE  Kept(d)'
<1>1. \A v : Lookup(v)' <=> Lookup(v)
  BY DEF Lookup, Hash
<1>2. ASSUME NEW v \in Receivers
      PROVE  /\ Contains(newEntry', v) => onList'[v] /\ stage'[v] # "new" /\ ~Contains(d, v) /\ rcvWorker'.out # v
             /\ Contains(d, v) => onList'[v] /\ stage'[v] # "new"
             /\ Lookup(v)' => Contains(d, v) /\ rcvWorker'.out # v
             /\ rcvWorker'.out = v => stage'[v] # "new"
  BY <1>1 DEF Kept
<1> QED BY <1>2 DEF Kept

\* The list is as its pointers are.
LEMMA UnchangedListIs ==
  ASSUME UNCHANGED listVars, NEW c PROVE (Linked(c)' <=> Linked(c)) /\ (Sorted(c)' <=> Sorted(c))
BY DEF listVars, Linked, Sorted

\* A packet for a socket moves it to the end.
LEMMA ReceiveForKeeps == ASSUME RcvQueueInv, NEW u \in Receivers, ReceiveFor(u) PROVE RcvQueueInv'
<1> PICK c \in Seq(Receivers) : Linked(c) /\ Sorted(c) /\ Kept(c)
  BY DEF RcvQueueInv
<1>1. RcvQueueTypeOK
  BY DEF RcvQueueInv
<1>2. /\ IF Lookup(u) /\ stage[u] = "serving" THEN ListUpdate(u) ELSE UNCHANGED listVars
      /\ rcvWorker.at = "entries" /\ rcvWorker' = [rcvWorker EXCEPT !.at = "timers"]
      /\ UNCHANGED <<onList, bucket, newEntry, stage, rcvTime>>
  BY DEF ReceiveFor, At
<1>3. /\ rcvWorker' \in [at : {"entries", "timers", "list", "unlist", "unflag"}, ctime : Int, out : Receivers \union {None}]
      /\ rcvWorker'.out = rcvWorker.out /\ rcvWorker'.at = "timers"
  BY <1>1, <1>2 DEF RcvQueueTypeOK
<1>4. PICK d \in Seq(Receivers) :
        ListTypes' /\ Linked(d)' /\ Sorted(d)' /\ \A v : Contains(d, v) <=> Contains(c, v)
  <2>1. ListTypes
    BY <1>1 DEF RcvQueueTypeOK, ListTypes
  <2>2. CASE Lookup(u) /\ stage[u] = "serving"
    <3>1. Contains(c, u)
      BY <2>2 DEF Kept
    <3> QED BY <1>2, <2>1, <2>2, <3>1, UpdateIs
  <2>3. CASE ~(Lookup(u) /\ stage[u] = "serving")
    <3>1. UNCHANGED listVars
      BY <1>2, <2>3
    <3>2. ListTypes' /\ Linked(c)' /\ Sorted(c)'
      BY <1>2, <2>1, <3>1, UnchangedListIs DEF ListTypes, listVars
    <3> QED BY <3>2
  <2> QED BY <2>2, <2>3
<1>5. RcvQueueTypeOK'
  BY <1>1, <1>2, <1>3, <1>4 DEF RcvQueueTypeOK, ListTypes
<1>6. Kept(d)'
  BY <1>1, <1>2, <1>3, <1>4, <1>5, RoundsKeep
<1> QED BY <1>4, <1>5, <1>6 DEF RcvQueueInv

\* The steps of the worker that change nothing but where it is.
LEMMA WorkerStepKeeps ==
  ASSUME RcvQueueInv, ReceiveNothing \/ TimerCheck \/ EndRound PROVE RcvQueueInv'
<1> PICK c \in Seq(Receivers) : Linked(c) /\ Sorted(c) /\ Kept(c)
  BY DEF RcvQueueInv
<1>1. RcvQueueTypeOK
  BY DEF RcvQueueInv
<1>2. UNCHANGED <<listVars, onList, bucket, newEntry, stage, rcvTime>> /\ rcvWorker.at \notin {"unlist", "unflag"}
  BY DEF ReceiveNothing, TimerCheck, EndRound
<1>3. /\ rcvWorker' \in [at : {"entries", "timers", "list", "unlist", "unflag"}, ctime : Int, out : Receivers \union {None}]
      /\ rcvWorker'.out = rcvWorker.out /\ rcvWorker'.at \notin {"unlist", "unflag"}
  <2>1. CASE ReceiveNothing
    BY <1>1, <2>1 DEF ReceiveNothing, At, RcvQueueTypeOK
  <2>2. CASE TimerCheck
    <3>1. rcvTime - Period \in Int
      BY <1>1, RcvQueueAssumption DEF RcvQueueTypeOK
    <3> QED BY <1>1, <2>2, <3>1 DEF TimerCheck, RcvQueueTypeOK
  <2>3. CASE EndRound
    BY <1>1, <2>3 DEF EndRound, At, RcvQueueTypeOK
  <2> QED BY <2>1, <2>2, <2>3
<1>4. RcvQueueTypeOK'
  BY <1>1, <1>2, <1>3 DEF RcvQueueTypeOK, listVars
<1>5. Kept(c)'
  BY <1>1, <1>2, <1>3, <1>4, RoundsKeep
<1> QED BY <1>2, <1>4, <1>5, UnchangedListIs DEF RcvQueueInv

\* The first of the list is on it.
LEMMA FirstIsListed ==
  ASSUME NEW c \in Seq(Receivers), Linked(c), firstOn # None PROVE firstOn \in Receivers /\ Contains(c, firstOn)
<1>1. 1 \in 1..Len(c) /\ firstOn = c[1]
  BY DEF Linked
<1> QED BY <1>1 DEF Contains

\* The worker looks at the first socket, and serves or drops it.
LEMMA CheckFirstKeeps == ASSUME RcvQueueInv, CheckFirst PROVE RcvQueueInv'
<1> PICK c \in Seq(Receivers) : Linked(c) /\ Sorted(c) /\ Kept(c)
  BY DEF RcvQueueInv
<1>1. RcvQueueTypeOK
  BY DEF RcvQueueInv
<1>2. /\ ListUpdate(firstOn) /\ firstOn # None /\ rcvWorker.at = "list"
      /\ UNCHANGED <<onList, bucket, newEntry, stage, rcvWorker, rcvTime>>
  BY DEF CheckFirst, IsDue
<1>3. PICK u \in Receivers : u = firstOn /\ Contains(c, u)
  BY <1>2, FirstIsListed
<1>4. PICK d \in Seq(Receivers) :
        ListTypes' /\ Linked(d)' /\ Sorted(d)' /\ \A v : Contains(d, v) <=> Contains(c, v)
  <2>1. ListTypes /\ ListUpdate(u) /\ rcvTime' = rcvTime
    BY <1>1, <1>2, <1>3 DEF RcvQueueTypeOK, ListTypes
  <2> QED BY <1>3, <2>1, UpdateIs
<1>5. RcvQueueTypeOK'
  BY <1>1, <1>2, <1>4 DEF RcvQueueTypeOK, ListTypes
<1>6. Kept(d)'
  BY <1>1, <1>2, <1>4, <1>5, RoundsKeep
<1> QED BY <1>4, <1>5, <1>6 DEF RcvQueueInv

\* A socket that is dropped leaves the table,
LEMMA UnhashKeeps == ASSUME RcvQueueInv, Unhash PROVE RcvQueueInv'
<1> PICK c \in Seq(Receivers) : Linked(c) /\ Sorted(c) /\ Kept(c)
  BY DEF RcvQueueInv
<1>1. RcvQueueTypeOK
  BY DEF RcvQueueInv
<1>2. /\ firstOn # None /\ rcvWorker.at = "list"
      /\ rcvWorker' = [rcvWorker EXCEPT !.at = "unlist", !.out = firstOn]
      /\ bucket' = [bucket EXCEPT ![Hash(firstOn)] = RemoveFirst(@, firstOn)]
      /\ UNCHANGED <<listVars, onList, newEntry, stage, rcvTime>>
  BY DEF Unhash, IsDue
<1>3. PICK u \in Receivers : u = firstOn /\ Contains(c, u)
  BY <1>2, FirstIsListed
<1>4. PICK h \in 0..(HashSize - 1) : h = Hash(u)
  BY HashIsIndex
<1>5. PICK t : t = RemoveFirst(bucket[h], u)
  OBVIOUS
<1>6. t \in Seq(Receivers) /\ Once(t) /\ \A v : Contains(t, v) <=> Contains(bucket[h], v) /\ v # u
  BY <1>1, <1>5, RemoveFirstIs DEF RcvQueueTypeOK
<1>7. bucket' = [bucket EXCEPT ![h] = t]
  BY <1>2, <1>3, <1>4, <1>5
<1>8. bucket' \in [0..(HashSize - 1) -> Seq(Receivers)] /\ \A b \in 0..(HashSize - 1) : bucket'[b] = IF b = h THEN t ELSE bucket[b]
  BY <1>1, <1>6, <1>7 DEF RcvQueueTypeOK
<1>9. ASSUME NEW v \in Receivers, Lookup(v)' PROVE Lookup(v) /\ v # u
  <2>1. Hash(v) \in 0..(HashSize - 1) /\ Contains(bucket'[Hash(v)], v)
    BY <1>9, HashIsIndex DEF Lookup, Contains, Hash
  <2>2. CASE Hash(v) = h
    BY <1>6, <1>8, <2>1, <2>2, LookupIs
  <2>3. CASE Hash(v) # h
    BY <1>4, <1>8, <2>1, <2>3, LookupIs
  <2> QED BY <2>2, <2>3
<1>10. rcvWorker' \in [at : {"entries", "timers", "list", "unlist", "unflag"}, ctime : Int, out : Receivers \union {None}]
       /\ rcvWorker'.at = "unlist" /\ rcvWorker'.out = u
  BY <1>1, <1>2, <1>3 DEF RcvQueueTypeOK
<1>11. \A b \in 0..(HashSize - 1) : Once(bucket'[b])
  BY <1>1, <1>6, <1>8 DEF RcvQueueTypeOK
<1>12. RcvQueueTypeOK'
  BY <1>1, <1>2, <1>8, <1>10, <1>11 DEF RcvQueueTypeOK, listVars
<1>13. Kept(c)'
  <2>1. ASSUME NEW v \in Receivers
        PROVE  /\ Contains(newEntry', v) => onList'[v] /\ stage'[v] # "new" /\ ~Contains(c, v) /\ rcvWorker'.out # v
               /\ Contains(c, v) => onList'[v] /\ stage'[v] # "new"
               /\ Lookup(v)' => Contains(c, v) /\ rcvWorker'.out # v
               /\ rcvWorker'.out = v => stage'[v] # "new"
    BY <1>2, <1>3, <1>9, <1>10 DEF Kept
  <2>2. u # None
    BY <1>2, <1>3
  <2> QED BY <1>2, <1>3, <1>10, <2>1, <2>2 DEF Kept
<1> QED BY <1>2, <1>12, <1>13, UnchangedListIs DEF RcvQueueInv

\* then the list,
LEMMA UnlistKeeps == ASSUME RcvQueueInv, Unlist PROVE RcvQueueInv'
<1> PICK c \in Seq(Receivers) : Linked(c) /\ Sorted(c) /\ Kept(c)
  BY DEF RcvQueueInv
<1>1. RcvQueueTypeOK
  BY DEF RcvQueueInv
<1>2. /\ IF onList[rcvWorker.out] THEN ListRemove(rcvWorker.out) ELSE UNCHANGED listVars
      /\ rcvWorker.at = "unlist" /\ rcvWorker' = [rcvWorker EXCEPT !.at = "unflag"]
      /\ UNCHANGED <<onList, bucket, newEntry, stage, rcvTime>>
  BY DEF Unlist, At
<1>3. PICK u \in Receivers : u = rcvWorker.out /\ u # None /\ Contains(c, u) /\ onList[u]
  BY <1>1, <1>2 DEF Kept, RcvQueueTypeOK
<1>4. PICK d \in Seq(Receivers) :
        ListTypes' /\ Linked(d)' /\ Sorted(d)' /\ \A v : Contains(d, v) <=> Contains(c, v) /\ v # u
  <2>1. ListTypes /\ ListRemove(u) /\ rcvTime' = rcvTime
    BY <1>1, <1>2, <1>3 DEF RcvQueueTypeOK, ListTypes
  <2> QED BY <1>3, <2>1, RemoveIs
<1>5. /\ rcvWorker' \in [at : {"entries", "timers", "list", "unlist", "unflag"}, ctime : Int, out : Receivers \union {None}]
      /\ rcvWorker'.out = u /\ rcvWorker'.at = "unflag"
  BY <1>1, <1>2, <1>3 DEF RcvQueueTypeOK
<1>6. RcvQueueTypeOK'
  BY <1>1, <1>2, <1>4, <1>5 DEF RcvQueueTypeOK, ListTypes
<1>7. Kept(d)'
  <2>1. \A v : Lookup(v)' <=> Lookup(v)
    BY <1>2 DEF Lookup, Hash
  <2>2. ASSUME NEW v \in Receivers
        PROVE  /\ Contains(newEntry', v) => onList'[v] /\ stage'[v] # "new" /\ ~Contains(d, v) /\ rcvWorker'.out # v
               /\ Contains(d, v) => onList'[v] /\ stage'[v] # "new"
               /\ Lookup(v)' => Contains(d, v) /\ rcvWorker'.out # v
               /\ rcvWorker'.out = v => stage'[v] # "new"
    BY <1>2, <1>3, <1>4, <1>5, <2>1 DEF Kept
  <2> QED BY <1>2, <1>3, <1>4, <1>5, <2>2 DEF Kept
<1> QED BY <1>4, <1>6, <1>7 DEF RcvQueueInv

\* and its flag is cleared last.
LEMMA UnflagKeeps == ASSUME RcvQueueInv, Unflag PROVE RcvQueueInv'
<1> PICK c \in Seq(Receivers) : Linked(c) /\ Sorted(c) /\ Kept(c)
  BY DEF RcvQueueInv
<1>1. RcvQueueTypeOK
  BY DEF RcvQueueInv
<1>2. /\ rcvWorker.at = "unflag" /\ onList' = [onList EXCEPT ![rcvWorker.out] = FALSE]
      /\ rcvWorker' = [rcvWorker EXCEPT !.at = "list", !.out = None]
      /\ UNCHANGED <<listVars, bucket, newEntry, stage, rcvTime>>
  BY DEF Unflag
<1>3. PICK u \in Receivers : u = rcvWorker.out /\ u # None /\ ~Contains(c, u)
  BY <1>1, <1>2 DEF Kept, RcvQueueTypeOK
<1>4. None \notin Receivers
  BY RcvQueueAssumption DEF None
<1>5. /\ rcvWorker' \in [at : {"entries", "timers", "list", "unlist", "unflag"}, ctime : Int, out : Receivers \union {None}]
      /\ rcvWorker'.out = None /\ rcvWorker'.at = "list"
  BY <1>1, <1>2 DEF RcvQueueTypeOK
<1>6. onList' \in [Receivers -> BOOLEAN] /\ \A v \in Receivers : onList'[v] = IF v = u THEN FALSE ELSE onList[v]
  BY <1>1, <1>2, <1>3 DEF RcvQueueTypeOK
<1>7. RcvQueueTypeOK'
  BY <1>1, <1>2, <1>5, <1>6 DEF RcvQueueTypeOK, listVars
<1>8. Kept(c)'
  <2>1. \A v : Lookup(v)' <=> Lookup(v)
    BY <1>2 DEF Lookup, Hash
  <2>2. ~Contains(newEntry, u)
    BY <1>3 DEF Kept
  <2>3. ASSUME NEW v \in Receivers
        PROVE  /\ Contains(newEntry', v) => onList'[v] /\ stage'[v] # "new" /\ ~Contains(c, v) /\ rcvWorker'.out # v
               /\ Contains(c, v) => onList'[v] /\ stage'[v] # "new"
               /\ Lookup(v)' => Contains(c, v) /\ rcvWorker'.out # v
               /\ rcvWorker'.out = v => stage'[v] # "new"
    BY <1>2, <1>3, <1>4, <1>5, <1>6, <2>1, <2>2 DEF Kept
  <2> QED BY <1>2, <1>5, <2>3 DEF Kept
<1> QED BY <1>2, <1>7, <1>8, UnchangedListIs DEF RcvQueueInv

\* Every step keeps the invariant.
LEMMA RcvQueueSteps == RcvQueueInv /\ [RcvQueueNext]_rcvQueueVars => RcvQueueInv'
<1> SUFFICES ASSUME RcvQueueInv, [RcvQueueNext]_rcvQueueVars PROVE RcvQueueInv'
  OBVIOUS
<1>1. CASE RcvQueueNext
  BY <1>1, StartServingKeeps, EndServingKeeps, ReceiveForKeeps, PassTimeKeeps, TakeNewEntryKeeps, WorkerStepKeeps,
     CheckFirstKeeps, UnhashKeeps, UnlistKeeps, UnflagKeeps DEF RcvQueueNext
<1>2. CASE UNCHANGED rcvQueueVars
  <2> PICK c \in Seq(Receivers) : Linked(c) /\ Sorted(c) /\ Kept(c)
    BY DEF RcvQueueInv
  <2>1. UNCHANGED <<listVars, onList, bucket, newEntry, stage, rcvWorker, rcvTime>>
    BY <1>2 DEF rcvQueueVars
  <2>2. RcvQueueTypeOK'
    BY <2>1 DEF RcvQueueInv, RcvQueueTypeOK, listVars
  <2>3. \A v : Lookup(v)' <=> Lookup(v)
    BY <2>1 DEF Lookup, Hash
  <2>4. Kept(c)'
    BY <2>1, <2>3 DEF Kept
  <2> QED BY <2>1, <2>2, <2>4, UnchangedListIs DEF RcvQueueInv
<1> QED BY <1>1, <1>2

\* The worker's list stays a chain in the order of the last visits, nobody in it is left out when
\* a round ends, and a socket that may be deleted is nowhere in it.
THEOREM EverySocketStaysVisited == RcvQueueSpec => []EverySocketIsVisited
<1>1. RcvQueueSpec => []RcvQueueInv
  BY RcvQueueStarts, RcvQueueSteps, PTL DEF RcvQueueSpec
<1> QED BY <1>1, RcvQueueImplies, PTL

-----------------------------------------------------------------------------
(***************************************************************************)
(* UdtPeerCache                                                            *)
(***************************************************************************)
\* The sequence is ordered by the values of f, the greatest first.
Descending(s, f) == \A i \in 1..Len(s) : \A j \in 1..Len(s) : i < j => f[s[i]] > f[s[j]]

\* The invariant: the items stand in the order of their last use, each once, and a bucket
\* holds the keys that are stored and belong to it.
CacheGood ==
  /\ storage \in Seq(CacheKeys) /\ Once(storage) /\ Descending(storage, latest)
  /\ buckets \in [0..(HashSlots - 1) -> Seq(CacheKeys)]
  /\ \A b \in 0..(HashSlots - 1) :
       Once(buckets[b]) /\ \A k : Contains(buckets[b], k) <=> Contains(storage, k) /\ Slot(k) = b
  /\ value \in [CacheKeys -> Nat] /\ latest \in [CacheKeys -> Nat] /\ updates \in Nat
  /\ \A k \in CacheKeys :
       /\ latest[k] <= updates
       /\ Contains(storage, k) => k >= 0 /\ value[k] = latest[k]
       /\ k >= 0 /\ ~Contains(storage, k) => \A l \in CacheKeys : Contains(storage, l) => latest[k] < latest[l]

CacheInv == damaged \in BOOLEAN /\ (damaged \/ CacheGood)

\* A key of zero or more has a bucket.
LEMMA SlotIsIndex ==
  ASSUME NEW k \in CacheKeys, k >= 0 PROVE HashSlots \in Nat \ {0} /\ Slot(k) = k % HashSlots /\ Slot(k) \in 0..(HashSlots - 1)
<1>1. HashSlots \in Nat \ {0} /\ CacheSize \in Nat /\ CacheSize <= HashSlots /\ k \in Nat
  BY CacheAssumption DEF HashSlots
<1>2. k % HashSlots \in 0..(HashSlots - 1)
  BY <1>1, RemainderIsSlot
<1>3. CASE k < CacheSize
  <2>1. k < HashSlots
    BY <1>1, <1>3
  <2>2. k % HashSlots = k
    BY ONLY <1>1, <2>1
  <2>3. Slot(k) = k
    BY <1>1, <1>3 DEF Slot
  <2> QED BY <1>1, <1>2, <2>2, <2>3
<1>4. CASE ~(k < CacheSize)
  <2>1. Slot(k) = k % HashSlots
    BY <1>1, <1>4 DEF Slot
  <2> QED BY <1>1, <1>2, <2>1
<1> QED BY <1>3, <1>4

\* The invariant implies the property.
LEMMA CacheImplies == ASSUME CacheInv PROVE CacheIsRight
<1> SUFFICES ASSUME ~damaged PROVE CacheIsRight
  BY DEF CacheIsRight, PointersHaveItems, OldestGoFirst
<1>1. CacheGood
  BY DEF CacheInv
<1>2. PointersHaveItems
  <2>1. ASSUME NEW b \in DOMAIN buckets, NEW i \in DOMAIN buckets[b]
        PROVE  Slot(buckets[b][i]) = b /\ Contains(storage, buckets[b][i])
    <3>1. b \in 0..(HashSlots - 1) /\ buckets[b] \in Seq(CacheKeys)
      BY <1>1 DEF CacheGood
    <3>2. Contains(buckets[b], buckets[b][i])
      BY <3>1 DEF Contains
    <3> QED BY <1>1, <3>1, <3>2 DEF CacheGood
  <2>2. ASSUME NEW i \in DOMAIN storage
        PROVE  \E j \in DOMAIN buckets[Slot(storage[i])] : \A l \in DOMAIN buckets[Slot(storage[i])] :
                 buckets[Slot(storage[i])][l] = storage[i] <=> l = j
    <3>1. PICK k \in CacheKeys : k = storage[i] /\ Contains(storage, k) /\ k >= 0
      BY <1>1 DEF CacheGood, Contains
    <3>2. PICK s \in Seq(CacheKeys) : s = buckets[Slot(k)] /\ Once(s) /\ Contains(s, k)
      BY <1>1, <3>1, SlotIsIndex DEF CacheGood
    <3>3. PICK j \in 1..Len(s) : s[j] = k
      BY <3>2 DEF Contains
    <3>4. DOMAIN s = 1..Len(s)
      OBVIOUS
    <3>5. \A l \in 1..Len(s) : s[l] = k <=> l = j
      BY <3>2, <3>3 DEF Once
    <3>6. \E x \in DOMAIN s : \A l \in DOMAIN s : s[l] = k <=> l = x
      BY <3>4, <3>5
    <3> QED BY ONLY <3>1, <3>2, <3>6, Zenon
  <2> QED BY <2>1, <2>2 DEF PointersHaveItems
<1>3. ASSUME NEW k \in CacheKeys
      PROVE  CacheLookup(k) = IF Contains(storage, k) THEN latest[k] ELSE -1
  <2>1. CASE k < 0
    <3>1. ~(k >= 0)
      BY <2>1, CacheAssumption
    <3>2. ~Contains(storage, k)
      BY <1>1, <3>1 DEF CacheGood
    <3> QED BY <2>1, <3>2 DEF CacheLookup
  <2>2. CASE ~(k < 0)
    <3>1. k >= 0
      BY <2>2, CacheAssumption
    <3>2. Contains(buckets[Slot(k)], k) <=> Contains(storage, k)
      BY <1>1, <3>1, SlotIsIndex DEF CacheGood
    <3> QED BY <1>1, <2>2, <3>2 DEF CacheLookup, CacheGood
  <2> QED BY <2>1, <2>2
<1>4. \A k \in CacheKeys : CacheLookup(k) # -1 <=> Contains(storage, k)
  <2>1. \A k \in CacheKeys : latest[k] # -1
    BY <1>1 DEF CacheGood
  <2> QED BY <1>3, <2>1
<1>5. OldestGoFirst
  BY <1>1, <1>3, <1>4 DEF OldestGoFirst, CacheGood
<1> QED BY <1>2, <1>5 DEF CacheIsRight

\* The cache is empty at first.
LEMMA CacheStarts == CacheInit => CacheInv
<1> SUFFICES ASSUME CacheInit PROVE CacheInv
  OBVIOUS
<1>1. \A v : ~Contains(<<>>, v)
  BY DEF Contains
<1>2. Once(<<>>) /\ Descending(<<>>, latest) /\ <<>> \in Seq(CacheKeys)
  BY DEF Once, Descending
<1>3. CacheGood
  BY <1>1, <1>2 DEF CacheInit, CacheGood
<1> QED BY <1>3 DEF CacheInit, CacheInv

-----------------------------------------------------------------------------
\* A sequence stays ordered when an element goes,
LEMMA DescendingWithout ==
  ASSUME NEW S, NEW s \in Seq(S), Once(s), NEW p \in 1..Len(s), NEW f, Descending(s, f)
  PROVE  Descending(Without(s, p), f)
<1>1. PICK n \in Nat : n = Len(s)
  OBVIOUS
<1>2. /\ Len(Without(s, p)) = n - 1
      /\ \A i \in 1..(n - 1) : Without(s, p)[i] = IF i < p THEN s[i] ELSE s[i + 1]
  <2>1. /\ Len(Without(s, p)) = Len(s) - 1
        /\ \A i \in 1..(Len(s) - 1) : Without(s, p)[i] = IF i < p THEN s[i] ELSE s[i + 1]
    BY WithoutIs
  <2> QED BY <1>1, <2>1
<1>3. ASSUME NEW i \in 1..(n - 1)
      PROVE  \E k \in 1..n : Without(s, p)[i] = s[k] /\ k = IF i < p THEN i ELSE i + 1
  <2>1. CASE i < p
    BY <1>1, <1>2, <2>1
  <2>2. CASE ~(i < p)
    <3>1. i + 1 \in 1..n
      OBVIOUS
    <3> QED BY <1>2, <2>2, <3>1
  <2> QED BY <2>1, <2>2
<1> SUFFICES ASSUME NEW i \in 1..(n - 1), NEW j \in 1..(n - 1), i < j
             PROVE  f[Without(s, p)[i]] > f[Without(s, p)[j]]
  BY <1>2 DEF Descending
<1>4. PICK k \in 1..n : Without(s, p)[i] = s[k] /\ k = IF i < p THEN i ELSE i + 1
  BY <1>3
<1>5. PICK l \in 1..n : Without(s, p)[j] = s[l] /\ l = IF j < p THEN j ELSE j + 1
  BY <1>3
<1>6. k < l
  BY <1>1, <1>4, <1>5
<1> QED BY <1>1, <1>4, <1>5, <1>6 DEF Descending

\* and when one that is greater than all is put in front.
LEMMA DescendingToFront ==
  ASSUME NEW s \in Seq(CacheKeys), NEW k \in CacheKeys, ~Contains(s, k), NEW f \in [CacheKeys -> Nat],
         NEW u \in Nat, \A l \in CacheKeys : f[l] <= u, Descending(s, f)
  PROVE  Descending(<<k>> \o s, [f EXCEPT ![k] = u + 1])
<1>1. PICK n \in Nat : n = Len(s)
  OBVIOUS
<1>2. PICK t \in Seq(CacheKeys) : t = <<k>> \o s /\ Len(t) = n + 1 /\ t[1] = k /\ \A i \in 1..n : t[i + 1] = s[i]
  <2>1. /\ <<k>> \o s \in Seq(CacheKeys) /\ Len(<<k>> \o s) = Len(s) + 1
        /\ (<<k>> \o s)[1] = k /\ \A i \in 1..Len(s) : (<<k>> \o s)[i + 1] = s[i]
    BY PrependIs
  <2> QED BY <1>1, <2>1
<1>3. PICK g : g = [f EXCEPT ![k] = u + 1]
  OBVIOUS
<1>4. g[k] = u + 1 /\ \A i \in 1..n : s[i] \in CacheKeys /\ g[s[i]] = f[s[i]]
  BY <1>1, <1>3 DEF Contains
<1>5. ASSUME NEW i \in 1..(n + 1), NEW j \in 1..(n + 1), i < j PROVE g[t[i]] > g[t[j]]
  <2>1. j - 1 \in 1..n /\ j - 1 + 1 = j
    BY <1>5
  <2>2. t[j] = s[j - 1] /\ g[t[j]] = f[s[j - 1]]
    BY <1>2, <1>4, <2>1
  <2>3. CASE i = 1
    <3>1. PICK x \in Nat : x = f[s[j - 1]] /\ x <= u
      BY <1>4, <2>1
    <3> QED BY <1>2, <1>4, <2>2, <2>3, <3>1
  <2>4. CASE i # 1
    <3>1. i - 1 \in 1..n /\ i - 1 + 1 = i /\ i - 1 < j - 1
      BY <1>5, <2>4
    <3>2. t[i] = s[i - 1] /\ g[t[i]] = f[s[i - 1]]
      BY <1>2, <1>4, <3>1
    <3> QED BY <1>1, <2>1, <2>2, <3>1, <3>2 DEF Descending
  <2> QED BY <2>3, <2>4
<1> QED BY <1>2, <1>3, <1>5 DEF Descending

\* What an update of k does to the history keeps the order of the others.
LEMMA UpdateIsRight ==
  ASSUME CacheGood, NEW k \in CacheKeys, k >= 0, updates' = updates + 1, latest' = [latest EXCEPT ![k] = updates'],
         value' = [value EXCEPT ![k] = updates'],
         NEW s \in Seq(CacheKeys), ~Contains(s, k), Once(s), Descending(s, latest),
         \A l \in CacheKeys : Contains(s, l) => Contains(storage, l),
         \A l \in CacheKeys : Contains(storage, l) /\ ~Contains(s, l) /\ l # k =>
                                \A m \in CacheKeys : Contains(s, m) => latest[l] < latest[m],
         storage' = <<k>> \o s
  PROVE  /\ storage' \in Seq(CacheKeys) /\ Once(storage') /\ Descending(storage', latest')
         /\ \A l : Contains(storage', l) <=> Contains(s, l) \/ l = k
         /\ value' \in [CacheKeys -> Nat] /\ latest' \in [CacheKeys -> Nat] /\ updates' \in Nat
         /\ \A l \in CacheKeys :
              /\ latest'[l] <= updates'
              /\ Contains(storage', l) => l >= 0 /\ value'[l] = latest'[l]
              /\ l >= 0 /\ ~Contains(storage', l) =>
                   \A m \in CacheKeys : Contains(storage', m) => latest'[l] < latest'[m]
<1>1. /\ updates \in Nat /\ latest \in [CacheKeys -> Nat] /\ value \in [CacheKeys -> Nat]
      /\ \A l \in CacheKeys : latest[l] <= updates
  BY DEF CacheGood
<1>2. /\ storage' \in Seq(CacheKeys) /\ Once(storage') /\ \A l : Contains(storage', l) <=> Contains(s, l) \/ l = k
  BY PrependIs
<1>3. Descending(storage', latest')
  BY <1>1, DescendingToFront
<1>4. updates' \in Nat /\ latest' \in [CacheKeys -> Nat] /\ value' \in [CacheKeys -> Nat]
  BY <1>1
<1>5. \A l \in CacheKeys : /\ latest'[l] = IF l = k THEN updates + 1 ELSE latest[l]
                           /\ value'[l] = IF l = k THEN updates + 1 ELSE value[l]
  BY <1>1
<1>6. ASSUME NEW l \in CacheKeys
      PROVE  /\ latest'[l] <= updates'
             /\ Contains(storage', l) => l >= 0 /\ value'[l] = latest'[l]
             /\ l >= 0 /\ ~Contains(storage', l) =>
                  \A m \in CacheKeys : Contains(storage', m) => latest'[l] < latest'[m]
  <2>0. PICK x \in Nat : x = latest[l] /\ x <= updates
    BY <1>1
  <2>1. latest'[l] <= updates'
    BY <1>1, <1>5, <2>0
  <2>2. Contains(storage', l) => l >= 0 /\ value'[l] = latest'[l]
    BY <1>2, <1>5 DEF CacheGood
  <2>3. ASSUME l >= 0, ~Contains(storage', l), NEW m \in CacheKeys, Contains(storage', m)
        PROVE  latest'[l] < latest'[m]
    <3>1. l # k /\ latest'[l] = x /\ ~Contains(s, l)
      BY <1>2, <1>5, <2>0, <2>3
    <3>2. CASE m = k
      BY <1>1, <1>5, <2>0, <3>1, <3>2
    <3>3. CASE m # k
      <4>1. Contains(s, m) /\ latest'[m] = latest[m]
        BY <1>2, <1>5, <2>3, <3>3
      <4>2. CASE Contains(storage, l)
        BY <2>0, <3>1, <4>1, <4>2
      <4>3. CASE ~Contains(storage, l)
        BY <2>0, <2>3, <3>1, <4>1, <4>3 DEF CacheGood
      <4> QED BY <4>2, <4>3
    <3> QED BY <3>2, <3>3
  <2> QED BY <2>1, <2>2, <2>3
<1> QED BY <1>2, <1>3, <1>4, <1>6

\* The buckets after the one of k has become t.
LEMMA BucketsAre ==
  ASSUME CacheGood, NEW k \in CacheKeys, k >= 0, NEW t \in Seq(CacheKeys), Once(t),
         buckets' = [buckets EXCEPT ![Slot(k)] = t],
         \A l \in CacheKeys : Contains(t, l) <=> Contains(storage', l) /\ Slot(l) = Slot(k),
         storage' \in Seq(CacheKeys),
         \A l \in CacheKeys : Slot(l) # Slot(k) => (Contains(storage', l) <=> Contains(storage, l))
  PROVE  /\ buckets' \in [0..(HashSlots - 1) -> Seq(CacheKeys)]
         /\ \A b \in 0..(HashSlots - 1) :
              Once(buckets'[b]) /\ \A l : Contains(buckets'[b], l) <=> Contains(storage', l) /\ Slot(l) = b
<1>1. Slot(k) \in 0..(HashSlots - 1)
  BY SlotIsIndex
<1>2. /\ buckets' \in [0..(HashSlots - 1) -> Seq(CacheKeys)]
      /\ \A b \in 0..(HashSlots - 1) : buckets'[b] = IF b = Slot(k) THEN t ELSE buckets[b]
  BY <1>1 DEF CacheGood
<1>3. \A s \in Seq(CacheKeys) : \A l : Contains(s, l) => l \in CacheKeys
  BY DEF Contains
<1>4. ASSUME NEW b \in 0..(HashSlots - 1)
      PROVE  Once(buckets'[b]) /\ \A l : Contains(buckets'[b], l) <=> Contains(storage', l) /\ Slot(l) = b
  <2>1. CASE b = Slot(k)
    BY <1>2, <1>3, <2>1
  <2>2. CASE b # Slot(k)
    <3>1. buckets'[b] = buckets[b] /\ Once(buckets[b])
      BY <1>2, <2>2 DEF CacheGood
    <3>2. \A l : Contains(buckets[b], l) <=> Contains(storage, l) /\ Slot(l) = b
      BY DEF CacheGood
    <3>3. storage \in Seq(CacheKeys)
      BY DEF CacheGood
    <3> QED BY <1>3, <2>2, <3>1, <3>2, <3>3
  <2> QED BY <2>1, <2>2
<1> QED BY <1>2, <1>4

\* An item that is there goes to the front.
LEMMA UpdateKnownKeeps ==
  ASSUME CacheGood, NEW k \in CacheKeys, UpdateKnown(k), updates' = updates + 1,
         latest' = [latest EXCEPT ![k] = updates'], value' = [value EXCEPT ![k] = updates']
  PROVE  CacheGood'
<1>1. k >= 0 /\ Contains(buckets[Slot(k)], k) /\ Slot(k) \in 0..(HashSlots - 1)
  BY SlotIsIndex DEF UpdateKnown
<1>2. Contains(storage, k)
  BY <1>1 DEF CacheGood
<1>3. PICK s \in Seq(CacheKeys) : s = RemoveFirst(storage, k) /\ Once(s) /\ (\A l : Contains(s, l) <=> Contains(storage, l) /\ l # k)
                                  /\ Descending(s, latest)
  <2>0. storage \in Seq(CacheKeys) /\ Once(storage) /\ Descending(storage, latest)
    BY DEF CacheGood
  <2>1. /\ RemoveFirst(storage, k) \in Seq(CacheKeys) /\ Once(RemoveFirst(storage, k))
        /\ \A l : Contains(RemoveFirst(storage, k), l) <=> Contains(storage, l) /\ l # k
        /\ \E p \in 1..Len(storage) : RemoveFirst(storage, k) = Without(storage, p)
    BY <1>2, <2>0, RemoveFirstIs
  <2>2. Descending(RemoveFirst(storage, k), latest)
    BY <2>0, <2>1, DescendingWithout
  <2> QED BY <2>1, <2>2
<1>4. storage' = <<k>> \o s
  BY <1>3 DEF UpdateKnown, ToFront
<1>5. /\ storage' \in Seq(CacheKeys) /\ Once(storage') /\ Descending(storage', latest')
      /\ \A l : Contains(storage', l) <=> Contains(s, l) \/ l = k
      /\ value' \in [CacheKeys -> Nat] /\ latest' \in [CacheKeys -> Nat] /\ updates' \in Nat
      /\ \A l \in CacheKeys :
           /\ latest'[l] <= updates'
           /\ Contains(storage', l) => l >= 0 /\ value'[l] = latest'[l]
           /\ l >= 0 /\ ~Contains(storage', l) =>
                \A m \in CacheKeys : Contains(storage', m) => latest'[l] < latest'[m]
  BY <1>1, <1>3, <1>4, UpdateIsRight
<1>6. PICK b \in Seq(CacheKeys) : b = buckets[Slot(k)] /\ Once(b) /\ \A l : Contains(b, l) <=> Contains(storage, l) /\ Slot(l) = Slot(k)
  BY <1>1 DEF CacheGood
<1>7. PICK t : t = <<k>> \o RemoveFirst(b, k)
  OBVIOUS
<1>8. t \in Seq(CacheKeys) /\ Once(t) /\ \A l : Contains(t, l) <=> Contains(b, l)
  <2>1. /\ RemoveFirst(b, k) \in Seq(CacheKeys) /\ Once(RemoveFirst(b, k))
        /\ \A l : Contains(RemoveFirst(b, k), l) <=> Contains(b, l) /\ l # k
    BY <1>6, RemoveFirstIs
  <2>2. PICK r \in Seq(CacheKeys) : r = RemoveFirst(b, k)
    BY <2>1
  <2>3. /\ t \in Seq(CacheKeys) /\ (\A l : Contains(t, l) <=> Contains(r, l) \/ l = k)
        /\ (Once(r) /\ ~Contains(r, k) => Once(t))
    BY <1>7, <2>2, PrependIs
  <2> QED BY <1>1, <1>6, <2>1, <2>2, <2>3
<1>9. buckets' = [buckets EXCEPT ![Slot(k)] = t]
  BY <1>1, <1>6, <1>7 DEF UpdateKnown, ToFront, CacheGood
<1>10. /\ buckets' \in [0..(HashSlots - 1) -> Seq(CacheKeys)]
       /\ \A x \in 0..(HashSlots - 1) :
            Once(buckets'[x]) /\ \A l : Contains(buckets'[x], l) <=> Contains(storage', l) /\ Slot(l) = x
  <2>1. \A l : Contains(storage', l) <=> Contains(storage, l)
    BY <1>2, <1>3, <1>5
  <2>2. \A l \in CacheKeys : Contains(t, l) <=> Contains(storage', l) /\ Slot(l) = Slot(k)
    BY <1>6, <1>8, <2>1
  <2> QED BY <1>1, <1>5, <1>8, <1>9, <2>1, <2>2, BucketsAre
<1>11. \A x : Slot(x)' = Slot(x)
  BY DEF Slot, HashSlots
<1> QED BY <1>5, <1>10, <1>11 DEF CacheGood, HashSlots

\* A new one comes to the front, and the oldest goes if there are too many.
LEMMA UpdateNewKeeps ==
  ASSUME CacheGood, NEW k \in CacheKeys, UpdateNew(k), updates' = updates + 1, ~damaged',
         latest' = [latest EXCEPT ![k] = updates'], value' = [value EXCEPT ![k] = updates']
  PROVE  CacheGood'
<1> DEFINE full  == Len(storage) + 1 >= CacheSize
           old   == Last(<<k>> \o storage)
           added == [buckets EXCEPT ![Slot(k)] = <<k>> \o @]
<1>1. /\ k >= 0 /\ ~Contains(buckets[Slot(k)], k) /\ Slot(k) \in 0..(HashSlots - 1)
      /\ storage' = IF full THEN Front(<<k>> \o storage) ELSE <<k>> \o storage
      /\ buckets' = IF full THEN [added EXCEPT ![Slot(k)] = RemoveFirst(added[old % HashSlots], old)] ELSE added
      /\ full => Slot(k) = old % HashSlots
  BY SlotIsIndex DEF UpdateNew, WithoutOldest
<1>2. storage \in Seq(CacheKeys) /\ Once(storage) /\ Descending(storage, latest) /\ ~Contains(storage, k)
  BY <1>1 DEF CacheGood
<1>3. PICK b \in Seq(CacheKeys) : b = buckets[Slot(k)] /\ Once(b) /\ \A l : Contains(b, l) <=> Contains(storage, l) /\ Slot(l) = Slot(k)
  BY <1>1 DEF CacheGood
<1>4. PICK t : t = <<k>> \o b
  OBVIOUS
<1>5. t \in Seq(CacheKeys) /\ Once(t) /\ \A l : Contains(t, l) <=> Contains(b, l) \/ l = k
  BY <1>1, <1>3, <1>4, PrependIs
<1>6. added = [buckets EXCEPT ![Slot(k)] = t] /\ added[Slot(k)] = t
  BY <1>1, <1>3, <1>4 DEF CacheGood
<1>7. PICK w : w = <<k>> \o storage
  OBVIOUS
<1>8. PICK n \in Nat : n = Len(storage)
  BY <1>2
<1>9. /\ w \in Seq(CacheKeys) /\ Once(w) /\ Len(w) = n + 1 /\ w[1] = k /\ (\A i \in 1..n : w[i + 1] = storage[i])
      /\ \A l : Contains(w, l) <=> Contains(storage, l) \/ l = k
  BY <1>2, <1>7, <1>8, PrependIs
<1> HIDE DEF full, old, added
<1>10. \A x : Slot(x)' = Slot(x)
  BY DEF Slot, HashSlots
<1>11. CASE ~full
  <2>1. storage' = <<k>> \o storage /\ buckets' = [buckets EXCEPT ![Slot(k)] = t]
    BY <1>1, <1>6, <1>11
  <2>2. /\ storage' \in Seq(CacheKeys) /\ Once(storage') /\ Descending(storage', latest')
        /\ \A l : Contains(storage', l) <=> Contains(storage, l) \/ l = k
        /\ value' \in [CacheKeys -> Nat] /\ latest' \in [CacheKeys -> Nat] /\ updates' \in Nat
        /\ \A l \in CacheKeys :
             /\ latest'[l] <= updates'
             /\ Contains(storage', l) => l >= 0 /\ value'[l] = latest'[l]
             /\ l >= 0 /\ ~Contains(storage', l) =>
                  \A m \in CacheKeys : Contains(storage', m) => latest'[l] < latest'[m]
    BY <1>1, <1>2, <2>1, UpdateIsRight
  <2>3. \A l \in CacheKeys : Contains(t, l) <=> Contains(storage', l) /\ Slot(l) = Slot(k)
    BY <1>3, <1>5, <2>2
  <2>4. \A l \in CacheKeys : Slot(l) # Slot(k) => (Contains(storage', l) <=> Contains(storage, l))
    BY <2>2
  <2>5. /\ buckets' \in [0..(HashSlots - 1) -> Seq(CacheKeys)]
        /\ \A x \in 0..(HashSlots - 1) :
             Once(buckets'[x]) /\ \A l : Contains(buckets'[x], l) <=> Contains(storage', l) /\ Slot(l) = x
    BY <1>1, <1>5, <2>1, <2>2, <2>3, <2>4, BucketsAre
  <2> QED BY <1>10, <2>2, <2>5 DEF CacheGood, HashSlots
<1>12. CASE full
  <2>1. n \in 1..n /\ n + 1 # 0
    BY <1>8, <1>12, CacheAssumption DEF full
  <2>2. old = w[n + 1] /\ Front(w) = Without(w, n + 1)
    BY <1>7, <1>9, <2>1, FrontIs DEF old
  <2>3. old = storage[n] /\ old \in CacheKeys /\ Contains(storage, old) /\ old # k
    BY <1>2, <1>8, <1>9, <2>1, <2>2 DEF Contains
  <2>4. Slot(old) = Slot(k)
    <3>1. old >= 0
      BY <2>3 DEF CacheGood
    <3> QED BY <1>1, <1>12, <2>3, <3>1, SlotIsIndex
  <2>5. PICK s : s = Without(storage, n)
    OBVIOUS
  <2>6. /\ s \in Seq(CacheKeys) /\ Once(s) /\ Len(s) = n - 1 /\ Descending(s, latest)
        /\ (\A i \in 1..(n - 1) : s[i] = storage[i])
        /\ \A l : Contains(s, l) <=> Contains(storage, l) /\ l # old
    <3>1. PICK m \in 1..Len(storage) : m = n
      BY <1>8, <2>1
    <3>2. /\ Without(storage, m) \in Seq(CacheKeys) /\ Len(Without(storage, m)) = Len(storage) - 1
          /\ \A i \in 1..(Len(storage) - 1) : Without(storage, m)[i] = IF i < m THEN storage[i] ELSE storage[i + 1]
          /\ \A l : Contains(Without(storage, m), l) <=> Contains(storage, l) /\ l # storage[m]
          /\ Once(Without(storage, m))
      BY <1>2, WithoutIs
    <3>3. Descending(Without(storage, m), latest)
      BY <1>2, DescendingWithout
    <3>4. \A i \in 1..(n - 1) : s[i] = storage[i]
      BY <1>8, <2>5, <3>1, <3>2
    <3> QED BY <1>8, <2>3, <2>5, <3>1, <3>2, <3>3, <3>4
  <2>7. Without(w, n + 1) = <<k>> \o s
    <3>1. /\ <<k>> \o s \in Seq(CacheKeys) /\ Len(<<k>> \o s) = Len(s) + 1
          /\ (<<k>> \o s)[1] = k /\ \A i \in 1..Len(s) : (<<k>> \o s)[i + 1] = s[i]
      BY <2>6, PrependIs
    <3>2. PICK m \in 1..Len(w) : m = n + 1
      BY <1>9, <2>1
    <3>3. /\ Without(w, m) \in Seq(CacheKeys) /\ Len(Without(w, m)) = Len(w) - 1
          /\ \A i \in 1..(Len(w) - 1) : Without(w, m)[i] = IF i < m THEN w[i] ELSE w[i + 1]
      <4>1. w \in Seq(CacheKeys) /\ Once(w)
        BY <1>9
      <4> QED BY <4>1, WithoutIs
    <3>4. PICK x \in Seq(CacheKeys) : x = Without(w, m) /\ Len(x) = n /\ \A i \in 1..n : x[i] = w[i]
      <4>1. Len(w) - 1 = n /\ \A i \in 1..n : i < m
        BY <1>9, <3>2
      <4> QED BY <3>3, <4>1
    <3>5. PICK y \in Seq(CacheKeys) : y = <<k>> \o s /\ Len(y) = n /\ y[1] = k /\ \A i \in 1..(n - 1) : y[i + 1] = s[i]
      <4>1. Len(s) + 1 = n
        BY <2>1, <2>6
      <4> QED BY <2>6, <3>1, <4>1
    <3>6. ASSUME NEW i \in 1..n PROVE x[i] = y[i]
      <4>1. CASE i = 1
        BY <1>9, <3>4, <3>5, <4>1
      <4>2. CASE i # 1
        <5>1. i - 1 \in 1..(n - 1) /\ i - 1 + 1 = i /\ i - 1 \in 1..n
          BY <4>2
        <5>2. y[i] = s[i - 1] /\ s[i - 1] = storage[i - 1] /\ w[i] = storage[i - 1]
          BY <1>9, <2>6, <3>5, <5>1
        <5> QED BY <3>4, <5>2
      <4> QED BY <4>1, <4>2
    <3>7. x = y
      BY <3>4, <3>5, <3>6, SeqEqual
    <3> QED BY <3>2, <3>4, <3>5, <3>7
  <2>8. storage' = <<k>> \o s
    BY <1>1, <1>7, <1>12, <2>2, <2>7
  <2>9. ASSUME NEW l \in CacheKeys, Contains(storage, l), ~Contains(s, l), NEW m \in CacheKeys, Contains(s, m)
        PROVE  latest[l] < latest[m]
    <3>1. l = old
      BY <2>6, <2>9
    <3>2. PICK i \in 1..(n - 1) : m = storage[i]
      BY <2>6, <2>9 DEF Contains
    <3>3. i \in 1..n /\ i < n
      OBVIOUS
    <3>4. latest[storage[i]] > latest[storage[n]]
      BY <1>2, <1>8, <2>1, <3>3 DEF Descending
    <3>5. PICK x \in Nat, y \in Nat : x = latest[storage[i]] /\ y = latest[storage[n]]
      BY <2>3, <2>9, <3>2 DEF CacheGood
    <3> QED BY <2>3, <3>1, <3>2, <3>4, <3>5
  <2>10. /\ storage' \in Seq(CacheKeys) /\ Once(storage') /\ Descending(storage', latest')
         /\ \A l : Contains(storage', l) <=> Contains(s, l) \/ l = k
         /\ value' \in [CacheKeys -> Nat] /\ latest' \in [CacheKeys -> Nat] /\ updates' \in Nat
         /\ \A l \in CacheKeys :
              /\ latest'[l] <= updates'
              /\ Contains(storage', l) => l >= 0 /\ value'[l] = latest'[l]
              /\ l >= 0 /\ ~Contains(storage', l) =>
                   \A m \in CacheKeys : Contains(storage', m) => latest'[l] < latest'[m]
    <3>1. \A l \in CacheKeys : Contains(s, l) => Contains(storage, l)
      BY <2>6
    <3>2. ~Contains(s, k)
      BY <1>2, <2>6
    <3> QED BY <1>1, <2>6, <2>8, <2>9, <3>1, <3>2, UpdateIsRight
  <2>11. PICK r : r = RemoveFirst(t, old)
    OBVIOUS
  <2>12. r \in Seq(CacheKeys) /\ Once(r) /\ \A l : Contains(r, l) <=> Contains(t, l) /\ l # old
    BY <1>5, <2>11, RemoveFirstIs
  <2>13. buckets' = [buckets EXCEPT ![Slot(k)] = r]
    <3>1. added[old % HashSlots] = t
      BY <1>1, <1>6, <1>12
    <3>2. buckets' = [added EXCEPT ![Slot(k)] = r]
      BY <1>1, <1>12, <2>11, <3>1
    <3> QED BY <1>1, <1>6, <3>2 DEF CacheGood
  <2>14. \A l \in CacheKeys : Contains(r, l) <=> Contains(storage', l) /\ Slot(l) = Slot(k)
    BY <1>3, <1>5, <2>3, <2>6, <2>10, <2>12
  <2>15. \A l \in CacheKeys : Slot(l) # Slot(k) => (Contains(storage', l) <=> Contains(storage, l))
    BY <2>4, <2>6, <2>10
  <2>16. /\ buckets' \in [0..(HashSlots - 1) -> Seq(CacheKeys)]
         /\ \A x \in 0..(HashSlots - 1) :
              Once(buckets'[x]) /\ \A l : Contains(buckets'[x], l) <=> Contains(storage', l) /\ Slot(l) = x
    BY <1>1, <2>10, <2>12, <2>13, <2>14, <2>15, BucketsAre
  <2> QED BY <1>10, <2>10, <2>16 DEF CacheGood, HashSlots
<1> QED BY <1>11, <1>12

\* An item with a negative key changes nothing that lookup sees.
LEMMA UpdateRefusedKeeps ==
  ASSUME CacheGood, NEW k \in CacheKeys, UpdateRefused(k), updates' = updates + 1, value' = value,
         latest' = [latest EXCEPT ![k] = updates']
  PROVE  CacheGood'
<1>1. k < 0 /\ UNCHANGED <<storage, buckets>> /\ updates \in Nat /\ updates' \in Nat
  BY DEF UpdateRefused, CacheGood
<1>2. ~(k >= 0) /\ ~Contains(storage, k)
  <2>1. ~(k >= 0)
    BY <1>1, CacheAssumption
  <2> QED BY <2>1 DEF CacheGood
<1>3. latest' \in [CacheKeys -> Nat] /\ \A l \in CacheKeys : latest'[l] = IF l = k THEN updates + 1 ELSE latest[l]
  BY <1>1 DEF CacheGood
<1>4. Descending(storage, latest')
  <2>1. \A i \in 1..Len(storage) : storage[i] \in CacheKeys /\ storage[i] # k
    BY <1>2 DEF CacheGood, Contains
  <2>2. \A i \in 1..Len(storage) : latest'[storage[i]] = latest[storage[i]]
    BY <1>3, <2>1
  <2> QED BY <2>2 DEF CacheGood, Descending
<1>5. ASSUME NEW l \in CacheKeys PROVE latest'[l] <= updates'
  <2>1. PICK x \in Nat : x = latest[l] /\ x <= updates
    BY DEF CacheGood
  <2> QED BY <1>1, <1>3, <2>1
<1>6. ASSUME NEW l \in CacheKeys
      PROVE  /\ Contains(storage, l) => l >= 0 /\ value[l] = latest'[l]
             /\ l >= 0 /\ ~Contains(storage, l) =>
                  \A m \in CacheKeys : Contains(storage, m) => latest'[l] < latest'[m]
  BY <1>2, <1>3 DEF CacheGood
<1>7. \A x : Slot(x)' = Slot(x)
  BY DEF Slot, HashSlots
<1> QED BY <1>1, <1>3, <1>4, <1>5, <1>6, <1>7 DEF CacheGood, HashSlots

\* Every step keeps the invariant.
LEMMA CacheSteps == CacheInv /\ [CacheNext]_cacheVars => CacheInv'
<1> SUFFICES ASSUME CacheInv, [CacheNext]_cacheVars PROVE CacheInv'
  OBVIOUS
<1>1. ASSUME NEW k \in CacheKeys, CacheUpdate(k) PROVE CacheInv'
  <2>1. CacheGood /\ ~damaged
    BY <1>1 DEF CacheUpdate, CacheInv
  <2>2. /\ updates' = updates + 1 /\ latest' = [latest EXCEPT ![k] = updates']
        /\ value' = IF k < 0 THEN value ELSE [value EXCEPT ![k] = updates']
    BY <1>1 DEF CacheUpdate
  <2>3. CASE UpdateKnown(k)
    <3>1. ~(k < 0) /\ damaged' = damaged
      BY <2>3, CacheAssumption DEF UpdateKnown
    <3> QED BY <2>1, <2>2, <2>3, <3>1, UpdateKnownKeeps DEF CacheInv
  <2>4. CASE UpdateNew(k)
    <3>1. ~(k < 0) /\ damaged' \in BOOLEAN
      BY <2>4, CacheAssumption DEF UpdateNew
    <3> QED BY <2>1, <2>2, <2>4, <3>1, UpdateNewKeeps DEF CacheInv
  <2>5. CASE UpdateRefused(k)
    <3>1. k < 0 /\ damaged' = damaged
      BY <2>5 DEF UpdateRefused
    <3> QED BY <2>1, <2>2, <2>5, <3>1, UpdateRefusedKeeps DEF CacheInv
  <2> QED BY <1>1, <2>3, <2>4, <2>5 DEF CacheUpdate
<1>2. CASE UNCHANGED cacheVars
  BY <1>2 DEF cacheVars, CacheInv, CacheGood, Slot, HashSlots
<1> QED BY <1>1, <1>2 DEF CacheNext

\* As long as no pointer has outlived its item, lookup finds the latest values of the peers
\* used last, and none of the others.
THEOREM LatestAreFound == CacheSpec => []CacheIsRight
<1>1. CacheSpec => []CacheInv
  BY CacheStarts, CacheSteps, PTL DEF CacheSpec
<1> QED BY <1>1, CacheImplies, PTL

-----------------------------------------------------------------------------
(***************************************************************************)
(* UdtSndQueue: ways through the heap                                      *)
(***************************************************************************)
\* f collects what is met from each place on, going on with nx until a place of E.
AreWays(f, D, E, nx) == f = [p \in D |-> {p} \union IF p \in E THEN {} ELSE f[nx[p]]]

\* There is such a function, whether or not the ways end.
LEMMA WaysExist ==
  ASSUME NEW D, NEW E, NEW nx \in [D -> D]
  PROVE  \E f : AreWays(f, D, E, nx)
<1> DEFINE Closed(S) == \A r \in S : r \notin E => nx[r] \in S
           f == [p \in D |-> {r \in D : \A S \in SUBSET D : p \in S /\ Closed(S) => r \in S}]
<1>0. f = [p \in D |-> f[p]]
  OBVIOUS
<1>1. \A q \in D : f[q] = {r \in D : \A S \in SUBSET D : q \in S /\ Closed(S) => r \in S}
  OBVIOUS
<1> HIDE DEF f
<1>2. \A q \in D : q \in f[q]
  BY <1>1
<1>3. \A q \in D : f[q] \in SUBSET D /\ Closed(f[q])
  BY <1>1
<1> SUFFICES ASSUME NEW p \in D
             PROVE  f[p] = {p} \union IF p \in E THEN {} ELSE f[nx[p]]
  <2> DEFINE g == [p \in D |-> {p} \union IF p \in E THEN {} ELSE f[nx[p]]]
  <2>1. ASSUME \A p \in D : f[p] = {p} \union IF p \in E THEN {} ELSE f[nx[p]] PROVE f = g
    <3>1. [p \in D |-> f[p]] = g
      BY <2>1
    <3> QED BY <1>0, <3>1
  <2> QED BY <2>1 DEF AreWays
<1>4. CASE p \in E
  <2>1. {p} \in SUBSET D /\ Closed({p})
    BY <1>4
  <2>2. f[p] \subseteq {p}
    BY <1>1, <2>1, ZenonT(60)
  <2> QED BY <1>2, <1>4, <2>2
<1>5. CASE p \notin E
  <2>0. nx[p] \in D
    OBVIOUS
  <2>1. PICK T : T = {p} \union f[nx[p]]
    OBVIOUS
  <2>2. T \in SUBSET D /\ p \in T
    BY <1>3, <2>0, <2>1
  <2>3. Closed(T)
    <3> SUFFICES ASSUME NEW r \in T, r \notin E PROVE nx[r] \in T
      OBVIOUS
    <3>1. CASE r = p
      BY <1>2, <2>0, <2>1, <3>1
    <3>2. CASE r \in f[nx[p]]
      BY <1>3, <2>0, <2>1, <3>2
    <3> QED BY <2>1, <3>1, <3>2
  <2>4. f[p] \subseteq T
    BY <1>1, <2>2, <2>3
  <2>5. ASSUME NEW r \in f[nx[p]] PROVE r \in f[p]
    <3>1. r \in D
      BY <1>3, <2>0
    <3> SUFFICES ASSUME NEW S \in SUBSET D, p \in S, Closed(S) PROVE r \in S
      BY <1>1, <3>1
    <3>2. nx[p] \in S
      BY <1>5
    <3> QED BY <1>1, <2>0, <2>5, <3>2
  <2> QED BY <1>2, <1>5, <2>1, <2>4, <2>5
<1> QED BY <1>4, <1>5

\* Positions from last up to the root.
IsUp(P, last) ==
  /\ P \subseteq 1..last /\ last \in P
  /\ \A p \in P : p # 1 => Above(p) \in P
  /\ \A p \in P, r \in P : r < p => r <= Above(p)

\* What is above a position.
LEMMA AboveIs ==
  ASSUME NEW p \in Nat \ {0, 1}
  PROVE  Above(p) \in 1..(p - 1) /\ (p = 2 * Above(p) \/ p = 2 * Above(p) + 1)
BY DEF Above

\* Ancestors satisfies its definition.
LEMMA AncestorsAre ==
  ASSUME NEW p \in 1..(Cardinality(Senders) + 1)
  PROVE  Ancestors[p] = IF p = 1 THEN {1} ELSE {p} \union Ancestors[Above(p)]
<1> DEFINE D == 1..(Cardinality(Senders) + 1)
           IsIt(f) == f = [q \in D |-> IF q = 1 THEN {1} ELSE {q} \union f[Above(q)]]
           nx == [q \in D |-> IF q = 1 THEN 1 ELSE Above(q)]
<1>1. nx \in [D -> D]
  <2> SUFFICES ASSUME NEW q \in D, q # 1 PROVE Above(q) \in D
    BY SndQueueAssumption
  <2>1. q \in Nat \ {0, 1} /\ q <= Cardinality(Senders) + 1
    BY SndQueueAssumption
  <2> QED BY <2>1, AboveIs, SndQueueAssumption
<1>2. PICK f : AreWays(f, D, {1}, nx)
  <2> HIDE DEF D, nx
  <2> QED BY <1>1, WaysExist
<1>3. IsIt(f)
  <2>1. \A q \in D : f[q] = {q} \union IF q \in {1} THEN {} ELSE f[nx[q]]
    BY <1>2 DEF AreWays
  <2>2. ASSUME NEW q \in D PROVE f[q] = IF q = 1 THEN {1} ELSE {q} \union f[Above(q)]
    <3>1. CASE q = 1
      BY <2>1, <3>1
    <3>2. CASE q # 1
      <4>1. nx[q] = Above(q) /\ q \notin {1}
        BY <3>2
      <4>2. f[q] = {q} \union f[nx[q]]
        BY <2>1, <4>1
      <4>3. f[q] = {q} \union f[Above(q)]
        BY <4>1, <4>2, Zenon
      <4> QED BY <3>2, <4>3
    <3> QED BY <3>1, <3>2
  <2>3. f = [q \in D |-> f[q]]
    BY <1>2 DEF AreWays
  <2>4. [q \in D |-> f[q]] = [q \in D |-> IF q = 1 THEN {1} ELSE {q} \union f[Above(q)]]
    BY <2>2
  <2> QED BY <2>3, <2>4
<1>4. IsIt(CHOOSE g : IsIt(g))
  <2> HIDE DEF IsIt
  <2> QED BY <1>3
<1>5. Ancestors = CHOOSE g : IsIt(g)
  BY DEF Ancestors
<1>6. IsIt(Ancestors)
  <2> HIDE DEF IsIt
  <2> QED BY <1>4, <1>5
<1> QED BY <1>6

\* The way to the root.
LEMMA AncestorsAreUp ==
  ASSUME NEW last \in 1..(Cardinality(Senders) + 1)
  PROVE  IsUp(Ancestors[last], last)
<1> DEFINE D == 1..(Cardinality(Senders) + 1)
           bad == {p \in D : ~IsUp(Ancestors[p], p)}
<1>0. D \subseteq Nat /\ \A p \in D : p \in Nat \ {0}
  BY SndQueueAssumption
<1> SUFFICES ASSUME bad # {} PROVE FALSE
  OBVIOUS
<1>1. PICK p \in bad : \A r \in bad : p <= r
  BY <1>0, LeastNatural
<1>2. CASE p = 1
  <2>1. p \in 1..(Cardinality(Senders) + 1)
    BY <1>1
  <2>2. Ancestors[p] = {1}
    BY <1>2, <2>1, AncestorsAre
  <2>3. IsUp({1}, 1)
    BY DEF IsUp
  <2> QED BY <1>1, <1>2, <2>2, <2>3
<1>3. CASE p # 1
  <2>1. PICK a : a = Above(p)
    OBVIOUS
  <2>0. p \in D /\ p \in Nat \ {0, 1}
    BY <1>0, <1>1, <1>3
  <2>2. a \in 1..(p - 1) /\ (p = 2 * a \/ p = 2 * a + 1)
    BY <2>0, <2>1, AboveIs
  <2>3. a \in 1..(p - 1) /\ a \in D /\ p \in D /\ (p = 2 * a \/ p = 2 * a + 1)
    BY <2>0, <2>2, SndQueueAssumption
  <2>4. PICK A : A = Ancestors[a]
    OBVIOUS
  <2>5. Ancestors[p] = {p} \union A
    BY <1>3, <2>1, <2>3, <2>4, AncestorsAre
  <2>6. IsUp(A, a)
    BY <1>0, <1>1, <2>3, <2>4
  <2>7. IsUp({p} \union A, p)
    <3>1. {p} \union A \subseteq 1..p
      BY <1>0, <2>3, <2>6 DEF IsUp
    <3>2. ASSUME NEW q \in {p} \union A, q # 1 PROVE Above(q) \in {p} \union A
      BY <2>1, <2>6, <3>2 DEF IsUp
    <3>3. ASSUME NEW q \in {p} \union A, NEW r \in {p} \union A, r < q PROVE r <= Above(q)
      <4>1. CASE q = p
        <5>1. r # p
          BY <1>0, <2>3, <3>3, <4>1
        <5>2. r \in 1..a
          BY <2>6, <5>1 DEF IsUp
        <5> QED BY <2>1, <4>1, <5>2
      <4>2. CASE q # p
        <5>1. q \in A /\ q \in 1..a
          BY <2>6, <4>2 DEF IsUp
        <5>2. r # p
          BY <1>0, <2>3, <3>3, <5>1
        <5> QED BY <2>6, <3>3, <5>1, <5>2 DEF IsUp
      <4> QED BY <4>1, <4>2
    <3> QED BY <3>1, <3>2, <3>3 DEF IsUp
  <2> QED BY <1>1, <2>5, <2>7
<1> QED BY <1>2, <1>3

\* The child that remove_ compares with.
DueFirst(l, p) ==
  IF 2 * p < Len(l.heap) /\ l.stamp[l.heap[2 * p]] > l.stamp[l.heap[2 * p + 1]]
  THEN 2 * p + 1 ELSE 2 * p

\* The child that is due first is in the heap, and below its parent.
LEMMA DueFirstIs ==
  ASSUME NEW l, Len(l.heap) \in Nat, NEW p \in Nat \ {0}, 2 * p <= Len(l.heap)
  PROVE  /\ DueFirst(l, p) \in {2 * p, 2 * p + 1} /\ DueFirst(l, p) \in (p + 1)..Len(l.heap)
         /\ Above(DueFirst(l, p)) = p
<1>1. PICK n \in Nat : n = Len(l.heap)
  OBVIOUS
<1>2. DueFirst(l, p) \in {2 * p, 2 * p + 1} /\ (DueFirst(l, p) = 2 * p + 1 => 2 * p < n)
  BY <1>1 DEF DueFirst
<1>3. PICK c : c = DueFirst(l, p)
  OBVIOUS
<1> QED BY <1>1, <1>2, <1>3 DEF Above

\* Descent satisfies its definition.
LEMMA DescentIs ==
  ASSUME NEW l, Len(l.heap) \in Nat, NEW p \in 1..(Len(l.heap) + 1)
  PROVE  Descent(l, p) = {p} \union IF 2 * p > Len(l.heap) THEN {} ELSE Descent(l, DueFirst(l, p))
<1>0. PICK n \in Nat : n = Len(l.heap)
  OBVIOUS
<1> DEFINE D == 1..(n + 1)
           IsIt(f) == f = [q \in D |-> {q} \union IF 2 * q > n THEN {} ELSE f[DueFirst(l, q)]]
           nx == [q \in D |-> IF 2 * q > n THEN q ELSE DueFirst(l, q)]
           E  == {q \in D : 2 * q > n}
<1>1. nx \in [D -> D]
  <2> SUFFICES ASSUME NEW q \in D, ~(2 * q > n) PROVE DueFirst(l, q) \in D
    OBVIOUS
  <2>1. q \in Nat \ {0} /\ 2 * q <= n
    OBVIOUS
  <2>2. DueFirst(l, q) \in (q + 1)..n
    BY <1>0, <2>1, DueFirstIs
  <2> QED BY <2>1, <2>2
<1>2. PICK f : AreWays(f, D, E, nx)
  <2> HIDE DEF D, nx, E
  <2> QED BY <1>1, WaysExist
<1>3. IsIt(f)
  <2>1. \A q \in D : f[q] = {q} \union IF q \in E THEN {} ELSE f[nx[q]]
    BY <1>2 DEF AreWays
  <2>2. ASSUME NEW q \in D PROVE f[q] = {q} \union IF 2 * q > n THEN {} ELSE f[DueFirst(l, q)]
    <3>1. CASE 2 * q > n
      <4>1. q \in E
        BY <3>1
      <4> QED BY <2>1, <3>1, <4>1
    <3>2. CASE ~(2 * q > n)
      <4>1. nx[q] = DueFirst(l, q) /\ q \notin E
        BY <3>2
      <4>2. f[q] = {q} \union f[nx[q]]
        BY <2>1, <4>1
      <4>3. f[q] = {q} \union f[DueFirst(l, q)]
        BY <4>1, <4>2, Zenon
      <4> QED BY <3>2, <4>3
    <3> QED BY <3>1, <3>2
  <2>3. f = [q \in D |-> f[q]]
    BY <1>2 DEF AreWays
  <2>4. [q \in D |-> f[q]] = [q \in D |-> {q} \union IF 2 * q > n THEN {} ELSE f[DueFirst(l, q)]]
    BY <2>2
  <2> QED BY <2>3, <2>4
<1>4. PICK g : g = CHOOSE h : IsIt(h)
  OBVIOUS
<1>5. IsIt(g)
  <2> HIDE DEF IsIt
  <2> QED BY <1>3, <1>4
<1>6. \A q : Descent(l, q) = g[q]
  BY <1>0, <1>4 DEF Descent, DueFirst
<1>7. g[p] = {p} \union IF 2 * p > n THEN {} ELSE g[DueFirst(l, p)]
  BY <1>0, <1>5
<1> QED BY <1>0, <1>6, <1>7

\* P is a way in the heap: from a on, and no two of its places are beside each other.
OnWay(P, a) ==
  /\ P \subseteq Nat \ {0} /\ a \in P
  /\ \A p \in P : p = a \/ (a < p /\ Above(p) \in P)
  /\ \A p \in P, r \in P : r < p => r <= Above(p)

\* c is the one place of P below r.
IsNext(P, r, c) == Above(c) = r /\ r < c /\ \A d \in P : Above(d) = r => d = c

\* Before a place z of a way, each has exactly one below it, which is not after z.
LEMMA NextOnWay ==
  ASSUME NEW P, NEW a, OnWay(P, a), NEW r \in P, NEW z \in P, r < z
  PROVE  \E c \in P : IsNext(P, r, c) /\ c <= z
<1> DEFINE later == {c \in P : r < c}
<1>0. P \in SUBSET (Nat \ {0})
  BY DEF OnWay
<1>1. PICK c \in later : \A d \in later : c <= d
  <2>1. later \in SUBSET Nat /\ z \in later
    BY <1>0
  <2> HIDE DEF later
  <2> QED BY <2>1, LeastNatural
<1>2. c \in P /\ c \in Nat \ {0, 1} /\ r < c /\ c <= z /\ r \in Nat \ {0}
  BY <1>0, <1>1
<1>3. Above(c) \in 1..(c - 1)
  BY <1>2, AboveIs
<1>4. Above(c) \in P /\ r <= Above(c)
  BY <1>0, <1>2 DEF OnWay
<1>5. Above(c) = r
  <2>1. ~(r < Above(c))
    BY <1>0, <1>1, <1>2, <1>3, <1>4
  <2> QED BY <1>2, <1>3, <1>4, <2>1
<1>6. ASSUME NEW d \in P, Above(d) = r PROVE d = c
  <2>1. d \in Nat \ {0} /\ (c < d => c <= Above(d)) /\ (d < c => d <= Above(c))
    BY <1>0, <1>2 DEF OnWay
  <2>2. d # 1
    BY <1>2, <1>6 DEF Above
  <2>3. Above(d) \in 1..(d - 1)
    BY <2>1, <2>2, AboveIs
  <2> QED BY <1>2, <1>5, <1>6, <2>1, <2>3
<1> QED BY <1>2, <1>5, <1>6 DEF IsNext

\* Positions up to the root are on a way.
LEMMA UpIsWay ==
  ASSUME NEW last \in Nat \ {0}, NEW P, IsUp(P, last)
  PROVE  OnWay(P, 1)
<1>0. P \in SUBSET (Nat \ {0}) /\ P # {} /\ P \in SUBSET Nat
  BY DEF IsUp
<1>1. 1 \in P
  <2>1. PICK m \in P : \A k \in P : m <= k
    BY <1>0, LeastNatural
  <2>2. ASSUME m # 1 PROVE FALSE
    <3>1. m \in Nat \ {0, 1} /\ Above(m) \in P
      BY <1>0, <2>2 DEF IsUp
    <3>2. Above(m) \in 1..(m - 1) /\ m <= Above(m)
      BY <2>1, <3>1, AboveIs
    <3> QED BY <3>1, <3>2
  <2> QED BY <2>1, <2>2
<1>2. \A p \in P : p = 1 \/ (1 < p /\ Above(p) \in P)
  BY <1>0 DEF IsUp
<1> QED BY <1>0, <1>1, <1>2 DEF IsUp, OnWay

\* W is the way down from q, always to the child that is due first.
IsDown(W, l, q) ==
  /\ OnWay(W, q) /\ W \subseteq q..Len(l.heap)
  /\ \A r \in W : 2 * r <= Len(l.heap) => DueFirst(l, r) \in W
  /\ \A p \in W : p # q => DueFirst(l, Above(p)) = p

\* One place is the way down from a leaf.
LEMMA DownFromLeaf ==
  ASSUME NEW l, Len(l.heap) \in Nat, NEW q \in 1..Len(l.heap), 2 * q > Len(l.heap)
  PROVE  IsDown({q}, l, q)
<1>1. q \in Nat \ {0} /\ q..Len(l.heap) = {x \in Nat : q <= x /\ x <= Len(l.heap)}
  OBVIOUS
<1>2. OnWay({q}, q)
  BY <1>1 DEF OnWay
<1> QED BY <1>1, <1>2 DEF IsDown

\* A place above the beginning of a way down extends it.
LEMMA DownFromAbove ==
  ASSUME NEW l, Len(l.heap) \in Nat, NEW q \in 1..Len(l.heap), 2 * q <= Len(l.heap),
         NEW V, IsDown(V, l, DueFirst(l, q))
  PROVE  IsDown({q} \union V, l, q)
<1>1. PICK c : c = DueFirst(l, q)
  OBVIOUS
<1>2. PICK n \in Nat : n = Len(l.heap)
  OBVIOUS
<1>3. q \in Nat \ {0} /\ 2 * q <= n /\ q \in 1..n
  BY <1>2
<1>4. c \in (q + 1)..n /\ Above(c) = q /\ (c = 2 * q \/ c = 2 * q + 1)
  BY <1>1, <1>2, <1>3, DueFirstIs
<1>5. /\ V \subseteq c..n /\ c \in V
      /\ \A p \in V : p = c \/ (c < p /\ Above(p) \in V)
      /\ \A p \in V, r \in V : r < p => r <= Above(p)
      /\ \A r \in V : 2 * r <= n => DueFirst(l, r) \in V
      /\ \A p \in V : p # c => DueFirst(l, Above(p)) = p
  BY <1>1, <1>2 DEF IsDown, OnWay
<1>6. PICK W : W = {q} \union V
  OBVIOUS
<1>7. W \subseteq q..n /\ q \in W /\ \A p \in W : p # q => p \in V /\ p \in c..n /\ q < p
  BY <1>3, <1>4, <1>5, <1>6
<1>8. \A p \in W : p = q \/ (q < p /\ Above(p) \in W)
  BY <1>4, <1>5, <1>6, <1>7
<1>9. ASSUME NEW p \in W, NEW r \in W, r < p PROVE r <= Above(p)
  <2>1. p \in V /\ p \in c..n
    <3>1. r \in q..n
      BY <1>7
    <3>2. p # q
      BY <1>3, <1>9, <3>1
    <3> QED BY <1>7, <3>2
  <2>2. CASE r = q
    <3>1. p \in Nat \ {0, 1} /\ c \in Nat \ {0, 1} /\ c <= p
      BY <1>3, <1>4, <2>1
    <3>2. Above(c) <= Above(p)
      BY <3>1 DEF Above
    <3> QED BY <1>4, <2>2, <3>2
  <2>3. CASE r # q
    <3>1. r \in V
      BY <1>7, <2>3
    <3> QED BY <1>5, <1>9, <2>1, <3>1
  <2> QED BY <2>2, <2>3
<1>10. \A r \in W : 2 * r <= n => DueFirst(l, r) \in W
  BY <1>1, <1>5, <1>6
<1>11. \A p \in W : p # q => DueFirst(l, Above(p)) = p
  BY <1>1, <1>4, <1>5, <1>7
<1>12. OnWay(W, q)
  <2>1. W \subseteq Nat \ {0}
    BY <1>3, <1>7
  <2> QED BY <1>7, <1>8, <1>9, <2>1 DEF OnWay
<1> QED BY <1>2, <1>6, <1>7, <1>10, <1>11, <1>12 DEF IsDown

\* The way down.
LEMMA DescentIsDown ==
  ASSUME NEW l, Len(l.heap) \in Nat, NEW q \in 1..Len(l.heap)
  PROVE  IsDown(Descent(l, q), l, q)
<1>0. PICK n \in Nat : n = Len(l.heap)
  OBVIOUS
<1> DEFINE bad == {k \in 0..n : n - k >= 1 /\ ~IsDown(Descent(l, n - k), l, n - k)}
<1>1. SUFFICES bad = {}
  <2>1. n - q \in 0..n /\ n - (n - q) = q /\ q >= 1
    BY <1>0
  <2> QED BY <2>1
<1>2. SUFFICES ASSUME bad # {} PROVE FALSE
  OBVIOUS
<1>3. PICK k \in bad : \A j \in bad : k <= j
  <2>1. bad \in SUBSET Nat
    OBVIOUS
  <2> HIDE DEF bad
  <2> QED BY <1>2, <2>1, LeastNatural
<1>4. PICK p : p = n - k
  OBVIOUS
<1>5. p \in 1..n /\ ~IsDown(Descent(l, p), l, p) /\ k \in Nat
  BY <1>3, <1>4
<1>6. CASE 2 * p > n
  <2>1. Descent(l, p) = {p}
    BY <1>0, <1>5, <1>6, DescentIs
  <2> QED BY <1>0, <1>5, <1>6, <2>1, DownFromLeaf
<1>7. CASE ~(2 * p > n)
  <2>1. PICK c : c = DueFirst(l, p)
    OBVIOUS
  <2>2. Descent(l, p) = {p} \union Descent(l, c)
    BY <1>0, <1>5, <1>7, <2>1, DescentIs
  <2>3. c \in (p + 1)..n
    BY <1>0, <1>5, <1>7, <2>1, DueFirstIs
  <2>4. IsDown(Descent(l, c), l, c)
    <3>1. n - c \in 0..n /\ n - (n - c) = c /\ c >= 1 /\ ~(k <= n - c)
      BY <1>4, <1>5, <2>3
    <3> QED BY <1>3, <3>1
  <2> QED BY <1>0, <1>5, <1>7, <2>1, <2>2, <2>4, DownFromAbove
<1> QED BY <1>6, <1>7

-----------------------------------------------------------------------------
(***************************************************************************)
(* UdtSndQueue: what insert_ leaves                                        *)
(***************************************************************************)
\* The record l is a heap that knows its places.
IsList(l) ==
  /\ l.heap \in Seq(Senders) /\ l.loc \in [Senders -> Nat] /\ l.stamp \in [Senders -> Nat \ {0}]
  /\ \A v \in Senders : l.loc[v] \in 0..Len(l.heap)
  /\ \A v \in Senders, p \in 1..Len(l.heap) : l.heap[p] = v <=> l.loc[v] = p

\* When the socket at a position is due.
Due(l, p) == l.stamp[l.heap[p]]

\* No socket stands below one that is due later.
InOrder(l) == \A p \in 2..Len(l.heap) : Due(l, Above(p)) <= Due(l, p)

\* A heap has no more entries than there are sockets.
LEMMA HeapIsBounded ==
  ASSUME NEW l, IsList(l)
  PROVE  /\ Len(l.heap) \in Nat /\ Len(l.heap) <= Cardinality(Senders)
         /\ \A p \in 1..Len(l.heap) : l.heap[p] \in Senders /\ l.loc[l.heap[p]] = p /\ Due(l, p) \in Nat \ {0}
<1>1. PICK h : h = l.heap
  OBVIOUS
<1>2. PICK n : n = Len(h)
  OBVIOUS
<1>3. /\ n \in Nat /\ h \in [1..n -> Senders] /\ \A p \in 1..n : h[p] \in Senders
  BY <1>1, <1>2 DEF IsList
<1>4. \A p \in 1..n : l.loc[h[p]] = p
  BY <1>1, <1>2, <1>3 DEF IsList
<1>5. h \in Injection(1..n, Senders)
  BY <1>3, <1>4 DEF Injection, IsInjective
<1>6. IsFiniteSet(1..n) /\ Cardinality(1..n) = n
  <2>1. IsFiniteSet(1..n) /\ Cardinality(1..n) = IF 1 > n THEN 0 ELSE n - 1 + 1
    BY <1>3, FS_Interval
  <2> QED BY <1>3, <2>1
<1>7. IsFiniteSet(Senders)
  <2>1. PICK c \in Nat : c = Cardinality(Senders) /\ Senders = 1..c
    BY SndQueueAssumption
  <2> QED BY <2>1, FS_Interval
<1>8. n <= Cardinality(Senders)
  BY <1>5, <1>6, <1>7, FS_Injection
<1> QED BY <1>1, <1>2, <1>3, <1>4, <1>8 DEF IsList, Due

\* u was put in at top of the way P from the new last position to the root.
Inserts(e, l, u, ts, P, top) ==
  LET last == Len(l.heap) + 1 IN
  /\ OnWay(P, 1) /\ P \subseteq 1..last /\ last \in P /\ top \in P
  /\ \A r \in P : top <= r /\ r < last => Due(l, r) > ts
  /\ top # 1 => Due(l, Above(top)) <= ts
  /\ e.heap = [p \in 1..last |-> IF p = top THEN u
                                 ELSE IF p \in P /\ p > top THEN l.heap[Above(p)] ELSE l.heap[p]]
  /\ e.loc \in [Senders -> Nat]
  /\ \A v \in Senders :
       e.loc[v] = IF v = u THEN top
                  ELSE IF l.loc[v] \in P /\ l.loc[v] >= top
                       THEN CHOOSE r \in P : r > l.loc[v] /\ Above(r) = l.loc[v] ELSE l.loc[v]
  /\ e.stamp = [l.stamp EXCEPT ![u] = ts]

\* insert_ does that.
LEMMA InsertedIs ==
  ASSUME NEW l, IsList(l), NEW u \in Senders, l.loc[u] = 0, NEW ts \in Nat \ {0}
  PROVE  \E P, top : Inserts(Inserted(l, u, ts), l, u, ts, P, top)
<1>1. PICK n \in Nat : n = Len(l.heap) /\ n <= Cardinality(Senders)
  BY HeapIsBounded
<1>2. PICK last \in Nat \ {0} : last = n + 1 /\ last = Len(l.heap) + 1
  BY <1>1
<1>3. last \in 1..(Cardinality(Senders) + 1)
  BY <1>1, <1>2, SndQueueAssumption
<1>4. PICK P : P = Ancestors[last]
  OBVIOUS
<1>5. IsUp(P, last) /\ OnWay(P, 1)
  BY <1>3, <1>4, AncestorsAreUp, UpIsWay
<1>6. P \subseteq 1..last /\ last \in P /\ P \in SUBSET Nat
  BY <1>2, <1>5 DEF IsUp
<1> DEFINE T == {p \in P : \A r \in P : p <= r /\ r < last => l.stamp[l.heap[r]] > ts}
<1>7. PICK top \in T : \A k \in T : top <= k
  <2>1. last \in T
    BY <1>2, <1>6
  <2>2. T \in SUBSET Nat
    BY <1>6
  <2> HIDE DEF T
  <2> QED BY <2>1, <2>2, LeastNatural
<1>8. Min(T) = top
  <2>1. \A k \in T : k \in Nat
    BY <1>6
  <2>2. \A k \in T : (\A j \in T : k <= j) => k = top
    BY <1>7, <2>1
  <2> HIDE DEF T
  <2> QED BY <1>7, <2>2 DEF Min
<1>9. top \in P /\ top \in Nat \ {0} /\ \A r \in P : top <= r /\ r < last => Due(l, r) > ts
  BY <1>6, <1>7, <1>5 DEF Due, OnWay
<1>10. ASSUME top # 1 PROVE Due(l, Above(top)) <= ts
  <2>1. PICK a : a = Above(top)
    OBVIOUS
  <2>2. a \in P /\ a \in 1..(top - 1)
    BY <1>5, <1>9, <1>10, <2>1, AboveIs DEF OnWay
  <2>3. a \notin T
    BY <1>7, <1>9, <2>2
  <2>4. PICK r \in P : a <= r /\ r < last /\ ~(l.stamp[l.heap[r]] > ts)
    BY <2>2, <2>3
  <2>5. r \in Nat /\ ~(top <= r)
    BY <1>6, <1>9, <2>4 DEF Due
  <2>6. r = a
    BY <1>5, <1>9, <2>1, <2>2, <2>4, <2>5 DEF OnWay
  <2>7. Due(l, a) \in Nat
    <3>1. a \in 1..Len(l.heap)
      BY <1>1, <1>2, <2>2, <2>4, <2>6
    <3> QED BY <3>1, HeapIsBounded
  <2> QED BY <2>1, <2>4, <2>6, <2>7 DEF Due
<1>11. PICK e : e = Inserted(l, u, ts)
  OBVIOUS
<1>12. /\ e.heap = [p \in 1..last |-> IF p = top THEN u
                                 ELSE IF p \in P /\ p > top THEN l.heap[Above(p)] ELSE l.heap[p]]
       /\ e.loc = [PlacesBelow(l, P, top) EXCEPT ![u] = top]
       /\ e.stamp = [l.stamp EXCEPT ![u] = ts]
  BY <1>2, <1>4, <1>8, <1>11 DEF Inserted
<1>13. PICK f : f = PlacesBelow(l, P, top)
  OBVIOUS
<1>14. f = [v \in Senders |->
              IF l.loc[v] \in P /\ l.loc[v] >= top
              THEN CHOOSE r \in P : r > l.loc[v] /\ Above(r) = l.loc[v] ELSE l.loc[v]]
  BY <1>13 DEF PlacesBelow
<1>15. f \in [Senders -> Nat]
  <2> SUFFICES ASSUME NEW v \in Senders
               PROVE  (IF l.loc[v] \in P /\ l.loc[v] >= top
                       THEN CHOOSE r \in P : r > l.loc[v] /\ Above(r) = l.loc[v] ELSE l.loc[v]) \in Nat
    BY <1>14
  <2>1. l.loc[v] \in 0..n
    BY <1>1 DEF IsList
  <2>2. ASSUME l.loc[v] \in P
        PROVE  (CHOOSE r \in P : r > l.loc[v] /\ Above(r) = l.loc[v]) \in Nat
    <3>1. PICK q \in P : q = l.loc[v] /\ q < last /\ q \in Nat
      BY <1>2, <2>1, <2>2
    <3>2. PICK c \in P : Above(c) = q /\ q < c
      BY <1>5, <1>6, <3>1, NextOnWay DEF IsNext
    <3>3. (CHOOSE r \in P : r > q /\ Above(r) = q) \in P
      BY <3>2
    <3> QED BY <1>6, <3>1, <3>3
  <2> QED BY <2>1, <2>2
<1>16. e.loc = [f EXCEPT ![u] = top]
  BY <1>12, <1>13
<1>17. e.loc \in [Senders -> Nat] /\ \A v \in Senders : e.loc[v] = IF v = u THEN top ELSE f[v]
  BY ONLY <1>9, <1>15, <1>16
<1>18. \A v \in Senders :
         e.loc[v] = IF v = u THEN top
                    ELSE IF l.loc[v] \in P /\ l.loc[v] >= top
                         THEN CHOOSE r \in P : r > l.loc[v] /\ Above(r) = l.loc[v] ELSE l.loc[v]
  BY <1>14, <1>17
<1>19. Inserts(e, l, u, ts, P, top)
  <2>1. /\ P \subseteq 1..(Len(l.heap) + 1) /\ Len(l.heap) + 1 \in P
        /\ \A r \in P : top <= r /\ r < Len(l.heap) + 1 => Due(l, r) > ts
        /\ e.heap = [p \in 1..(Len(l.heap) + 1) |->
                       IF p = top THEN u
                       ELSE IF p \in P /\ p > top THEN l.heap[Above(p)] ELSE l.heap[p]]
    BY ONLY <1>2, <1>6, <1>9, <1>12
  <2> QED BY ONLY <1>5, <1>9, <1>10, <1>12, <1>17, <1>18, <2>1, Zenon DEF Inserts
<1> QED BY <1>11, <1>19

\* What a step from a place of a way to the one above is.
LEMMA WayFacts ==
  ASSUME NEW P, NEW a \in Nat \ {0}, OnWay(P, a)
  PROVE  /\ \A p \in P : p \in Nat \ {0} /\ a <= p
         /\ \A p \in P : p # a => Above(p) \in P /\ Above(p) \in Nat \ {0} /\ a <= Above(p) /\ Above(p) < p
         /\ \A p \in P, r \in P : r < p => r <= Above(p)
<1>1. \A p \in P : p \in Nat \ {0} /\ a <= p
  BY DEF OnWay
<1>2. ASSUME NEW p \in P, p # a PROVE Above(p) \in P /\ Above(p) < p
  <2>1. p \in Nat \ {0, 1} /\ Above(p) \in P
    BY <1>2 DEF OnWay
  <2> QED BY <2>1, AboveIs
<1> QED BY <1>1, <1>2 DEF OnWay

\* insert_ keeps m_iHeapLoc right, and puts u at the root or leaves the root alone.
LEMMA InsertKeepsPlaces ==
  ASSUME NEW l, IsList(l), NEW u \in Senders, l.loc[u] = 0, NEW ts \in Nat \ {0},
         NEW e, NEW P, NEW top, Inserts(e, l, u, ts, P, top)
  PROVE  /\ IsList(e) /\ Len(e.heap) = Len(l.heap) + 1 /\ e.loc[u] = top /\ e.stamp[u] = ts
         /\ e.heap[1] = IF top = 1 THEN u ELSE l.heap[1]
         /\ top # 1 => Len(l.heap) > 0
<1>1. PICK n \in Nat : n = Len(l.heap)
  BY HeapIsBounded
<1>2. PICK m \in Nat \ {0} : m = n + 1
  OBVIOUS
<1>3. /\ OnWay(P, 1) /\ P \subseteq 1..m /\ m \in P /\ top \in P /\ top \in 1..m
      /\ e.heap = [p \in 1..m |-> IF p = top THEN u
                                 ELSE IF p \in P /\ p > top THEN l.heap[Above(p)] ELSE l.heap[p]]
      /\ e.loc \in [Senders -> Nat] /\ e.stamp = [l.stamp EXCEPT ![u] = ts]
      /\ \A v \in Senders :
           e.loc[v] = IF v = u THEN top
                      ELSE IF l.loc[v] \in P /\ l.loc[v] >= top
                           THEN CHOOSE r \in P : r > l.loc[v] /\ Above(r) = l.loc[v] ELSE l.loc[v]
  BY <1>1, <1>2 DEF Inserts
<1>4. /\ \A p \in P : p \in Nat \ {0} /\ p <= m
      /\ \A p \in P : p # 1 => Above(p) \in P /\ Above(p) \in Nat \ {0} /\ Above(p) < p
      /\ \A p \in P, r \in P : r < p => r <= Above(p)
  BY <1>3, WayFacts
<1>5. \A p \in 1..m : p # top => (p \in P /\ p > top /\ p # 1 /\ Above(p) >= top /\ Above(p) \in 1..n) \/ p \in 1..n
  BY <1>2, <1>3, <1>4
<1>6. \A p \in 1..n : l.heap[p] \in Senders /\ l.heap[p] # u
  BY <1>1, HeapIsBounded
<1>7. ASSUME NEW p \in 1..m PROVE e.heap[p] \in Senders /\ (e.heap[p] = u <=> p = top)
  <2>1. e.heap[p] = IF p = top THEN u ELSE IF p \in P /\ p > top THEN l.heap[Above(p)] ELSE l.heap[p]
    BY <1>3
  <2>2. CASE p = top
    BY <2>1, <2>2
  <2>3. CASE p # top /\ p \in P /\ p > top
    <3>1. Above(p) \in 1..n
      <4>1. p # 1
        BY <1>3, <2>3
      <4> QED BY <1>2, <1>4, <2>3, <4>1
    <3> QED BY <1>6, <2>1, <2>3, <3>1
  <2>4. CASE p # top /\ ~(p \in P /\ p > top)
    <3>1. p \in 1..n
      BY <1>5, <2>4
    <3> QED BY <1>6, <2>1, <2>4, <3>1
  <2> QED BY <2>2, <2>3, <2>4
<1>8. e.heap \in Seq(Senders) /\ Len(e.heap) = m
  <2>1. DOMAIN e.heap = 1..m /\ e.heap = [p \in 1..m |-> e.heap[p]]
    BY <1>3
  <2>2. e.heap \in [1..m -> Senders]
    BY <1>7, <2>1
  <2> QED BY <2>2
<1>9. ASSUME NEW v \in Senders, v # u
      PROVE  /\ e.loc[v] \in 0..m
             /\ \A p \in 1..m : e.heap[p] = v <=> e.loc[v] = p
  <2>1. PICK q \in 0..n : q = l.loc[v]
    BY <1>1 DEF IsList
  <2>2. \A p \in 1..n : l.heap[p] = v <=> q = p
    BY <1>1, <2>1 DEF IsList
  <2>3. CASE q \in P /\ q >= top
    <3>0. q \in P /\ q < m
      BY <1>2, <2>1, <2>3
    <3>1. PICK c \in P : Above(c) = q /\ q < c /\ \A d \in P : Above(d) = q => d = c
      <4>1. m \in P /\ OnWay(P, 1)
        BY <1>3
      <4>2. PICK c \in P : IsNext(P, q, c)
        BY <3>0, <4>1, NextOnWay
      <4> QED BY <4>2 DEF IsNext
    <3>2. e.loc[v] = CHOOSE r \in P : r > q /\ Above(r) = q
      BY <1>3, <1>9, <2>1, <2>3
    <3>3. e.loc[v] = c
      BY <3>1, <3>2
    <3>4. c \in 1..m /\ c > top /\ c # 1
      BY <1>3, <1>4, <2>1, <2>3, <3>1
    <3>5. ASSUME NEW p \in 1..m, e.heap[p] = v PROVE p = c
      <4>1. p # top
        BY <1>7, <1>9, <3>5
      <4>2. CASE p \in P /\ p > top
        <5>1. l.heap[Above(p)] = v /\ Above(p) \in 1..n
          BY <1>2, <1>3, <1>4, <3>5, <4>1, <4>2
        <5> QED BY <2>2, <3>1, <4>2, <5>1
      <4>3. CASE ~(p \in P /\ p > top)
        <5>1. l.heap[p] = v /\ p \in 1..n
          BY <1>3, <1>5, <3>5, <4>1, <4>3
        <5>2. p = q
          BY <2>2, <5>1
        <5> QED BY <1>3, <2>3, <4>1, <4>3, <5>2
      <4> QED BY <4>2, <4>3
    <3>6. e.heap[c] = v
      <4>1. e.heap[c] = l.heap[q]
        BY <1>3, <3>1, <3>4
      <4>2. q \in 1..n
        BY <1>4, <2>1, <2>3
      <4> QED BY <2>2, <4>1, <4>2
    <3> QED BY <3>3, <3>4, <3>5, <3>6
  <2>4. CASE ~(q \in P /\ q >= top)
    <3>1. e.loc[v] = q
      BY <1>3, <1>9, <2>1, <2>4
    <3>2. ASSUME NEW p \in 1..m, e.heap[p] = v PROVE p = q
      <4>1. p # top
        BY <1>7, <1>9, <3>2
      <4>2. CASE p \in P /\ p > top
        <5>1. l.heap[Above(p)] = v /\ Above(p) \in 1..n /\ Above(p) \in P /\ Above(p) >= top
          BY <1>3, <1>4, <1>5, <3>2, <4>1, <4>2
        <5> QED BY <2>2, <2>4, <5>1
      <4>3. CASE ~(p \in P /\ p > top)
        BY <1>3, <1>5, <2>2, <3>2, <4>1, <4>3
      <4> QED BY <4>2, <4>3
    <3>3. ASSUME NEW p \in 1..m, p = q PROVE e.heap[p] = v
      <4>1. p \in 1..n /\ p # top /\ ~(p \in P /\ p > top)
        BY <1>3, <2>1, <2>4, <3>3
      <4> QED BY <1>3, <2>2, <3>3, <4>1
    <3> QED BY <1>2, <2>1, <3>1, <3>2, <3>3
  <2> QED BY <2>3, <2>4
<1>10. e.loc[u] = top /\ e.stamp \in [Senders -> Nat \ {0}] /\ e.stamp[u] = ts
  <2>1. l.stamp \in [Senders -> Nat \ {0}] /\ e.stamp = [l.stamp EXCEPT ![u] = ts] /\ e.loc[u] = top
    BY <1>3 DEF IsList
  <2>2. PICK f : f = l.stamp
    OBVIOUS
  <2> QED BY <2>1, <2>2
<1>11. IsList(e)
  <2>1. ASSUME NEW v \in Senders
        PROVE  e.loc[v] \in 0..m /\ \A p \in 1..m : e.heap[p] = v <=> e.loc[v] = p
    <3>1. CASE v = u
      BY <1>3, <1>7, <1>10, <3>1
    <3> QED BY <1>9, <3>1
  <2> QED BY <1>3, <1>8, <1>10, <2>1 DEF IsList
<1>12. e.heap[1] = (IF top = 1 THEN u ELSE l.heap[1]) /\ (top # 1 => n > 0)
  <2>1. 1 \in 1..m /\ ~(1 > top)
    BY <1>2, <1>3
  <2>2. top # 1 => n > 0
    BY <1>2, <1>3
  <2> QED BY <1>3, <2>1, <2>2
<1> QED BY <1>1, <1>2, <1>8, <1>10, <1>11, <1>12

\* insert_ keeps the order: on the way, what is due later has moved down by one.
LEMMA InsertKeepsOrder ==
  ASSUME NEW l, IsList(l), NEW u \in Senders, l.loc[u] = 0, NEW ts \in Nat \ {0},
         NEW e, NEW P, NEW top, Inserts(e, l, u, ts, P, top), InOrder(l)
  PROVE  InOrder(e)
<1>1. PICK n \in Nat : n = Len(l.heap)
  BY HeapIsBounded
<1>2. PICK m \in Nat \ {0} : m = n + 1
  OBVIOUS
<1>3. /\ OnWay(P, 1) /\ P \subseteq 1..m /\ m \in P /\ top \in P /\ top \in 1..m
      /\ e.heap = [p \in 1..m |-> IF p = top THEN u
                                 ELSE IF p \in P /\ p > top THEN l.heap[Above(p)] ELSE l.heap[p]]
      /\ e.stamp = [l.stamp EXCEPT ![u] = ts]
      /\ \A r \in P : top <= r /\ r < m => Due(l, r) > ts
      /\ top # 1 => Due(l, Above(top)) <= ts
  BY <1>1, <1>2 DEF Inserts
<1>4. /\ \A p \in P : p \in Nat \ {0} /\ p <= m
      /\ \A p \in P : p # 1 => Above(p) \in P /\ Above(p) \in Nat \ {0} /\ Above(p) < p
      /\ \A p \in P, r \in P : r < p => r <= Above(p)
  BY <1>3, WayFacts
<1>5. \A p \in 1..n : l.heap[p] \in Senders /\ l.heap[p] # u /\ Due(l, p) \in Nat
  BY <1>1, HeapIsBounded
<1>6. e.stamp[u] = ts /\ \A v \in Senders : v # u => e.stamp[v] = l.stamp[v]
  <2>1. l.stamp \in [Senders -> Nat \ {0}]
    BY DEF IsList
  <2> QED BY <1>3, <2>1
<1>7. Len(e.heap) = m
  BY <1>1, <1>2, InsertKeepsPlaces
<1>8. ASSUME NEW p \in 1..m
      PROVE  /\ p = top => Due(e, p) = ts
             /\ p \in P /\ p > top => Above(p) \in 1..n /\ Due(e, p) = Due(l, Above(p))
             /\ ~(p \in P /\ p >= top) => p \in 1..n /\ Due(e, p) = Due(l, p)
  <2>1. e.heap[p] = IF p = top THEN u ELSE IF p \in P /\ p > top THEN l.heap[Above(p)] ELSE l.heap[p]
    BY <1>3
  <2>2. CASE p = top
    BY <1>3, <1>6, <2>1, <2>2 DEF Due
  <2>3. CASE p # top /\ p \in P /\ p > top
    <3>1. Above(p) \in 1..n
      <4>1. p # 1
        BY <1>3, <2>3
      <4> QED BY <1>2, <1>4, <2>3, <4>1
    <3>2. e.heap[p] = l.heap[Above(p)]
      BY <2>1, <2>3
    <3>3. e.stamp[l.heap[Above(p)]] = l.stamp[l.heap[Above(p)]]
      BY <1>5, <1>6, <3>1
    <3>4. p >= top
      BY <1>3, <2>3
    <3> QED BY <2>3, <3>1, <3>2, <3>3, <3>4, Zenon DEF Due
  <2>4. CASE p # top /\ ~(p \in P /\ p > top)
    <3>1. p \in 1..n
      BY <1>2, <1>3, <2>4
    <3> QED BY <1>5, <1>6, <2>1, <2>4, <3>1 DEF Due
  <2> QED BY <2>2, <2>3, <2>4
<1>9. ASSUME NEW p \in 2..m PROVE Due(e, Above(p)) <= Due(e, p)
  <2>1. PICK a : a = Above(p)
    OBVIOUS
  <2>2. a \in 1..(p - 1) /\ a \in 1..n /\ a \in 1..m
    <3>1. p \in Nat \ {0, 1}
      OBVIOUS
    <3> QED BY <1>2, <2>1, <3>1, AboveIs
  <2>3. p \in P => a \in P /\ \A r \in P : r < p => r <= a
    BY <1>4, <2>1
  <2>4. p \in 1..n => Due(l, a) <= Due(l, p)
    BY <1>1, <2>1 DEF InOrder
  <2>5. /\ a = top => Due(e, a) = ts
        /\ a \in P /\ a > top => Above(a) \in 1..n /\ Due(e, a) = Due(l, Above(a))
        /\ ~(a \in P /\ a >= top) => Due(e, a) = Due(l, a)
    BY <1>8, <2>2
  <2>6. a > top => Due(l, Above(a)) <= Due(l, a)
    <3>1. ASSUME a > top PROVE a \in 2..n
      BY <1>3, <2>2, <3>1
    <3> QED BY <1>1, <3>1 DEF InOrder
  <2>7. Due(l, a) \in Nat /\ (p \in 1..n => Due(l, p) \in Nat) /\ (a \in P /\ a >= top => Due(l, a) > ts)
    BY <1>2, <1>3, <1>5, <2>2
  <2>8. CASE p = top
    <3>1. Due(e, p) = ts /\ Due(l, a) <= ts /\ ~(a >= top)
      BY <1>3, <1>8, <2>1, <2>2, <2>8
    <3>2. Due(e, a) = Due(l, a)
      BY <2>5, <3>1
    <3> QED BY <2>1, <3>1, <3>2
  <2>9. CASE p \in P /\ p > top
    <3>1. Due(e, p) = Due(l, a) /\ a >= top /\ a \in P
      BY <1>3, <1>8, <2>1, <2>3, <2>9
    <3>2. CASE a = top
      BY <2>1, <2>5, <2>7, <3>1, <3>2
    <3>3. CASE a > top
      BY <2>1, <2>5, <2>6, <3>1, <3>3
    <3> QED BY <1>3, <2>2, <3>1, <3>2, <3>3
  <2>10. CASE ~(p \in P /\ p >= top)
    <3>1. Due(e, p) = Due(l, p) /\ Due(l, a) <= Due(l, p) /\ Due(l, p) \in Nat
      BY <1>8, <2>4, <2>7, <2>10
    <3>2. CASE a = top
      BY <1>3, <2>1, <2>5, <2>7, <3>1, <3>2
    <3>3. CASE a \in P /\ a > top
      <4>1. Due(l, Above(a)) \in Nat
        BY <1>5, <2>5, <3>3
      <4> QED BY <2>1, <2>5, <2>6, <2>7, <3>1, <3>3, <4>1
    <3>4. CASE ~(a \in P /\ a >= top)
      BY <2>1, <2>5, <3>1, <3>4
    <3> QED BY <1>3, <2>2, <3>2, <3>3, <3>4
  <2> QED BY <1>3, <2>8, <2>9, <2>10
<1> QED BY <1>7, <1>9 DEF InOrder

-----------------------------------------------------------------------------
(***************************************************************************)
(* UdtSndQueue: what remove_ leaves                                        *)
(***************************************************************************)
\* Bounded sets of numbers have a greatest one.
LEMMA GreatestNatural ==
  ASSUME NEW n \in Nat, NEW S \in SUBSET (0..n), S # {}
  PROVE  \E m \in S : \A k \in S : k <= m
<1> DEFINE R == {j \in 0..n : n - j \in S}
<1>1. PICK s \in S : TRUE
  OBVIOUS
<1>2. n - s \in R /\ R \in SUBSET Nat
  <2>1. s \in 0..n
    OBVIOUS
  <2>2. n - s \in 0..n /\ n - (n - s) = s
    BY <2>1
  <2> QED BY <1>1, <2>2
<1>3. PICK j \in R : \A i \in R : j <= i
  <2> HIDE DEF R
  <2> QED BY <1>2, LeastNatural
<1>4. ASSUME NEW k \in S PROVE k <= n - j
  <2>1. k \in 0..n
    OBVIOUS
  <2>2. n - k \in 0..n /\ n - (n - k) = k
    BY <2>1
  <2>3. n - k \in R
    BY <2>2
  <2>4. j <= n - k /\ j \in 0..n
    BY <1>3, <2>3
  <2> QED BY <2>1, <2>4
<1>5. n - j \in S
  BY <1>3
<1> QED BY <1>4, <1>5

\* The heap with the last socket in the place of u.
Filled(l, u) ==
  LET n == Len(l.heap) - 1
      x == l.heap[n + 1]
  IN  [heap  |-> [p \in 1..n |-> IF p = l.loc[u] THEN x ELSE l.heap[p]],
       loc   |-> [l.loc EXCEPT ![x] = l.loc[u]], stamp |-> l.stamp]

\* u is taken out, and the last socket has sunk from the place q of u to to.
Drops(e, l, u, W, to) ==
  LET q == l.loc[u]
      n == Len(l.heap) - 1
      x == l.heap[n + 1]
      r == Filled(l, u)
  IN  /\ IsDown(W, r, q) /\ to \in W /\ Len(r.heap) = n
      /\ \A p \in W : q < p /\ p <= to => l.stamp[x] > Due(r, p)
      /\ 2 * to <= n => l.stamp[x] <= Due(r, DueFirst(r, to))
      /\ e.heap = [p \in 1..n |-> IF p = to THEN x
                                  ELSE IF p \in W /\ q <= p /\ p < to
                                       THEN r.heap[CHOOSE c \in W : Above(c) = p]
                                       ELSE r.heap[p]]
      /\ e.loc = [v \in Senders |->
                    IF v = u THEN 0 ELSE IF v = x THEN to
                    ELSE IF l.loc[v] \in {p \in W : q < p /\ p <= to} THEN Above(l.loc[v]) ELSE l.loc[v]]
      /\ e.stamp = l.stamp

\* What is filled is a sequence again.
LEMMA FilledIs ==
  ASSUME NEW l, IsList(l), NEW u \in Senders, l.loc[u] # 0
  PROVE  /\ Len(l.heap) - 1 \in Nat /\ l.loc[u] \in 1..Len(l.heap)
         /\ Filled(l, u).heap \in Seq(Senders) /\ Len(Filled(l, u).heap) = Len(l.heap) - 1
         /\ \A p \in 1..(Len(l.heap) - 1) :
              Filled(l, u).heap[p] = IF p = l.loc[u] THEN l.heap[Len(l.heap)] ELSE l.heap[p]
         /\ Filled(l, u).stamp = l.stamp
<1>1. PICK m \in Nat : m = Len(l.heap)
  BY HeapIsBounded
<1>2. PICK q \in 1..m : q = l.loc[u]
  BY <1>1 DEF IsList
<1>3. PICK n \in Nat : n = m - 1 /\ n + 1 = m
  BY <1>2
<1>4. PICK x \in Senders : x = l.heap[m]
  BY <1>1, <1>2, HeapIsBounded
<1>5. PICK f : f = Filled(l, u).heap
  OBVIOUS
<1>6. f = [p \in 1..n |-> IF p = q THEN x ELSE l.heap[p]] /\ Filled(l, u).stamp = l.stamp
  BY <1>1, <1>2, <1>3, <1>4, <1>5 DEF Filled
<1>7. \A p \in 1..n : l.heap[p] \in Senders
  BY <1>1, <1>3, HeapIsBounded
<1>8. f \in [1..n -> Senders]
  BY <1>6, <1>7
<1>9. f \in Seq(Senders) /\ Len(f) = n
  BY <1>8
<1>10. \A p \in 1..n : f[p] = IF p = q THEN x ELSE l.heap[p]
  BY <1>6
<1> QED BY <1>1, <1>2, <1>3, <1>4, <1>5, <1>6, <1>9, <1>10

\* Where the socket x sinks to in r, from q.
SinksTo(l, r, q, x) ==
  Max({p \in Descent(r, q) :
         \A k \in Descent(r, q) : q < k /\ k <= p => l.stamp[x] > l.stamp[r.heap[k]]})

\* The heap after that.
Sunk(l, u) ==
  LET q  == l.loc[u]
      n  == Len(l.heap) - 1
      x  == l.heap[n + 1]
      r  == Filled(l, u)
      W  == Descent(r, q)
      to == SinksTo(l, r, q, x)
  IN  [heap  |-> [p \in 1..n |-> IF p = to THEN x
                                ELSE IF p \in W /\ q <= p /\ p < to
                                     THEN r.heap[CHOOSE c \in W : Above(c) = p]
                                     ELSE r.heap[p]],
       loc   |-> [v \in Senders |->
                    IF v = u THEN 0 ELSE IF v = x THEN to
                    ELSE IF l.loc[v] \in {p \in W : q < p /\ p <= to} THEN Above(l.loc[v]) ELSE l.loc[v]],
       stamp |-> l.stamp]

\* remove_ does that, unless u is the last one.
LEMMA DroppedIs ==
  ASSUME NEW l, IsList(l), NEW u \in Senders, l.loc[u] # 0, l.loc[u] # Len(l.heap)
  PROVE  \E W, to : Drops(Dropped(l, u), l, u, W, to)
<1>1. PICK m \in Nat : m = Len(l.heap)
  BY HeapIsBounded
<1>2. PICK q \in 1..m : q = l.loc[u] /\ q # m
  BY <1>1, FilledIs
<1>3. PICK n \in Nat : n = m - 1 /\ n + 1 = m /\ q \in 1..n /\ n = Len(l.heap) - 1
  <2>1. m - 1 \in Nat /\ (m - 1) + 1 = m /\ q \in 1..(m - 1) /\ m - 1 = Len(l.heap) - 1
    BY <1>1, <1>2
  <2> QED BY <2>1
<1>4. PICK x \in Senders : x = l.heap[n + 1]
  BY <1>1, <1>2, <1>3, HeapIsBounded
<1>5. PICK r : r = Filled(l, u)
  OBVIOUS
<1>6. r.heap \in Seq(Senders) /\ Len(r.heap) = n /\ r.stamp = l.stamp
  BY <1>1, <1>2, <1>3, <1>5, FilledIs
<1>7. PICK W : W = Descent(r, q)
  OBVIOUS
<1>8. IsDown(W, r, q)
  BY <1>3, <1>6, <1>7, DescentIsDown
<1>9. OnWay(W, q) /\ W \subseteq q..n /\ \A k \in W : 2 * k <= n => DueFirst(r, k) \in W
  BY <1>6, <1>8 DEF IsDown
<1> DEFINE T == {p \in W : \A k \in W : q < k /\ k <= p => l.stamp[x] > l.stamp[r.heap[k]]}
<1>10. PICK to \in T : \A k \in T : k <= to
  <2>1. q \in T
    <3>1. \A k \in W : ~(q < k /\ k <= q)
      BY <1>9
    <3> QED BY <1>9, <3>1 DEF OnWay
  <2>2. T \in SUBSET (0..n)
    <3>1. q..n \subseteq 0..n
      BY <1>2
    <3> QED BY <1>9, <3>1
  <2> HIDE DEF T
  <2> QED BY <2>1, <2>2, GreatestNatural
<1>11. SinksTo(l, r, q, x) = to
  <2>1. \A k \in T : k \in Nat
    BY <1>9
  <2>2. \A k \in T : (\A j \in T : j <= k) => k = to
    BY <1>10, <2>1
  <2> HIDE DEF T
  <2>3. \A k \in T : to >= k
    BY <1>10
  <2>4. \A k \in T : (\A j \in T : k >= j) => k = to
    BY <2>2
  <2>5. Max(T) = to
    BY <1>10, <2>3, <2>4 DEF Max
  <2>6. SinksTo(l, r, q, x) = Max(T)
    BY <1>7 DEF SinksTo, T
  <2> QED BY <2>5, <2>6
<1>12. to \in W /\ to \in q..n /\ \A p \in W : q < p /\ p <= to => l.stamp[x] > Due(r, p)
  BY <1>6, <1>9, <1>10 DEF Due
<1>13. ASSUME 2 * to <= n PROVE l.stamp[x] <= Due(r, DueFirst(r, to))
  <2>1. PICK c : c = DueFirst(r, to)
    OBVIOUS
  <2>2. c \in (to + 1)..n /\ Above(c) = to
    <3>1. to \in Nat \ {0}
      BY <1>12
    <3> QED BY <1>6, <1>13, <2>1, <3>1, DueFirstIs
  <2>3. c \in W /\ c \notin T
    BY <1>9, <1>10, <1>12, <1>13, <2>1, <2>2
  <2>4. PICK k \in W : q < k /\ k <= c /\ ~(l.stamp[x] > l.stamp[r.heap[k]])
    BY <2>3
  <2>5. k = c
    <3>1. k \in q..n /\ ~(k <= to)
      BY <1>9, <1>12, <2>4 DEF Due
    <3>2. k < c => k <= to
      BY <1>9, <2>2, <2>3 DEF OnWay
    <3> QED BY <2>2, <2>4, <3>1, <3>2
  <2>6. PICK y \in Senders : y = r.heap[c]
    <3>1. c \in 1..Len(r.heap)
      BY <1>6, <1>12, <2>2
    <3> QED BY <1>6, <3>1
  <2>7. l.stamp[x] \in Nat /\ l.stamp[y] \in Nat
    BY DEF IsList
  <2>8. Due(r, c) = l.stamp[y] /\ ~(l.stamp[x] > l.stamp[y])
    BY <1>6, <2>4, <2>5, <2>6 DEF Due
  <2> QED BY <2>1, <2>7, <2>8
<1>14. PICK e : e = Dropped(l, u)
  OBVIOUS
<1>15. /\ e.heap = [p \in 1..n |-> IF p = to THEN x
                                  ELSE IF p \in W /\ q <= p /\ p < to
                                       THEN r.heap[CHOOSE c \in W : Above(c) = p]
                                       ELSE r.heap[p]]
       /\ e.loc = [v \in Senders |->
                    IF v = u THEN 0 ELSE IF v = x THEN to
                    ELSE IF l.loc[v] \in {p \in W : q < p /\ p <= to} THEN Above(l.loc[v]) ELSE l.loc[v]]
       /\ e.stamp = l.stamp
  <2>1. l.loc[u] # (Len(l.heap) - 1) + 1
    BY <1>1, <1>2, <1>3, SMTT(30)
  <2>2. Dropped(l, u) = Sunk(l, u)
    BY ONLY <2>1 DEF Dropped, Sunk, SinksTo, Filled
  <2> QED BY <1>2, <1>3, <1>4, <1>5, <1>7, <1>11, <1>14, <2>2 DEF Sunk
<1>16. Drops(e, l, u, W, to)
  <2>1. n = Len(l.heap) - 1
    BY <1>3
  <2> QED BY <1>2, <1>4, <1>5, <1>6, <1>8, <1>12, <1>13, <1>15, <2>1 DEF Drops
<1> QED BY <1>14, <1>16

\* What stands where after that.
Stand(e, l, u, W, to) ==
  LET q == l.loc[u]
      n == Len(l.heap) - 1
      x == l.heap[n + 1]
  IN  /\ \A p \in 1..n :
           /\ p = to => e.heap[p] = x
           /\ p \in W /\ q <= p /\ p < to =>
                \E c \in 1..n : IsNext(W, p, c) /\ c \in W /\ c <= to /\ c > q /\ e.heap[p] = l.heap[c]
           /\ p # to /\ ~(p \in W /\ q <= p /\ p < to) => p # q /\ e.heap[p] = l.heap[p]
      /\ \A v \in Senders :
           e.loc[v] = IF v = u THEN 0 ELSE IF v = x THEN to
                      ELSE IF l.loc[v] \in W /\ q < l.loc[v] /\ l.loc[v] <= to THEN Above(l.loc[v])
                      ELSE l.loc[v]
      /\ Len(e.heap) = n

\* remove_ leaves the list so.
LEMMA DropStands ==
  ASSUME NEW l, IsList(l), NEW u \in Senders, l.loc[u] # 0, l.loc[u] # Len(l.heap),
         NEW e, NEW W, NEW to, Drops(e, l, u, W, to)
  PROVE  Stand(e, l, u, W, to)
<1>1. PICK m \in Nat : m = Len(l.heap)
  BY HeapIsBounded
<1>2. PICK q \in 1..m : q = l.loc[u] /\ q # m
  BY <1>1, FilledIs
<1>3. PICK n \in Nat : n = m - 1 /\ n + 1 = m /\ q \in 1..n /\ n = Len(l.heap) - 1
  <2>1. m - 1 \in Nat /\ (m - 1) + 1 = m /\ q \in 1..(m - 1) /\ m - 1 = Len(l.heap) - 1
    BY <1>1, <1>2
  <2> QED BY <2>1
<1>4. PICK x \in Senders : x = l.heap[n + 1] /\ x = l.heap[Len(l.heap)]
  BY <1>1, <1>2, <1>3, HeapIsBounded
<1>5. PICK h : h = Filled(l, u).heap
  OBVIOUS
<1>6. \A p \in 1..n : h[p] = IF p = q THEN x ELSE l.heap[p]
  BY <1>2, <1>3, <1>4, <1>5, FilledIs
<1>7. /\ IsDown(W, Filled(l, u), q) /\ to \in W /\ Len(h) = n
      /\ e.heap = [p \in 1..n |-> IF p = to THEN x
                                  ELSE IF p \in W /\ q <= p /\ p < to
                                       THEN h[CHOOSE c \in W : Above(c) = p]
                                       ELSE h[p]]
      /\ e.loc = [v \in Senders |->
                    IF v = u THEN 0 ELSE IF v = x THEN to
                    ELSE IF l.loc[v] \in {p \in W : q < p /\ p <= to} THEN Above(l.loc[v]) ELSE l.loc[v]]
  BY <1>2, <1>3, <1>4, <1>5 DEF Drops
<1>8. OnWay(W, q) /\ W \subseteq q..n /\ to \in q..n /\ q \in W
  BY <1>5, <1>7 DEF IsDown, OnWay
<1>9. ASSUME NEW p \in 1..n
      PROVE  /\ p = to => e.heap[p] = x
             /\ p \in W /\ q <= p /\ p < to =>
                  \E c \in 1..n : IsNext(W, p, c) /\ c \in W /\ c <= to /\ c > q /\ e.heap[p] = l.heap[c]
             /\ p # to /\ ~(p \in W /\ q <= p /\ p < to) => p # q /\ e.heap[p] = l.heap[p]
  <2>1. e.heap[p] = IF p = to THEN x
                    ELSE IF p \in W /\ q <= p /\ p < to THEN h[CHOOSE c \in W : Above(c) = p] ELSE h[p]
    BY <1>7
  <2>2. ASSUME p \in W, q <= p, p < to
        PROVE  \E c \in 1..n : IsNext(W, p, c) /\ c \in W /\ c <= to /\ c > q /\ e.heap[p] = l.heap[c]
    <3>1. PICK c \in W : IsNext(W, p, c) /\ c <= to
      BY <1>7, <1>8, <2>2, NextOnWay
    <3>2. (CHOOSE d \in W : Above(d) = p) = c
      BY <3>1 DEF IsNext
    <3>3. c \in 1..n /\ c > q
      BY <1>3, <1>8, <2>2, <3>1 DEF IsNext
    <3>4. e.heap[p] = h[c]
      <4>1. p # to
        BY <1>8, <2>2
      <4> QED BY <2>1, <2>2, <3>2, <4>1
    <3> QED BY <1>3, <1>6, <3>1, <3>3, <3>4
  <2>3. ASSUME p # to, ~(p \in W /\ q <= p /\ p < to) PROVE p # q /\ e.heap[p] = l.heap[p]
    <3>1. p # q
      BY <1>3, <1>8, <2>3
    <3> QED BY <1>6, <2>1, <2>3, <3>1
  <2> QED BY <2>1, <2>2, <2>3
<1>10. ASSUME NEW v \in Senders
       PROVE  e.loc[v] = IF v = u THEN 0 ELSE IF v = x THEN to
                         ELSE IF l.loc[v] \in W /\ q < l.loc[v] /\ l.loc[v] <= to THEN Above(l.loc[v])
                         ELSE l.loc[v]
  BY <1>7
<1>11. Len(e.heap) = n
  <2>1. DOMAIN e.heap = 1..n /\ e.heap = [p \in 1..n |-> e.heap[p]]
    BY <1>7
  <2> QED BY <2>1
<1> QED BY <1>2, <1>3, <1>4, <1>9, <1>10, <1>11 DEF Stand

\* remove_ keeps m_iHeapLoc right, and leaves the root alone unless it is taken out.
LEMMA DropKeepsPlaces ==
  ASSUME NEW l, IsList(l), NEW u \in Senders, l.loc[u] # 0, l.loc[u] # Len(l.heap),
         NEW e, NEW W, NEW to, Drops(e, l, u, W, to)
  PROVE  /\ IsList(e) /\ Len(e.heap) = Len(l.heap) - 1 /\ e.loc[u] = 0 /\ e.stamp = l.stamp
         /\ l.loc[u] # 1 => e.heap[1] = l.heap[1]
         /\ \A v \in Senders : e.loc[v] # 0 => l.loc[v] # 0
<1>1. PICK m \in Nat : m = Len(l.heap)
  BY HeapIsBounded
<1>2. PICK q \in 1..m : q = l.loc[u] /\ q # m
  BY <1>1, FilledIs
<1>3. PICK n \in Nat : n = m - 1 /\ n + 1 = m /\ q \in 1..n /\ n = Len(l.heap) - 1
  <2>1. m - 1 \in Nat /\ (m - 1) + 1 = m /\ q \in 1..(m - 1) /\ m - 1 = Len(l.heap) - 1
    BY <1>1, <1>2
  <2> QED BY <2>1
<1>4. PICK x \in Senders : x = l.heap[n + 1] /\ l.loc[x] = n + 1
  BY <1>1, <1>2, <1>3, HeapIsBounded
<1>5. /\ \A p \in 1..n :
           /\ p = to => e.heap[p] = x
           /\ p \in W /\ q <= p /\ p < to =>
                \E c \in 1..n : IsNext(W, p, c) /\ c \in W /\ c <= to /\ c > q /\ e.heap[p] = l.heap[c]
           /\ p # to /\ ~(p \in W /\ q <= p /\ p < to) => p # q /\ e.heap[p] = l.heap[p]
      /\ \A v \in Senders :
           e.loc[v] = IF v = u THEN 0 ELSE IF v = x THEN to
                      ELSE IF l.loc[v] \in W /\ q < l.loc[v] /\ l.loc[v] <= to THEN Above(l.loc[v])
                      ELSE l.loc[v]
      /\ Len(e.heap) = n
  BY <1>2, <1>3, <1>4, DropStands DEF Stand
<1>6. /\ to \in q..n /\ to \in W /\ OnWay(W, q) /\ W \subseteq q..n /\ q \in W /\ e.stamp = l.stamp
      /\ DOMAIN e.heap = 1..n /\ DOMAIN e.loc = Senders /\ e.loc = [v \in Senders |-> e.loc[v]]
      /\ e.heap = [p \in 1..n |-> e.heap[p]]
  BY <1>2, <1>3 DEF Drops, IsDown, OnWay
<1>7. /\ \A p \in W : p \in Nat \ {0} /\ q <= p
      /\ \A p \in W : p # q => Above(p) \in W /\ Above(p) \in Nat \ {0} /\ q <= Above(p) /\ Above(p) < p
      /\ \A p \in W, r \in W : r < p => r <= Above(p)
  <2>1. q \in Nat \ {0}
    BY <1>3
  <2> QED BY <1>6, <2>1, WayFacts
<1>8. u # x /\ \A p \in 1..n : l.heap[p] \in Senders /\ l.heap[p] # x /\ (l.heap[p] = u <=> p = q)
  <2>1. u # x
    BY <1>1, <1>2, <1>3, <1>4
  <2>2. ASSUME NEW p \in 1..n
        PROVE  l.heap[p] \in Senders /\ l.heap[p] # x /\ (l.heap[p] = u <=> p = q)
    <3>1. p \in 1..m /\ p # n + 1
      BY <1>3
    <3>2. l.heap[p] \in Senders /\ l.loc[l.heap[p]] = p
      BY <1>1, <3>1, HeapIsBounded
    <3>3. l.heap[q] = u
      BY <1>1, <1>2 DEF IsList
    <3>4. q # n + 1
      BY <1>3
    <3> QED BY <1>2, <1>4, <3>1, <3>2, <3>3
  <2> QED BY <2>1, <2>2
<1>9. ASSUME NEW p \in 1..n
      PROVE  e.heap[p] \in Senders /\ e.heap[p] # u /\ (e.heap[p] = x <=> p = to)
  <2>1. CASE p = to
    BY <1>4, <1>5, <1>8, <2>1
  <2>2. CASE p # to /\ p \in W /\ q <= p /\ p < to
    <3>1. PICK c \in 1..n : c > q /\ e.heap[p] = l.heap[c]
      BY <1>5, <2>2
    <3>2. c # q
      BY <1>3, <3>1
    <3> QED BY <1>8, <2>2, <3>1, <3>2
  <2>3. CASE p # to /\ ~(p \in W /\ q <= p /\ p < to)
    <3>1. p # q /\ e.heap[p] = l.heap[p]
      BY <1>5, <2>3
    <3> QED BY <1>8, <2>3, <3>1
  <2> QED BY <2>1, <2>2, <2>3
<1>10. ASSUME NEW v \in Senders, v # u, v # x
       PROVE  /\ e.loc[v] \in 0..n /\ (e.loc[v] # 0 => l.loc[v] # 0)
              /\ \A p \in 1..n : e.heap[p] = v <=> e.loc[v] = p
  <2>1. PICK a \in 0..n : a = l.loc[v] /\ a # q
    <3>1. l.loc[v] \in 0..m
      BY <1>1 DEF IsList
    <3>2. l.heap[q] = u /\ l.heap[m] = x /\ q \in 1..m /\ m \in 1..m
      BY <1>1, <1>2, <1>3, <1>4, SMTT(30) DEF IsList
    <3>3. l.loc[v] # q /\ l.loc[v] # m
      BY <1>1, <1>10, <3>2 DEF IsList
    <3> QED BY <1>3, <3>1, <3>3
  <2>2. \A p \in 1..n : l.heap[p] = v <=> a = p
    <3>1. \A p \in 1..n : p \in 1..m
      BY <1>3
    <3> QED BY <1>1, <2>1, <3>1 DEF IsList
  <2>3. CASE a \in W /\ q < a /\ a <= to
    <3>1. PICK b : b = Above(a)
      OBVIOUS
    <3>2. e.loc[v] = b /\ b \in W /\ b < a /\ b < to /\ q <= b /\ b \in 1..n
      BY <1>3, <1>5, <1>6, <1>7, <1>10, <2>1, <2>3, <3>1
    <3>3. e.heap[b] = v
      <4>1. PICK c \in 1..n : IsNext(W, b, c) /\ e.heap[b] = l.heap[c]
        BY <1>5, <3>2
      <4>2. a = c
        BY <2>3, <3>1, <4>1 DEF IsNext
      <4> QED BY <2>2, <4>1, <4>2
    <3>4. ASSUME NEW p \in 1..n, e.heap[p] = v PROVE p = b
      <4>1. p # to
        BY <1>9, <1>10, <3>4
      <4>2. CASE p \in W /\ q <= p /\ p < to
        <5>1. PICK c \in 1..n : IsNext(W, p, c) /\ e.heap[p] = l.heap[c]
          BY <1>5, <4>2
        <5>2. c = a
          BY <2>2, <3>4, <5>1
        <5> QED BY <3>1, <5>1, <5>2 DEF IsNext
      <4>3. CASE ~(p \in W /\ q <= p /\ p < to)
        <5>1. p = a
          BY <1>5, <2>2, <3>4, <4>1, <4>3
        <5> QED BY <1>6, <2>3, <4>1, <4>3, <5>1
      <4> QED BY <4>2, <4>3
    <3> QED BY <2>1, <2>3, <3>2, <3>3, <3>4
  <2>4. CASE ~(a \in W /\ q < a /\ a <= to)
    <3>1. e.loc[v] = a
      BY <1>5, <1>10, <2>1, <2>4
    <3>2. ASSUME NEW p \in 1..n, e.heap[p] = v PROVE p = a
      <4>1. p # to
        BY <1>9, <1>10, <3>2
      <4>2. CASE p \in W /\ q <= p /\ p < to
        <5>1. PICK c \in 1..n : c \in W /\ c <= to /\ c > q /\ e.heap[p] = l.heap[c]
          BY <1>5, <4>2
        <5>2. c = a
          BY <2>2, <3>2, <5>1
        <5> QED BY <2>4, <5>1, <5>2
      <4>3. CASE ~(p \in W /\ q <= p /\ p < to)
        BY <1>5, <2>2, <3>2, <4>1, <4>3
      <4> QED BY <4>2, <4>3
    <3>3. ASSUME NEW p \in 1..n, p = a PROVE e.heap[p] = v
      <4>1. p # to /\ ~(p \in W /\ q <= p /\ p < to)
        BY <1>3, <1>6, <2>1, <2>4, <3>3
      <4>2. e.heap[p] = l.heap[p]
        BY <1>5, <4>1
      <4> QED BY <2>2, <3>3, <4>2
    <3> QED BY <2>1, <3>1, <3>2, <3>3
  <2> QED BY <2>3, <2>4
<1>11. e.loc[u] = 0 /\ e.loc[x] = to
  BY <1>5, <1>8
<1>12. ASSUME NEW v \in Senders
       PROVE  /\ e.loc[v] \in 0..n /\ (e.loc[v] # 0 => l.loc[v] # 0)
              /\ \A p \in 1..n : e.heap[p] = v <=> e.loc[v] = p
  <2>1. CASE v = u
    BY <1>9, <1>11, <2>1
  <2>2. CASE v = x
    <3>1. to \in 0..n /\ l.loc[x] # 0
      BY <1>3, <1>4, <1>6
    <3> QED BY <1>9, <1>11, <2>2, <3>1
  <2> QED BY <1>10, <2>1, <2>2
<1>13. e.heap \in Seq(Senders)
  <2>1. e.heap \in [1..n -> Senders]
    BY <1>6, <1>9
  <2> QED BY <2>1
<1>14. IsList(e)
  <2>1. e.loc \in [Senders -> Nat]
    BY <1>6, <1>12
  <2>2. e.stamp \in [Senders -> Nat \ {0}]
    BY <1>6 DEF IsList
  <2> QED BY <1>5, <1>12, <1>13, <2>1, <2>2 DEF IsList
<1>15. q # 1 => e.heap[1] = l.heap[1]
  <2>1. ASSUME q # 1 PROVE 1 \in 1..n /\ 1 # to /\ 1 \notin W
    BY <1>3, <1>6, <2>1
  <2> QED BY <1>5, <2>1
<1> QED BY <1>2, <1>3, <1>5, <1>6, <1>11, <1>12, <1>14, <1>15

\* remove_ keeps the order, unless the socket that sinks would have to rise.
LEMMA DropKeepsOrder ==
  ASSUME NEW l, IsList(l), NEW u \in Senders, l.loc[u] # 0, l.loc[u] # Len(l.heap),
         NEW e, NEW W, NEW to, Drops(e, l, u, W, to), InOrder(l), ~Misplaces(l, u)
  PROVE  InOrder(e)
<1>1. PICK m \in Nat : m = Len(l.heap)
  BY HeapIsBounded
<1>2. PICK q \in 1..m : q = l.loc[u] /\ q # m
  BY <1>1, FilledIs
<1>3. PICK n \in Nat : n = m - 1 /\ n + 1 = m /\ q \in 1..n /\ n = Len(l.heap) - 1 /\ m = Len(l.heap)
  <2>1. m - 1 \in Nat /\ (m - 1) + 1 = m /\ q \in 1..(m - 1) /\ m - 1 = Len(l.heap) - 1
    BY <1>1, <1>2
  <2> QED BY <1>1, <2>1
<1>4. PICK x \in Senders : x = l.heap[n + 1] /\ x = l.heap[m]
  BY <1>1, <1>2, <1>3, HeapIsBounded
<1>5. PICK k \in Nat : k = l.stamp[x]
  BY DEF IsList
<1>6. PICK r : r = Filled(l, u)
  OBVIOUS
<1>7. /\ \A p \in 1..n :
           /\ p = to => e.heap[p] = x
           /\ p \in W /\ q <= p /\ p < to =>
                \E c \in 1..n : IsNext(W, p, c) /\ c \in W /\ c <= to /\ c > q /\ e.heap[p] = l.heap[c]
           /\ p # to /\ ~(p \in W /\ q <= p /\ p < to) => p # q /\ e.heap[p] = l.heap[p]
      /\ Len(e.heap) = n
  BY <1>2, <1>3, <1>4, DropStands DEF Stand
<1>8. /\ to \in q..n /\ to \in W /\ OnWay(W, q) /\ W \subseteq q..n /\ q \in W /\ e.stamp = l.stamp
      /\ Len(r.heap) = n /\ \A p \in W : p # q => DueFirst(r, Above(p)) = p
  BY <1>2, <1>3, <1>6 DEF Drops, IsDown, OnWay
<1>9. /\ \A p \in W : q < p /\ p <= to => k > Due(r, p)
      /\ 2 * to <= n => k <= Due(r, DueFirst(r, to))
  BY <1>2, <1>3, <1>4, <1>5, <1>6 DEF Drops
<1>10. \A p \in W : p # q => Above(p) \in W /\ Above(p) \in Nat \ {0} /\ q <= Above(p) /\ Above(p) < p
  <2>1. q \in Nat \ {0}
    BY <1>3
  <2> QED BY <1>8, <2>1, WayFacts
<1>11. \A p \in 1..n : p # q => Due(r, p) = Due(l, p) /\ r.heap[p] = l.heap[p]
  <2>1. r.stamp = l.stamp /\ \A p \in 1..n : p # q => r.heap[p] = l.heap[p]
    BY <1>2, <1>3, <1>6, FilledIs
  <2> QED BY <2>1 DEF Due
<1>12. \A p \in 1..n : Due(l, p) \in Nat
  <2>1. \A p \in 1..n : p \in 1..m
    BY <1>3
  <2> QED BY <1>1, <2>1, HeapIsBounded
<1>13. \A p \in 2..n : Due(l, Above(p)) <= Due(l, p)
  <2>1. \A p \in 2..n : p \in 2..m
    BY <1>3
  <2> QED BY <1>1, <2>1 DEF InOrder
<1>14. q > 1 => k >= Due(l, Above(q))
  <2>1. ASSUME q > 1 PROVE ~(k < Due(l, Above(q)))
    <3>1. q # 0 /\ q < m
      BY <1>2
    <3> QED BY <1>1, <1>2, <1>4, <1>5, <2>1, <3>1 DEF Misplaces, Due
  <2>2. ASSUME q > 1 PROVE Due(l, Above(q)) \in Nat
    <3>1. q \in Nat \ {0, 1} /\ q <= n
      BY <1>3, <2>2
    <3>2. Above(q) \in 1..n
      BY <3>1, AboveIs
    <3> QED BY <1>12, <3>2
  <2> QED BY <1>5, <2>1, <2>2
<1>15. ASSUME NEW p \in 1..n
       PROVE  /\ p = to => Due(e, p) = k
              /\ p \in W /\ q <= p /\ p < to =>
                   \E c \in 1..n : /\ Above(c) = p /\ c \in W /\ c <= to /\ c > q /\ Due(e, p) = Due(l, c)
                                   /\ \A d \in W : Above(d) = p => d = c
              /\ p # to /\ ~(p \in W /\ q <= p /\ p < to) => p # q /\ Due(e, p) = Due(l, p)
  BY <1>5, <1>7, <1>8 DEF Due, IsNext
\* Of the children of a place on the way, the one on the way is due first.
<1>16. ASSUME NEW a \in 1..n, a >= q, NEW p \in 2..n, Above(p) = a
       PROVE  /\ DueFirst(r, a) \in 1..n /\ DueFirst(r, a) # q
              /\ Due(l, DueFirst(r, a)) <= Due(l, p)
  <2>1. PICK c : c = DueFirst(r, a)
    OBVIOUS
  <2>2. (p = 2 * a \/ p = 2 * a + 1) /\ 2 * a <= n
    <3>1. p \in Nat \ {0, 1} /\ p <= n
      OBVIOUS
    <3>2. p = 2 * a \/ p = 2 * a + 1
      BY <1>16, <3>1, AboveIs
    <3>3. a \in Nat
      OBVIOUS
    <3> QED BY ONLY <3>1, <3>2, <3>3
  <2>3. c \in {2 * a, 2 * a + 1} /\ c \in (a + 1)..n
    <3>1. a \in Nat \ {0}
      OBVIOUS
    <3> QED BY <1>8, <2>1, <2>2, <3>1, DueFirstIs
  <2>4. c \in 1..n /\ c # q
    BY <1>3, <1>16, <2>3
  <2>5. 2 * a \in 1..n /\ 2 * a # q
    BY <1>3, <1>16, <2>2
  <2>6. CASE 2 * a < n
    <3>1. 2 * a + 1 \in 1..n /\ 2 * a + 1 # q
      BY <1>3, <1>16, <2>6
    <3>2. PICK i \in Nat, j \in Nat : i = Due(l, 2 * a) /\ j = Due(l, 2 * a + 1)
      BY <1>12, <2>5, <3>1
    <3>3. i = r.stamp[r.heap[2 * a]] /\ j = r.stamp[r.heap[2 * a + 1]]
      BY <1>11, <2>5, <3>1, <3>2 DEF Due
    <3>4. c = IF i > j THEN 2 * a + 1 ELSE 2 * a
      BY <1>8, <2>1, <2>6, <3>3 DEF DueFirst
    <3>5. CASE i > j
      BY <2>1, <2>2, <2>4, <3>2, <3>4, <3>5
    <3>6. CASE ~(i > j)
      BY <2>1, <2>2, <2>4, <3>2, <3>4, <3>6
    <3> QED BY <3>5, <3>6
  <2>7. CASE ~(2 * a < n)
    <3>1. c = 2 * a /\ p = 2 * a
      BY <2>2, <2>3, <2>7
    <3>2. Due(l, c) \in Nat /\ c = p
      BY <1>12, <2>4, <3>1
    <3> QED BY <2>1, <2>4, <3>2
  <2> QED BY <2>6, <2>7
<1>17. ASSUME NEW p \in 2..n PROVE Due(e, Above(p)) <= Due(e, p)
  <2>1. PICK a : a = Above(p)
    OBVIOUS
  <2>2. a \in 1..(p - 1) /\ a \in 1..n /\ p \in 1..n
    <3>1. p \in Nat \ {0, 1}
      OBVIOUS
    <3> QED BY <2>1, <3>1, AboveIs
  <2>3. Due(l, a) <= Due(l, p) /\ Due(l, a) \in Nat /\ Due(l, p) \in Nat
    BY <1>12, <1>13, <2>1, <2>2
  <2>4. CASE p = to
    <3>1. Due(e, p) = k
      BY <1>15, <2>2, <2>4
    <3>2. CASE to = q
      <4>1. a \notin W /\ a # to
        BY <1>8, <2>2, <2>4, <3>2
      <4>2. Due(e, a) = Due(l, a)
        BY <1>15, <2>2, <4>1
      <4>3. q > 1
        BY <2>4, <3>2
      <4> QED BY <1>14, <2>1, <2>4, <3>1, <3>2, <4>2, <4>3
    <3>3. CASE to # q
      <4>1. a \in W /\ q <= a /\ a < to /\ q < to
        BY <1>8, <1>10, <2>1, <2>2, <2>4, <3>3
      <4>2. Due(e, a) = Due(l, to)
        BY <1>8, <1>15, <2>1, <2>2, <2>4, <4>1
      <4>3. k > Due(l, to)
        BY <1>8, <1>9, <1>11, <2>2, <2>4, <4>1
      <4> QED BY <1>5, <2>1, <2>3, <2>4, <3>1, <4>2, <4>3
    <3> QED BY <3>2, <3>3
  <2>5. CASE p \in W /\ q <= p /\ p < to
    <3>1. PICK c \in 1..n : Above(c) = p /\ c \in W /\ c > q /\ Due(e, p) = Due(l, c)
      BY <1>15, <2>2, <2>5
    <3>2. c \in 2..n /\ Due(l, p) <= Due(l, c) /\ Due(l, c) \in Nat
      <4>1. c \in 2..n
        BY <1>3, <3>1
      <4> QED BY <1>12, <1>13, <3>1, <4>1
    <3>3. CASE p = q
      <4>1. a \notin W /\ a # to
        BY <1>8, <2>2, <2>5, <3>3
      <4>2. Due(e, a) = Due(l, a)
        BY <1>15, <2>2, <4>1
      <4> QED BY <2>1, <2>3, <3>1, <3>2, <4>2
    <3>4. CASE p # q
      <4>1. a \in W /\ q <= a /\ a < to
        BY <1>8, <1>10, <2>1, <2>2, <2>5, <3>4
      <4>2. Due(e, a) = Due(l, p)
        BY <1>15, <2>1, <2>2, <2>5, <4>1
      <4> QED BY <2>1, <3>1, <3>2, <4>2
    <3> QED BY <3>3, <3>4
  <2>6. CASE p # to /\ ~(p \in W /\ q <= p /\ p < to)
    <3>1. Due(e, p) = Due(l, p)
      BY <1>15, <2>2, <2>6
    <3>2. CASE a = to
      <4>1. 2 * to <= n /\ to >= q
        <5>1. p \in Nat \ {0, 1}
          OBVIOUS
        <5>2. p = 2 * a \/ p = 2 * a + 1
          BY <2>1, <5>1, AboveIs
        <5> QED BY <1>8, <2>2, <3>2, <5>2
      <4>2. PICK c \in 1..n : c = DueFirst(r, to) /\ c # q /\ Due(l, c) <= Due(l, p)
        BY <1>16, <2>1, <2>2, <3>2, <4>1
      <4>3. k <= Due(l, c) /\ Due(l, c) \in Nat
        BY <1>9, <1>11, <1>12, <4>1, <4>2
      <4>4. Due(e, a) = k
        BY <1>15, <2>2, <3>2
      <4> QED BY <1>5, <2>1, <2>3, <3>1, <4>2, <4>3, <4>4
    <3>3. CASE a \in W /\ q <= a /\ a < to
      <4>1. PICK c \in 1..n : Above(c) = a /\ c \in W /\ c > q /\ Due(e, a) = Due(l, c)
        BY <1>15, <2>2, <3>3
      <4>2. c = DueFirst(r, a)
        <5>1. c # q
          BY <1>3, <4>1
        <5> QED BY <1>8, <4>1, <5>1
      <4>3. Due(l, c) <= Due(l, p)
        BY <1>16, <2>1, <2>2, <3>3, <4>2
      <4> QED BY <2>1, <3>1, <4>1, <4>3
    <3>4. CASE a # to /\ ~(a \in W /\ q <= a /\ a < to)
      BY <1>15, <2>1, <2>2, <2>3, <3>1, <3>4
    <3> QED BY <3>2, <3>3, <3>4
  <2> QED BY <2>4, <2>5, <2>6
<1> QED BY <1>7, <1>17 DEF InOrder

\* remove_, of any socket of the heap.
LEMMA DroppedKeeps ==
  ASSUME NEW l, IsList(l), NEW u \in Senders, l.loc[u] # 0, NEW e, e = Dropped(l, u)
  PROVE  /\ IsList(e) /\ Len(e.heap) = Len(l.heap) - 1 /\ e.loc[u] = 0 /\ e.stamp = l.stamp
         /\ l.loc[u] # 1 => Len(e.heap) > 0 /\ e.heap[1] = l.heap[1]
         /\ \A v \in Senders : e.loc[v] # 0 => l.loc[v] # 0
         /\ InOrder(l) /\ ~Misplaces(l, u) => InOrder(e)
<1>1. PICK m \in Nat : m = Len(l.heap)
  BY HeapIsBounded
<1>2. PICK q \in 1..m : q = l.loc[u]
  BY <1>1, FilledIs
<1>3. q # 1 => m - 1 > 0
  BY <1>2
<1>4. CASE q # m
  <2>1. PICK W, to : Drops(e, l, u, W, to)
    BY <1>1, <1>2, <1>4, DroppedIs
  <2>2. InOrder(l) /\ ~Misplaces(l, u) => InOrder(e)
    BY <1>1, <1>2, <1>4, <2>1, DropKeepsOrder
  <2> QED BY <1>1, <1>2, <1>3, <1>4, <2>1, <2>2, DropKeepsPlaces
<1>5. CASE q = m
  <2>1. PICK n \in Nat : n = m - 1 /\ n + 1 = m /\ n = Len(l.heap) - 1
    <3>1. m - 1 \in Nat /\ (m - 1) + 1 = m
      BY <1>2
    <3> QED BY <1>1, <3>1
  <2>2. l.heap[m] = u
    <3>1. m \in 1..Len(l.heap) /\ l.loc[u] = m
      BY <1>1, <1>2, <1>5
    <3> QED BY <3>1 DEF IsList
  <2>3. e = [Filled(l, u) EXCEPT !.loc[u] = 0]
    <3>1. l.loc[u] = (Len(l.heap) - 1) + 1
      BY <1>1, <1>2, <1>5, <2>1
    <3>2. Dropped(l, u) = [Filled(l, u) EXCEPT !.loc[u] = 0]
      BY ONLY <3>1 DEF Dropped, Filled
    <3> QED BY <3>2
  <2>4. PICK r : r = Filled(l, u)
    OBVIOUS
  <2>5. e.heap = r.heap /\ e.stamp = l.stamp /\ e.loc = [l.loc EXCEPT ![u] = 0]
    <3>1. r.loc = [l.loc EXCEPT ![u] = q] /\ r.stamp = l.stamp
      BY <1>1, <1>2, <2>1, <2>2, <2>4 DEF Filled
    <3>2. e.heap = r.heap /\ e.stamp = r.stamp /\ e.loc = [r.loc EXCEPT ![u] = 0]
      BY <2>3, <2>4 DEF Filled
    <3>3. l.loc \in [Senders -> Nat]
      BY DEF IsList
    <3> QED BY ONLY <3>1, <3>2, <3>3
  <2>6. /\ r.heap \in Seq(Senders) /\ Len(r.heap) = n /\ \A p \in 1..n : p # q => r.heap[p] = l.heap[p]
    BY <1>1, <1>2, <2>1, <2>4, FilledIs
  <2>7. \A p \in 1..n : e.heap[p] = l.heap[p] /\ p \in 1..m /\ p # q
    <3>1. \A p \in 1..n : p # q /\ p \in 1..m
      BY <1>5, <2>1
    <3> QED BY <2>5, <2>6, <3>1
  <2>8. l.loc \in [Senders -> Nat] /\ e.loc[u] = 0 /\ \A v \in Senders : v # u => e.loc[v] = l.loc[v]
    BY <2>5 DEF IsList
  <2>9. ASSUME NEW v \in Senders
        PROVE  e.loc[v] \in 0..n /\ \A p \in 1..n : e.heap[p] = v <=> e.loc[v] = p
    <3>1. CASE v = u
      <4>1. \A p \in 1..n : l.heap[p] # u
        BY <1>1, <1>2, <2>7 DEF IsList
      <4>2. e.loc[v] = 0 /\ \A p \in 1..n : p # 0
        BY <2>8, <3>1
      <4> QED BY <2>7, <3>1, <4>1, <4>2
    <3>2. CASE v # u
      <4>1. l.loc[v] \in 0..m /\ \A p \in 1..m : l.heap[p] = v <=> l.loc[v] = p
        BY <1>1 DEF IsList
      <4>2. l.loc[v] # m
        BY <1>2, <2>2, <3>2, <4>1
      <4>3. e.loc[v] = l.loc[v] /\ l.loc[v] \in 0..n
        BY <2>1, <2>8, <3>2, <4>1, <4>2
      <4> QED BY <2>7, <4>1, <4>3
    <3> QED BY <3>1, <3>2
  <2>10. IsList(e)
    <3>1. e.loc \in [Senders -> Nat] /\ e.stamp \in [Senders -> Nat \ {0}] /\ e.heap \in Seq(Senders)
      BY <2>5, <2>6, <2>8 DEF IsList
    <3> QED BY <2>5, <2>6, <2>9, <3>1 DEF IsList
  <2>11. ASSUME InOrder(l) PROVE InOrder(e)
    <3> SUFFICES ASSUME NEW p \in 2..n PROVE Due(e, Above(p)) <= Due(e, p)
      BY <2>5, <2>6 DEF InOrder
    <3>1. p \in Nat \ {0, 1} /\ p \in 2..m /\ p \in 1..n
      BY <2>1
    <3>2. Above(p) \in 1..n
      BY <3>1, AboveIs
    <3>3. Due(l, Above(p)) <= Due(l, p)
      BY <1>1, <2>11, <3>1 DEF InOrder
    <3> QED BY <2>5, <2>7, <3>1, <3>2, <3>3 DEF Due
  <2>12. q # 1 => n > 0 /\ e.heap[1] = l.heap[1]
    <3>1. q # 1 => 1 \in 1..n
      BY <1>2, <1>5, <2>1
    <3> QED BY <2>7, <3>1
  <2>13. Len(e.heap) = n
    BY <2>5, <2>6
  <2>14. \A v \in Senders : e.loc[v] # 0 => l.loc[v] # 0
    BY <2>8
  <2> QED BY <1>2, <2>1, <2>5, <2>8, <2>10, <2>11, <2>12, <2>13, <2>14
<1> QED BY <1>4, <1>5

\* insert_, of a socket that is not in the heap.
LEMMA InsertedKeeps ==
  ASSUME NEW l, IsList(l), NEW u \in Senders, l.loc[u] = 0, NEW ts \in Nat \ {0},
         NEW e, e = Inserted(l, u, ts)
  PROVE  /\ IsList(e) /\ Len(e.heap) = Len(l.heap) + 1 /\ e.loc[u] # 0 /\ e.stamp[u] = ts
         /\ e.loc[u] # 1 => Len(l.heap) > 0 /\ e.heap[1] = l.heap[1] /\ e.stamp[e.heap[1]] = l.stamp[l.heap[1]]
         /\ InOrder(l) => InOrder(e)
<1>1. PICK P, top : Inserts(e, l, u, ts, P, top)
  BY InsertedIs
<1>2. /\ IsList(e) /\ Len(e.heap) = Len(l.heap) + 1 /\ e.loc[u] = top /\ e.stamp[u] = ts
      /\ top # 1 => Len(l.heap) > 0 /\ e.heap[1] = l.heap[1]
  BY <1>1, InsertKeepsPlaces
<1>3. InOrder(l) => InOrder(e)
  BY <1>1, InsertKeepsOrder
<1>4. top # 0
  BY <1>1 DEF Inserts, OnWay
<1>5. ASSUME top # 1 PROVE e.stamp[e.heap[1]] = l.stamp[l.heap[1]]
  <2>1. 1 \in 1..Len(l.heap)
    BY <1>2, <1>5, HeapIsBounded
  <2>2. PICK v \in Senders : v = l.heap[1] /\ l.loc[v] = 1
    BY <2>1, HeapIsBounded
  <2>3. e.stamp = [l.stamp EXCEPT ![u] = ts] /\ l.stamp \in [Senders -> Nat \ {0}]
    BY <1>1 DEF Inserts, IsList
  <2>4. v # u
    BY <2>2
  <2>5. e.stamp[v] = l.stamp[v]
    BY <2>3, <2>4
  <2> QED BY <1>2, <1>5, <2>2, <2>5
<1> QED BY <1>2, <1>3, <1>4, <1>5

\* The root is due first.
LEMMA RootIsFirst ==
  ASSUME NEW l, IsList(l), InOrder(l), NEW p \in 1..Len(l.heap)
  PROVE  Due(l, 1) <= Due(l, p)
<1>1. PICK n \in Nat : n = Len(l.heap)
  BY HeapIsBounded
<1> DEFINE bad == {j \in 1..n : ~(Due(l, 1) <= Due(l, j))}
<1> SUFFICES ASSUME bad # {} PROVE FALSE
  BY <1>1
<1>2. PICK j \in bad : \A i \in bad : j <= i
  <2>1. bad \in SUBSET Nat
    OBVIOUS
  <2> HIDE DEF bad
  <2> QED BY <2>1, LeastNatural
<1>3. \A i \in 1..n : Due(l, i) \in Nat
  BY <1>1, HeapIsBounded
<1>4. j # 1 /\ j \in 1..n /\ 1 \in 1..n
  <2>1. 1 \in 1..n /\ j \in 1..n
    BY <1>2
  <2> QED BY <1>2, <1>3, <2>1
<1>5. PICK a : a = Above(j)
  OBVIOUS
<1>6. a \in 1..(j - 1) /\ a \in 1..n
  <2>1. j \in Nat \ {0, 1}
    BY <1>4
  <2> QED BY <1>4, <1>5, <2>1, AboveIs
<1>7. Due(l, a) <= Due(l, j)
  <2>1. j \in 2..n
    BY <1>4
  <2> QED BY <1>1, <1>5, <2>1 DEF InOrder
<1>8. a \notin bad
  BY <1>2, <1>4, <1>6
<1> QED BY <1>2, <1>3, <1>4, <1>6, <1>7, <1>8


-----------------------------------------------------------------------------
(***************************************************************************)
(* UdtSndQueue: the invariant                                              *)
(***************************************************************************)
SndQueueTypes ==
  /\ sndTime \in Nat \ {0} /\ sched \in Nat
  /\ sndWorker \in [at : {"top", "empty", "due", "pop", "asleep", "waiting", "ended"}, ts : Nat]
  /\ sndClosing \in BOOLEAN /\ misplaced \in BOOLEAN /\ missedCall \in BOOLEAN

\* The time that the worker has read is not later than that of the root, unless it was told since.
ReadsTheFirst ==
  sndWorker.at = "due" /\ heap # <<>> /\ stamp[heap[1]] < sndWorker.ts => missedCall \/ misplaced

SndQueueInv ==
  /\ SndQueueTypes /\ IsList(List) /\ (~misplaced => InOrder(List))
  /\ ReadsTheFirst /\ OversleepsOnlyInRace /\ IdleWithoutWork


\* What is said of a list depends on its three fields.
LEMMA FieldsDecide ==
  ASSUME NEW a, NEW b, a.heap = b.heap, a.loc = b.loc, a.stamp = b.stamp
  PROVE  (IsList(a) => IsList(b)) /\ (InOrder(a) => InOrder(b))
<1>1. \A p : Due(a, p) = Due(b, p)
  BY DEF Due
<1> QED BY <1>1 DEF IsList, InOrder

\* The heap of a list is empty or has a root, which has a time.
LEMMA RootHasTime ==
  ASSUME NEW l, IsList(l), l.heap # <<>>
  PROVE  /\ Len(l.heap) \in Nat \ {0} /\ 1 \in 1..Len(l.heap) /\ l.heap[1] \in Senders
         /\ l.loc[l.heap[1]] = 1 /\ l.stamp[l.heap[1]] \in Nat \ {0}
<1>1. Len(l.heap) \in Nat \ {0}
  BY DEF IsList
<1>2. 1 \in 1..Len(l.heap)
  BY <1>1
<1>3. l.heap[1] \in Senders /\ l.loc[l.heap[1]] = 1 /\ Due(l, 1) \in Nat \ {0}
  BY <1>2, HeapIsBounded
<1> QED BY <1>1, <1>2, <1>3 DEF Due

\* In an empty heap no socket has a place.
LEMMA EmptyHasNoPlaces ==
  ASSUME NEW l, IsList(l), l.heap = <<>>, NEW u \in Senders
  PROVE  l.loc[u] = 0 /\ Len(l.heap) = 0
<1>1. Len(l.heap) = 0
  OBVIOUS
<1>2. l.loc[u] \in 0..Len(l.heap)
  BY DEF IsList
<1> QED BY <1>1, <1>2

\* A change of the heap cuts the sleep short, or leaves a root that is due no earlier.
LEMMA CallsAreTold ==
  ASSUME SndQueueInv, NEW e, IsList(e), SetList(e), NEW is \in BOOLEAN, Interrupt(is),
         sndTime' = sndTime, misplaced => misplaced',
         sndWorker' = sndWorker \/ sndWorker' = Woken(TRUE) \/ sndWorker' = [at |-> "top", ts |-> 0],
         is \/ misplaced' \/ heap' = <<>> \/ (heap # <<>> /\ stamp[heap[1]] <= stamp'[heap'[1]])
  PROVE  ReadsTheFirst' /\ OversleepsOnlyInRace'
<1>1. sndWorker'.at \in {"due", "asleep"} => sndWorker' = sndWorker
  BY DEF Woken, SndQueueInv, SndQueueTypes
<1>2. heap # <<>> => stamp[heap[1]] \in Nat
  BY RootHasTime DEF SndQueueInv, List
<1>3. heap' # <<>> => stamp'[heap'[1]] \in Nat
  BY RootHasTime DEF SetList
<1>4. sndTime \in Nat /\ sched \in Nat /\ sndWorker.ts \in Nat /\ missedCall \in BOOLEAN
  BY DEF SndQueueInv, SndQueueTypes
<1>5. ASSUME sndWorker'.at = "due", heap' # <<>>, stamp'[heap'[1]] < sndWorker'.ts
      PROVE  missedCall' \/ misplaced'
  <2>1. CASE is
    BY <1>1, <1>5, <2>1 DEF Interrupt
  <2>2. CASE ~is /\ ~misplaced'
    <3>1. heap # <<>> /\ stamp[heap[1]] <= stamp'[heap'[1]]
      BY <1>5, <2>2
    <3>2. stamp[heap[1]] < sndWorker.ts
      BY <1>1, <1>2, <1>3, <1>4, <1>5, <3>1
    <3>3. missedCall \/ misplaced
      BY <1>1, <1>5, <3>1, <3>2 DEF SndQueueInv, ReadsTheFirst
    <3> QED BY <3>3 DEF Interrupt
  <2> QED BY <2>1, <2>2
<1>6. ASSUME sndWorker'.at = "asleep", heap' # <<>>, stamp'[heap'[1]] < sched', sndTime' < sched'
      PROVE  missedCall' \/ misplaced'
  <2>1. ~is
    BY <1>4, <1>6 DEF Interrupt
  <2>2. CASE ~misplaced'
    <3>1. heap # <<>> /\ stamp[heap[1]] <= stamp'[heap'[1]] /\ sched' = sched
      BY <1>6, <2>1, <2>2 DEF Interrupt
    <3>2. stamp[heap[1]] < sched /\ sndTime < sched
      BY <1>2, <1>3, <1>4, <1>6, <3>1
    <3>3. missedCall \/ misplaced
      BY <1>1, <1>6, <3>1, <3>2 DEF SndQueueInv, OversleepsOnlyInRace
    <3> QED BY <3>3 DEF Interrupt
  <2> QED BY <2>2
<1> QED BY <1>5, <1>6 DEF ReadsTheFirst, OversleepsOnlyInRace


\* After SetList the list is what was set.
LEMMA ListIsSet ==
  ASSUME NEW e, SetList(e)
  PROVE  (IsList(e) => IsList(List)') /\ (InOrder(e) => InOrder(List)')
<1>1. PICK b : b = List'
  OBVIOUS
<1>2. b.heap = e.heap /\ b.loc = e.loc /\ b.stamp = e.stamp
  BY <1>1 DEF SetList, List
<1>3. (IsList(e) => IsList(b)) /\ (InOrder(e) => InOrder(b))
  BY <1>2, FieldsDecide
<1> QED BY <1>1, <1>3

\* A change of the heap keeps the types.
LEMMA CallsKeepTypes ==
  ASSUME SndQueueInv, NEW is, Interrupt(is), sndTime' = sndTime, misplaced' \in BOOLEAN,
         sndClosing' = sndClosing,
         sndWorker' = sndWorker \/ sndWorker' = Woken(TRUE) \/ sndWorker' = [at |-> "top", ts |-> 0]
  PROVE  SndQueueTypes'
<1>1. sndWorker' \in [at : {"top", "empty", "due", "pop", "asleep", "waiting", "ended"}, ts : Nat]
  BY DEF SndQueueInv, SndQueueTypes, Woken
<1>2. sched' \in Nat /\ missedCall' \in BOOLEAN
  BY DEF SndQueueInv, SndQueueTypes, Interrupt
<1> QED BY <1>1, <1>2 DEF SndQueueInv, SndQueueTypes

\* A caller that takes u out, if it is in the heap, keeps the rest in place and in order.
LEMMA WithoutKeeps ==
  ASSUME NEW l, IsList(l), NEW u \in Senders,
         NEW e, e = IF l.loc[u] = 0 THEN l ELSE Dropped(l, u)
  PROVE  /\ IsList(e) /\ e.loc[u] = 0 /\ e.stamp = l.stamp
         /\ InOrder(l) /\ ~Misplaces(l, u) => InOrder(e)
         /\ l.loc[u] # 1 /\ e.heap # <<>> => l.heap # <<>> /\ e.heap[1] = l.heap[1]
         /\ l.heap = <<>> => e.heap = <<>>
<1>1. CASE l.loc[u] = 0
  BY <1>1
<1>2. CASE l.loc[u] # 0
  <2>1. e = Dropped(l, u)
    BY <1>2
  <2>2. /\ IsList(e) /\ Len(e.heap) = Len(l.heap) - 1 /\ e.loc[u] = 0 /\ e.stamp = l.stamp
        /\ l.loc[u] # 1 => Len(e.heap) > 0 /\ e.heap[1] = l.heap[1]
        /\ InOrder(l) /\ ~Misplaces(l, u) => InOrder(e)
    BY <1>2, <2>1, DroppedKeeps
  <2>3. l.heap # <<>>
    BY <1>2, EmptyHasNoPlaces
  <2> QED BY <1>2, <2>2, <2>3
<1> QED BY <1>1, <1>2

\* Once the root is taken out, the next one is due no earlier.
LEMMA NextIsLater ==
  ASSUME NEW l, IsList(l), InOrder(l), NEW u \in Senders, l.loc[u] # 0,
         NEW e, e = Dropped(l, u), e.heap # <<>>
  PROVE  l.stamp[l.heap[1]] <= e.stamp[e.heap[1]]
<1>1. IsList(e) /\ e.stamp = l.stamp /\ \A v \in Senders : e.loc[v] # 0 => l.loc[v] # 0
  BY DroppedKeeps
<1>2. PICK v \in Senders : v = e.heap[1] /\ e.loc[v] = 1
  BY <1>1, RootHasTime
<1>3. l.loc[v] # 0 /\ l.loc[v] \in 0..Len(l.heap)
  BY <1>1, <1>2 DEF IsList
<1>4. PICK p \in 1..Len(l.heap) : p = l.loc[v]
  <2>1. Len(l.heap) \in Nat
    BY HeapIsBounded
  <2> QED BY <1>3, <2>1
<1>5. l.heap[p] = v
  BY <1>4 DEF IsList
<1>6. Due(l, 1) <= Due(l, p)
  BY RootIsFirst
<1> QED BY <1>1, <1>2, <1>5, <1>6 DEF Due


\* Init.
LEMMA SndQueueInitInv == SndQueueInit => SndQueueInv
<1> SUFFICES ASSUME SndQueueInit PROVE SndQueueInv
  OBVIOUS
<1>1. PICK h \in SndHeaps :
        /\ heap = [p \in 1..Len(h) |-> p]
        /\ heapLoc = [u \in Senders |-> IF u <= Len(h) THEN u ELSE 0]
        /\ stamp = [u \in Senders |-> IF u <= Len(h) THEN h[u] ELSE 1]
  BY DEF SndQueueInit
<1>2. PICK n : n = Len(h)
  OBVIOUS
<1>3. /\ n \in Nat /\ h \in [1..n -> Nat \ {0}] /\ n <= Cardinality(Senders)
      /\ \A p \in 2..n : h[Above(p)] <= h[p]
  BY <1>2, SndQueueAssumption DEF Above
<1>4. /\ Cardinality(Senders) \in Nat /\ \A p \in 1..n : p \in Senders /\ p \in Nat
      /\ \A u \in Senders : u \in Nat \ {0}
  BY <1>3, SndQueueAssumption
<1>5. heap \in Seq(Senders) /\ Len(heap) = n /\ \A p \in 1..n : heap[p] = p
  <2>1. heap \in [1..n -> Senders]
    BY <1>1, <1>2, <1>4
  <2>2. heap \in Seq(Senders) /\ DOMAIN heap = 1..n
    BY <1>3, <2>1
  <2>3. Len(heap) = n
    BY <1>3, <2>2
  <2> QED BY <1>1, <1>2, <2>2, <2>3
<1>6. \A u \in Senders : (u \in 1..n => heapLoc[u] = u) /\ (u \notin 1..n => heapLoc[u] = 0)
  BY <1>1, <1>2, <1>3, <1>4
<1>7. stamp \in [Senders -> Nat \ {0}] /\ heapLoc \in [Senders -> Nat] /\ \A p \in 1..n : stamp[p] = h[p]
  BY <1>1, <1>2, <1>3, <1>4
<1>8. IsList(List)
  <2>1. ASSUME NEW v \in Senders PROVE heapLoc[v] \in 0..n /\ \A p \in 1..n : heap[p] = v <=> heapLoc[v] = p
    BY <1>3, <1>4, <1>5, <1>6
  <2> QED BY <1>5, <1>7, <2>1 DEF IsList, List
<1>9. InOrder(List)
  <2> SUFFICES ASSUME NEW p \in 2..n PROVE stamp[heap[Above(p)]] <= stamp[heap[p]]
    BY <1>5 DEF InOrder, List, Due
  <2>1. p \in Nat \ {0, 1} /\ p \in 1..n
    BY <1>3
  <2>2. Above(p) \in 1..n
    BY <1>3, <2>1, AboveIs
  <2> QED BY <1>3, <1>5, <1>7, <2>1, <2>2
<1>10. /\ sndTime = 1 /\ sched = 0 /\ sndWorker = [at |-> "top", ts |-> 0]
       /\ sndClosing = FALSE /\ misplaced = FALSE /\ missedCall = FALSE
  BY DEF SndQueueInit
<1>11. sndWorker \in [at : {"top", "empty", "due", "pop", "asleep", "waiting", "ended"}, ts : Nat]
  BY <1>10
<1>12. SndQueueTypes
  <2>1. sndTime \in Nat \ {0} /\ sched \in Nat
    BY <1>10
  <2>2. sndClosing \in BOOLEAN /\ misplaced \in BOOLEAN /\ missedCall \in BOOLEAN
    BY <1>10, Zenon
  <2> QED BY ONLY <1>11, <2>1, <2>2 DEF SndQueueTypes
<1>13. sndWorker.at = "top"
  BY <1>10
<1>14. ReadsTheFirst /\ OversleepsOnlyInRace /\ IdleWithoutWork
  BY ONLY <1>13 DEF ReadsTheFirst, OversleepsOnlyInRace, IdleWithoutWork
<1> QED BY <1>8, <1>9, <1>12, <1>14 DEF SndQueueInv

\* Update: send, an acknowledgement, a loss report or a timeout puts u in or brings it forward.
LEMMA UpdateKeepsInv ==
  ASSUME SndQueueInv, ~sndClosing, NEW u \in Senders, NEW reschedule \in BOOLEAN, Update(u, reschedule)
  PROVE  SndQueueInv'
<1>0. /\ IsList(List) /\ heapLoc[u] = List.loc[u] /\ sndTime' = sndTime /\ sndClosing' = sndClosing
      /\ misplaced \in BOOLEAN /\ Misplaces(List, u) \in BOOLEAN
  BY DEF SndQueueInv, SndQueueTypes, Update, List, Misplaces
<1>1. CASE /\ heapLoc[u] # 0 /\ ~reschedule
           /\ UNCHANGED <<heap, heapLoc, stamp, sched, missedCall, sndWorker, misplaced>>
  BY <1>0, <1>1
     DEF SndQueueInv, SndQueueTypes, List, ReadsTheFirst, OversleepsOnlyInRace, IdleWithoutWork
<1>2. CASE /\ heapLoc[u] = 1 /\ reschedule
           /\ stamp' = [stamp EXCEPT ![u] = 1]
           /\ Interrupt(TRUE)
           /\ UNCHANGED <<heap, heapLoc, sndWorker, misplaced>>
  <2>1. PICK l : l = List
    OBVIOUS
  <2>2. PICK e : e = [heap |-> l.heap, loc |-> l.loc, stamp |-> [l.stamp EXCEPT ![u] = 1]]
    OBVIOUS
  <2>3. e.heap = l.heap /\ e.loc = l.loc /\ e.stamp = [l.stamp EXCEPT ![u] = 1] /\ IsList(l) /\ l.loc[u] = 1
    BY <1>0, <1>2, <2>1, <2>2
  <2>4. IsList(e)
    BY <2>3 DEF IsList
  <2>5. SetList(e)
    BY <1>2, <2>1, <2>3 DEF SetList, List
  <2>6. ASSUME InOrder(l) PROVE InOrder(e)
    <3> SUFFICES ASSUME NEW p \in 2..Len(l.heap) PROVE Due(e, Above(p)) <= Due(e, p)
      BY <2>3 DEF InOrder
    <3>1. Len(l.heap) \in Nat
      BY <2>3, HeapIsBounded
    <3>2. p \in Nat \ {0, 1} /\ p \in 1..Len(l.heap)
      BY <3>1
    <3>3. PICK a \in 1..Len(l.heap) : a = Above(p)
      BY <3>1, <3>2, AboveIs
    <3>4. l.heap[p] \in Senders /\ l.heap[a] \in Senders /\ l.heap[p] # u
      BY <2>3, <3>1, <3>2, HeapIsBounded
    <3>5. Due(l, a) <= Due(l, p) /\ Due(l, p) \in Nat \ {0} /\ Due(l, p) = Due(e, p)
      BY <2>3, <2>6, <3>2, <3>3, <3>4, HeapIsBounded DEF InOrder, Due, IsList
    <3>6. Due(e, a) = 1 \/ Due(e, a) = Due(l, a)
      BY <2>3, <3>4 DEF Due, IsList
    <3> QED BY <3>3, <3>5, <3>6
  <2>7. misplaced' = misplaced /\ (~misplaced' => InOrder(e))
    BY <1>2, <2>1, <2>6 DEF SndQueueInv
  <2>8. SndQueueTypes'
    BY <1>0, <1>2, <2>7, CallsKeepTypes
  <2>9. ReadsTheFirst' /\ OversleepsOnlyInRace'
    BY <1>0, <1>2, <2>4, <2>5, CallsAreTold
  <2>10. IdleWithoutWork'
    BY <1>0, <1>2 DEF SndQueueInv, IdleWithoutWork
  <2> QED BY <2>4, <2>5, <2>7, <2>8, <2>9, <2>10, ListIsSet DEF SndQueueInv
<1>3. CASE /\ heapLoc[u] = 0 \/ (heapLoc[u] # 1 /\ reschedule)
           /\ LET without == IF heapLoc[u] = 0 THEN List ELSE Dropped(List, u)
                  with    == Inserted(without, u, 1)
              IN  /\ SetList(with)
                  /\ Interrupt(with.loc[u] = 1 \/ (heapLoc[u] # 0 /\ Len(without.heap) = 1))
                  /\ sndWorker' = Woken(Len(with.heap) = 1)
           /\ misplaced' = (misplaced \/ Misplaces(List, u))
  <2>1. PICK l : l = List
    OBVIOUS
  <2>2. PICK o : o = IF heapLoc[u] = 0 THEN List ELSE Dropped(List, u)
    OBVIOUS
  <2>3. PICK e : e = Inserted(o, u, 1)
    OBVIOUS
  <2>4. PICK is \in BOOLEAN : is = (e.loc[u] = 1 \/ (heapLoc[u] # 0 /\ Len(o.heap) = 1))
    OBVIOUS
  <2>5. /\ SetList(e) /\ Interrupt(is) /\ sndWorker' = Woken(Len(e.heap) = 1)
        /\ misplaced' = (misplaced \/ Misplaces(l, u)) /\ l.loc[u] # 1
    BY <1>0, <1>3, <2>1, <2>2, <2>3, <2>4
  <2>6. /\ IsList(o) /\ o.loc[u] = 0 /\ o.stamp = l.stamp
        /\ InOrder(l) /\ ~Misplaces(l, u) => InOrder(o)
        /\ o.heap # <<>> => l.heap # <<>> /\ o.heap[1] = l.heap[1]
        /\ l.heap = <<>> => o.heap = <<>>
    BY <1>0, <2>1, <2>2, <2>5, WithoutKeeps
  <2>7. /\ IsList(e) /\ Len(e.heap) = Len(o.heap) + 1
        /\ e.loc[u] # 1 => Len(o.heap) > 0 /\ e.heap[1] = o.heap[1] /\ e.stamp[e.heap[1]] = o.stamp[o.heap[1]]
        /\ InOrder(o) => InOrder(e)
    BY <2>3, <2>6, InsertedKeeps
  <2>8. ~misplaced' => InOrder(e)
    BY <2>1, <2>5, <2>6, <2>7 DEF SndQueueInv
  <2>9. sndWorker' = sndWorker \/ sndWorker' = Woken(TRUE)
    BY <2>5 DEF Woken
  <2>10. is \/ (heap # <<>> /\ stamp[heap[1]] <= stamp'[heap'[1]])
    <3> SUFFICES ASSUME ~is PROVE heap # <<>> /\ stamp[heap[1]] <= stamp'[heap'[1]]
      OBVIOUS
    <3>0. e.loc[u] # 1
      BY ONLY <2>4, ~is, Zenon
    <3>1. o.heap # <<>> /\ e.heap[1] = o.heap[1] /\ e.stamp[e.heap[1]] = o.stamp[o.heap[1]]
      BY <2>7, <3>0
    <3>2. l.heap # <<>> /\ e.stamp[e.heap[1]] = l.stamp[l.heap[1]]
      BY <2>6, <3>1
    <3>3. l.stamp[l.heap[1]] \in Nat
      BY <1>0, <2>1, <3>2, RootHasTime
    <3> QED BY <2>1, <2>5, <3>2, <3>3 DEF SetList, List
  <2>11. ReadsTheFirst' /\ OversleepsOnlyInRace'
    BY <1>0, <2>5, <2>7, <2>9, <2>10, CallsAreTold
  <2>12. SndQueueTypes'
    BY <1>0, <2>5, <2>9, CallsKeepTypes
  <2>13. sndWorker'.at # "waiting"
    <3>1. CASE sndWorker.at = "waiting"
      <4>1. heap = <<>>
        BY <3>1 DEF SndQueueInv, IdleWithoutWork
      <4>2. Len(o.heap) = 0
        BY <2>1, <2>6, <4>1 DEF List
      <4> QED BY <2>5, <2>7, <3>1, <4>2 DEF Woken, SndQueueInv, SndQueueTypes
    <3>2. CASE sndWorker.at # "waiting"
      BY <2>5, <3>2 DEF Woken
    <3> QED BY <3>1, <3>2
  <2> QED BY <2>5, <2>7, <2>8, <2>11, <2>12, <2>13, ListIsSet DEF SndQueueInv, IdleWithoutWork
<1> QED BY <1>1, <1>2, <1>3 DEF Update


\* remove_, of a socket that is closed, from the list.
LEMMA TakeOutKeepsInv ==
  ASSUME SndQueueInv, ~sndClosing, NEW u \in Senders, TakeOut(u)
  PROVE  SndQueueInv'
<1>1. PICK l : l = List
  OBVIOUS
<1>2. PICK o : o = IF l.loc[u] = 0 THEN l ELSE Dropped(l, u)
  OBVIOUS
<1>3. PICK is \in BOOLEAN : is = (Len(o.heap) = 1)
  OBVIOUS
<1>4. /\ IsList(l) /\ sndTime' = sndTime /\ sndClosing' = sndClosing /\ sndWorker' = sndWorker
      /\ SetList(o) /\ Interrupt(is) /\ misplaced' = (misplaced \/ Misplaces(l, u))
      /\ misplaced \in BOOLEAN /\ Misplaces(l, u) \in BOOLEAN
  BY <1>1, <1>2, <1>3 DEF SndQueueInv, SndQueueTypes, TakeOut, List, Misplaces
<1>5. /\ IsList(o) /\ o.stamp = l.stamp
      /\ InOrder(l) /\ ~Misplaces(l, u) => InOrder(o)
      /\ l.loc[u] # 1 /\ o.heap # <<>> => l.heap # <<>> /\ o.heap[1] = l.heap[1]
      /\ l.heap = <<>> => o.heap = <<>>
  BY <1>2, <1>4, WithoutKeeps
<1>6. ~misplaced' => InOrder(l) /\ InOrder(o)
  BY <1>1, <1>4, <1>5 DEF SndQueueInv
<1>7. ASSUME ~misplaced', o.heap # <<>> PROVE l.heap # <<>> /\ l.stamp[l.heap[1]] <= o.stamp[o.heap[1]]
  <2>1. CASE l.loc[u] = 1
    <3>1. o = Dropped(l, u)
      BY <1>2, <2>1
    <3>2. l.heap # <<>>
      BY <1>4, <2>1, EmptyHasNoPlaces
    <3> QED BY <1>4, <1>6, <1>7, <2>1, <3>1, <3>2, NextIsLater
  <2>2. CASE l.loc[u] # 1
    <3>1. l.heap # <<>> /\ o.heap[1] = l.heap[1]
      BY <1>5, <1>7, <2>2
    <3>2. l.stamp[l.heap[1]] \in Nat
      BY <1>4, <3>1, RootHasTime
    <3> QED BY <1>5, <3>1, <3>2
  <2> QED BY <2>1, <2>2
<1>8. misplaced' \/ heap' = <<>> \/ (heap # <<>> /\ stamp[heap[1]] <= stamp'[heap'[1]])
  BY <1>1, <1>4, <1>7 DEF SetList, List
<1>9. ReadsTheFirst' /\ OversleepsOnlyInRace'
  BY <1>4, <1>5, <1>8, CallsAreTold
<1>10. SndQueueTypes'
  BY <1>4, CallsKeepTypes
<1>11. IdleWithoutWork'
  BY <1>1, <1>4, <1>5 DEF SndQueueInv, IdleWithoutWork, SetList, List
<1> QED BY <1>4, <1>5, <1>6, <1>9, <1>10, <1>11, ListIsSet DEF SndQueueInv

\* pop: the root leaves, and comes back with the time of its next packet.
LEMMA PopKeepsInv ==
  ASSUME SndQueueInv, NEW next \in {0} \union sndTime..MaxSndTime, Pop(next)
  PROVE  SndQueueInv'
<1>0. /\ IsList(List) /\ next \in Nat /\ misplaced' = misplaced /\ misplaced \in BOOLEAN
      /\ sndTime' = sndTime /\ sndClosing' = sndClosing /\ sndWorker' = [at |-> "top", ts |-> 0]
  BY SndQueueAssumption DEF SndQueueInv, SndQueueTypes, Pop, Move
<1>1. ReadsTheFirst' /\ OversleepsOnlyInRace' /\ IdleWithoutWork'
  <2>1. sndWorker'.at = "top"
    BY <1>0
  <2> QED BY ONLY <2>1 DEF ReadsTheFirst, OversleepsOnlyInRace, IdleWithoutWork
<1>2. CASE UNCHANGED <<heap, heapLoc, stamp, sched, sndCalls, missedCall>>
  <2>1. IsList(List)' /\ (~misplaced' => InOrder(List)')
    BY <1>0, <1>2 DEF SndQueueInv, List
  <2>2. SndQueueTypes'
    BY <1>0, <1>2 DEF SndQueueInv, SndQueueTypes
  <2> QED BY <1>1, <2>1, <2>2 DEF SndQueueInv
<1>3. CASE /\ heap # <<>>
           /\ LET without == Dropped(List, heap[1])
                  with    == IF next = 0 THEN without ELSE Inserted(without, heap[1], next)
              IN  /\ SetList(with)
                  /\ Interrupt(Len(without.heap) = 1 \/ (next # 0 /\ with.loc[heap[1]] = 1))
  <2>1. PICK l : l = List
    OBVIOUS
  <2>2. PICK u : u = l.heap[1]
    OBVIOUS
  <2>3. PICK o : o = Dropped(l, u)
    OBVIOUS
  <2>4. PICK e : e = IF next = 0 THEN o ELSE Inserted(o, u, next)
    OBVIOUS
  <2>5. PICK is : is = (Len(o.heap) = 1 \/ (next # 0 /\ e.loc[u] = 1))
    OBVIOUS
  <2>6. heap # <<>> /\ heap = l.heap /\ SetList(e) /\ Interrupt(is) /\ IsList(l)
    BY <1>0, <1>3, <2>1, <2>2, <2>3, <2>4, <2>5 DEF List
  <2>7. u \in Senders /\ l.loc[u] = 1
    BY <2>2, <2>6, RootHasTime
  <2>8. ~Misplaces(l, u)
    BY <2>7 DEF Misplaces
  <2>9. IsList(o) /\ o.loc[u] = 0 /\ (InOrder(l) => InOrder(o))
    BY <2>3, <2>6, <2>7, <2>8, DroppedKeeps
  <2>10. IsList(e) /\ (InOrder(o) => InOrder(e))
    <3>1. CASE next = 0
      BY <2>4, <2>9, <3>1
    <3>2. CASE next # 0
      <4>1. next \in Nat \ {0} /\ e = Inserted(o, u, next)
        BY <1>0, <2>4, <3>2
      <4> QED BY <2>7, <2>9, <4>1, InsertedKeeps
    <3> QED BY <3>1, <3>2
  <2>11. ~misplaced' => InOrder(e)
    BY <1>0, <2>1, <2>9, <2>10 DEF SndQueueInv
  <2>12. SndQueueTypes'
    BY <1>0, <2>6, CallsKeepTypes
  <2> QED BY <1>1, <2>6, <2>10, <2>11, <2>12, ListIsSet DEF SndQueueInv
<1> QED BY <1>2, <1>3 DEF Pop

\* The steps of the worker that leave the heap alone, the clock and the end.
LEMMA WorkerKeepsInv ==
  ASSUME SndQueueInv,
         CloseSndQueue \/ ReadNext \/ BeginSleep \/ EndSleep \/ WaitForWork \/ Tick
         \/ UNCHANGED sndQueueVars
  PROVE  SndQueueInv'
<1>1. UNCHANGED <<heap, heapLoc, stamp, misplaced>>
  BY DEF CloseSndQueue, ReadNext, BeginSleep, EndSleep, WaitForWork, Tick, sndQueueVars
<1>2. IsList(List)' /\ (~misplaced' => InOrder(List)')
  BY <1>1 DEF SndQueueInv, List
<1>3. heap # <<>> => stamp[heap[1]] \in Nat
  BY RootHasTime DEF SndQueueInv, List
<1>4. /\ sndTime \in Nat \ {0} /\ sched \in Nat /\ sndWorker.ts \in Nat
      /\ sndClosing \in BOOLEAN /\ missedCall \in BOOLEAN /\ misplaced \in BOOLEAN
  BY DEF SndQueueInv, SndQueueTypes
<1>5. CASE CloseSndQueue
  BY <1>1, <1>2, <1>3, <1>4, <1>5
     DEF SndQueueInv, SndQueueTypes, ReadsTheFirst, OversleepsOnlyInRace, IdleWithoutWork,
         CloseSndQueue, Woken
<1>6. CASE ReadNext
  <2>1. \/ sndWorker' = [at |-> "ended", ts |-> 0] \/ sndWorker' = [at |-> "empty", ts |-> 0]
        \/ heap # <<>> /\ sndWorker' = [at |-> "due", ts |-> stamp[heap[1]]]
    BY <1>6 DEF ReadNext, Move
  <2>2. missedCall' = FALSE /\ UNCHANGED <<heap, stamp, sndTime, sched, sndClosing, misplaced>>
    BY <1>6 DEF ReadNext
  <2>3. SndQueueTypes'
    <3>1. sndWorker' \in [at : {"top", "empty", "due", "pop", "asleep", "waiting", "ended"}, ts : Nat]
      BY <1>3, <2>1
    <3>2. missedCall' \in BOOLEAN
      BY <2>2
    <3> QED BY <1>4, <2>2, <3>1, <3>2 DEF SndQueueTypes
  <2>4. ReadsTheFirst' /\ OversleepsOnlyInRace' /\ IdleWithoutWork'
    <3>1. sndWorker'.at \in {"ended", "empty", "due"}
      BY <2>1
    <3>2. sndWorker'.at = "due" => heap # <<>> /\ sndWorker'.ts = stamp[heap[1]]
      BY <2>1
    <3>3. ReadsTheFirst'
      BY <1>3, <2>2, <3>2 DEF ReadsTheFirst
    <3> QED BY ONLY <3>1, <3>3 DEF OversleepsOnlyInRace, IdleWithoutWork
  <2> QED BY <1>2, <2>3, <2>4 DEF SndQueueInv
<1>7. CASE BeginSleep
  BY <1>1, <1>2, <1>3, <1>4, <1>7
     DEF SndQueueInv, SndQueueTypes, ReadsTheFirst, OversleepsOnlyInRace, IdleWithoutWork,
         BeginSleep, Move
<1>8. CASE EndSleep
  BY <1>1, <1>2, <1>3, <1>4, <1>8
     DEF SndQueueInv, SndQueueTypes, ReadsTheFirst, OversleepsOnlyInRace, IdleWithoutWork,
         EndSleep, Move
<1>9. CASE WaitForWork
  BY <1>1, <1>2, <1>3, <1>4, <1>9
     DEF SndQueueInv, SndQueueTypes, ReadsTheFirst, OversleepsOnlyInRace, IdleWithoutWork,
         WaitForWork, Move
<1>10. CASE Tick
  BY <1>1, <1>2, <1>3, <1>4, <1>10
     DEF SndQueueInv, SndQueueTypes, ReadsTheFirst, OversleepsOnlyInRace, IdleWithoutWork, Tick
<1>11. CASE UNCHANGED sndQueueVars
  BY <1>1, <1>2, <1>11
     DEF SndQueueInv, SndQueueTypes, ReadsTheFirst, OversleepsOnlyInRace, IdleWithoutWork,
         sndQueueVars
<1> QED BY <1>5, <1>6, <1>7, <1>8, <1>9, <1>10, <1>11

\* Every step keeps the invariant.
LEMMA SndQueueStep == SndQueueInv /\ [SndQueueNext]_sndQueueVars => SndQueueInv'
BY UpdateKeepsInv, TakeOutKeepsInv, PopKeepsInv, WorkerKeepsInv DEF SndQueueNext

\* What the invariant says of the heap and of the worker.
LEMMA SndQueueInvSays == SndQueueInv => FirstIsServed
<1> SUFFICES ASSUME SndQueueInv PROVE FirstIsServed
  OBVIOUS
<1>1. HeapKnowsPlaces
  BY DEF SndQueueInv, IsList, List, HeapKnowsPlaces
<1>2. HeapIsOrdered
  BY DEF SndQueueInv, InOrder, Due, List, HeapIsOrdered
<1> QED BY <1>1, <1>2 DEF SndQueueInv, FirstIsServed

\* The sending thread serves the socket that is due first, sleeps no longer than to its time
\* but for the race at the start of the sleep (and after a misplaced removal), and waits only
\* without work: for every number of sockets, every heap to start with and all times.
THEOREM FirstIsAlwaysServed == SndQueueSpec => []FirstIsServed
<1>1. SndQueueSpec => []SndQueueInv
  BY SndQueueInitInv, SndQueueStep, PTL DEF SndQueueSpec
<1> QED BY <1>1, SndQueueInvSays, PTL
=============================================================================
