----------------------------- MODULE UdtRcvQueue -----------------------------
(***************************************************************************)
(* CRcvUList, CHash and the part of CRcvQueue::worker that keeps them: the *)
(* connected sockets of a multiplexer, in a doubly linked list ordered by  *)
(* the time their timers were last looked at, and in a hash table by       *)
(* identifier.  Only the worker touches the two; other threads hand new    *)
(* sockets in through m_vNewEntry, and read m_bOnList to see whether a     *)
(* socket may be deleted.                                                  *)
(***************************************************************************)
EXTENDS Integers, Sequences, FiniteSets, SequencesExt

CONSTANTS
  Receivers,   \* identifiers of sockets, positive
  HashSize,    \* m_iHashSize
  Period,      \* timers are looked at when they were not for longer than this (100 ms)
  MaxRcvTime   \* bound: time

ASSUME RcvQueueAssumption ==
  Receivers \subseteq Nat \ {0} /\ IsFiniteSet(Receivers) /\ HashSize \in Nat \ {0} /\ Period \in Nat /\ MaxRcvTime \in Nat

None == 0

VARIABLES
  nextOf, prevOf,   \* m_pNext, m_pPrev
  firstOn, lastOn,  \* m_pUList, m_pLast
  seenAt,           \* m_llTimeStamp
  onList,           \* m_bOnList
  bucket,           \* m_pBucket, each a sequence of identifiers
  newEntry,         \* m_vNewEntry
  stage,            \* of a socket: new, serving (m_bConnected), over (m_bBroken or m_bClosing)
  rcvWorker,        \* where the worker is; the ctime it compares with; the socket it takes out
  rcvTime

listVars     == <<nextOf, prevOf, firstOn, lastOn, seenAt>>
rcvQueueVars == <<listVars, onList, bucket, newEntry, stage, rcvWorker, rcvTime>>

RcvQueueInit ==
  /\ nextOf = [u \in Receivers |-> None] /\ prevOf = [u \in Receivers |-> None]
  /\ firstOn = None /\ lastOn = None /\ seenAt = [u \in Receivers |-> 1]
  /\ onList = [u \in Receivers |-> FALSE] /\ bucket = [b \in 0..(HashSize - 1) |-> <<>>]
  /\ newEntry = <<>> /\ stage = [u \in Receivers |-> "new"]
  /\ rcvWorker = [at |-> "entries", ctime |-> 0, out |-> None] /\ rcvTime = 1

(***************************************************************************)
(* Other threads                                                           *)
(***************************************************************************)
\* The end of CUDT::connect, in a connect call or for an accepted socket.
StartServing(u) ==
  /\ stage[u] = "new" /\ stage' = [stage EXCEPT ![u] = "serving"]
  /\ onList' = [onList EXCEPT ![u] = TRUE]
  /\ newEntry' = Append(newEntry, u)
  /\ UNCHANGED <<listVars, bucket, rcvWorker, rcvTime>>

\* CUDT::close, a shutdown from the peer, or timers that have run out.
EndServing(u) ==
  /\ stage[u] = "serving" /\ stage' = [stage EXCEPT ![u] = "over"]
  /\ UNCHANGED <<listVars, onList, bucket, newEntry, rcvWorker, rcvTime>>

PassTime ==
  /\ rcvTime < MaxRcvTime /\ rcvTime' = rcvTime + 1
  /\ UNCHANGED <<listVars, onList, bucket, newEntry, stage, rcvWorker>>

(***************************************************************************)
(* CRcvUList and CHash                                                     *)
(***************************************************************************)
Hash(u)   == u % HashSize
Lookup(u) == \E i \in 1..Len(bucket[Hash(u)]) : bucket[Hash(u)][i] = u

ListInsert(u) ==
  /\ seenAt' = [seenAt EXCEPT ![u] = rcvTime]
  /\ lastOn' = u
  /\ IF firstOn = None
     THEN /\ firstOn' = u
          /\ nextOf' = [nextOf EXCEPT ![u] = None] /\ prevOf' = [prevOf EXCEPT ![u] = None]
     ELSE /\ firstOn' = firstOn
          /\ nextOf' = [nextOf EXCEPT ![u] = None, ![lastOn] = u]
          /\ prevOf' = [prevOf EXCEPT ![u] = lastOn]

ListRemove(u) ==
  /\ firstOn' = IF prevOf[u] = None THEN nextOf[u] ELSE firstOn
  /\ lastOn' = IF nextOf[u] = None THEN prevOf[u] ELSE lastOn
  /\ nextOf' = [v \in Receivers |-> IF v = u THEN None ELSE IF v = prevOf[u] THEN nextOf[u] ELSE nextOf[v]]
  /\ prevOf' = [v \in Receivers |-> IF v = u THEN None ELSE IF v = nextOf[u] THEN prevOf[u] ELSE prevOf[v]]
  /\ UNCHANGED seenAt

\* Mutant: the socket keeps its place.
ListUpdateInPlace(u) ==
  seenAt' = [seenAt EXCEPT ![u] = rcvTime] /\ UNCHANGED <<nextOf, prevOf, firstOn, lastOn>>

ListUpdate(u) ==
  /\ seenAt' = [seenAt EXCEPT ![u] = rcvTime]
  /\ IF nextOf[u] = None THEN UNCHANGED <<nextOf, prevOf, firstOn, lastOn>>
     ELSE /\ firstOn' = IF prevOf[u] = None THEN nextOf[u] ELSE firstOn
          /\ lastOn' = u
          /\ nextOf' = [v \in Receivers |-> IF v = u THEN None ELSE IF v = lastOn THEN u
                                            ELSE IF v = prevOf[u] THEN nextOf[u] ELSE nextOf[v]]
          /\ prevOf' = [v \in Receivers |-> IF v = u THEN lastOn ELSE IF v = nextOf[u] THEN prevOf[u]
                                            ELSE prevOf[v]]

(***************************************************************************)
(* CRcvQueue::worker                                                       *)
(***************************************************************************)
At(at) == rcvWorker' = [rcvWorker EXCEPT !.at = at]

TakeNewEntry ==
  /\ rcvWorker.at = "entries" /\ newEntry # <<>>
  /\ ListInsert(Head(newEntry))
  /\ bucket' = [bucket EXCEPT ![Hash(Head(newEntry))] = <<Head(newEntry)>> \o @]
  /\ newEntry' = Tail(newEntry)
  /\ UNCHANGED <<onList, stage, rcvWorker, rcvTime>>

\* A packet for u: processData or processCtrl, and checkTimers.
ReceiveFor(u) ==
  /\ rcvWorker.at = "entries" /\ newEntry = <<>>
  /\ IF Lookup(u) /\ stage[u] = "serving" THEN ListUpdate(u) ELSE UNCHANGED listVars
  /\ At("timers")
  /\ UNCHANGED <<onList, bucket, newEntry, stage, rcvTime>>

\* No packet, or a handshake.
ReceiveNothing ==
  /\ rcvWorker.at = "entries" /\ newEntry = <<>> /\ At("timers")
  /\ UNCHANGED <<listVars, onList, bucket, newEntry, stage, rcvTime>>

TimerCheck ==
  /\ rcvWorker.at = "timers"
  /\ rcvWorker' = [rcvWorker EXCEPT !.at = "list", !.ctime = rcvTime - Period]
  /\ UNCHANGED <<listVars, onList, bucket, newEntry, stage, rcvTime>>

IsDue == firstOn # None /\ seenAt[firstOn] < rcvWorker.ctime

CheckFirst ==
  /\ rcvWorker.at = "list" /\ IsDue /\ stage[firstOn] = "serving"
  /\ ListUpdate(firstOn)
  /\ UNCHANGED <<onList, bucket, newEntry, stage, rcvWorker, rcvTime>>

\* Three statements, between which another thread may look at m_bOnList.
Unhash ==
  /\ rcvWorker.at = "list" /\ IsDue /\ stage[firstOn] # "serving"
  /\ rcvWorker' = [rcvWorker EXCEPT !.at = "unlist", !.out = firstOn]
  /\ bucket' = [bucket EXCEPT ![Hash(firstOn)] = RemoveFirst(@, firstOn)]
  /\ UNCHANGED <<listVars, onList, newEntry, stage, rcvTime>>

Unlist ==
  /\ rcvWorker.at = "unlist"
  /\ IF onList[rcvWorker.out] THEN ListRemove(rcvWorker.out) ELSE UNCHANGED listVars
  /\ At("unflag")
  /\ UNCHANGED <<onList, bucket, newEntry, stage, rcvTime>>

Unflag ==
  /\ rcvWorker.at = "unflag"
  /\ onList' = [onList EXCEPT ![rcvWorker.out] = FALSE]
  /\ rcvWorker' = [rcvWorker EXCEPT !.at = "list", !.out = None]
  /\ UNCHANGED <<listVars, bucket, newEntry, stage, rcvTime>>

EndRound ==
  /\ rcvWorker.at = "list" /\ ~IsDue /\ At("entries")
  /\ UNCHANGED <<listVars, onList, bucket, newEntry, stage, rcvTime>>

RcvQueueNext ==
  \/ \E u \in Receivers : StartServing(u) \/ EndServing(u) \/ ReceiveFor(u)
  \/ PassTime \/ TakeNewEntry \/ ReceiveNothing \/ TimerCheck \/ CheckFirst
  \/ Unhash \/ Unlist \/ Unflag \/ EndRound

RcvQueueSpec == RcvQueueInit /\ [][RcvQueueNext]_rcvQueueVars

-----------------------------------------------------------------------------
\* The sockets found by following m_pNext from m_pUList.
Chain == LET from[n \in 0..Cardinality(Receivers)] ==
               IF n = 0 THEN <<>> ELSE
               LET c == from[n - 1]
                   v == IF c = <<>> THEN firstOn ELSE nextOf[Last(c)]
               IN  IF v = None THEN c ELSE Append(c, v)
         IN  from[Cardinality(Receivers)]

\* The pointers make one chain, the same both ways, from the first to the last.
RcvListIsChain ==
  /\ Chain = <<>> <=> lastOn = None
  /\ Chain # <<>> => /\ prevOf[Chain[1]] = None /\ Last(Chain) = lastOn /\ nextOf[lastOn] = None
                     /\ \A i \in 1..(Len(Chain) - 1) : prevOf[Chain[i + 1]] = Chain[i]

\* When a round ends nobody's timers have been left for longer than Period before the time
\* the check began, although only the front of the list is looked at.
NobodyIsForgotten ==
  rcvWorker.at = "list" /\ ~IsDue =>
    \A i \in 1..Len(Chain) : seenAt[Chain[i]] >= rcvWorker.ctime

\* A socket that another thread may delete (m_bOnList false) is not in the list, the table
\* or the queue of new entries, at any point of the worker; one that is looked up is listed.
UnlistedIsUnreachable ==
  \A u \in Receivers :
    /\ ~onList[u] => ~Contains(Chain, u) /\ ~Lookup(u) /\ ~Contains(newEntry, u)
    /\ Lookup(u) => Contains(Chain, u)

\* The receiving thread visits every socket it serves in time, and none that may be deleted.
EverySocketIsVisited == RcvListIsChain /\ NobodyIsForgotten /\ UnlistedIsUnreachable
=============================================================================
