----------------------------- MODULE UdtSndQueue -----------------------------
(***************************************************************************)
(* CSndUList and CSndQueue: the sockets with something to send, a heap     *)
(* ordered by the time of the next packet, and the one thread that waits   *)
(* for that time and sends.  Applications and the receiving thread put     *)
(* sockets in, or bring them forward, under m_ListLock; the wait itself    *)
(* (CTimer::sleepto) is cut short through m_ullSchedTime, without a lock.  *)
(*                                                                         *)
(* Positions are counted from 1.  Time is in ticks; time 1 means at once.  *)
(***************************************************************************)
EXTENDS Integers, Sequences, FiniteSets, FiniteSetsExt

CONSTANTS
  Senders,      \* sockets of the multiplexer, from 1
  SndHeaps,     \* times of the sockets 1, 2, ... in the heaps from which it starts
  MaxSndTime,   \* bound: time
  MaxSndCalls   \* bound: changes of the heap

ASSUME SndQueueAssumption ==
  /\ Cardinality(Senders) \in Nat /\ Senders = 1..Cardinality(Senders) /\ MaxSndTime \in Nat
  /\ \A h \in SndHeaps : /\ h \in Seq(Nat \ {0}) /\ Len(h) <= Cardinality(Senders)
                         /\ \A p \in 2..Len(h) : h[p \div 2] <= h[p]

VARIABLES
  heap,       \* m_pHeap up to m_iLastEntry
  heapLoc,    \* m_iHeapLoc, 0 when a socket is not in the heap
  stamp,      \* m_llTimeStamp
  sndTime,    \* the clock
  sched,      \* m_ullSchedTime
  sndWorker,  \* where CSndQueue::worker is, and the ts it has read
  sndClosing, \* m_bClosing
  sndCalls,   \* changes so far
  misplaced,  \* history: remove_ has put a socket below one that is due later
  missedCall  \* history: an interrupt came between the reading of ts and the sleep

sndQueueVars == <<heap, heapLoc, stamp, sndTime, sched, sndWorker, sndClosing, sndCalls,
                  misplaced, missedCall>>

SndQueueInit ==
  /\ \E h \in SndHeaps :
       /\ heap = [p \in 1..Len(h) |-> p]
       /\ heapLoc = [u \in Senders |-> IF u <= Len(h) THEN u ELSE 0]
       /\ stamp = [u \in Senders |-> IF u <= Len(h) THEN h[u] ELSE 1]
  /\ sndTime = 1 /\ sched = 0 /\ sndWorker = [at |-> "top", ts |-> 0]
  /\ sndClosing = FALSE /\ sndCalls = 0 /\ misplaced = FALSE /\ missedCall = FALSE

(***************************************************************************)
(* The heap: l is a record of heap, loc and stamp                          *)
(***************************************************************************)
Above(p) == p \div 2
\* Positions from p up to the root.
Ancestors == LET up[p \in 1..(Cardinality(Senders) + 1)] == IF p = 1 THEN {1} ELSE {p} \union up[Above(p)]
             IN  up

\* m_iHeapLoc when the sockets on the path from top on move down by one.
PlacesBelow(l, path, top) ==
  [v \in Senders |-> IF l.loc[v] \in path /\ l.loc[v] >= top
                     THEN CHOOSE r \in path : r > l.loc[v] /\ Above(r) = l.loc[v] ELSE l.loc[v]]

\* insert_, of a socket that is not in the heap.
Inserted(l, u, ts) ==
  LET last == Len(l.heap) + 1
      path == Ancestors[last]
      top  == Min({p \in path : \A r \in path : p <= r /\ r < last => l.stamp[l.heap[r]] > ts})
  IN  [heap  |-> [p \in 1..last |-> IF p = top THEN u
                                    ELSE IF p \in path /\ p > top THEN l.heap[Above(p)] ELSE l.heap[p]],
       loc   |-> [PlacesBelow(l, path, top) EXCEPT ![u] = top],
       stamp |-> [l.stamp EXCEPT ![u] = ts]]

\* The way down from q, to the child that is due first each time.
Descent(l, q) ==
  LET n == Len(l.heap)
      first(p) == IF 2 * p < n /\ l.stamp[l.heap[2 * p]] > l.stamp[l.heap[2 * p + 1]]
                  THEN 2 * p + 1 ELSE 2 * p
      way[p \in 1..(n + 1)] == {p} \union IF 2 * p > n THEN {} ELSE way[first(p)]
  IN  way[q]

\* remove_, of a socket of the heap: the last one takes its place and sinks from there.
Dropped(l, u) ==
  LET q    == l.loc[u]
      n    == Len(l.heap) - 1
      x    == l.heap[n + 1]
      rest == [heap |-> [p \in 1..n |-> IF p = q THEN x ELSE l.heap[p]],
               loc  |-> [l.loc EXCEPT ![x] = q], stamp |-> l.stamp]
      way  == Descent(rest, q)
      to   == Max({p \in way : \A r \in way : q < r /\ r <= p => l.stamp[x] > l.stamp[rest.heap[r]]})
      up   == {p \in way : q < p /\ p <= to}
      below(p) == CHOOSE r \in way : Above(r) = p
  IN  IF q = n + 1 THEN [rest EXCEPT !.loc[u] = 0]
      ELSE [heap  |-> [p \in 1..n |-> IF p = to THEN x
                                      ELSE IF p \in way /\ q <= p /\ p < to THEN rest.heap[below(p)]
                                      ELSE rest.heap[p]],
            loc   |-> [v \in Senders |-> IF v = u THEN 0 ELSE IF v = x THEN to
                                         ELSE IF l.loc[v] \in up THEN Above(l.loc[v]) ELSE l.loc[v]],
            stamp |-> l.stamp]

List == [heap |-> heap, loc |-> heapLoc, stamp |-> stamp]
SetList(l) == heap' = l.heap /\ heapLoc' = l.loc /\ stamp' = l.stamp

\* The hole left by u is filled with a socket that is due before the one above it.
Misplaces(l, u) ==
  LET q == l.loc[u] IN
  q # 0 /\ q < Len(l.heap) /\ q > 1 /\ l.stamp[l.heap[Len(l.heap)]] < l.stamp[l.heap[Above(q)]]

(***************************************************************************)
(* CTimer::interrupt and the signal to a worker without work               *)
(***************************************************************************)
\* Mutant: m_ullSchedTime is left alone.
InterruptNot(is) ==
  sched' = sched /\ missedCall' = (missedCall \/ (is /\ sndWorker.at = "due"))

Interrupt(is) ==
  /\ sched' = IF is THEN sndTime ELSE sched
  /\ missedCall' = (missedCall \/ (is /\ sndWorker.at = "due"))

\* The worker after pthread_cond_signal.
Woken(is) == IF is /\ sndWorker.at = "waiting" THEN [sndWorker EXCEPT !.at = "top"] ELSE sndWorker

CountCall == sndCalls < MaxSndCalls /\ sndCalls' = sndCalls + 1

(***************************************************************************)
(* The callers: send and ACK (reschedule false), NAK and EXP (true), close *)
(***************************************************************************)
Update(u, reschedule) ==
  /\ CountCall
  /\ \/ /\ heapLoc[u] # 0 /\ ~reschedule
        /\ UNCHANGED <<heap, heapLoc, stamp, sched, missedCall, sndWorker, misplaced>>
     \/ /\ heapLoc[u] = 1 /\ reschedule
        /\ stamp' = [stamp EXCEPT ![u] = 1]
        /\ Interrupt(TRUE)
        /\ UNCHANGED <<heap, heapLoc, sndWorker, misplaced>>
     \/ /\ heapLoc[u] = 0 \/ (heapLoc[u] # 1 /\ reschedule)
        /\ LET without == IF heapLoc[u] = 0 THEN List ELSE Dropped(List, u)
               with    == Inserted(without, u, 1)
           IN  /\ SetList(with)
               /\ Interrupt(with.loc[u] = 1 \/ (heapLoc[u] # 0 /\ Len(without.heap) = 1))
               /\ sndWorker' = Woken(Len(with.heap) = 1)
        /\ misplaced' = (misplaced \/ Misplaces(List, u))
  /\ UNCHANGED <<sndTime, sndClosing>>

TakeOut(u) ==
  /\ CountCall
  /\ LET without == IF heapLoc[u] = 0 THEN List ELSE Dropped(List, u)
     IN  SetList(without) /\ Interrupt(Len(without.heap) = 1)
  /\ misplaced' = (misplaced \/ Misplaces(List, u))
  /\ UNCHANGED <<sndTime, sndWorker, sndClosing>>

\* ~CSndQueue, once no socket is left in the multiplexer.
CloseSndQueue ==
  /\ ~sndClosing /\ heap = <<>> /\ sndClosing' = TRUE
  /\ sndWorker' = Woken(TRUE)
  /\ UNCHANGED <<heap, heapLoc, stamp, sndTime, sched, sndCalls, misplaced, missedCall>>

(***************************************************************************)
(* CSndQueue::worker                                                       *)
(***************************************************************************)
Move(at, ts) == sndWorker' = [at |-> at, ts |-> ts]

\* getNextProcTime.
ReadNext ==
  /\ sndWorker.at = "top"
  /\ IF sndClosing THEN Move("ended", 0)
     ELSE IF heap = <<>> THEN Move("empty", 0) ELSE Move("due", stamp[heap[1]])
  /\ missedCall' = FALSE
  /\ UNCHANGED <<heap, heapLoc, stamp, sndTime, sched, sndClosing, sndCalls, misplaced>>

\* The test of the time and the first statement of sleepto.
BeginSleep ==
  /\ sndWorker.at = "due"
  /\ IF sndTime < sndWorker.ts THEN Move("asleep", 0) /\ sched' = sndWorker.ts
     ELSE Move("pop", 0) /\ sched' = sched
  /\ UNCHANGED <<heap, heapLoc, stamp, sndTime, sndClosing, sndCalls, misplaced, missedCall>>

EndSleep ==
  /\ sndWorker.at = "asleep" /\ sndTime >= sched /\ Move("pop", 0)
  /\ UNCHANGED <<heap, heapLoc, stamp, sndTime, sched, sndClosing, sndCalls, misplaced, missedCall>>

\* pop: next is the time packData sets; 0 when it has no packet, or no next time, or when
\* the socket is not connected or is broken.
Pop(next) ==
  /\ sndWorker.at = "pop" /\ Move("top", 0)
  /\ \/ /\ IF heap = <<>> THEN TRUE ELSE sndTime < stamp[heap[1]]
        /\ next = 0
        /\ UNCHANGED <<heap, heapLoc, stamp, sched, sndCalls, missedCall>>
     \/ /\ heap # <<>> /\ sndTime >= stamp[heap[1]] /\ CountCall
        /\ LET without == Dropped(List, heap[1])
               with    == IF next = 0 THEN without ELSE Inserted(without, heap[1], next)
           IN  /\ SetList(with)
               /\ Interrupt(Len(without.heap) = 1 \/ (next # 0 /\ with.loc[heap[1]] = 1))
  /\ UNCHANGED <<sndTime, sndClosing, misplaced>>

WaitForWork ==
  /\ sndWorker.at = "empty"
  /\ IF ~sndClosing /\ heap = <<>> THEN Move("waiting", 0) ELSE Move("top", 0)
  /\ UNCHANGED <<heap, heapLoc, stamp, sndTime, sched, sndClosing, sndCalls, misplaced, missedCall>>

Tick ==
  /\ sndTime < MaxSndTime /\ sndTime' = sndTime + 1
  /\ UNCHANGED <<heap, heapLoc, stamp, sched, sndWorker, sndClosing, sndCalls, misplaced, missedCall>>

SndQueueNext ==
  \/ \E u \in Senders : \E reschedule \in BOOLEAN : ~sndClosing /\ Update(u, reschedule)
  \/ \E u \in Senders : ~sndClosing /\ TakeOut(u)
  \/ CloseSndQueue
  \/ ReadNext \/ BeginSleep \/ EndSleep \/ WaitForWork \/ Tick
  \/ \E next \in {0} \union sndTime..MaxSndTime : Pop(next)

SndQueueSpec == SndQueueInit /\ [][SndQueueNext]_sndQueueVars

-----------------------------------------------------------------------------
\* m_iHeapLoc of every socket is its place in the array, through every exchange.
HeapKnowsPlaces == \A u \in Senders : \A p \in 1..Len(heap) : heap[p] = u <=> heapLoc[u] = p

\* No socket stands below one that is due later, so that the root is the next; but remove_
\* only lets the socket that fills a hole sink, and with six sockets or more that one may
\* have to rise.
HeapIsOrdered == ~misplaced => \A p \in 2..Len(heap) : stamp[heap[Above(p)]] <= stamp[heap[p]]

\* The worker does not sleep on when a socket has come to the root with an earlier time,
\* unless it was told between getNextProcTime and sleepto, which then forgets it (or the root
\* was not the first to be due).
OversleepsOnlyInRace ==
  sndWorker.at = "asleep" /\ heap # <<>> /\ stamp[heap[1]] < sched /\ sndTime < sched
    => missedCall \/ misplaced

\* A worker that waits for work has none, and is not to end: the signal cannot come between
\* the test and the wait.
IdleWithoutWork == sndWorker.at = "waiting" => heap = <<>> /\ ~sndClosing

\* The sending thread serves the socket that is due first, sleeps no longer than to its time,
\* and waits only without work.
FirstIsServed == HeapKnowsPlaces /\ HeapIsOrdered /\ OversleepsOnlyInRace /\ IdleWithoutWork
=============================================================================
