------------------------------ MODULE UdtSockets ------------------------------
(***************************************************************************)
(* CUDTUnited: the sockets of a process from newSocket to removeSocket,    *)
(* the multiplexers (a UDP port with its two queues) they share, listeners *)
(* with their queues of connections, the receiving threads that make new   *)
(* connections, and the collector that takes away what is closed or        *)
(* broken.                                                                 *)
(*                                                                         *)
(* Every action is what the code does under m_ControlLock, or under the    *)
(* m_AcceptLock of a listener, or between two such locks.  Memory does not *)
(* run out, a call that has been woken or that is served by a thread is    *)
(* over within the second the collector waits, nothing puts a socket on a  *)
(* sending heap while CUDT::close takes it off, and cleanup is called when *)
(* no other call is running but accept, and no connection is being made.   *)
(***************************************************************************)
EXTENDS Integers, FiniteSets, FiniteSetsExt

CONSTANTS
  MaxSockets,    \* bound: sockets; identifiers count down, as m_SocketID does
  Ports,         \* UDP ports of the host
  Peers,         \* sockets elsewhere that connect: address, identifier and ISN
  BackLog,       \* m_uiBackLog
  Acceptors,     \* application threads that call accept
  Exclusive,     \* sockets that may have UDT_REUSEADDR off when they are bound
  AsyncSending,  \* sockets with UDT_SNDSYN = false, which linger in the background
  BrokenRounds,  \* m_iBrokenCounter (60 or 30)
  Unread,        \* sockets that may break with data that nobody has read
  Clients,       \* sockets whose application calls connect
  Listeners,     \* sockets whose application calls listen
  PortOf         \* the port that a peer's requests go to: an attempt has its ISN

ASSUME SocketsAssumption ==
  /\ MaxSockets \in Nat /\ BackLog \in Nat \ {0} /\ 0 \notin Ports /\ PortOf \in [Peers -> Ports]
  /\ IsFiniteSet(Acceptors) /\ BrokenRounds \in Nat /\ Clients \union Listeners \subseteq 1..MaxSockets

Ids == 1..MaxSockets

VARIABLES
  sockets,  \* CUDTSocket and CUDT of every identifier
  muxes,    \* m_mMultiplexer: ref is 0 when there is none
  seed,     \* m_SocketID
  workers,  \* where CRcvQueue::worker of a multiplexer is in newConnection
  accepts,  \* where an accept is
  closes,   \* sockets between CUDT::close and the last half of CUDTUnited::close
  gc,       \* running; clearing and ended after cleanup
  cookies   \* peers that have been given a cookie in this minute

socketVars == <<sockets, muxes, seed, workers, accepts, closes, gc, cookies>>
callVars   == <<workers, accepts, closes, gc, cookies>>

Fresh  == [place |-> "none", status |-> "init", opened |-> FALSE, broken |-> FALSE,
           closing |-> FALSE, connected |-> FALSE, onList |-> FALSE, onHeap |-> FALSE, old |-> TRUE,
           linger |-> "no", counter |-> 0, reuse |-> TRUE, mux |-> 0, listener |-> 0, peer |-> {},
           queue |-> {}, accepted |-> {}]
NoMux  == [ref |-> 0, port |-> 0, reusable |-> FALSE, listener |-> 0]
IdleWorker == [at |-> "idle", ls |-> 0, ns |-> 0]
IdleAccept == [at |-> "idle", ls |-> 0, u |-> 0]

SocketsInit ==
  /\ sockets = [i \in Ids |-> Fresh] /\ muxes = [i \in Ids |-> NoMux]
  /\ seed = MaxSockets + 1
  /\ workers = [i \in Ids |-> IdleWorker] /\ accepts = [t \in Acceptors |-> IdleAccept]
  /\ closes = {} /\ gc = "running" /\ cookies = {}

Listed(i)  == sockets[i].place = "listed"                      \* in m_Sockets
Located(i) == Listed(i) /\ sockets[i].status # "closed"
\* The application has the identifier: it made the socket, or accept has returned it.
Held(i) == /\ gc = "running" /\ Located(i) /\ i \notin closes
           /\ sockets[i].listener # 0 =>
                /\ i \in sockets[sockets[i].listener].accepted
                /\ \A t \in Acceptors : accepts[t].u # i

(***************************************************************************)
(* newSocket, bind, connect, listen                                        *)
(***************************************************************************)
\* reuse is UDT_REUSEADDR, which setOpt changes before bind.
NewSocket(reuse) ==
  /\ gc = "running" /\ seed - 1 \in Clients \union Listeners
  /\ reuse \/ seed - 1 \in Exclusive
  /\ seed' = seed - 1
  /\ sockets' = [sockets EXCEPT ![seed - 1].place = "listed", ![seed - 1].reuse = reuse]
  /\ UNCHANGED <<muxes, callVars>>

FreePorts == {p \in Ports : \A m \in Ids : muxes[m].ref > 0 => muxes[m].port # p}
Shared(i, port) == {m \in Ids : /\ sockets[i].reuse /\ muxes[m].ref > 0
                                /\ muxes[m].reusable /\ muxes[m].port = port}

\* updateMux(s, addr, udpsock): the multiplexer of another socket, or one of its own.
Join(i, m) ==
  /\ sockets' = [sockets EXCEPT ![i].mux = m, ![i].opened = TRUE, ![i].status = "opened"]
  /\ muxes' = [muxes EXCEPT ![m].ref = @ + 1]
Found(i, port, status, up) ==
  /\ sockets' = [sockets EXCEPT ![i].mux = i, ![i].opened = TRUE, ![i].status = status,
                                ![i].connected = up, ![i].onList = up]
  /\ muxes' = [muxes EXCEPT ![i] = [ref |-> 1, port |-> port, reusable |-> sockets[i].reuse,
                                    listener |-> 0]]

\* bind to a port, or with 0 to any: the port of a multiplexer that may be shared, a free
\* one; one that is taken is an error, and the socket stays as it is, but opened.
Bind(i, port) ==
  /\ Held(i) /\ sockets[i].status = "init"
  /\ \/ \E m \in Shared(i, port) : Join(i, m)
     \/ /\ Shared(i, port) = {}
        /\ \E p \in FreePorts : port \in {0, p} /\ Found(i, p, "opened", FALSE)
     \/ /\ Shared(i, port) = {} /\ port \in Ports \ FreePorts
        /\ sockets' = [sockets EXCEPT ![i].opened = TRUE] /\ muxes' = muxes
  /\ UNCHANGED <<seed, callVars>>

\* connect, which holds the socket's own lock throughout: the connection is set up, or is
\* not and the socket is back at OPENED.
Connect(i, up) ==
  /\ Held(i) /\ i \in Clients
  /\ \/ /\ sockets[i].status = "init"
        /\ \E p \in FreePorts : Found(i, p, IF up THEN "connected" ELSE "opened", up)
     \/ /\ sockets[i].status = "opened" /\ up
        /\ sockets' = [sockets EXCEPT ![i].status = "connected", ![i].connected = TRUE,
                                      ![i].onList = TRUE]
        /\ muxes' = muxes
  /\ UNCHANGED <<seed, callVars>>

\* listen: one socket of a multiplexer at most.
Listen(i) ==
  /\ Held(i) /\ i \in Listeners /\ sockets[i].status = "opened" /\ muxes[sockets[i].mux].listener = 0
  /\ sockets' = [sockets EXCEPT ![i].status = "listening"]
  /\ muxes' = [muxes EXCEPT ![sockets[i].mux].listener = i]
  /\ UNCHANGED <<seed, callVars>>

(***************************************************************************)
(* The receiving thread of a multiplexer: listen(addr, packet)             *)
(***************************************************************************)
Answers(m) == /\ muxes[m].ref > 0 /\ workers[m].at = "idle" /\ muxes[m].listener # 0
              /\ ~sockets[muxes[m].listener].closing

\* The requests of a peer arrive at the port it connects to.
Asks(p, m) == muxes[m].port = PortOf[p]

\* A first request is answered with a cookie made of the peer's address and the minute.
GiveCookie(m, p) ==
  /\ Answers(m) /\ Asks(p, m)
  /\ cookies' = cookies \union {<<p>>}
  /\ UNCHANGED <<sockets, muxes, seed, workers, accepts, closes, gc>>

\* Mutant: only what waits in the queue is known.
KnownWaiting(p) == {i \in Ids : /\ Listed(i) /\ sockets[i].peer = {p}
                                /\ i \in sockets[sockets[i].listener].queue}

\* locate(peer, id, isn): the first in the set of identifiers, which is the newest.
Known(p) == {i \in Ids : Listed(i) /\ sockets[i].peer = {p}}

KnownSocket(p) == Min(Known(p))

\* A second request, with a cookie of this minute: the text for the minute before is
\* appended to the text for this one, and matches no cookie.
Requests(m, p) == /\ Answers(m) /\ Asks(p, m) /\ <<p>> \in cookies /\ Located(muxes[m].listener)

\* A new socket for peer p, if the backlog allows.
Make(m, l, p) ==
  IF Cardinality(sockets[l].queue) < BackLog
  THEN /\ seed > 1 /\ seed' = seed - 1
       /\ sockets' = [sockets EXCEPT ![seed - 1] =
                        [Fresh EXCEPT !.place = "made", !.listener = l, !.peer = {p}]]
       /\ workers' = [workers EXCEPT ![m] = [at |-> "made", ls |-> l, ns |-> seed - 1]]
  ELSE /\ workers' = [workers EXCEPT ![m] = IdleWorker]
       /\ UNCHANGED <<sockets, seed>>

\* newConnection for a peer that is not known.
ConnectRequest(m, p) ==
  /\ Requests(m, p) /\ Known(p) = {}
  /\ Make(m, muxes[m].listener, p)
  /\ UNCHANGED <<muxes, accepts, closes, gc, cookies>>

\* For one that is known, a connection that exists is confirmed.  One that is broken is
\* closed, without a lock,
FindBroken(m, p) ==
  /\ Requests(m, p) /\ Known(p) # {} /\ sockets[KnownSocket(p)].broken
  /\ sockets' = [sockets EXCEPT ![KnownSocket(p)].status = "closed", ![KnownSocket(p)].old = FALSE]
  /\ workers' = [workers EXCEPT ![m] = [at |-> "broken", ls |-> muxes[m].listener, ns |-> KnownSocket(p)]]
  /\ UNCHANGED <<muxes, seed, accepts, closes, gc, cookies>>

\* taken from the listener's sets, under its lock,
DropBroken(m) ==
  /\ workers[m].at = "broken"
  /\ sockets' = [sockets EXCEPT ![workers[m].ls].queue = @ \ {workers[m].ns},
                                ![workers[m].ls].accepted = @ \ {workers[m].ns}]
  /\ workers' = [workers EXCEPT ![m].at = "dropped"]
  /\ UNCHANGED <<muxes, seed, accepts, closes, gc, cookies>>

\* and followed by a new one.
Reconnect(m, p) ==
  /\ workers[m].at = "dropped" /\ sockets[workers[m].ns].peer = {p}
  /\ Make(m, workers[m].ls, p)
  /\ UNCHANGED <<muxes, accepts, closes, gc, cookies>>

\* updateMux(s, ls), connect(peer, hs), and into m_Sockets.
Enlist(m) ==
  /\ workers[m].at = "made"
  /\ sockets' = [sockets EXCEPT ![workers[m].ns] =
                   [@ EXCEPT !.place = "listed", !.status = "connected", !.mux = m,
                             !.opened = TRUE, !.connected = TRUE, !.onList = TRUE]]
  /\ muxes' = [muxes EXCEPT ![m].ref = @ + 1]
  /\ workers' = [workers EXCEPT ![m].at = "listed"]
  /\ UNCHANGED <<seed, accepts, closes, gc, cookies>>

\* pthread_cond_signal wakes one of those who wait, if there is any.
Waiting(l) == {t \in Acceptors : accepts[t].at = "waiting" /\ accepts[t].ls = l}
Signal(l) == \/ Waiting(l) = {} /\ accepts' = accepts
             \/ \E t \in Waiting(l) : accepts' = [accepts EXCEPT ![t].at = "woken"]

\* Into the queue of the listener, under its lock,
Enqueue(m) ==
  LET w == workers[m]
  IN  /\ w.at = "listed"
      /\ sockets' = [sockets EXCEPT ![w.ls].queue = @ \union {w.ns}]
      /\ workers' = [workers EXCEPT ![m] = [at |-> "queued", ls |-> w.ls, ns |-> 0]]
      /\ UNCHANGED <<muxes, seed, accepts, closes, gc, cookies>>

\* and, the lock taken once more, an accept is woken.
Announce(m) ==
  /\ workers[m].at = "queued"
  /\ workers' = [workers EXCEPT ![m] = IdleWorker]
  /\ Signal(workers[m].ls)
  /\ UNCHANGED <<sockets, muxes, seed, closes, gc, cookies>>

\* The peer shuts down, or is not heard of for too long.
PeerGone(i) ==
  /\ sockets[i].onList /\ workers[sockets[i].mux].at = "idle"
  /\ sockets[i].connected /\ ~sockets[i].broken /\ ~sockets[i].closing
  /\ sockets' = [sockets EXCEPT ![i].broken = TRUE, ![i].closing = TRUE,
                                ![i].counter = BrokenRounds]
  /\ UNCHANGED <<muxes, seed, callVars>>

\* The worker takes a socket off its list once it is not connected any more.
LeaveReceiver(i) ==
  /\ sockets[i].onList /\ workers[sockets[i].mux].at = "idle"
  /\ ~sockets[i].connected \/ sockets[i].broken \/ sockets[i].closing
  /\ sockets' = [sockets EXCEPT ![i].onList = FALSE]
  /\ UNCHANGED <<muxes, seed, callVars>>

\* CSndUList::update: the application sends, an acknowledgement opens the window, or a
\* timer runs out.
Schedule(i) ==
  /\ sockets[i].connected /\ ~sockets[i].broken /\ ~sockets[i].closing /\ ~sockets[i].onHeap
  /\ sockets' = [sockets EXCEPT ![i].onHeap = TRUE]
  /\ UNCHANGED <<muxes, seed, callVars>>

\* CSndUList::pop, of a socket that has nothing to send at present or is broken.
Unschedule(i) ==
  /\ sockets[i].onHeap
  /\ sockets' = [sockets EXCEPT ![i].onHeap = FALSE]
  /\ UNCHANGED <<muxes, seed, callVars>>

(***************************************************************************)
(* accept and close                                                        *)
(***************************************************************************)
\* One turn of accept's loop, under m_AcceptLock.
AcceptTurn(t, l) ==
  LET s == sockets[l]
  IN  \/ /\ s.status # "listening" \/ s.broken
         /\ accepts' = [accepts EXCEPT ![t] = IdleAccept] /\ sockets' = sockets
      \/ /\ s.status = "listening" /\ ~s.broken /\ s.queue # {}
         /\ LET u == Min(s.queue)
            IN  /\ sockets' = [sockets EXCEPT ![l].queue = @ \ {u}, ![l].accepted = @ \union {u}]
                /\ accepts' = [accepts EXCEPT ![t] = [at |-> "popped", ls |-> l, u |-> u]]
      \/ /\ s.status = "listening" /\ ~s.broken /\ s.queue = {}
         /\ accepts' = [accepts EXCEPT ![t] = [at |-> "waiting", ls |-> l, u |-> 0]]
         /\ sockets' = sockets

Accept(t) ==
  /\ \/ /\ accepts[t].at = "idle" /\ gc = "running"
        /\ \E l \in Ids : Located(l) /\ sockets[l].status = "listening" /\ AcceptTurn(t, l)
     \/ accepts[t].at = "woken" /\ AcceptTurn(t, accepts[t].ls)
  /\ UNCHANGED <<muxes, seed, workers, closes, gc, cookies>>

\* locate(u)->m_pPeerAddr, without a test: the socket may have broken and been collected.
AcceptReturns(t) ==
  /\ accepts[t].at = "popped"
  /\ accepts' = [accepts EXCEPT ![t] = IF Located(accepts[t].u) THEN IdleAccept
                                       ELSE [@ EXCEPT !.at = "crashed"]]
  /\ UNCHANGED <<sockets, muxes, seed, workers, closes, gc, cookies>>

\* close of a listener only marks it.
CloseListener(i) ==
  /\ Held(i) /\ sockets[i].status = "listening" /\ ~sockets[i].broken
  /\ sockets' = [sockets EXCEPT ![i].broken = TRUE, ![i].old = FALSE]
  /\ accepts' = [t \in Acceptors |-> IF t \in Waiting(i) THEN [accepts[t] EXCEPT !.at = "woken"]
                                     ELSE accepts[t]]
  /\ UNCHANGED <<muxes, seed, workers, closes, gc, cookies>>

\* CUDT::close, once it does not linger.
Shut(s) == IF s.opened THEN [s EXCEPT !.closing = TRUE, !.connected = FALSE, !.opened = FALSE,
                                      !.onHeap = @ /\ ~s.connected]
           ELSE s
\* removeListener, for the sockets of a set.
Silenced(S) == [m \in Ids |-> IF muxes[m].listener \in S THEN [muxes[m] EXCEPT !.listener = 0]
                              ELSE muxes[m]]

\* close: CUDT::close without m_ControlLock; a socket that sends asynchronously and has
\* unsent data is left to the collector.
Close(i) ==
  /\ Held(i) /\ sockets[i].status # "listening"
  /\ closes' = closes \union {i}
  /\ \/ sockets' = [sockets EXCEPT ![i] = Shut(@)]
     \/ /\ i \in AsyncSending /\ sockets[i].connected /\ ~sockets[i].broken
        /\ sockets' = [sockets EXCEPT ![i].linger = "yes"]
  /\ UNCHANGED <<muxes, seed, workers, accepts, gc, cookies>>

\* The rest of close, under m_ControlLock: the collector may have been faster.
CloseReturns(i) ==
  /\ i \in closes
  /\ closes' = closes \ {i}
  /\ sockets' = IF Located(i)
                THEN [sockets EXCEPT ![i].status = "closed", ![i].place = "closed",
                                     ![i].old = FALSE]
                ELSE sockets
  /\ UNCHANGED <<muxes, seed, workers, accepts, gc, cookies>>

(***************************************************************************)
(* Time and the collector                                                  *)
(***************************************************************************)
\* The data that a closed socket still has to send are acknowledged, or UDT_LINGER is over
\* before they are.
LingerEnds(i, how) ==
  /\ sockets[i].linger = "yes"
  /\ sockets' = [sockets EXCEPT ![i].linger = how]
  /\ UNCHANGED <<muxes, seed, callVars>>

\* One second, or three for a listener, since m_TimeStamp: calls in progress are shorter.
Ripen(i) ==
  /\ sockets[i].place \in {"listed", "closed"} /\ ~sockets[i].old /\ i \notin closes
  /\ \A m \in Ids : workers[m].ls # i /\ workers[m].ns # i
  /\ \A t \in Acceptors : accepts[t].at \in {"woken", "popped"} => accepts[t].ls # i
  /\ sockets' = [sockets EXCEPT ![i].old = TRUE]
  /\ UNCHANGED <<muxes, seed, callVars>>

\* The text cookies are made of changes every minute.
MinutePasses == /\ cookies # {} /\ cookies' = {}
                /\ UNCHANGED <<sockets, muxes, seed, workers, accepts, closes, gc>>

\* checkBrokenSockets, first loop: sockets that are broken, unless they have unread data.
Patients == {i \in Unread : Listed(i) /\ sockets[i].broken /\ sockets[i].counter > 0}
ToClose(unread) == {i \in Ids \ unread :
                      /\ Listed(i) /\ sockets[i].broken
                      /\ sockets[i].status = "listening" => sockets[i].old}

ClosedBroken(unread) ==
  [i \in Ids |->
     LET s == [sockets[i] EXCEPT !.queue = @ \ ToClose(unread), !.accepted = @ \ ToClose(unread)]
     IN  IF i \in unread THEN [s EXCEPT !.counter = @ - 1]
         ELSE IF i \in ToClose(unread) THEN [s EXCEPT !.status = "closed", !.place = "closed",
                                                      !.old = FALSE]
         ELSE s]

\* Second loop: lingering that is over starts the removal timer; m_ullLingerExpiration is 0
\* from then on, also if there are data left.
Settled(ss) ==
  [i \in Ids |-> IF ss[i].place = "closed" /\ ss[i].linger \in {"over", "expired"}
                 THEN [ss[i] EXCEPT !.linger = IF @ = "expired" THEN "left" ELSE "no",
                                    !.closing = TRUE, !.old = FALSE]
                 ELSE ss[i]]

\* Mutant: a socket is removed although it is still on the receiving list.
ToRemoveListed(ss) == {i \in Ids : ss[i].place = "closed" /\ ss[i].old}

ToRemove(ss) == {i \in Ids : ss[i].place = "closed" /\ ss[i].old /\ ~ss[i].onList}

\* CUDT::close in removeSocket: one that lingered and has data left begins to linger again,
\* and returns at once.
Finished(s) == IF s.linger = "left" /\ s.connected /\ ~s.broken THEN s ELSE Shut(s)

\* What the properties remember of a socket that is deleted; where the heap still has it, it
\* goes on having it.
Deleted(s) == [Fresh EXCEPT !.place = "deleted", !.listener = s.listener, !.accepted = s.accepted,
                            !.onHeap = Finished(s).onHeap]

\* removeSocket, of all in R: what waits in their queues is closed.
Removed(ss, R) ==
  LET Q == UNION {ss[l].queue : l \in R}
  IN  [i \in Ids |->
         IF i \in R THEN Deleted(ss[i])
         ELSE IF i \in Q THEN [Shut([ss[i] EXCEPT !.broken = TRUE])
                               EXCEPT !.status = "closed", !.place = "closed", !.old = FALSE]
         ELSE ss[i]]

\* The multiplexers without them.
Released(ss, R) ==
  [m \in Ids |-> LET ref == Silenced(R)[m].ref - Cardinality({i \in R : ss[i].mux = m})
                 IN  IF ref = 0 THEN NoMux ELSE [Silenced(R)[m] EXCEPT !.ref = ref]]

\* checkBrokenSockets; unread are the sockets with data that have not been read.
Collect(unread) ==
  LET ss == Settled(ClosedBroken(unread))
      R  == ToRemove(ss)
  IN  /\ gc # "ended"
      /\ sockets' = Removed(ss, R)
      /\ muxes' = Released(ss, R)
      /\ UNCHANGED <<seed, callVars>>

\* cleanup, and garbageCollect after its loop: everything is closed and due for removal.
Cleanup ==
  /\ gc = "running" /\ closes = {}
  /\ \A m \in Ids : workers[m].at = "idle"
  /\ \A t \in Acceptors : accepts[t].at \in {"idle", "waiting"}
  /\ gc' = "clearing"
  /\ LET all == {i \in Ids : Listed(i)}
     IN  /\ sockets' = [i \in Ids |->
              LET s == [sockets[i] EXCEPT !.queue = @ \ all, !.accepted = @ \ all]
              IN  IF Listed(i) THEN [Shut(s) EXCEPT !.broken = TRUE, !.status = "closed",
                                                    !.place = "closed", !.old = TRUE]
                  ELSE [s EXCEPT !.old = TRUE]]
         /\ muxes' = Silenced(all)
  /\ UNCHANGED <<seed, workers, accepts, closes, cookies>>

ClearingEnds ==
  /\ gc = "clearing" /\ \A i \in Ids : sockets[i].place # "closed"
  /\ gc' = "ended"
  /\ UNCHANGED <<sockets, muxes, seed, workers, accepts, closes, cookies>>

SocketsNext ==
  \/ MinutePasses \/ Cleanup \/ ClearingEnds
  \/ \E reuse \in BOOLEAN : NewSocket(reuse)
  \/ \E unread \in SUBSET Patients : Collect(unread)
  \/ \E t \in Acceptors : Accept(t) \/ AcceptReturns(t)
  \/ \E m \in Ids : \/ DropBroken(m) \/ Enlist(m) \/ Enqueue(m) \/ Announce(m)
                    \/ \E p \in Peers : \/ GiveCookie(m, p) \/ ConnectRequest(m, p)
                                        \/ FindBroken(m, p) \/ Reconnect(m, p)
  \/ \E i \in Ids : \/ Listen(i) \/ CloseListener(i) \/ Close(i) \/ CloseReturns(i)
                    \/ PeerGone(i) \/ LeaveReceiver(i) \/ Schedule(i) \/ Unschedule(i) \/ Ripen(i)
                    \/ \E how \in {"over", "expired"} : LingerEnds(i, how)
                    \/ \E p \in Ports \union {0} : Bind(i, p)
                    \/ \E up \in BOOLEAN : Connect(i, up)

SocketsSpec == SocketsInit /\ [][SocketsNext]_socketVars

-----------------------------------------------------------------------------
Alive == {i \in Ids : sockets[i].place \in {"made", "listed", "closed"}}

\* m_iRefCount is the number of sockets that use a multiplexer, so that it goes with the
\* last of them and never before; and its m_pListener is a socket that still exists.
MuxIsCounted ==
  \A m \in Ids : /\ muxes[m].ref = Cardinality({i \in Alive : sockets[i].mux = m})
                 /\ muxes[m].listener # 0 =>
                      /\ muxes[m].listener \in Alive
                      /\ sockets[muxes[m].listener].mux = m

\* What waits in a listener's queue is in m_Sockets: removeSocket does not look, and
\* accept gives it to the application.
QueuedIsListed ==
  \A l \in Alive : \A q \in sockets[l].queue : Listed(q) /\ sockets[q].listener = l

\* A connection that nobody has accepted does not outlive its listener.
NoOrphan ==
  \A i \in Ids : Located(i) /\ sockets[i].listener # 0 =>
    \/ sockets[sockets[i].listener].place # "deleted"
    \/ i \in sockets[sockets[i].listener].accepted

\* Requests that come twice, late, or after a connection has broken never leave a peer with
\* two connections.
OneConnectionPerPeer ==
  \A i, j \in Ids : /\ Listed(i) /\ Listed(j) /\ ~sockets[i].broken /\ ~sockets[j].broken
                    /\ sockets[i].peer = sockets[j].peer /\ sockets[i].peer # {}
                    => i = j

\* Until cleanup, nobody sleeps in accept while the listener is closed, or has more
\* connections to give than there are accepts awake or about to be woken.
NobodyOversleeps ==
  gc = "running" =>
    \A l \in Ids : Waiting(l) # {} =>
      /\ Located(l) /\ ~sockets[l].broken
      /\ Cardinality(sockets[l].queue) <=
           Cardinality({t \in Acceptors : accepts[t].at = "woken" /\ accepts[t].ls = l})
           + Cardinality({m \in Ids : workers[m].at = "queued" /\ workers[m].ls = l})

Removes(i) == sockets'[i].place = "deleted" /\ sockets[i].place # "deleted"

\* A socket is not taken from memory while a receiving thread has it on its list; nor while it
\* lingers, unless the connection breaks; nor while a sending thread has it on its heap, unless
\* it lingered in vain; nor while an accept sleeps on it, unless cleanup was called.
NotRemovedInUse ==
  [][\A i \in Ids : Removes(i) =>
       /\ ~sockets[i].onList
       /\ sockets[i].linger \in {"yes", "over", "expired"} => sockets[i].broken
       /\ sockets'[i].onHeap => sockets[i].linger = "left" /\ ~sockets[i].broken
       /\ Waiting(i) # {} => gc = "clearing"]_socketVars

\* api.cpp 849-850: "a socket will not be immediated removed when it is closed in order to
\* prevent other methods from accessing invalid address".  The sending thread has no socket
\* on its heap that was removed,
RemovedIsNotSent ==
  [][\A i \in Ids : gc = "running" /\ Removes(i) => ~sockets'[i].onHeap]_socketVars

\* and no accept sleeps on one.
RemovedIsNotAwaited == [][\A i \in Ids : Removes(i) => Waiting(i) = {}]_socketVars

\* What is closed gets out of the way: it lingers, or the receiving thread is about to take
\* it off its list, without which the collector would wait for ever.
ClosedLeavesTheList ==
  \A i \in Ids : sockets[i].place = "closed" /\ sockets[i].onList =>
    \/ sockets[i].linger \in {"yes", "over", "expired"}
    \/ sockets[i].closing \/ sockets[i].broken \/ ~sockets[i].connected

\* cleanup leaves no multiplexer, whose threads and UDP socket would stay.
CleanupIsComplete == gc = "ended" => \A m \in Ids : muxes[m].ref = 0

\* A peer that asks gets one connection, which is accepted or goes with its listener.
ConnectionsAreKept == QueuedIsListed /\ NoOrphan /\ OneConnectionPerPeer /\ NobodyOversleeps

\* Sockets go when nobody uses them any more, with the exceptions that NotRemovedInUse names,
\* multiplexers with the last of their sockets, and cleanup leaves none.
RemovalIsSafe ==
  /\ NotRemovedInUse
  /\ []MuxIsCounted /\ []ClosedLeavesTheList /\ []CleanupIsComplete
=============================================================================
