# A TLA+ development of firewall-over

`firewall-over` lets two machines behind NATs talk to each other. A program on
a public host (`src/src/server.c`) learns the public address of two clients
from one datagram each and tells each of them the other's. The clients
(`src/src/client.cpp`) then open a connection to each other from the same UDP
socket, with the *rendezvous* mode of the UDT library that the repository
carries in `src/extern_lib/udt4`, and exchange lines of text over it.

This directory specifies that system, checks the specification on small
instances with TLC and proves part of it with TLAPS. File names below without a
directory are those of `src/src` and `src/extern_lib/udt4/src`.

## 1. Inventory

### 1.1 The rendezvous server, `server.c`

*State.* Globals without a lock: `a1`, `a2` (what will be told about each side:
ip and port; port 6666 means "nobody yet"), `b1`, `b2` (where the notices go),
and one `cliaddr` that both threads write.

*Operations.* `main` receives a registration, files it under 1 if its number is
1 and under 2 otherwise, in three separate stores. It stops receiving for ever
when both ports are set. `thr_fn` looks at the two ports once a second, and
when both are set sends two notices and ends. Any failing call ends the process.

*What is hard.* The thread can look between the store of a port and that of the
ip next to it, and it writes `cliaddr` while `main` still copies from it. A
client may register again. A client may come third.

*What makes it correct.* No registration is forgotten; the notices go to
registrants of the right side and carry the port of the other side's registrant;
the pair never changes once it is complete.

### 1.2 The client, `client.cpp`, and the NATs

*State.* The UDP socket, the address it will connect to (`cliaddr`), then a UDT
socket bound to the same descriptor, a receiving thread and the loop that reads
standard input.

*Operations.* Register once; wait without a timeout for one datagram, from
anybody; connect; then send and receive messages. Errors of the UDT setup are
printed and otherwise ignored; a failing `sendmsg` or `recvmsg` ends the process.

*What is hard.* Either of the two datagrams may be lost and is never sent
again. The peer that is told first starts its handshakes at once: they die at
the other's NAT, or arrive where the notice was expected.

*What makes it correct.* Who gets connected is connected to the right party, the
wait ends, and hole punching succeeds when nothing is lost.

### 1.3 Connection setup in rendezvous mode, `core.cpp`, `queue.cpp`

*State.* Per socket `m_bConnecting`, `m_bConnected`, `m_bClosing`, `m_bBroken`,
the last request and response, the peer's initial sequence number and id, and
the status that `CUDTUnited` keeps; shared with the receiving thread, the
rendezvous queue, the packets kept for a connecting socket, the hash table.

*Operations.* `CUDT::connect` (queue, configure, loop, conclude), `close`, the
garbage collector; in the receiving thread, dispatch of a packet, insertion and
removal of sockets, `updateConnStatus`. Several connects of one port wait on one
condition variable for the handshakes kept for them.

*What is hard.* The application's thread and the receiving thread change the
same flags. The handshake is three-way over a network that loses, duplicates
and reorders, with a keep-alive standing in for a lost answer. Attempts time
out, are retried, or are overtaken by a close.

*What makes it correct.* Who is connected knows its peer and was heard by it;
both get connected; an attempt is called off only for a reason;
`connect` tells the truth; a connect is woken for its handshake.

### 1.4 Options, `CUDT::setOpt` and the handshake

*State.* `m_iMSS`, `m_iFlightFlagSize`, `m_iRcvBufSize` and the UDP buffer sizes
of each side, which limit each other when set, and what each side takes over
from the other's handshake: packet size and window.

*What is hard.* The order in which options are set; handshakes that come again
after a side has taken over something and is connected.

*What makes it correct.* The parts of a socket that are sized from different
options fit each other; no side sends packets or windows the other has no room for.

### 1.5 Sockets of a process, `api.cpp`

*State.* `CUDTUnited`: the table of sockets, closed sockets, multiplexers with a
count of users, the listeners' queues, the peers' records; each socket's status,
time stamp and lingering, and whether a receiving or a sending thread has it.

*Operations.* `newSocket`, `bind`, `connect`, `listen`, `newConnection` (in the
receiving thread of the multiplexer, with a cookie), `accept`, `close`,
`checkBrokenSockets` and `removeSocket` in the collector's thread, `cleanup`.

*What is hard.* Four kinds of threads share the table. Requests come twice, late,
and after the connection they asked for has broken. A socket is used by a
receiving thread after the application has closed it.

*What makes it correct.* A peer has one connection; what waits to be accepted
exists; nobody sleeps in `accept` for nothing; nothing is deleted in use, and
everything is deleted in the end.

### 1.6 Data transfer: streams and messages, `core.cpp`, `buffer.cpp`

*State.* At the sender the buffer and the block to send next, the newest packet
sent, two acknowledged numbers (`m_iSndLastAck` for the window,
`m_iSndLastDataAck` for the buffer), the flow window and the loss list. At the
receiver the circular buffer, the newest packet, the last acknowledgement and
the last one known to have arrived, and the loss list.

*Operations.* `send`, `packData`, the receipt of ACK, lite ACK, NAK and of drop
requests, the EXP timer; `processData`, sending of ACK, lite ACK and NAK, receipt
of ACK2, `recv`; `sendmsg` and `recvmsg` with message boundaries, an order flag,
time to live and timeouts.

*What is hard.* The sending thread and the receiving thread share the sender's
variables, some under `m_AckLock` and some not. Control packets come late and out
of order. Packet numbers wrap. A full receiver closes the window. A message may
be read before it is acknowledged, or given up in the middle.

*What makes it correct.* What is read is what was sent, in order, once; it all
arrives; honest peers are never taken for attackers; the buffer and the loss
lists agree; the window is honoured; a message comes whole or not at all, and a
reader is woken for it.

### 1.7 The parts that transfer is made of

| part | state | what makes it correct |
| --- | --- | --- |
| `CSeqNo` (`common.h`) | a ring of 2^31 numbers in 32 bits | order, distance and length are those of the packets within a window |
| `CSndLossList`, `CRcvLossList` (`list.cpp`) | circular arrays of linked ranges with a length | a list is a set, of which the oldest is found |
| `CACKWindow` (`window.cpp`) | a ring of acknowledgements not confirmed yet | an ACK2 finds its ACK, or nothing once overwritten |
| `CSndBuffer` (`buffer.cpp`) | a ring of blocks that grows, three pointers, a count | blocks stay in order and one more than the count are there |
| `CRcvBuffer` (`buffer.cpp`) | slots, start, last acknowledged, a notch | what is read is next, and nothing new is taken for a duplicate |
| `CUnitQueue` (`queue.cpp`) | a circular list of arrays of units | a unit is found while there is one, and it grows when nearly full |
| `CSndUList`, `CSndQueue`, `CTimer` | a heap by time, each socket's place in it, the worker's sleep | the first in time is served, the worker does not oversleep |
| `CRcvUList`, `CHash`, `CRcvQueue` | a doubly linked list by time of visit, a hash table | every socket is visited when its time has come |
| `CRcvQueue::m_mBuffer` | handshakes kept for connects | a connect is woken for what is kept, the store is bounded |
| `CEPoll` (`epoll.cpp`) | polls, what they watch, what is ready | what is ready is told, what was removed is not |
| `CCache` (`cache.h`) | a list by age and a table of pointers into it | pointers have items, the oldest go first |

### 1.8 What interacts how

By calls (client to UDT's API to `CUDT`), by UDP datagrams (client to server, UDT
to UDT), and by memory shared between the application's threads, the sending
thread, the receiving thread and the garbage collector.

## 2. The modules

| module | what it is |
| --- | --- |
| `Matchmaker` | abstract server: two slots, a final pair, two notices |
| `RendezvousServer` | `server.c`, one action per statement that touches shared state; implements `Matchmaker` |
| `HolePunch` | server, clients, NATs and network: extends `RendezvousServer` and ties its `recvfrom` and `sendto` to a network with clients |
| `UdtRendezvous` | two sockets that connect in rendezvous mode, each with an application thread and a receiving thread |
| `UdtPassed` | several connects of a port and the handshakes kept for them |
| `UdtSettings` | options and what two sides agree on |
| `UdtSockets` | the sockets, listeners and multiplexers of a process, and the collector |
| `UdtSeqNo`, `UdtSeqWindow` | the functions of `CSeqNo`; a window that slides over the ring |
| `ReliableStream` | abstract stream: bounded, first in first out |
| `UdtTransfer` | sender, receiver and network of one direction of a stream socket; implements `ReliableStream` |
| `UdtMessages` | the same for messages |
| `LossSet` | abstract loss list: a set of numbers |
| `UdtSndLossList`, `UdtRcvLossList` | the two loss lists as arrays; implement `LossSet` |
| `UdtAckWindow`, `UdtSndBuffer`, `UdtRcvBuffer`, `UdtUnits`, `UdtSndQueue`, `UdtRcvQueue`, `UdtEpoll`, `UdtPeerCache` | the other parts of 1.7 |
| `UdtLemmas` | what the proofs about UDT share: the functions of `UdtSeqNo` on numbers a known distance apart, remainders, sequences, counting |
| `HolePunchProofs` | theorems about `RendezvousServer` and `HolePunch` |
| `UdtRendezvousProofs`, `UdtTransferProofs`, `UdtMessagesProofs` | theorems about the modules they are named after |
| `UdtBufferProofs` | theorems about `UdtSeqWindow`, `UdtAckWindow`, `UdtSndBuffer`, `UdtRcvBuffer` and `UdtUnits` |
| `UdtQueueProofs` | theorems about `UdtPassed`, `UdtRcvQueue`, `UdtPeerCache` and `UdtSndQueue` |
| `UdtSocketsProofs` | theorems about `UdtSettings`, `UdtEpoll` and `UdtSockets` |
| `MC...` | instances for TLC; `MCUdtParts` puts the parts side by side |

`UdtTransfer` and `UdtMessages` use the loss lists as sets, which is what
`UdtSndLossList` and `UdtRcvLossList` are shown to be; they use the functions of
`UdtSeqNo`, whose meaning is proved. `UdtRendezvous` tells the story of one socket a
side that `UdtSockets` tells of several sockets of one process, with connection
setup as one step.

### 2.1 How the state and the actions correspond to the code

`PROJECT.json` maps each definition to its lines. What needs more words:

`RendezvousServer`. `slot[1]`, `slot[2]` are `a1`, `a2`; `b[1]`, `b[2]` are `b1`,
`b2`; `mpc` and `tpc` say at which statement the two threads are. Each store of
an aligned word is one step; the `Makefile` builds without optimisation, so the
stores are taken to happen in source order. `heard` is a history variable. A
failing call at any place where there is one ends the process (`Exit`).
The byte order of addresses matters to the race (`htonl` of an ip that is in
network order already), so an ip is its four bytes.

`HolePunch`. A client goes through `start`, `waiting`, `connecting`, `talking`,
`exited`; `talking` does not mean connected, because errors of `connect` are only
printed. A NAT lets in only the address its host has sent to; clients in `Open`
have none. The UDT handshake is seen from outside the threads: a client sends requests
of kind 0 until it has heard its peer, and of kind -1 from then on (`AsksOn`); it is linked
by a second handshake, of another kind than 0 (`Links`); once linked it answers a request
with one of kind -2, and nothing else (`Answers`). A client whose `connect` has failed never
becomes linked. That a keep-alive or data may stand in for the third way is left to
`UdtRendezvous`. It assumes the 30 seconds of `connect` long enough for the
other notice to arrive if nothing is lost (see `Mate`).

`UdtRendezvous`. `rq[e]` holds the socket's entries in `m_lRendezvousID`, each
named by the attempt that made it; `stored[e]` is `m_mBuffer`; `held[e]` is a
packet between `retrieve` and `storePkt`, which are separate critical sections;
`onList[e]` is the socket's place in `m_vNewEntry`, then `m_pHash` and
`m_pRcvUList`. The loop of `connect` is cut where the other thread can act:
`Resend`, `TakeAndGoOn`, `TakeAndStop`, `TakeAndConnect`, then `Enlist` and `Complete`
(from `setNewEntry` on the worker may serve the socket, and the collector close it),
`ConnectTimeout`, `ConnectReturns`. `CUDTUnited::connect` and `close` hold the socket's
`m_ControlLock`, so `Close` waits for `connect` to return. The entries of `rq` hold the
CUDT's address and the worker uses it whatever has become of the CUDT: `strayed`, a
history variable, has the sides whose worker did so after `Delete`. What it reads then
is undefined in C++; the model takes it to be what the destructor left. Initial sequence numbers are the number of the attempt that
drew them; the blank handshake that the worker can send before `m_ConnReq` is
filled in has number 0. `m_llLastReqTime`, which no constructor sets, is a
constant (`StaleClock`): either value it may have had. Resend timers may run
out at any moment, the time to live at any moment for sides in `Expiring`.

`UdtSettings`. Sizes are in units of 28 bytes, the headers of IP and UDP, so that
a packet and the part of it that a buffer counts are both whole numbers.

`UdtSockets`. An action is what one thread does under `m_ControlLock` or a
listener's `m_AcceptLock`. `Close` and `CloseReturns` are the two halves of a close
of a connected socket, of which only the second is under the lock; `workers`
tells where a receiving thread is in `newConnection`, which goes through its locks one
after the other (`FindBroken`, `DropBroken`, `Reconnect`; `Enlist`, `Enqueue`, `Announce`).
`onList` and `onHeap` say whether the receiving thread and the sending heap of the
multiplexer have a socket; a deleted one keeps its `onHeap`, so that a pointer left there
shows. `linger` is `yes` while a closed socket lingers, `over` once its data are
acknowledged, `expired` when the time is over before, and `left` when the collector has
reset `m_ullLingerExpiration` of one that has data left: `Finished` is `CUDT::close` in
`removeSocket`, which returns early for it. Identifiers count down as `m_SocketID` does, so that the first of a set
ordered by them is the newest. Time is `Ripen`: a call in progress is shorter
than the second that the collector waits. A peer is an address, an identifier and
an initial sequence number, the three that `locate` compares; every attempt to
connect draws a number of its own (`core.cpp:607`), so that the requests of a peer go
to one port (`PortOf`). What the rendezvous queue keeps of deleted sockets is in
`UdtRendezvous`, not here.

`UdtTransfer`. `packing` is where `packData` is: it has taken a number out of the
loss list (`PickPacket`), which has its own lock, and not yet locked `m_AckLock`
(`Retransmit`). `acking` is where `processCtrl` is: it has set the flow window
(`StartAck`, `StartLiteAck`) and not yet `m_iSndLastAck` (`FinishAck`). A loss
list is a set; `Oldest`, `Span` and `UpTo` are its operations. The number of an
ACK is identified with the data acknowledgement stored with it in `m_pACKWindow`.
One payload fills one packet. Only the flow window limits the sender: the
congestion window is no smaller. A lite ACK is sent after every 64 packets; here
after any number of them, at least one. `setup` is what the two sides start with:
the initial number and the sizes of the two buffers, which are options of the
socket; one behaviour has one setup, so a run covers several.

`UdtMessages`. Blocks of the send buffer are numbered once and for all, so that
its pointers are numbers and a block that nobody wrote is a number past `sent`
(`RunWild`, with which a behaviour ends).
A message number does not wrap. `ScanMsg`, `AfterRead` and
`DropMatches` are `scanMsg`, `readMsg` and `dropMsg`; the last compares a message
number with a header field that also holds the boundary and order bits, so it only
finds packets in the middle of a message without the order flag. A read is one step:
the arriving packets and the acknowledgements that the code lets in between the loops
of `scanMsg` and the release of the slots (`addData` and `ackData` take no lock of the
reader's) come before or after it in the model.

The loss lists are records of the arrays (`d1`, `d2`, `next`, `prior`, `head`,
`tail` or `last`, `len`) with one function per method; loops over links are
recursive functions over the number of steps, at most the size of the array.

`UdtSndQueue` has the heap as the array it is and `remove_` as it is written, which
only sifts down. `UdtEpoll` cuts each caller of `update_events` between its test of
the socket and the lock of the polls. `UdtPassed` has one condition variable per
port, as the code does. `UdtPeerCache` keeps negative keys, which the code never
finds again.

## 3. The runs

Deadlock is not checked: everywhere the system may really stop (the server exits,
the clients exit, everything has been sent, all bounds are used up).

| run | bounds | what it shows |
| --- | --- | --- |
| `server` | three registrants, one of them known from two ports; numbers 1, 2, 7 | all that holds of the server in spite of its race; `ImplementsMatchmaker` is a refinement with fairness |
| `server_race` | the same | a notice may name the wrong ip |
| `punch` | two clients behind NATs, a third one reachable by all that registers for the same side as the second; at most one datagram lost | `LinkIsMutual`, `NatKeepsStrangersOut`; the wait ends and punching succeeds, with the exceptions that the properties name |
| `rendezvous` | two attempts a side; A may time out and close, B's worker may send a blank handshake; the second attempt only as long as no socket was closed, no blank handshake was sent and B's worker is not between two locks (`Bound`) | safety of the handshake, and of a second attempt that meets the packets, entries and stored handshakes of the first |
| `rendezvous_live` | one attempt a side | both get connected |
| `rendezvous_success` | A may time out, B may close | `connect` can return 0 without a connection |
| `transfer` | 3 payloads on a ring of 16 numbers, three setups: `Roomy` (from 15, room for three), `AtZero` (from 0, so that the current numbers start at -1), `Tight` (from 14, a receiver with room for one) | refinement of `ReliableStream`, and the invariants of the transfer |
| `transfer_live` | 2 payloads from 14, room for one, one packet of any kind lost | everything arrives |
| `messages` | ring of 32; `Client` (two messages of two packets, from 30), `InOrder` (one with the order flag between two without), `Timed` (recvmsg with a timeout), `Limited` (a time to live, then none), `Three` (a message of three packets that may be given up); one drop request (`OneDrop`) | messages come whole, once, in order where asked for, as long as none is given up; readers are woken; numbers agree |
| `messages_ttl` | `Limited` | a message with no time limit, sent and lost, is acknowledged and cannot be delivered |
| `parts` | one part moves, the others stay in their first state; bounds below | the thirteen properties of the parts |
| `sockets` | three sockets (a client, a listener and what it accepts), one port, two peers, a backlog of one, one acceptor; one close at a time and one peer with a cookie, and none while a closed socket lingers, a socket is on a sending heap or a broken one is kept for unread data (`OneAtATime`) | a peer's requests make one connection, which is accepted or goes with its listener; what is deleted is not in use, with the exceptions that the property names |

Bounds of `parts`, where a behaviour moves one of: a window on a ring of 16
numbers (threshold 7); a send list of five places on numbers 13 to 3 and a receive
list of five on 13 to 4, so that both wrap; a ring of three for six
acknowledgements; blocks of two up to six for seven payloads; three slots for
seven packets; two entries of four units with a count that is wrong by up to two;
six senders in the heap (the least with which `remove_` breaks the order), three
calls, three ticks; three receivers, a table of two buckets; two connects and a
limit of two handshakes; a cache of three for keys that share a bucket and one
negative; three options of two sizes; two polls and a socket with room for one
message each way, three counted steps.

Why the bounds are enough. The server has two slots, so three registrants and a
re-registration show every way in which two stores and two reads can interleave.
In the setup, two attempts are what it takes for an old entry to meet a new one;
`StoreLimit` 0 lets one packet be stored and makes the store overflow. Among the sockets of
a process a client, a listener and one connection show every way in which closing, lingering
and collecting meet an accept; in behaviours without the client there are two
connections, of a peer that comes again or of two peers that meet a full backlog. (Several
ports and accepting threads are in the theorems, which have no such bounds.) In the
transfer, three packets are the least with a hole in the middle and a range of
two lost; with room for one they fill the window, the extra packet it admits and
one beyond. A message needs three packets to have a middle, all that a drop
request can find. The rings are small so that numbers wrap and arrays come round
several times. In `Duplicating` instances of `UdtTransfer`, in `UdtRendezvous` and in
`UdtMessages` the network keeps every packet it was ever given, which may arrive
any number of times, in any order, at any moment, or never: no bound on losses
or delays is needed.

### 3.1 The properties

For the server: `HeardIsRegistered`, `NoticeReachesRegistrant`, `NoticeIpOrigin`,
`PairIsFinal`. They hold when no registration comes from port 6666, and every
instance says so in its addresses.

For the setup: `PeerIsKnown` (never the blank handshake's contents),
`PeerHasHeard`, `LeftoversAreExpired`, `ServingIsConnected`, `SuccessOrReason`,
`BothConnect`. `SuccessOrReason` is what remains of the documentation's "if success, 0 is
returned" (refuted by `rendezvous_success`): the first `connect` of a socket returns 0
without a connection only if its time was over, or if the other side was connected
already and its keep-alive or shutdown came before the handshake. It and
`LeftoversAreExpired` are about a socket's first attempt, the only one of which they hold:
the entries of an attempt act on the next (section 4). `LeftoversAreExpired` does
not say that the worker keeps away from a deleted socket (it does not: section 4), but that it sends nothing for one that connected once. `PeerIsKnown` allows the
number of an older attempt: that a late handshake of one is taken for the present one's is
not excluded by the code.

For the transfer: `NoFalseAlarm`, `RetransmitsTheSame`, `EveryPacketIsAccounted`,
`WindowIsHonoured`, `ImplementsStream`, `EverythingArrives`. The receiver's buffer
has one slot less than `m_iRcvBufSize`, and the first flow window is one packet more
than that; `WindowIsHonoured` says what remains true.

For messages: `DeliveredAsSent`, `NoMessageMissed`, `AcksAreTrue`,
`TimeoutTellsTheTruth`. `DeliveredAsSent` ends with the first message that is given up
(`NothingGivenUp`): from then on messages may be returned twice, take others with them
(`messages_ttl`) or be mixed with others (section 4). So does what `AcksAreTrue` says of
acknowledged messages; the rest holds of every behaviour.

For the parts, a property is a conjunction with a name for each conjunct:

| property | conjuncts |
| --- | --- |
| `WindowIsRight` | offset, comparison and length of any two numbers of a window |
| `SndListIsSet`, `RcvListIsSet` | refinement of `LossSet`; links, length, `find`, the first, and loss reports agree with the set |
| `AckWindowIsRight` | `Ack2FindsItsAck`, `RingIsQueue` |
| `SndBufferIsRight` | `BlocksAreInOrder`, `OneBlockIsFree`, `CountsWithMissing` |
| `RcvBufferIsRight` | `NextUnitIsNext`, `NoFalseDuplicate` |
| `UnitsSuffice` | `UnitIsFound`, and `GrowsWhenFull` of every step |
| `FirstIsServed` | `HeapKnowsPlaces`, `HeapIsOrdered`, `OversleepsOnlyInRace`, `IdleWithoutWork` |
| `EverySocketIsVisited` | `RcvListIsChain`, `NobodyIsForgotten`, `UnlistedIsUnreachable` |
| `PassedReachCalls` | `SleepsOnlyIfStolen`, `LeftoversAreLate`, `PassedIsBounded` |
| `CacheIsRight` | `PointersHaveItems`, `OldestGoFirst` |
| `SettingsFit` | `LossListHasRoom`, `PacketsFitUnits`, `ListenerAgrees`, `WindowFitsBuffer` |
| `EventsAreTold` | `ReadinessIsTold`, `BreakIsTold`, `RemovedIsSilent` |
| `ConnectionsAreKept` | `QueuedIsListed`, `NoOrphan`, `OneConnectionPerPeer`, `NobodyOversleeps` |
| `RemovalIsSafe` | `MuxIsCounted`, `ClosedLeavesTheList`, `CleanupIsComplete`, and `NotRemovedInUse` of every step |

Several of them excuse what the code really does wrong, through a history variable
(`misplaced`, `missedCall`, `untold`, `wokeOther`, `lateStore`, `damaged`, `missing`,
`fcLast`), or name it: `NotRemovedInUse` excepts a socket that lingered in vain and an accept
asleep when `cleanup` is called.
The exception is as narrow as it could be made; section 4 has the list. What an exception
excuses, the property does not catch: an overflow of the cache, a flight flag size lowered last,
options swapped by rendezvous, and a heap disordered by a removal are told here and
in section 4, not by TLC.

Each property has a mutant in its module: an operator with the same parameters as
one that models code, changed the way a slip in that code would change it. With
the mutant in place TLC finds the property violated.

### 3.2 Fairness

* Server: each thread is scheduled (weak fairness of its next statement); nothing
  is assumed about registrations.
* Clients: each process runs; the network delivers what it does not lose; a
  handshake that is repeated every 250 ms gets through in the end (strong
  fairness of its receipt). Nobody is forced to end its input or to fail.
* Setup: threads run; each side keeps resending its request, which the loop
  does; what is sent over and over is received in the end; and copies of packets
  no longer sent stop arriving at some time. The last one is needed because an
  endless supply of old duplicates could keep the worker busy for ever.
* Transfer: threads run, the ACK and EXP timers run out, the application reads
  what there is, and a packet that is not lost arrives. Timers that never expire
  would make the loss of one packet final. The code has no other retransmission.
* The other modules state no fairness; their properties are about safety. That a
  thread sleeps only with nothing to do (`IdleWithoutWork`, `NobodyOversleeps`,
  `SleepsOnlyIfStolen`, `NoMessageMissed`) is the part of their liveness that is safety.

## 4. What disagrees

The violation runs state what a comment or the documentation says; TLC finds a
behaviour of the code against it.

1. `server_race`: the ip of a notice can be zero, byte-swapped, or another
   registrant's (`server.c:101-108` against `39-47`).
2. `rendezvous_success`: `CUDT::connect` can return 0 although it did not connect
   (`core.cpp:661`, then no error at 679-690).
3. `messages_ttl`: giving up a message drops one packet number too many
   (`core.cpp:2292`), so that the message after it, sent and lost, may be acknowledged and
   never delivered though it has no time to live.

Six more statements of the comments and declarations are written down beside the
properties and have no run: each is false, and TLC finds a behaviour against it when it
takes the place of the properties in the configuration named.

* `RetryHasItsTime` (`MCUdtRendezvous.cfg`): a timeout leaves the entry in `m_lRendezvousID`;
  the next `connect` adds one, and `updateConnStatus` clears `m_bConnecting` for the old one at
  once (`queue.cpp:844-849`), which calls the new attempt off, against `connect.htm:78` ("When
  connect fails, the UDT socket can still be used to connect again").
* `NoDeletedCudtIsUsed` (`MCUdtRendezvous.cfg`): `updateConnStatus` and `retrieve` use the
  CUDT of an entry whose socket was deleted (`queue.cpp:824, 842-862`, `1028, 1054`), because
  `core.cpp:982` takes the entry out only while `m_bConnecting` is set.
* `ConnectThrowsNothing` (the same, with B among the `Closers`): `connect_complete`
  (`api.cpp:797`) may throw out of `connect(const CPacket&) throw ()`.
* `DroppedIsNotAwaited` (`MCUdtMessages.cfg`): removing a range that wraps leaves its largest
  number in the receiver's loss list (`list.cpp:640`), so that the receiver goes on waiting
  for a packet that it was told to drop.
* `RemovedIsNotSent` (`MCUdtSockets.cfg`): the collector resets `m_ullLingerExpiration` of a
  socket whose linger time is over (`api.cpp:1232`); `CUDT::close` in `removeSocket` begins to
  linger again and returns (`core.cpp:933-936`), so that the socket is deleted without being
  taken off the sending heap (`core.cpp:952`), or out of epoll, or telling its peer.
* `RemovedIsNotAwaited` (`MCUdtSockets.cfg`): `garbageCollect` never signals `m_AcceptCond`
  (`api.cpp:1499-1520`) and then deletes the listener.

More facts that the models contain, as the code has them, and that show in the
exceptions of properties:

* `server.c:85`: port 6666 means an empty slot. Once a pair is complete the server
  never receives again, so a third client waits for ever (`WaitingEnds` excepts a
  client with a rival). A client that anybody can reach may take its peer's
  handshake for the server's notice (`client.cpp:76`, `MistakeHandshake`).
* `queue.cpp:1240`: all connects of a port wait on one condition, and a signal may
  wake the wrong one (`SleepsOnlyIfStolen`). Handshakes kept after a connect is over
  stay (`LeftoversAreLate`).
* `queue.cpp:413`: taking a socket out of the heap lets the one that fills the hole
  only sink, which breaks the order with six sockets or more. `queue.cpp:522-531`: an
  interrupt between `getNextProcTime` and `sleepto` is forgotten.
* `core.cpp:2281, 2300`: once a message is given up numbers and blocks do not match. A new
  packet has the next number and the next block, but a lost one is sent again with the
  block as far behind `m_pFirstBlock` as its number is behind `m_iSndLastDataAck`.
  `scanMsg` looks at boundary bits only, so that `recvmsg` may return the head of one
  message before the tail of another: `MessagesAreWhole`, checked by itself, fails with one
  message that has a time to live before two of two packets, against
  `t-msg.htm:14` ("either completely delivered or not delivered at all").
* `list.cpp:640` again: `LossSet!RemoveRange` and `CrossedOut` say that a removed range that
  wraps leaves the largest number in the list, so that all that is checked and proved of
  messages is about that removal.
* `buffer.cpp:207`: a file that ends early leaves `m_iCount` too large for ever.
* `cache.h:186`: an overflow assigns through a reference to the bucket of the new
  item; if the oldest is in another bucket the new item is lost and a pointer
  dangles. Negative keys are never found.
* `api.cpp:716`: `accept` uses `locate(u)` without a test. `core.cpp:2484`: the text of
  the previous minute is appended to that of this one, so that the previous
  minute's cookie never matches. `accept` takes the newest connection first.
* `epoll`: `m_sUDTSocksEx` is never filled; a shutdown by the peer tells no event
  (`core.cpp:2215`); a close stops at the first poll that was released
  (`core.cpp:959`); adding a broken socket tells nothing; `recv` and `send` clear after
  a stale test (`core.cpp:1199`).
* Options: in rendezvous mode the sides swap their packet sizes, and an answer of a
  connected side carries the size it has taken over and its whole flight flag size,
  so that both may end with the larger packets, or a window larger than the buffer
  (`PacketsFitUnits` and `WindowFitsBuffer` are about first answers). `UDT_FC` lowered
  after `UDT_RCVBUF` leaves a loss list shorter than the buffer (`core.cpp:763`).

## 5. The proofs

Each theorem holds for every value of the constants that the assumptions of its
modules allow.

`HolePunchProofs`, about `RendezvousServer`, for any set of addresses and any set of numbers:

* `TypeCorrect`. Two steps need thought: the byte swap keeps an ip an ip, and
  storing one field keeps an address an address.
* `HeardStaysRegistered`, `NoticesReachRegistrants`, `PairsAreFinal`, under
  `SentinelFree` (no address has port 6666). None of the three is inductive. The
  invariant `IInv` adds what each program counter implies: while `main` stores, the
  received number and the address in `cliaddr` belong to somebody heard, and
  `thr_fn` cannot be writing `cliaddr` then unless both ports are set already; what
  `b` holds was heard for its side whenever the port is set; the notices sent are
  as many as `tpc` says. The key fact is that while `main` is before the store of
  the port that completes the pair, the thread is still at its test, so `b` and the
  ports only take values that were received.
* `NoticeIpsHaveAnOrigin`: a second invariant follows every ip through `cliaddr`
  and `slot`. The race is real, and this is the strongest thing true of it.
* `ServerImplementsMatchmaker`: initial states map to initial states and each step
  to a step of `Matchmaker` or a stutter: storing a port is `Register`, sending is
  `Notify`, `Exit` is `Crash`, all the rest stutters.

`HolePunchProofs`, about `HolePunch`, for any clients, NATs and number of losses:

* `ServerInTheSystem`: in the composition the server behaves as `RendezvousServer`
  says, so that everything proved of the server holds of the system. Its inputs
  are datagrams of clients, which `SysInv` knows to carry a client's public address
  (`Genuine`).
* `StrangersAreKeptOut`: a client behind a NAT takes a datagram for the notice only
  if it is one. `SysInv` follows who was told what: the peer of a client that has
  left `waiting` is the one a notice to it named, or the zero address of an open
  client's mistake.
* `LinksAreMutual`: clients are linked only to the registrant of the other side, who
  went for them too. The ip of a notice may be spoiled by the race but its port
  cannot, so the proof needs the clients to differ in their ports (`ApartPorts`), and
  `SentinelFree`.

`UdtRendezvousProofs`, for any number of attempts, any limit of the store, and any
sides that expire, close or have a stale clock: `TypeCorrect`, `PeersAreKnown`,
`PeersHaveHeard`, `LeftoversExpire`, `ServingIsOpen`, `SuccessHasReason`. The
invariant is the types and seven parts. `Progress`: what the program counter of a side implies of
its flags. `MailIsTrue`: what is in the network, held or stored was sent by a
connect of the other side, or is blank. `PeersKnown`: what a side has recorded of
the other comes from such mail. `QueuesHold`: entries are of attempts that were
started; of a first attempt there is one at most, there while it lasts, and it has expired
when the attempt is over. `ServiceIsOpen`: a socket that is served has the status of a
connected one, or will as soon as its `connect` goes on. `MailHasCome`: what waits for a
side is in the network. `ReasonsHold`: why a first attempt left its loop, from the last two.
A step of one side leaves the other's part alone (`OthersStay`), so
most of a proof is about one side.

`UdtBufferProofs`, about the packet numbers, for every width of the ring that 32 bits can
hold: the lemmas of `UdtLemmas`, `OffsetOnRing`, `CompareOnRing`, `LengthOnRing`,
`StepOnRing` and `LeapOnRing`, say what each function of `CSeqNo` returns on two numbers a
known distance apart. The invariant of the window is that its ends are exactly `gap`
steps apart on the ring (with or without a wrap). From it follow `WindowTypeCorrect`,
`OffsetsAreDistances`, `ComparisonsAreByAge`, `LengthsAreCounts` and together
`WindowsAreRight`. The subtraction in `seqcmp` and `seqoff` stays within 32 bits, which is
part of what is proved.

`UdtBufferProofs`, about the buffers and rings, for any sizes:

* `Ack2sAreMatched`. The invariant `RingHoldsTheLast(n)`: from `ackTail` on, the ring holds
  the last `n` acknowledgements that were sent. Each step, storing on a ring that may
  be full and answering any ACK2, gives the `n` of the next state; `Place` avoids
  remainders, which a lemma turns into it.
* `PacketsKeepTheirBlocks`. The invariant has a witness, `ring`: a sequence of all blocks from
  the first on, each once, as the pointers link them, with the payloads not acknowledged
  in its first blocks. Freeing blocks rotates it, growing it inserts new blocks behind the
  last used one, and lemmas say what a walk along the pointers meets then.
* `BytesComeInOrder`. Two numbers are witnesses: how many packets had been read when
  `startPos` was last written, and which was the first that could not be read when the
  read under way began. Slots are their remainders. The comparison that decides how much
  space there is may be older than `startPos`, and then errs to the safe side
  (`ComparisonIsSafe`).
* `UnitsAlwaysSuffice`. A search in vain has gone back to the first unit of an entry, so
  that the next sees every unit that can be found (`MissesEnd`); units are counted
  by entries.

`UdtQueueProofs`:

* `PassedAlwaysReachCalls`, for any set of connects and any limit. The three conjuncts and
  the types are inductive together.
* `EverySocketStaysVisited`, for any number of sockets and any hash table. The invariant has
  a witness, a sequence of sockets without repetition that the pointers link in both
  directions (`Linked`), sorted by the time of the last look (`Sorted`), which agrees with the
  table and the queue of new entries (`Kept`). Lemmas give that sequence after `insert`,
  `remove` of a socket wherever it is, and `update`; the actions of the worker are built
  from the three.
* `LatestAreFound`, for any keys, buckets and sizes. As long as no overflow has damaged the
  cache (`CacheGood`), the items stand in the order of their last use, each once, a bucket
  holds exactly the stored keys that belong to it, each once, and who is not stored was
  used before all that are.
* `FirstIsAlwaysServed`, for any number of sockets, any heap to start with and any times.
  `insert_` and `remove_` follow ways through the heap, which the model collects with
  recursive functions (`Ancestors`, `Descent`). Induction over data being out of reach, an
  explicit function is shown to satisfy their equation (`WaysExist`), hence so does the one
  chosen; what the ways consist of follows by looking at the least place where it would be
  otherwise. On such a way each place has one next (`NextOnWay`), so that every socket moved
  has its new place in `m_iHeapLoc` (`InsertKeepsPlaces`, `DropKeepsPlaces`), and nobody
  comes to stand below one due later, provided the socket that fills a hole is not due
  before the one above it (`Misplaces`; the code does not let it rise). The invariant adds
  what the worker knows between `getNextProcTime` and `sleepto` (`ReadsTheFirst`): the time
  it has read is not later than the root's, or an interrupt has come since. Without it
  `OversleepsOnlyInRace` is not inductive.

`UdtSocketsProofs`:

* `SettingsAlwaysFit`, for any sizes that `SettingsAssumption` allows and any number of
  `setOpt` calls. Handshakes stay in the network for ever, so the invariant says of each of
  them what it says of its sender: one that repeats options (`kind` is `options`) was sent
  when the sender could no longer change them, and names its packet size and its window
  (`ShakesAreTrue`). What a side has taken over is in its `record`, a handshake of the other
  side (`RecordsAreKept`). With a listener there is one size, on which it decides, and all
  it says has that size (`ListenerDecides`).
* `EventsAreAlwaysTold`, for any number of polls. The property speaks of quiet states. In
  every state what is watched and has happened is told, or somebody is still going to
  tell it (`Coming`: the thread that has subscribed the poll, before its test or between
  the test and the lock; the receiving thread), or a stale test has cleared it
  (`TellingIsComing`, `BreakIsComing`). It needs that polls that watch are on the socket's
  list or about to be entered there, and that one being taken out watches nothing
  (`WatchersAreListed`).
* `SocketsStayRight`, `ConnectionsStayKept` and `RemovalStaysSafe`, for any number of sockets,
  ports, peers and accepting threads. The inductive invariant `SocketsInv` is an operator `Good` of
  the values of the variables, so that a step can be split into small ones whose
  intermediate values no state has: a socket fades, a flag is set, a listener is
  attached or gone, a connection appears, a socket is deleted; each has a lemma, and an action is
  one or several of them. The parts: what each status implies of a socket's flags
  (`Sane`); a multiplexer counts its users and its listener is one of them; a receiving
  thread between its locks has a socket that nobody else knows, made for a peer whose other
  sockets are all older and broken (`WorkersAreRight`); of a peer only the newest
  connection lives (`NewestIsUp`); queues hold listed connections of their listener that nobody
  has accepted; who accepts sleeps at a listener that is there, and as many are
  woken, or about to be, as connections wait; who is inside `close` has a socket that is still there.
  `OneConnectionPerPeer` is what needs most: it holds between the moments at which the
  receiving thread lets the locks go, because a peer's requests arrive at one port and so
  at one thread.

`UdtTransferProofs`, for any ring, first number, sizes of the two buffers, number of
payloads below half the ring, and for a network that loses, repeats and reorders:
`NoFalseAlarmEver`, `RetransmissionsAreTrue`, `EveryPacketIsAlwaysAccounted`,
`WindowIsAlwaysHonoured`, and the refinement `TransferIsReliable`. None of the
properties is inductive. The proof works with indices: packet `k` is the k-th one sent,
and seven indices say where a state is. A first group of lemmas turns the functions of
`UdtSeqNo`, `Span` and `Oldest` on numbers into comparison, difference and range of
indices, with and without a wrap; a second one turns slots of the receive buffer into
remainders of indices. `TransferInv` then says, at these indices, what the sender's
state is (`SenderAt`), what the flow window may be, also between its store and that of
`m_iSndLastAck` (`WindowAt`), what the receiver's state is, slot by slot (`ReceiverAt`),
and that every packet under way is true (`TruePacket`). Three facts tie the two sides:
the newest packet received was sent, only what the receiver has acknowledged is freed,
and the newest packet sent is below `Limit`, what the receiver has room for or two
packets more than it has acknowledged. There is one lemma per action.

`UdtMessagesProofs`, for any messages with any flags, any ring with room for twice
their packets, any first number and sizes of the two buffers, and for a network that loses,
repeats and reorders. What holds when messages are given up and what does not are told
apart, so there are three layers:

* `NumbersAreRight`, always. A message that expires makes the sender skip its numbers, and
  a notice makes the receiver skip them too, so packet `k` no longer carries block `k + 1`.
  The indices of the numbers stay in order all the same: `SenderAt`, `ReceiverAt` and
  `TruePacket` say which packet each number is of, and two facts tie the sides, that the
  receiver's newest packet is not beyond the sender's (`rc <= c`) and that what is freed was
  acknowledged (`la <= rl`). How far numbers are ahead of blocks is bounded by the
  packets (`Top`), so that no comparison is across half the ring. A search for the oldest lost
  packet, the reading of blocks that follow the last one written (`wild`) and a broken
  connection are part of it.
* `NoMessageIsMissed` and `TimeoutsTellTheTruth`, always. `ReaderInv` adds to the numbers that the buffer
  is typed and that nobody sleeps past a message. Only two actions make a message
  readable, the store of a packet and the acknowledgement, and it is the latter that wakes; the lemmas
  say what the scan of `scanMsg` finds before and after each.
* `MessagesAreKept`, `MessagesComeAsSent` and `AcksAreAlwaysTrue`, for what is said as long
  as nothing is given up. `MessagesInv` adds `ContentAt` to the numbers: packet `k` carries
  block `k + 1`, in the sender's queue and under way (`SentInOrder`); from packet `n`
  on, each slot holds its packet or nothing, nothing is beyond the newest, what is
  acknowledged is there, the loss list is exactly what is missing, and `maxPos` notes
  nothing outside the buffer (`KeptInOrder`, `Holds`); the messages returned are a
  sequence `g` without repetition, whose packets are marked as read, and one with the
  order flag has all before it in `g` (`Returned`). None of these can be left out: a
  packet that comes twice is refused because of its number or its slot, a
  message that was read out of order is passed over because of its marks, and
  `n` moves past marked packets only. The invariant was model-checked before it was
  proved.

Only model-checked: that the loss lists implement `LossSet` (`SndListIsSet`,
`RcvListIsSet`); and all liveness, which under fairness is out of the prover's reach
(`WaitingEnds`, `PunchingSucceeds`, `BothConnect`, `EverythingArrives`).

## 6. What is not modelled

* *Congestion control* (`ccc.cpp`, `CPktTimeWindow`): rates and windows in floating
  point, driven by measured times. The transfer is modelled as if the congestion
  window were never the smaller one, which only adds behaviours to the sender.
* *Channel, packets, digests* (`channel.cpp`, `packet.cpp`, `md5.cpp`): system calls
  and layout. Packets are records in the modules that send them.
* *The JSON library* is not linked into either program; *samples, Windows projects,
  scripts and documentation* have no behaviour of the system.
* Within modelled components: asynchronous connect (`UDT_RCVSYN` false), want of
  memory, calls that change nothing (`getPeerName`, `perfmon`, `select`), system
  sockets in epoll, `CAckNo` and `CMsgNo` (the arithmetic of `CSeqNo` with other
  widths), the wrapping of message numbers, IPv6, and the bytes of the payloads.
* What is in the models and has no property: what the server should do with a
  registrant from port 6666, of which nothing is said anywhere.
