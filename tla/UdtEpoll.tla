------------------------------- MODULE UdtEpoll -------------------------------
(***************************************************************************)
(* CEPoll and its callers, for one socket: the application subscribes it   *)
(* to polls and takes it out, reads and writes, and closes; the receiving  *)
(* thread brings data, makes room, and breaks the connection.  Each of     *)
(* them tests the state of the socket first and takes m_EPollLock after    *)
(* the test, so that what is told may be stale.                            *)
(*                                                                         *)
(* One action is what happens under one lock.  wait only copies ready, and *)
(* looks again every 10 ms; UDT_EPOLL_ERR is left out, for no subscription *)
(* enters m_sUDTSocksEx, and nothing can be told through it.               *)
(***************************************************************************)
EXTENDS Integers, FiniteSets, FiniteSetsExt

CONSTANTS
  Polls,     \* identifiers of polls, numbers as m_iIDSeed gives them
  RoomFor,   \* messages or packets that each of the socket's buffers holds
  MaxBusy    \* bound: subscriptions, removals, messages in either direction

ASSUME EpollAssumption == Polls \subseteq Nat /\ RoomFor \in Nat \ {0} /\ MaxBusy \in Nat

Events == {"in", "out"}

VARIABLES
  polls,    \* m_mPolls
  watch,    \* m_sUDTSocksIn and m_sUDTSocksOut, as pairs of a poll and an event
  ready,    \* m_sUDTReads and m_sUDTWrites
  pollIds,  \* CUDT::m_sPollID
  link,     \* no, connected, broken (timers), shut (by the peer), closed
  data,     \* in the receive buffer
  room,     \* free in the send buffer
  poller, reader, writer, receiver, closer, \* what each thread does next, and for which poll
  untold,   \* history: pairs that a stale test has cleared, or that were added to a broken socket
  busy      \* steps counted for MaxBusy

threads   == <<poller, reader, writer, receiver, closer>>
epollVars == <<polls, watch, ready, pollIds, link, data, room, threads, untold, busy>>

Nothing == [next |-> "nothing", eid |-> 0]
Next_(next, eid) == [next |-> next, eid |-> eid]

EpollInit ==
  /\ polls = Polls /\ watch = {} /\ ready = {} /\ pollIds = {} /\ link = "no"
  /\ data = 0 /\ room = RoomFor
  /\ poller = Nothing /\ reader = Nothing /\ writer = Nothing /\ receiver = Nothing /\ closer = Nothing
  /\ untold = {} /\ busy = 0

CountBusy == busy < MaxBusy /\ busy' = busy + 1

(***************************************************************************)
(* update_events, for the polls eids                                       *)
(***************************************************************************)
\* What enable = true puts in ready.
Enabled(eids, events) == {x \in watch : x[1] \in eids \intersect polls /\ x[2] \in events}

Tell(events) ==
  /\ ready' = ready \union Enabled(pollIds, events)
  /\ pollIds' = pollIds \intersect polls
  /\ untold' = untold \ Enabled(pollIds, events)

\* enable = false; due are the events that are there after all.
Silence(events, due) ==
  /\ ready' = {x \in ready : ~(x[1] \in pollIds \intersect polls /\ x[2] \in events)}
  /\ pollIds' = pollIds \intersect polls
  /\ untold' = untold \union {x \in watch : x[1] \in pollIds \intersect polls /\ x[2] \in events \intersect due}

(***************************************************************************)
(* The polling thread: epoll_add_usock, epoll_remove_usock, epoll_release  *)
(***************************************************************************)
AddWatch(p, events) ==
  /\ poller = Nothing /\ p \in polls /\ link # "closed" /\ CountBusy
  /\ watch' = watch \union ({p} \X events)
  /\ poller' = Next_("list", p)
  /\ UNCHANGED <<polls, ready, pollIds, link, data, room, reader, writer, receiver, closer, untold>>

\* Mutant: addEPoll only enters the poll.
ListPollOnly ==
  /\ poller.next = "list" /\ pollIds' = pollIds \union {poller.eid} /\ poller' = Nothing
  /\ untold' = IF link \in {"broken", "shut"} THEN untold \union {x \in watch : x[1] = poller.eid} ELSE untold
  /\ UNCHANGED <<polls, watch, ready, link, data, room, reader, writer, receiver, closer, busy>>

\* addEPoll, up to the test of the connection.
ListPoll ==
  /\ poller.next = "list" /\ pollIds' = pollIds \union {poller.eid}
  /\ poller' = IF link = "connected" THEN Next_("testIn", poller.eid) ELSE Nothing
  /\ untold' = IF link \in {"broken", "shut"} THEN untold \union {x \in watch : x[1] = poller.eid} ELSE untold
  /\ UNCHANGED <<polls, watch, ready, link, data, room, reader, writer, receiver, closer, busy>>

TestIn ==
  /\ poller.next = "testIn"
  /\ poller' = Next_(IF data > 0 THEN "tellIn" ELSE "testOut", poller.eid)
  /\ UNCHANGED <<polls, watch, ready, pollIds, link, data, room, reader, writer, receiver, closer, untold, busy>>

TellIn ==
  /\ poller.next = "tellIn" /\ Tell({"in"}) /\ poller' = Next_("testOut", poller.eid)
  /\ UNCHANGED <<polls, watch, link, data, room, reader, writer, receiver, closer, busy>>

TestOut ==
  /\ poller.next = "testOut"
  /\ poller' = IF room > 0 THEN Next_("tellOut", poller.eid) ELSE Nothing
  /\ UNCHANGED <<polls, watch, ready, pollIds, link, data, room, reader, writer, receiver, closer, untold, busy>>

TellOut ==
  /\ poller.next = "tellOut" /\ Tell({"out"}) /\ poller' = Nothing
  /\ UNCHANGED <<polls, watch, link, data, room, reader, writer, receiver, closer, busy>>

\* A poll that does not exist is an error; a socket that is closed is not looked up.
RemoveWatch(p) ==
  /\ poller = Nothing /\ p \in polls /\ CountBusy
  /\ watch' = {x \in watch : x[1] # p}
  /\ poller' = IF link = "closed" THEN Nothing ELSE Next_("clear", p)
  /\ UNCHANGED <<polls, ready, pollIds, link, data, room, reader, writer, receiver, closer, untold>>

\* removeEPoll.
ClearReady ==
  /\ poller.next = "clear" /\ poller' = Next_("unlist", poller.eid)
  /\ ready' = {x \in ready : x[1] # poller.eid}
  /\ untold' = {x \in untold : x[1] # poller.eid}
  /\ UNCHANGED <<polls, watch, pollIds, link, data, room, reader, writer, receiver, closer, busy>>

UnlistPoll ==
  /\ poller.next = "unlist" /\ poller' = Nothing
  /\ pollIds' = pollIds \ {poller.eid}
  /\ UNCHANGED <<polls, watch, ready, link, data, room, reader, writer, receiver, closer, untold, busy>>

Release(p) ==
  /\ poller = Nothing /\ p \in polls /\ CountBusy
  /\ polls' = polls \ {p}
  /\ watch' = {x \in watch : x[1] # p} /\ ready' = {x \in ready : x[1] # p}
  /\ untold' = {x \in untold : x[1] # p}
  /\ UNCHANGED <<pollIds, link, data, room, threads>>

(***************************************************************************)
(* recv and send, recvmsg and sendmsg                                      *)
(***************************************************************************)
\* The read, and the test whether anything is left.
Read ==
  /\ reader = Nothing /\ link \in {"connected", "broken", "shut"} /\ data > 0
  /\ data' = data - 1
  /\ reader' = IF data' = 0 THEN Next_("clear", 0) ELSE Nothing
  /\ UNCHANGED <<polls, watch, ready, pollIds, link, room, poller, writer, receiver, closer, untold, busy>>

NotReadable ==
  /\ reader.next = "clear" /\ reader' = Nothing
  /\ Silence({"in"}, IF data > 0 \/ link = "broken" THEN {"in"} ELSE {})
  /\ UNCHANGED <<polls, watch, link, data, room, poller, writer, receiver, closer, busy>>

Write ==
  /\ writer = Nothing /\ link = "connected" /\ room > 0 /\ CountBusy
  /\ room' = room - 1
  /\ writer' = IF room' = 0 THEN Next_("clear", 0) ELSE Nothing
  /\ UNCHANGED <<polls, watch, ready, pollIds, link, data, poller, reader, receiver, closer, untold>>

NotWritable ==
  /\ writer.next = "clear" /\ writer' = Nothing
  /\ Silence({"out"}, IF room > 0 \/ link = "broken" THEN {"out"} ELSE {})
  /\ UNCHANGED <<polls, watch, link, data, room, poller, reader, receiver, closer, busy>>

(***************************************************************************)
(* The receiving thread                                                    *)
(***************************************************************************)
\* The end of connect: m_bConnected, then UDT_EPOLL_OUT.
Connected ==
  /\ receiver = Nothing /\ link = "no" /\ link' = "connected" /\ receiver' = Next_("tellOut", 0)
  /\ UNCHANGED <<polls, watch, ready, pollIds, data, room, poller, reader, writer, closer, untold, busy>>

\* An acknowledgement is made (sendCtrl 2), and data can be read.
DataArrives ==
  /\ receiver = Nothing /\ link = "connected" /\ data < RoomFor /\ CountBusy
  /\ data' = data + 1 /\ receiver' = Next_("tellIn", 0)
  /\ UNCHANGED <<polls, watch, ready, pollIds, link, room, poller, reader, writer, closer, untold>>

\* An acknowledgement comes (processCtrl 2), and data can be written.
RoomIsMade ==
  /\ receiver = Nothing /\ link = "connected" /\ room < RoomFor
  /\ room' = room + 1 /\ receiver' = Next_("tellOut", 0)
  /\ UNCHANGED <<polls, watch, ready, pollIds, link, data, poller, reader, writer, closer, untold, busy>>

\* checkTimers after 16 expirations.
Break ==
  /\ receiver = Nothing /\ link = "connected" /\ link' = "broken" /\ receiver' = Next_("tellAll", 0)
  /\ UNCHANGED <<polls, watch, ready, pollIds, data, room, poller, reader, writer, closer, untold, busy>>

\* processCtrl 5: no event is told.
Shutdown ==
  /\ receiver = Nothing /\ link = "connected" /\ link' = "shut"
  /\ UNCHANGED <<polls, watch, ready, pollIds, data, room, threads, untold, busy>>

ReceiverTells ==
  /\ receiver # Nothing /\ receiver' = Nothing
  /\ Tell(CASE receiver.next = "tellIn" -> {"in"} [] receiver.next = "tellOut" -> {"out"}
            [] receiver.next = "tellAll" -> Events)
  /\ UNCHANGED <<polls, watch, link, data, room, poller, reader, writer, closer, busy>>

(***************************************************************************)
(* CUDT::close: the polls one by one, up to one that has been released     *)
(***************************************************************************)
CloseBegins ==
  /\ closer = Nothing /\ link # "closed" /\ closer' = Next_("unwatch", 0)
  /\ pollIds' = pollIds \intersect polls
  /\ UNCHANGED <<polls, watch, ready, link, data, room, poller, reader, writer, receiver, untold, busy>>

LeftToUnwatch == {p \in pollIds : p > closer.eid}

CloseUnwatches ==
  /\ closer.next = "unwatch" /\ LeftToUnwatch # {}
  /\ LET p == Min(LeftToUnwatch) IN
       IF p \in polls
       THEN watch' = {x \in watch : x[1] # p} /\ closer' = Next_("unwatch", p)
       ELSE watch' = watch /\ closer' = Next_("close", p)
  /\ UNCHANGED <<polls, ready, pollIds, link, data, room, poller, reader, writer, receiver, untold, busy>>

CloseEnds ==
  /\ closer.next \in {"unwatch", "close"} /\ (closer.next = "unwatch" => LeftToUnwatch = {})
  /\ closer' = Next_("done", 0) /\ link' = "closed"
  /\ UNCHANGED <<polls, watch, ready, pollIds, data, room, poller, reader, writer, receiver, untold, busy>>

EpollNext ==
  \/ \E p \in Polls : \/ \E events \in (SUBSET Events) \ {{}} : AddWatch(p, events)
                      \/ RemoveWatch(p) \/ Release(p)
  \/ ListPoll \/ TestIn \/ TellIn \/ TestOut \/ TellOut \/ ClearReady \/ UnlistPoll
  \/ Read \/ NotReadable \/ Write \/ NotWritable
  \/ Connected \/ DataArrives \/ RoomIsMade \/ Break \/ Shutdown \/ ReceiverTells
  \/ CloseBegins \/ CloseUnwatches \/ CloseEnds

EpollSpec == EpollInit /\ [][EpollNext]_epollVars

-----------------------------------------------------------------------------
Quiet == poller = Nothing /\ reader = Nothing /\ writer = Nothing /\ receiver = Nothing /\ closer = Nothing

\* A poll is told of data and of room that are there, in whatever order the subscription and
\* the arrival come; only a clearing after a stale test (recv and send test the buffer before
\* they take m_EPollLock) hides them, until the next arrival.
ReadinessIsTold ==
  Quiet /\ link = "connected" =>
    /\ data > 0 => \A p \in Polls : <<p, "in">> \in watch => <<p, "in">> \in ready \union untold
    /\ room > 0 => \A p \in Polls : <<p, "out">> \in watch => <<p, "out">> \in ready \union untold

\* A connection given up by the timers makes the socket ready in every sense that is watched;
\* not so a shutdown by the peer, nor a socket that is added later.
BreakIsTold == Quiet /\ link = "broken" => watch \subseteq ready \union untold

\* "since this happens after the epoll ID has been removed, they cannot be set again": a poll
\* reports nothing it does not watch, except of a socket that has been closed.
RemovedIsSilent ==
  closer = Nothing => \A x \in ready : x \in watch \/ (poller.next = "clear" /\ x[1] = poller.eid)

\* Polls are told what there is, and nothing they do not watch.
EventsAreTold == ReadinessIsTold /\ BreakIsTold /\ RemovedIsSilent
=============================================================================
