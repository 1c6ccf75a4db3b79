---------------------------- MODULE UdtRendezvous ----------------------------
(***************************************************************************)
(* The rendezvous connection setup of the UDT library between two sockets, *)
(* as client.cpp uses it: CUDT::connect in the application thread of each  *)
(* side, and in its receiving thread CRcvQueue::worker with the rendezvous *)
(* queue, the store of packets kept for connect, and the table of          *)
(* connected sockets.  The network loses, duplicates and reorders.         *)
(*                                                                         *)
(* A side has one socket.  The initial sequence number drawn by an attempt *)
(* to connect stands for the attempt: it is the attempt's number, and 0 is *)
(* that of a CHandShake nobody has filled in.                              *)
(***************************************************************************)
EXTENDS Integers, Sequences, FiniteSets

CONSTANTS
  Ends,         \* the two sides
  MaxAttempts,  \* bound: calls of connect per side
  StoreLimit,   \* storePkt drops once more than this many are stored (16)
  StaleClock,   \* sides whose m_llLastReqTime, never initialised, looks old
  Expiring,     \* sides whose time to live may run out
  Closers       \* sides whose application may close the socket

ASSUME EndsAssumption == IsFiniteSet(Ends) /\ Cardinality(Ends) = 2
ASSUME BoundsAssumption == /\ MaxAttempts \in Nat \ {0} /\ StoreLimit \in Nat
                           /\ StaleClock \subseteq Ends
                           /\ Expiring \subseteq Ends /\ Closers \subseteq Ends

Other(e) == CHOOSE f \in Ends : f # e

Isn   == 0..MaxAttempts
Shake == [req : {0, -1, -2}, isn : Isn, sid : {0, 1}, typed : BOOLEAN]
Blank == [req |-> 0, isn |-> 0, sid |-> 0, typed |-> FALSE]   \* CHandShake()

\* A packet: id is 0 for "connection request", 1 for the peer's socket.
Packet == [to : Ends, id : {0, 1}, kind : {"hs", "live", "shutdown"}, hs : Shake]
Hs(e, id, hs)  == [to |-> Other(e), id |-> id, kind |-> "hs", hs |-> hs]
Ctrl(e, id, kind) == [to |-> Other(e), id |-> id, kind |-> kind, hs |-> Blank]

NoPacket == [kind |-> "none"]

VARIABLES
  \* application thread
  pc,          \* where CUDTUnited::connect is: idle, configure, loop, the last steps
               \* of a connect that succeeds (enlist, complete), check, or
               \* ended with its process
  result,      \* what the last connect returned
  attempt,     \* how many attempts were started
  \* the socket (CUDTSocket and CUDT)
  place,       \* live, closed (m_ClosedSockets) or deleted
  status,      \* s->m_Status
  connecting, connected, closing, broken,
  connReq, connRes, peerIsn, peerSid,
  \* shared with the receiving thread
  rq,          \* the socket's entries in m_lRendezvousID, oldest first
  expired,     \* attempts up to this one have outlived their TTL
  stored,      \* m_mBuffer[m_SocketID]
  onList,      \* none, new (m_vNewEntry) or in (m_pHash and m_pRcvUList)
  held,        \* packet the worker has looked up but not yet stored
  net,         \* every packet ever sent: it arrives any number of times, at any
               \* later moment, or never
  \* history
  strayed      \* the sides whose worker has used the CUDT of the deleted socket

vars == <<pc, result, attempt, place, status, connecting, connected, closing,
          broken, connReq, connRes, peerIsn, peerSid, rq, expired, stored,
          onList, held, net, strayed>>

Init ==
  /\ pc = [e \in Ends |-> "idle"] /\ result = [e \in Ends |-> "none"]
  /\ attempt = [e \in Ends |-> 0]
  /\ place = [e \in Ends |-> "live"] /\ status = [e \in Ends |-> "opened"]
  /\ connecting = [e \in Ends |-> FALSE] /\ connected = [e \in Ends |-> FALSE]
  /\ closing = [e \in Ends |-> FALSE] /\ broken = [e \in Ends |-> FALSE]
  /\ connReq = [e \in Ends |-> Blank] /\ connRes = [e \in Ends |-> Blank]
  /\ peerIsn = [e \in Ends |-> 0] /\ peerSid = [e \in Ends |-> 0]
  /\ rq = [e \in Ends |-> <<>>] /\ expired = [e \in Ends |-> 0]
  /\ stored = [e \in Ends |-> <<>>] /\ onList = [e \in Ends |-> "none"]
  /\ held = [e \in Ends |-> NoPacket] /\ net = {} /\ strayed = {}

appVars    == <<pc, result, attempt>>
socketVars == <<place, status, connecting, connected, closing, broken>>
peerVars   == <<connReq, connRes, peerIsn, peerSid>>
queueVars  == <<rq, expired, stored, onList, held, strayed>>

Serving(e) == connected[e] /\ ~broken[e] /\ ~closing[e]

(***************************************************************************)
(* Application thread: CUDTUnited::connect and CUDT::connect               *)
(***************************************************************************)

\* api.cpp 748-766 and core.cpp 574-594: the socket is in the rendezvous queue
\* before m_ConnReq is filled in.
Connect(e) ==
  /\ pc[e] = "idle" /\ place[e] = "live" /\ status[e] = "opened"
  /\ attempt[e] < MaxAttempts
  /\ ~connecting[e] /\ ~connected[e]
  /\ pc' = [pc EXCEPT ![e] = "configure"]
  /\ attempt' = [attempt EXCEPT ![e] = @ + 1]
  /\ status' = [status EXCEPT ![e] = "connecting"]
  /\ rq' = [rq EXCEPT ![e] = Append(@, attempt[e] + 1)]
  /\ UNCHANGED <<result, place, connecting, connected, closing, broken, peerVars,
                 expired, stored, onList, held, net, strayed>>

\* core.cpp 580-581: an earlier attempt has not been called off yet, or succeeded
\* in secret; CUDTUnited::connect puts the status back to OPENED.
ConnectRefused(e) ==
  /\ pc[e] = "idle" /\ place[e] = "live" /\ status[e] = "opened"
  /\ attempt[e] \in 1..(MaxAttempts - 1)
  /\ connecting[e] \/ connected[e]
  /\ attempt' = [attempt EXCEPT ![e] = @ + 1]
  /\ result' = [result EXCEPT ![e] = "error"]
  /\ UNCHANGED <<pc, socketVars, peerVars, queueVars, net>>

\* core.cpp 597-629: m_ConnReq, the new ISN, the first request (addressed to id 0).
Configure(e) ==
  /\ pc[e] = "configure"
  /\ LET hs == [req |-> 0, isn |-> attempt[e], sid |-> 1, typed |-> TRUE]
     IN  /\ connReq' = [connReq EXCEPT ![e] = hs]
         /\ net' = net \union {Hs(e, 0, hs)}
  /\ connecting' = [connecting EXCEPT ![e] = TRUE]
  /\ pc' = [pc EXCEPT ![e] = "loop"]
  /\ UNCHANGED <<result, attempt, place, status, connected, closing, broken,
                 connRes, peerIsn, peerSid, queueVars>>

Request(e) == Hs(e, connRes[e].sid, connReq[e])

\* core.cpp 648-656: the request again, once 250 ms have passed or a response came.
Resend(e) ==
  /\ pc[e] = "loop" /\ ~closing[e]
  /\ net' = net \union {Request(e)}
  /\ UNCHANGED <<appVars, socketVars, peerVars, queueVars>>

\* CUDT::connect(response) up to POST_CONNECT, on packet p: what it returns, and
\* the response it has recorded.
Recorded(e, p) == IF p.kind = "hs" THEN p.hs ELSE connRes[e]
PeerIsUp(e, p) == p.kind = "live" /\ connRes[e].typed
\* Mutant: any handshake is enough to connect.
VerdictOneWay(e, p) ==
  IF ~connecting[e] THEN "stop"
  ELSE IF PeerIsUp(e, p) THEN "connected"
  ELSE IF p.kind # "hs" THEN "stop"
  ELSE "connected"

Verdict(e, p) ==
  IF ~connecting[e] THEN "stop"
  ELSE IF PeerIsUp(e, p) THEN "connected"
  ELSE IF p.kind # "hs" THEN "stop"
  ELSE IF connReq[e].req = 0 \/ p.hs.req = 0 THEN "again"
  ELSE "connected"

\* core.cpp 659-661: the oldest stored packet is handed to connect(response).
TakeStored(e) ==
  /\ pc[e] = "loop" /\ ~closing[e] /\ stored[e] # <<>>

\* -1: the loop ends with no error set.
TakeAndStop(e) ==
  /\ TakeStored(e) /\ Verdict(e, Head(stored[e])) = "stop"
  /\ pc' = [pc EXCEPT ![e] = "check"]
  /\ stored' = [stored EXCEPT ![e] = Tail(@)]
  /\ UNCHANGED <<result, attempt, socketVars, peerVars, rq, expired, onList, held,
                 net, strayed>>

\* Mutant: m_ConnReq.m_iReqType is not set to -1.
TakeAndGoOnSilently(e) ==
  /\ TakeStored(e)
  /\ LET p == Head(stored[e])
     IN  /\ Verdict(e, p) = "again"
         /\ connRes' = [connRes EXCEPT ![e] = p.hs]
  /\ stored' = [stored EXCEPT ![e] = Tail(@)]
  /\ UNCHANGED <<appVars, socketVars, connReq, peerIsn, peerSid, rq, expired, onList,
                 held, net, strayed>>

\* 1: our next request says that we have heard the peer.
TakeAndGoOn(e) ==
  /\ TakeStored(e)
  /\ LET p == Head(stored[e])
     IN  /\ Verdict(e, p) = "again"
         /\ connRes' = [connRes EXCEPT ![e] = p.hs]
  /\ connReq' = [connReq EXCEPT ![e].req = -1]
  /\ stored' = [stored EXCEPT ![e] = Tail(@)]
  /\ UNCHANGED <<appVars, socketVars, peerIsn, peerSid, rq, expired, onList,
                 held, net, strayed>>

\* 0: POST_CONNECT.  removeConnector forgets one entry and what is stored.
TakeAndConnect(e) ==
  /\ TakeStored(e)
  /\ LET p   == Head(stored[e])
         res == Recorded(e, p)
     IN  /\ Verdict(e, p) = "connected"
         /\ connRes' = [connRes EXCEPT ![e] = res]
         /\ peerIsn' = [peerIsn EXCEPT ![e] = res.isn]
         /\ peerSid' = [peerSid EXCEPT ![e] = res.sid]
  /\ rq' = [rq EXCEPT ![e] = IF @ = <<>> THEN @ ELSE Tail(@)]
  /\ stored' = [stored EXCEPT ![e] = <<>>]
  /\ connecting' = [connecting EXCEPT ![e] = FALSE]
  /\ connected' = [connected EXCEPT ![e] = TRUE]
  /\ pc' = [pc EXCEPT ![e] = "enlist"]
  /\ UNCHANGED <<result, attempt, place, status, closing, broken, connReq, expired, onList,
                 held, net, strayed>>

\* core.cpp 800-802: setNewEntry; from here on the worker may serve the socket.
Enlist(e) ==
  /\ pc[e] = "enlist"
  /\ pc' = [pc EXCEPT ![e] = "complete"]
  /\ onList' = [onList EXCEPT ![e] = "new"]
  /\ UNCHANGED <<result, attempt, socketVars, peerVars, rq, expired, stored, held, net,
                 strayed>>

\* Mutant: connect_complete is forgotten.
CompleteNoStatus(e) ==
  /\ pc[e] = "complete"
  /\ pc' = [pc EXCEPT ![e] = "check"]
  /\ UNCHANGED <<result, attempt, socketVars, peerVars, queueVars, net>>

\* connect_complete.  If the collector has taken the socket out of m_Sockets it throws, out
\* of a function declared throw (): the process ends.
Complete(e) ==
  /\ pc[e] = "complete"
  /\ \/ /\ place[e] = "live"
        /\ status' = [status EXCEPT ![e] = "connected"]
        /\ pc' = [pc EXCEPT ![e] = "check"]
     \/ /\ place[e] # "live"
        /\ pc' = [pc EXCEPT ![e] = "ended"]
        /\ UNCHANGED status
  /\ UNCHANGED <<result, attempt, place, connecting, connected, closing, broken, peerVars,
                 queueVars, net>>

\* core.cpp 668-673: nothing came for a while, and the TTL is over.
ConnectTimeout(e) ==
  /\ pc[e] = "loop"
  /\ attempt[e] <= expired[e] /\ stored[e] = <<>>
  /\ pc' = [pc EXCEPT ![e] = "idle"]
  /\ result' = [result EXCEPT ![e] = "error"]
  /\ status' = [status EXCEPT ![e] = "opened"]
  /\ UNCHANGED <<attempt, place, connecting, connected, closing, broken, peerVars,
                 queueVars, net>>

\* core.cpp 645, 679-690 and api.cpp 767-790: out of the loop without a timeout.
ConnectReturns(e) ==
  /\ pc[e] = "check" \/ (pc[e] = "loop" /\ closing[e])
  /\ pc' = [pc EXCEPT ![e] = "idle"]
  /\ result' = [result EXCEPT ![e] = IF closing[e] THEN "error" ELSE "ok"]
  /\ status' = IF closing[e] THEN [status EXCEPT ![e] = "opened"] ELSE status
  /\ UNCHANGED <<attempt, place, connecting, connected, closing, broken, peerVars,
                 queueVars, net>>

\* Mutant: close leaves the rendezvous queue alone.
CloseKeepsEntry(e) ==
  /\ e \in Closers
  /\ pc[e] = "idle" /\ place[e] = "live" /\ result[e] # "none"
  /\ closing' = [closing EXCEPT ![e] = TRUE]
  /\ net' = IF connected[e] /\ ~broken[e]
            THEN net \union {Ctrl(e, peerSid[e], "shutdown")} ELSE net
  /\ connected' = [connected EXCEPT ![e] = FALSE]
  /\ status' = [status EXCEPT ![e] = "closed"]
  /\ place' = [place EXCEPT ![e] = "closed"]
  /\ UNCHANGED <<appVars, connecting, broken, peerVars, rq, stored, expired, onList, held,
                 strayed>>

\* CUDTUnited::close, CUDT::close: only a socket still connecting leaves the queue.
\* CUDTUnited::connect and close both hold the socket's m_ControlLock: never one during
\* the other.
Close(e) ==
  /\ e \in Closers
  /\ pc[e] = "idle" /\ place[e] = "live" /\ result[e] # "none"
  /\ closing' = [closing EXCEPT ![e] = TRUE]
  /\ rq' = IF connecting[e] /\ rq[e] # <<>> THEN [rq EXCEPT ![e] = Tail(@)] ELSE rq
  /\ stored' = IF connecting[e] THEN [stored EXCEPT ![e] = <<>>] ELSE stored
  /\ net' = IF connected[e] /\ ~broken[e]
            THEN net \union {Ctrl(e, peerSid[e], "shutdown")} ELSE net
  /\ connected' = [connected EXCEPT ![e] = FALSE]
  /\ status' = [status EXCEPT ![e] = "closed"]
  /\ place' = [place EXCEPT ![e] = "closed"]
  /\ UNCHANGED <<appVars, connecting, broken, peerVars, expired, onList, held, strayed>>

\* The garbage collector (api.cpp 1178-1315): a broken socket is closed, also while its
\* connect has not returned; a closed one is deleted when it has left the worker's list
\* and a second has passed, in which connect returns.
CollectBroken(e) ==
  /\ broken[e] /\ place[e] = "live"
  /\ place' = [place EXCEPT ![e] = "closed"]
  /\ status' = [status EXCEPT ![e] = "closed"]
  /\ UNCHANGED <<appVars, connecting, connected, closing, broken, peerVars, queueVars, net>>

Delete(e) ==
  /\ place[e] = "closed" /\ onList[e] = "none" /\ pc[e] = "idle"
  /\ place' = [place EXCEPT ![e] = "deleted"]
  /\ connected' = [connected EXCEPT ![e] = FALSE]
  /\ UNCHANGED <<appVars, status, connecting, closing, broken, peerVars, queueVars, net>>

\* An established connection says something: data or a keep-alive.
Speak(e) ==
  /\ Serving(e) /\ (onList[e] = "in" \/ pc[e] = "idle")
  /\ net' = net \union {Ctrl(e, peerSid[e], "live")}
  /\ UNCHANGED <<appVars, socketVars, peerVars, queueVars>>

(***************************************************************************)
(* CRcvQueue::worker                                                       *)
(***************************************************************************)
Running(e) == pc[e] # "ended"

\* queue.cpp 988-996.
WorkerInsert(e) ==
  /\ onList[e] = "new" /\ held[e] = NoPacket
  /\ onList' = [onList EXCEPT ![e] = "in"]
  /\ UNCHANGED <<appVars, socketVars, peerVars, rq, expired, stored, held, net, strayed>>

\* queue.cpp 1069-1087: a socket no longer served leaves the table.
WorkerRemove(e) ==
  /\ onList[e] = "in" /\ ~Serving(e) /\ held[e] = NoPacket /\ Running(e)
  /\ onList' = [onList EXCEPT ![e] = "none"]
  /\ UNCHANGED <<appVars, socketVars, peerVars, rq, expired, stored, held, net, strayed>>

\* The entries of the rendezvous queue hold the CUDT's address, and nothing keeps the worker
\* from using it when the CUDT is gone.  What it then finds there is undefined: here, what
\* the destructor has left.
UsesCudt(e) == strayed' = IF place[e] = "deleted" THEN strayed \union {e} ELSE strayed

\* The network hands over p.
Arrives(e, p) == p \in net /\ p.to = e /\ held[e] = NoPacket /\ Running(e)

\* queue.cpp 1024, 1052: looked up in the rendezvous queue and asked for m_bSynRecving, not
\* yet stored.
WorkerHold(e, p) ==
  /\ Arrives(e, p)
  /\ p.id = 1 => onList[e] # "in"
  /\ rq[e] # <<>>
  /\ held' = [held EXCEPT ![e] = p]
  /\ UsesCudt(e)
  /\ UNCHANGED <<appVars, socketVars, peerVars, rq, expired, stored, onList, net>>

\* storePkt.
WorkerStore(e) ==
  /\ held[e] # NoPacket /\ Running(e)
  /\ held' = [held EXCEPT ![e] = NoPacket]
  /\ stored' = IF Len(stored[e]) > StoreLimit THEN stored
               ELSE [stored EXCEPT ![e] = Append(@, held[e])]
  /\ UNCHANGED <<appVars, socketVars, peerVars, rq, expired, onList, net, strayed>>

\* processCtrl, case 0: a connected rendezvous socket answers any handshake but an
\* answer with one of kind -2, whose type field nobody fills in.
WorkerReply(e, p) ==
  /\ Arrives(e, p) /\ p.id = 1 /\ onList[e] = "in" /\ Serving(e)
  /\ p.kind = "hs" /\ p.hs.req # -2
  /\ LET hs == [req |-> -2, isn |-> connReq[e].isn, sid |-> 1, typed |-> FALSE]
     IN  net' = net \union {Hs(e, peerSid[e], hs)}
  /\ UNCHANGED <<appVars, socketVars, peerVars, queueVars>>

\* processCtrl, case 5.
WorkerShutdown(e, p) ==
  /\ Arrives(e, p) /\ p.id = 1 /\ onList[e] = "in" /\ Serving(e)
  /\ p.kind = "shutdown"
  /\ closing' = [closing EXCEPT ![e] = TRUE]
  /\ broken' = [broken EXCEPT ![e] = TRUE]
  /\ UNCHANGED <<appVars, place, status, connecting, connected, peerVars, queueVars, net>>

\* Mutant: updateConnStatus does not look at the time.
WorkerUpdateAnyTime(e) ==
  /\ rq[e] # <<>> /\ held[e] = NoPacket /\ Running(e)
  /\ pc[e] = "configure" /\ attempt[e] = 1 => e \in StaleClock
  /\ connecting' = [connecting EXCEPT ![e] = FALSE]
  /\ UsesCudt(e)
  /\ UNCHANGED <<appVars, place, status, connected, closing, broken, peerVars,
                 rq, expired, stored, onList, held, net>>

\* updateConnStatus: an entry whose time is over calls the attempt off, and stays
\* in the queue; one whose time is not sends the request.
WorkerUpdate(e) ==
  /\ rq[e] # <<>> /\ held[e] = NoPacket /\ Running(e)
  /\ pc[e] = "configure" /\ attempt[e] = 1 => e \in StaleClock
  /\ LET entries == {rq[e][i] : i \in 1..Len(rq[e])}
     IN  /\ connecting' = IF \E t \in entries : t <= expired[e]
                          THEN [connecting EXCEPT ![e] = FALSE] ELSE connecting
         /\ net' = IF \E t \in entries : t > expired[e]
                   THEN net \union {Request(e)} ELSE net
  /\ UsesCudt(e)
  /\ UNCHANGED <<appVars, place, status, connected, closing, broken, peerVars,
                 rq, expired, stored, onList, held>>

WorkerReceives(e, p) == WorkerHold(e, p) \/ WorkerReply(e, p) \/ WorkerShutdown(e, p)

(***************************************************************************)
(* Environment                                                             *)
(***************************************************************************)
\* 30 seconds after the call of connect.
TimePasses(e) ==
  /\ e \in Expiring /\ expired[e] < attempt[e] /\ pc[e] # "configure"
  /\ expired' = [expired EXCEPT ![e] = attempt[e]]
  /\ UNCHANGED <<appVars, socketVars, peerVars, rq, stored, onList, held, net, strayed>>

App(e) == \/ Configure(e) \/ TakeAndStop(e) \/ TakeAndGoOn(e) \/ TakeAndConnect(e)
          \/ Enlist(e) \/ Complete(e) \/ ConnectTimeout(e) \/ ConnectReturns(e)

Next == \E e \in Ends :
             \/ App(e) \/ Connect(e) \/ ConnectRefused(e) \/ Resend(e) \/ Close(e)
             \/ CollectBroken(e) \/ Delete(e) \/ Speak(e)
             \/ WorkerInsert(e) \/ WorkerRemove(e) \/ WorkerStore(e) \/ WorkerUpdate(e)
             \/ \E p \in net : WorkerReceives(e, p)
             \/ TimePasses(e)

\* What the other side is sending to e over and over: its request while it is in
\* the loop of connect, keep-alives once it is connected, and then also its answer
\* to a request that e keeps addressing to its socket.
RequestRepeats(e, p) == pc[Other(e)] = "loop" /\ p = Request(Other(e))
SpeechRepeats(e, p)  == /\ Serving(Other(e))
                        /\ p = Ctrl(Other(e), peerSid[Other(e)], "live")
ReplyRepeats(e, p)   == /\ Serving(Other(e)) /\ pc[e] = "loop" /\ connRes[e].sid = 1
                        /\ p.to = e /\ p.hs.req = -2
Repeats(e, p) == RequestRepeats(e, p) \/ SpeechRepeats(e, p) \/ ReplyRepeats(e, p)

HearRequest(e) == \E p \in net : RequestRepeats(e, p) /\ WorkerReceives(e, p)
HearSpeech(e)  == \E p \in net : SpeechRepeats(e, p) /\ WorkerReceives(e, p)
HearReply(e)   == \E p \in net : ReplyRepeats(e, p) /\ WorkerReceives(e, p)

\* A step hands nothing to the worker but what is being sent again and again.
NothingOld(e) == held'[e] \in {NoPacket, held[e]} \/ Repeats(e, held'[e])

\* Threads run, both sides call connect, a packet that is sent over and over gets
\* through in the end, and copies of one no longer sent stop arriving.
Fairness ==
  \A e \in Ends :
    /\ WF_vars(App(e)) /\ WF_vars(Connect(e)) /\ WF_vars(Resend(e)) /\ WF_vars(Speak(e))
    /\ WF_vars(WorkerInsert(e)) /\ WF_vars(WorkerStore(e))
    /\ SF_vars(HearRequest(e)) /\ SF_vars(HearSpeech(e)) /\ SF_vars(HearReply(e))
    /\ <>[][NothingOld(e)]_vars

Spec     == Init /\ [][Next]_vars
FairSpec == Spec /\ Fairness

-----------------------------------------------------------------------------
TypeOK ==
  /\ pc \in [Ends -> {"idle", "configure", "loop", "enlist", "complete", "check", "ended"}]
  /\ result \in [Ends -> {"none", "ok", "error"}]
  /\ attempt \in [Ends -> Isn] /\ expired \in [Ends -> Isn]
  /\ place \in [Ends -> {"live", "closed", "deleted"}]
  /\ status \in [Ends -> {"opened", "connecting", "connected", "closed"}]
  /\ connecting \in [Ends -> BOOLEAN] /\ connected \in [Ends -> BOOLEAN]
  /\ closing \in [Ends -> BOOLEAN] /\ broken \in [Ends -> BOOLEAN]
  /\ connReq \in [Ends -> Shake] /\ connRes \in [Ends -> Shake]
  /\ peerIsn \in [Ends -> Isn] /\ peerSid \in [Ends -> {0, 1}]
  /\ rq \in [Ends -> Seq(1..MaxAttempts)]
  /\ stored \in [Ends -> Seq(Packet)]
  /\ onList \in [Ends -> {"none", "new", "in"}]
  /\ held \in [Ends -> Packet \union {NoPacket}]
  /\ net \subseteq Packet /\ strayed \subseteq Ends

\* Who is connected knows the peer's real initial sequence number and socket id,
\* and the peer has started to connect: never the blank handshake that the worker
\* may send between registerConnector and the filling in of m_ConnReq.
PeerIsKnown ==
  \A e \in Ends : connected[e] =>
    /\ peerIsn[e] \in 1..attempt[Other(e)]
    /\ peerSid[e] = 1

\* Three-way: nobody is connected before the other side has heard from it.
PeerHasHeard ==
  \A e \in Ends : connected[e] =>
    connReq[Other(e)].req = -1 \/ attempt[Other(e)] > 1

\* The first connect of a socket returns success without a connection only if its time was
\* over, or if the other side had connected already and said so: its keep-alive or shutdown
\* can overtake the handshake that would have connected this side.
TimeOrPeerIsReason(e) ==
  attempt[e] <= expired[e] \/ \E p \in net : p.to = e /\ p.kind # "hs"
SuccessOrReason ==
  \A e \in Ends : result[e] = "ok" /\ place[e] = "live" /\ attempt[e] = 1 =>
    status[e] = "connected" \/ TimeOrPeerIsReason(e)

\* What a socket that has connected once only leaves in the rendezvous queue when it is
\* deleted has had its time.  The worker still uses the deleted CUDT for it
\* (NoDeletedCudtIsUsed), but sends nothing any more on its behalf.
LeftoversAreExpired ==
  \A e \in Ends : place[e] = "deleted" /\ attempt[e] = 1 =>
    \A i \in 1..Len(rq[e]) : rq[e][i] <= expired[e]

\* At rest, s->m_Status says CONNECTED for a socket that serves its connection.
ServingIsConnected ==
  \A e \in Ends : Serving(e) /\ pc[e] = "idle" /\ place[e] = "live"
    => status[e] = "connected" /\ result[e] = "ok"

\* With time enough, two sides that connect to each other both get connected.
BothConnect == <>(\A e \in Ends : connected[e])

\* The comment in CUDTUnited::close: "a socket will not be immediated removed when it is
\* closed in order to prevent other methods from accessing invalid address".
NoDeletedCudtIsUsed == strayed = {}

\* core.h 149, the declaration of connect(const CPacket&) throw (): it throws nothing.
ConnectThrowsNothing == \A e \in Ends : pc[e] # "ended"

\* m_bConnecting is cleared only by success or when the attempt's own time is over.
OwnTime(e) == connecting[e] /\ ~connecting'[e] => connected'[e] \/ attempt[e] <= expired[e]

\* connect.htm: "When connect fails, the UDT socket can still be used to connect
\* again": every attempt has its own time.
RetryHasItsTime == [][\A e \in Ends : OwnTime(e)]_vars

\* connect.htm, "If success, 0 is returned": connect returns 0 only if connected.
SuccessIsConnection ==
  \A e \in Ends : result[e] = "ok" /\ place[e] = "live" => status[e] = "connected"
=============================================================================
