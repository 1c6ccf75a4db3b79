------------------------------ MODULE HolePunch ------------------------------
(***************************************************************************)
(* The whole rendezvous: the server of server.c, several clients running   *)
(* client.cpp, the NATs between them and a network that may lose           *)
(* datagrams.  The UDT connection setup is seen from the outside here: the *)
(* three ways of a rendezvous handshake towards the peer's address, until  *)
(* it is done or the time to live runs out (UdtRendezvous.tla has the      *)
(* inside: threads, queues, time and attempts).                            *)
(***************************************************************************)
EXTENDS RendezvousServer, FiniteSets

CONSTANTS
  Clients,   \* running client processes
  NumOf,     \* NumOf[c]: argv[1] of client c
  AddrOf,    \* AddrOf[c]: its public address, as its NAT shows it to everyone
  Open,      \* clients reachable by anybody (no NAT, or a full-cone one)
  MaxLoss    \* bound: datagrams the network may lose

ASSUME ClientsAssumption == /\ NumOf \in [Clients -> Nums]
                            /\ AddrOf \in [Clients -> Addrs]
                            /\ Open \subseteq Clients
                            /\ MaxLoss \in Nat

VARIABLES
  stage,    \* stage[c]: where main of client.cpp is
  peer,     \* peer[c]: cliaddr of client.cpp, the address it will connect to
  punched,  \* punched[c]: c has sent to peer[c], so its NAT lets peer[c] in
  req,      \* req[c]: m_ConnReq.m_iReqType, 0 until the peer was heard and -1 from then on
  linked,   \* linked[c]: the UDT connection is set up
  net,      \* datagrams in flight
  lost      \* how many have been lost

clientVars == <<stage, peer, punched, req, linked>>
allVars    == <<vars, clientVars, net, lost>>

Reg(c)         == [kind |-> "reg", src |-> AddrOf[c], num |-> NumOf[c]]
Notice(m)      == [kind |-> "notice", dst |-> m.to, body |-> m.body]
Handshake(c, to, r) == [kind |-> "hs", src |-> AddrOf[c], dst |-> to, req |-> r]

SysInit == /\ Init
           /\ stage = [c \in Clients |-> "start"]
           /\ peer = [c \in Clients |-> Zero]
           /\ punched = [c \in Clients |-> FALSE]
           /\ req = [c \in Clients |-> 0]
           /\ linked = [c \in Clients |-> FALSE]
           /\ net = {} /\ lost = 0

(***************************************************************************)
(* The server: its own steps, with recvfrom and sendto tied to the network *)
(***************************************************************************)
ServerReceive ==
  \E m \in net : /\ m.kind = "reg"
                 /\ MainRecv(m.src, m.num)
                 /\ net' = net \ {m}
                 /\ UNCHANGED <<clientVars, lost>>

ServerLocal == MainLocal /\ UNCHANGED <<clientVars, net, lost>>

ServerThread ==
  /\ Thread
  /\ net' = net \union {Notice(sent'[k]) : k \in (1..Len(sent')) \ (1..Len(sent))}
  /\ UNCHANGED <<clientVars, lost>>

ServerExit == Exit /\ UNCHANGED <<clientVars, net, lost>>

(***************************************************************************)
(* A client (client.cpp)                                                   *)
(***************************************************************************)
\* sendto(sockfd, &a, ..., &servaddr): the only registration it ever sends.
Register(c) ==
  /\ stage[c] = "start"
  /\ stage' = [stage EXCEPT ![c] = "waiting"]
  /\ net' = net \union {Reg(c)}
  /\ UNCHANGED <<vars, peer, punched, req, linked, lost>>

\* recvfrom(sockfd, &a, ..., &servaddr): whatever datagram comes is taken for the
\* notice.  The first words of a UDT handshake read as ip 0 and a timestamp.
Believe(c, m, addr) ==
  /\ stage[c] = "waiting"
  /\ m \in net /\ m.kind \in {"notice", "hs"} /\ m.dst = AddrOf[c]
  /\ stage' = [stage EXCEPT ![c] = "connecting"]
  /\ peer' = [peer EXCEPT ![c] = addr]
  /\ net' = net \ {m}
  /\ UNCHANGED <<vars, punched, req, linked, lost>>

\* Mutant: the ip is byte-swapped on the way into cliaddr.
ReceiveNoticeSwapped(c) ==
  \E m \in net : m.kind = "notice" /\ Believe(c, m, [m.body EXCEPT !.ip = htonl(@)])

ReceiveNotice(c) ==
  \E m \in net : m.kind = "notice" /\ Believe(c, m, m.body)

MistakeHandshake(c) ==
  /\ c \in Open
  /\ \E m \in net : m.kind = "hs" /\ Believe(c, m, Zero)

\* UDT::connect sends its handshake to the peer, again every 250 ms.
SendHandshake(c) ==
  /\ stage[c] = "connecting" /\ ~linked[c]
  /\ punched' = [punched EXCEPT ![c] = TRUE]
  /\ net' = net \union {Handshake(c, peer[c], req[c])}
  /\ UNCHANGED <<vars, stage, peer, req, linked, lost>>

LetIn(c, m) == c \in Open \/ (punched[c] /\ m.src = peer[c])

\* A handshake from the peer's address, of which alone the rendezvous queue and a connected
\* socket know.
FromPeer(c, m) == m.kind = "hs" /\ m.dst = AddrOf[c] /\ m.src = peer[c] /\ LetIn(c, m)

\* While connecting, and once a first request has been sent: who hears the peer for the first
\* time, or hears that the peer has not heard of it, asks on.
AsksOn(c, m) == /\ stage[c] = "connecting" /\ ~linked[c] /\ punched[c]
                /\ req[c] = 0 \/ m.req = 0
                /\ req' = [req EXCEPT ![c] = -1] /\ linked' = linked
                /\ net' = net \ {m}

\* The third way.
Links(c, m) == /\ stage[c] = "connecting" /\ ~linked[c] /\ punched[c]
               /\ req[c] = -1 /\ m.req # 0
               /\ linked' = [linked EXCEPT ![c] = TRUE] /\ req' = req
               /\ net' = net \ {m}

\* Mutant: a connected socket does not answer.
IsSilent(c, m) == /\ stage[c] \in {"connecting", "talking"} /\ linked[c]
                  /\ net' = net \ {m}
                  /\ UNCHANGED <<req, linked>>

\* A connected socket answers the peer that keeps asking, and not its answers.  A request
\* of kind 0 has no identifier, so that the receiving thread finds nobody for it.
Answers(c, m) == /\ stage[c] \in {"connecting", "talking"} /\ linked[c]
                 /\ net' = (net \ {m}) \union (IF m.req = -1 THEN {Handshake(c, peer[c], -2)} ELSE {})
                 /\ UNCHANGED <<req, linked>>

ReceiveHandshake(c) ==
  /\ \E m \in net : FromPeer(c, m) /\ (AsksOn(c, m) \/ Links(c, m) \/ Answers(c, m))
  /\ UNCHANGED <<vars, stage, peer, punched, lost>>

\* UDT::connect returns; an error is only printed (lines 104-107).  The timeout
\* of 30 s is assumed long enough for the twin notice and the retries.
Mate(c, d) == /\ peer[c] = AddrOf[d]
              /\ \/ stage[d] \in {"connecting", "talking"} /\ peer[d] = AddrOf[c]
                 \/ stage[d] = "waiting" /\ \E m \in net : m.kind = "notice"
                                             /\ m.dst = AddrOf[d] /\ m.body = AddrOf[c]

ConnectReturns(c) ==
  /\ stage[c] = "connecting"
  /\ linked[c] \/ lost > 0 \/ ~(\E d \in Clients \ {c} : Mate(c, d))
  /\ stage' = [stage EXCEPT ![c] = "talking"]
  /\ UNCHANGED <<vars, peer, punched, req, linked, net, lost>>

\* On a socket that is not connected, or whose peer is gone, recvmsg or sendmsg
\* returns -1 and perr_exit ends the process (lines 28-29, 119-120).
CallFails(c) ==
  /\ stage[c] = "talking"
  /\ linked[c] => \E d \in Clients : AddrOf[d] = peer[c] /\ stage[d] = "exited"
  /\ stage' = [stage EXCEPT ![c] = "exited"]
  /\ UNCHANGED <<vars, peer, punched, req, linked, net, lost>>

\* End of input: Close(sockfd); return 0 (lines 125-126).
EndOfInput(c) ==
  /\ stage[c] = "talking"
  /\ stage' = [stage EXCEPT ![c] = "exited"]
  /\ UNCHANGED <<vars, peer, punched, req, linked, net, lost>>

(***************************************************************************)
(* The environment                                                         *)
(***************************************************************************)
\* A datagram for a host that is not there, a closed NAT, or a process that does
\* not read it as anything: it is dropped.
Undeliverable(m) ==
  /\ m.kind # "reg"
  /\ \A c \in Clients : m.dst = AddrOf[c] =>
       \/ stage[c] \in {"start", "exited"}
       \/ m.kind = "notice" /\ stage[c] # "waiting"
       \/ m.kind = "hs" /\ ~LetIn(c, m)
       \/ m.kind = "hs" /\ stage[c] # "waiting" /\ m.src # peer[c]
       \/ m.kind = "hs" /\ stage[c] = "talking" /\ ~linked[c]

Drop ==
  \E m \in net : /\ Undeliverable(m)
                 /\ net' = net \ {m}
                 /\ UNCHANGED <<vars, clientVars, lost>>

Lose ==
  /\ lost < MaxLoss
  /\ \E m \in net : net' = net \ {m}
  /\ lost' = lost + 1
  /\ UNCHANGED <<vars, clientVars>>

ClientStep(c) ==
  \/ Register(c) \/ ReceiveNotice(c) \/ MistakeHandshake(c)
  \/ ReceiveHandshake(c) \/ ConnectReturns(c) \/ CallFails(c)

SysNext == \/ ServerReceive \/ ServerLocal \/ ServerThread \/ ServerExit
           \/ \E c \in Clients : ClientStep(c) \/ SendHandshake(c) \/ EndOfInput(c)
           \/ Drop \/ Lose

\* Every process runs and the network delivers what it does not lose; nobody is
\* forced to end its input, to lose a datagram or to fail.
SysFairness ==
  /\ WF_allVars(ServerReceive) /\ WF_allVars(ServerLocal) /\ WF_allVars(ServerThread)
  /\ \A c \in Clients : /\ WF_allVars(ClientStep(c))
                        /\ WF_allVars(SendHandshake(c))
                        /\ SF_allVars(ReceiveHandshake(c))

SysSpec     == SysInit /\ [][SysNext]_allVars
FairSysSpec == SysSpec /\ SysFairness

-----------------------------------------------------------------------------

\* A connection is never set up with the wrong party, whatever the server's race
\* did to a notice: who is linked is linked to the registrant of the other side
\* who is connecting, or was, to it.
LinkIsMutual ==
  \A c \in Clients : linked[c] =>
    \E d \in Clients : /\ peer[c] = AddrOf[d] /\ peer[d] = AddrOf[c]
                       /\ punched[d]
                       /\ SlotOf(NumOf[c]) # SlotOf(NumOf[d])

\* Behind a NAT that filters by address, client.cpp line 76 only ever takes the
\* server's notice for the notice: the port it goes for is one that was sent to it.
NatKeepsStrangersOut ==
  \A c \in Clients \ Open :
    stage[c] \in {"connecting", "talking"} =>
      \E k \in 1..Len(sent) : sent[k].to = AddrOf[c] /\ sent[k].body = peer[c]

\* Somebody else was heard for the side of c: the server keeps one of the two.
Rivalled(c) == \E d \in Clients \ {c} : /\ SlotOf(NumOf[d]) = SlotOf(NumOf[c])
                                       /\ <<SlotOf(NumOf[d]), AddrOf[d]>> \in heard

\* With a client for each side, nobody waits for ever at line 76, unless the slot
\* went to a rival, a datagram was lost (neither end ever sends again) or the server
\* exited.
WaitingEnds ==
  \A c \in Clients :
    stage[c] = "waiting" ~> (stage[c] # "waiting" \/ Rivalled(c) \/ lost > 0 \/ ~running)

\* Hole punching works: two truthful notices, nothing lost, no handshake believed to
\* be a notice, and both clients get their connection, although the first handshake
\* may die at the other's NAT.
TruthfulNotices == Len(sent) = 2 /\ sent[1].body = sent[2].to /\ sent[2].body = sent[1].to
PunchingSucceeds ==
  TruthfulNotices ~> \/ lost > 0
                     \/ \E c \in Clients : stage[c] = "exited"
                     \/ \E c \in Open : stage[c] # "waiting" /\ peer[c] = Zero
                     \/ \A c \in Clients :
                          (\E k \in 1..Len(sent) : sent[k].to = AddrOf[c]) => linked[c]
=============================================================================
