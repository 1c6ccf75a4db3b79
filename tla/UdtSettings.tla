----------------------------- MODULE UdtSettings -----------------------------
(***************************************************************************)
(* What two UDT sockets agree on: setOpt before the connection, and the    *)
(* packet size (UDT_MSS) and window that each takes from the handshake of  *)
(* the other, with a listener or in rendezvous mode.  Handshakes may be    *)
(* lost, repeated and delayed.  UdtRendezvous has who connects when;       *)
(* cookies are in UdtSockets.                                              *)
(*                                                                         *)
(* Sizes are in units of 28 bytes: a packet has one for the headers of IP  *)
(* and UDP, and the rest is what a buffer counts.                          *)
(***************************************************************************)
EXTENDS Integers, FiniteSets, FiniteSetsExt

CONSTANTS
  MinMss,      \* the smallest packet that holds a handshake
  MinPackets,  \* 32
  OptionSizes, \* values that the application gives to setOpt
  MaxOptions,  \* bound: calls of setOpt
  Defaults     \* the options of a new socket

ASSUME SettingsAssumption ==
  /\ MinMss \in Nat \ {0, 1} /\ MinPackets \in Nat \ {0} /\ OptionSizes \subseteq Nat \ {0}
  /\ Defaults \in [mss : Nat, fc : Nat, rcv : Nat, udpSnd : Nat, udpRcv : Nat]
  /\ Defaults.mss >= MinMss /\ Defaults.udpSnd >= Defaults.mss /\ Defaults.udpRcv >= Defaults.mss
  /\ Defaults.rcv \in MinPackets..Defaults.fc

Ends == {"a", "b"}
Mate(s) == IF s = "a" THEN "b" ELSE "a"

VARIABLES
  rendezvous, \* m_bRendezvous; without it "a" connects and "b" is accepted
  opt,        \* m_iMSS, m_iFlightFlagSize, m_iRcvBufSize, m_iUDPSndBufSize, m_iUDPRcvBufSize
  optCalls,   \* calls of setOpt
  fcLast,     \* history: UDT_FC was set to less than the receive buffer, and UDT_RCVBUF not since
  phase,      \* init, opened, connecting, connected
  unitSize,   \* the packet that a unit of m_UnitQueue holds, set when the socket is opened
  reqType,    \* m_ConnReq.m_iReqType
  record,     \* m_ConnRes: the last handshake taken
  flow,       \* m_iFlowWindowSize
  shakes      \* handshakes under way, each of which may come any number of times

settingsVars == <<rendezvous, opt, optCalls, fcLast, phase, unitSize, reqType, record, flow, shakes>>

NoRecord == [from |-> "", kind |-> "none", type |-> 1, mss |-> 0, flow |-> 0]
\* kind tells what a handshake repeats: the options of a side, or the state of a connection.
HandShake(s, kind, type, mss, window) ==
  [from |-> s, kind |-> kind, type |-> type, mss |-> mss, flow |-> window]

SettingsInit ==
  /\ rendezvous \in BOOLEAN /\ opt = [s \in Ends |-> Defaults] /\ optCalls = 0
  /\ fcLast = [s \in Ends |-> FALSE] /\ phase = [s \in Ends |-> "init"]
  /\ unitSize = [s \in Ends |-> 0] /\ reqType = [s \in Ends |-> 0]
  /\ record = [s \in Ends |-> NoRecord] /\ flow = [s \in Ends |-> 0] /\ shakes = {}

(***************************************************************************)
(* setOpt                                                                  *)
(***************************************************************************)
SetOption(s, name, v) ==
  /\ optCalls < MaxOptions /\ optCalls' = optCalls + 1
  /\ opt' = [opt EXCEPT ![s] = [@ EXCEPT ![name] = v]]
  /\ UNCHANGED <<rendezvous, phase, unitSize, reqType, record, flow, shakes>>

SetMss(s, v) ==
  /\ phase[s] = "init" /\ v >= MinMss
  /\ SetOption(s, "mss", Min({v, opt[s].udpSnd, opt[s].udpRcv})) /\ UNCHANGED fcLast

SetFc(s, v) ==
  /\ phase[s] \in {"init", "opened"}
  /\ LET fc == Max({v, MinPackets})
     IN  SetOption(s, "fc", fc) /\ fcLast' = [fcLast EXCEPT ![s] = fc < opt[s].rcv]

\* In bytes; kept in packets of the size the option has by now.
SetRcvBuf(s, v) ==
  /\ phase[s] = "init"
  /\ SetOption(s, "rcv", Min({opt[s].fc, Max({MinPackets, v \div (opt[s].mss - 1)})}))
  /\ fcLast' = [fcLast EXCEPT ![s] = FALSE]

SetUdpBuf(s, name, v) ==
  /\ phase[s] = "init" /\ name \in {"udpSnd", "udpRcv"}
  /\ SetOption(s, name, Max({v, opt[s].mss})) /\ UNCHANGED fcLast

(***************************************************************************)
(* bind and connect                                                        *)
(***************************************************************************)
\* open and updateMux: the units of a new multiplexer have the size of this socket's packets,
\* and one that exists is shared only by sockets of the same size.
Open(s) ==
  /\ phase[s] = "init" /\ phase' = [phase EXCEPT ![s] = "opened"]
  /\ unitSize' = [unitSize EXCEPT ![s] = opt[s].mss]
  /\ UNCHANGED <<rendezvous, opt, optCalls, fcLast, reqType, record, flow, shakes>>

\* Mutant: the receive buffer is not asked.
WindowFc(s) == opt[s].fc
\* The window of this side: what its buffer holds.
Window(s) == IF opt[s].rcv < opt[s].fc THEN opt[s].rcv ELSE opt[s].fc

Request(s, type) == HandShake(s, "options", type, opt[s].mss, Window(s))

\* A regular request (type 1) is repeated with the listener's cookie and type -1.
StartConnect(s) ==
  /\ phase[s] = "opened" /\ (rendezvous \/ s = "a")
  /\ phase' = [phase EXCEPT ![s] = "connecting"]
  /\ reqType' = [reqType EXCEPT ![s] = IF rendezvous THEN 0 ELSE -1]
  /\ shakes' = shakes \union {Request(s, reqType'[s])}
  /\ UNCHANGED <<rendezvous, opt, optCalls, fcLast, unitSize, record, flow>>

\* POST_CONNECT, with the handshake m.
Configure(s, m) ==
  /\ phase' = [phase EXCEPT ![s] = "connected"]
  /\ opt' = [opt EXCEPT ![s].mss = m.mss]
  /\ flow' = [flow EXCEPT ![s] = m.flow]
  /\ record' = [record EXCEPT ![s] = m]
  /\ UNCHANGED <<rendezvous, optCalls, fcLast, unitSize>>

\* connect(response): in rendezvous mode both sides have to have heard of each other.
TakeShake(s, m) ==
  /\ phase[s] = "connecting" /\ m \in shakes /\ m.from # s
  /\ IF rendezvous /\ (reqType[s] = 0 \/ m.type = 0)
     THEN /\ record' = [record EXCEPT ![s] = m]
          /\ reqType' = [reqType EXCEPT ![s] = -1]
          /\ shakes' = shakes \union {Request(s, -1)}
          /\ UNCHANGED <<rendezvous, opt, optCalls, fcLast, phase, unitSize, flow>>
     ELSE Configure(s, m) /\ UNCHANGED <<reqType, shakes>>

\* A data packet or a keep-alive: the peer is connected.
TakeSpeech(s) ==
  /\ rendezvous /\ phase[s] = "connecting" /\ phase[Mate(s)] = "connected"
  /\ record[s] # NoRecord
  /\ Configure(s, record[s]) /\ UNCHANGED <<reqType, shakes>>

Smaller(s, mss) == IF mss > opt[s].mss THEN opt[s].mss ELSE mss

\* newConnection and connect(peer, hs): a socket with the options of the listener.
AcceptRequest(m) ==
  /\ ~rendezvous /\ phase["b"] = "opened" /\ m \in shakes /\ m.from = "a"
  /\ phase' = [phase EXCEPT !["b"] = "connected"]
  /\ opt' = [opt EXCEPT !["b"].mss = Smaller("b", m.mss)]
  /\ flow' = [flow EXCEPT !["b"] = m.flow]
  /\ record' = [record EXCEPT !["b"] = m]
  /\ shakes' = shakes \union {HandShake("b", "options", -1, Smaller("b", m.mss), Window("b"))}
  /\ UNCHANGED <<rendezvous, optCalls, fcLast, unitSize, reqType>>

\* processCtrl, case 0, and newConnection for a request that comes again: the answer of a
\* connected socket has its packet size by now, and all of its flight flag size.  A request of
\* type 0 goes to no socket in particular, and a connected one is not in the rendezvous queue.
AnswerAgain(s, m) ==
  /\ phase[s] = "connected" /\ m \in shakes /\ m.from # s /\ m.type = -1
  /\ (rendezvous \/ s = "b")
  /\ shakes' = shakes \union {HandShake(s, "state", IF rendezvous THEN -2 ELSE -1,
                                        opt[s].mss, opt[s].fc)}
  /\ UNCHANGED <<rendezvous, opt, optCalls, fcLast, phase, unitSize, reqType, record, flow>>

SettingsNext ==
  \/ \E s \in Ends, v \in OptionSizes :
       SetMss(s, v) \/ SetFc(s, v) \/ SetRcvBuf(s, v) \/ \E name \in {"udpSnd", "udpRcv"} : SetUdpBuf(s, name, v)
  \/ \E s \in Ends : Open(s) \/ StartConnect(s) \/ TakeSpeech(s)
  \/ \E m \in shakes : AcceptRequest(m) \/ \E s \in Ends : TakeShake(s, m) \/ AnswerAgain(s, m)

SettingsSpec == SettingsInit /\ [][SettingsNext]_settingsVars

-----------------------------------------------------------------------------
\* The loss list of a receiver has as many places as UDT_FC, and its offsets are as large as
\* the receive buffer: the buffer does not exceed it, unless UDT_FC is lowered under it.
LossListHasRoom == \A s \in Ends : ~fcLast[s] => opt[s].rcv <= opt[s].fc

\* No packet is larger than what the peer has UDP buffers for, or the units it is received
\* in, so that none is cut off.  In rendezvous mode each side takes the packet size of the
\* other, which fits as long as it comes from the other's options; an answer of a connected
\* peer has this side's own size again.
PacketsFitUnits ==
  \A s \in Ends : phase[s] = "connected" /\ record[s].kind = "options" =>
      opt[s].mss <= unitSize[Mate(s)] /\ opt[s].mss <= opt[Mate(s)].udpRcv

\* With a listener both sides have the same packet size, the smaller of the two, through
\* all repetitions.
ListenerAgrees ==
  ~rendezvous /\ phase["a"] = "connected" =>
    opt["a"].mss = opt["b"].mss /\ opt["a"].mss = Min({unitSize["a"], unitSize["b"]})

\* A sender starts with no larger window than the receiver has buffer, unless what it heard
\* is an answer that was sent again.
WindowFitsBuffer ==
  \A s \in Ends : phase[s] = "connected" /\ record[s].kind = "options" => flow[s] <= opt[Mate(s)].rcv

\* Options fit each other, and the connection is set up with what fits both sides.
SettingsFit == LossListHasRoom /\ PacketsFitUnits /\ ListenerAgrees /\ WindowFitsBuffer
=============================================================================
