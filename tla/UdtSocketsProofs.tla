-------------------------- MODULE UdtSocketsProofs --------------------------
(***************************************************************************)
(* Sockets: what two of them agree on, what polls are told of one, and     *)
(* what CUDTUnited does with all of a process, for every number of         *)
(* sockets, threads, peers and ports and any sizes.                        *)
(***************************************************************************)
EXTENDS UdtSettings, UdtEpoll, UdtSockets, UdtLemmas

-----------------------------------------------------------------------------
(***************************************************************************)
(* UdtSettings. The settings of two UDT sockets fit each other, for any    *)
(* sizes and any number of setOpt calls.  The argument follows the         *)
(* handshakes: one that repeats the options of a side was sent when these  *)
(* could no longer be changed, and says what its units and its buffers     *)
(* hold; what a side has configured is in its record of a handshake.       *)
(***************************************************************************)
Options == [mss : Nat, fc : Nat, rcv : Nat, udpSnd : Nat, udpRcv : Nat]
Shakes  == [from : Ends, kind : {"options", "state"}, type : {0, -1, -2}, mss : Nat, flow : Nat]

\* The types of the variables.
SettingsTypes ==
  /\ rendezvous \in BOOLEAN /\ opt \in [Ends -> Options] /\ optCalls \in Nat
  /\ fcLast \in [Ends -> BOOLEAN]
  /\ phase \in [Ends -> {"init", "opened", "connecting", "connected"}]
  /\ unitSize \in [Ends -> Nat] /\ reqType \in [Ends -> {0, -1}]
  /\ record \in [Ends -> Shakes \union {NoRecord}] /\ flow \in [Ends -> Nat]
  /\ shakes \subseteq Shakes

\* Packets are large enough until the peer decides on their size, and a UDP buffer holds one.
SizesAreSane ==
  \A s \in Ends : phase[s] # "connected" =>
    /\ opt[s].mss >= MinMss /\ opt[s].udpSnd >= opt[s].mss /\ opt[s].udpRcv >= opt[s].mss
    /\ phase[s] # "init" => unitSize[s] = opt[s].mss

\* A handshake that repeats options comes from a socket whose options are settled.
ShakesAreTrue ==
  \A m \in shakes : m.kind = "options" =>
    /\ phase[m.from] # "init"
    /\ m.mss <= unitSize[m.from] /\ m.mss <= opt[m.from].udpRcv
    /\ m.flow <= opt[m.from].rcv

\* A record is a handshake of the other side, and what was configured is what it says.
RecordsAreKept ==
  \A s \in Ends :
    /\ record[s] # NoRecord => record[s] \in shakes /\ record[s].from = Mate(s)
    /\ phase[s] = "connected" =>
         record[s] # NoRecord /\ opt[s].mss <= record[s].mss /\ flow[s] = record[s].flow

\* With a listener, "b" decides on the packet size, and all it says has this size.
ListenerDecides ==
  ~rendezvous =>
    /\ phase["b"] # "connecting"
    /\ phase["b"] = "connected" => opt["b"].mss = Min({unitSize["a"], unitSize["b"]})
    /\ phase["a"] = "connected" => phase["b"] = "connected" /\ opt["a"].mss = opt["b"].mss
    /\ \A m \in shakes : IF m.from = "a" THEN phase["a"] # "init" /\ m.mss = unitSize["a"]
                         ELSE phase["b"] = "connected" /\ m.mss = opt["b"].mss

SettingsInv ==
  /\ SettingsTypes /\ SizesAreSane /\ ShakesAreTrue /\ RecordsAreKept /\ ListenerDecides
  /\ LossListHasRoom

\* What Min and Max of FiniteSetsExt return here.
LEMMA MinOfTwo ==
  ASSUME NEW x \in Nat, NEW y \in Nat
  PROVE  Min({x, y}) = IF x > y THEN y ELSE x
BY DEF Min

\* Max of two integers is the greater one.
LEMMA MaxOfTwo ==
  ASSUME NEW x \in Int, NEW y \in Int
  PROVE  Max({x, y}) = IF x < y THEN y ELSE x
BY DEF Max

\* Min of three numbers is one of them and at most each of them.
LEMMA MinOfThree ==
  ASSUME NEW x \in Nat, NEW y \in Nat, NEW z \in Nat
  PROVE  /\ Min({x, y, z}) \in {x, y, z}
         /\ Min({x, y, z}) <= x /\ Min({x, y, z}) <= y /\ Min({x, y, z}) <= z
<1>1. \E m \in {x, y, z} : \A n \in {x, y, z} : m <= n
  <2>1. CASE x <= y /\ x <= z
    BY <2>1
  <2>2. CASE y <= x /\ y <= z
    BY <2>2
  <2>3. CASE z <= x /\ z <= y
    BY <2>3
  <2> QED BY <2>1, <2>2, <2>3
<1> QED BY <1>1 DEF Min

\* The quotient of two natural numbers is one.
LEMMA QuotientIsNat ==
  ASSUME NEW n \in Nat, NEW d \in Nat, d > 0
  PROVE  n \div d \in Nat
<1>1. n \div d \in Int
  OBVIOUS
<1>2. d * (n \div d) <= n /\ n < d * (n \div d) + d
  BY Z3
<1>3. n \div d >= 0
  BY <1>1, <1>2
<1> QED BY <1>1, <1>3

\* The receive buffer that setOpt makes does not exceed the flight flag size.
LEMMA BufferWithinFlight ==
  ASSUME NEW fc \in Nat, NEW q \in Nat, NEW least \in Nat
  PROVE  Min({fc, Max({least, q})}) \in Nat /\ Min({fc, Max({least, q})}) <= fc
<1>1. Max({least, q}) \in Nat
  BY MaxOfTwo
<1> DEFINE m == Max({least, q})
<1> HIDE DEF m
<1>2. m \in Nat => Min({fc, m}) = IF fc > m THEN m ELSE fc
  BY MinOfTwo
<1>3. m \in Nat
  BY <1>1 DEF m
<1>4. Min({fc, m}) \in Nat /\ Min({fc, m}) <= fc
  BY <1>2, <1>3
<1> QED BY <1>4 DEF m

\* Two sockets that are not open yet satisfy the invariant.
LEMMA SettingsInvInit == SettingsInit => SettingsInv
<1> SUFFICES ASSUME SettingsInit PROVE SettingsInv
  OBVIOUS
<1> USE SettingsAssumption DEF SettingsInit, Ends
<1>1. SettingsTypes
  BY DEF SettingsTypes, Options, Shakes
<1>2. SizesAreSane /\ ShakesAreTrue /\ RecordsAreKept /\ ListenerDecides /\ LossListHasRoom
  BY DEF SizesAreSane, ShakesAreTrue, RecordsAreKept, ListenerDecides, LossListHasRoom, Options
<1> QED BY <1>1, <1>2 DEF SettingsInv

\* setOpt changes nothing that a handshake has told.
LEMMA SetOptionKeeps ==
  ASSUME SettingsInv, NEW s \in Ends, NEW v \in OptionSizes,
         \/ SetMss(s, v) \/ SetFc(s, v) \/ SetRcvBuf(s, v)
         \/ \E name \in {"udpSnd", "udpRcv"} : SetUdpBuf(s, name, v)
  PROVE  SettingsInv'
<1> USE SettingsAssumption DEF SettingsInv, SettingsTypes, Options
<1>0. /\ v \in Nat /\ MinPackets \in Nat /\ MinMss \in Nat /\ MinMss > 1
      /\ opt[s] \in Options /\ opt[s].mss \in Nat /\ opt[s].fc \in Nat
      /\ opt[s].udpSnd \in Nat /\ opt[s].udpRcv \in Nat
  OBVIOUS
<1>1. CASE SetMss(s, v)
  <2> DEFINE m == Min({v, opt[s].udpSnd, opt[s].udpRcv})
  <2>1. /\ m \in Nat /\ m <= opt[s].udpSnd /\ m <= opt[s].udpRcv /\ m >= MinMss
    <3>1. /\ phase[s] = "init" /\ v >= MinMss
          /\ opt[s].udpSnd >= MinMss /\ opt[s].udpRcv >= MinMss
      BY <1>0, <1>1 DEF SetMss, SizesAreSane
    <3>2. /\ m \in {v, opt[s].udpSnd, opt[s].udpRcv}
          /\ m <= opt[s].udpSnd /\ m <= opt[s].udpRcv
      BY <1>0, MinOfThree
    <3> HIDE DEF m
    <3> QED BY <1>0, <3>1, <3>2
  <2>2. /\ opt' = [opt EXCEPT ![s] = [@ EXCEPT !.mss = m]]
        /\ phase[s] = "init" /\ optCalls' = optCalls + 1
        /\ UNCHANGED <<rendezvous, phase, unitSize, reqType, record, flow, shakes, fcLast>>
    BY <1>1 DEF SetMss, SetOption
  <2> HIDE DEF m
  <2>3. SettingsTypes'
    BY <2>1, <2>2
  <2>4. \A e \in Ends :
           /\ opt'[e].rcv = opt[e].rcv /\ opt'[e].fc = opt[e].fc
           /\ opt'[e].udpSnd = opt[e].udpSnd /\ opt'[e].udpRcv = opt[e].udpRcv
           /\ opt'[e].mss = IF e = s THEN m ELSE opt[e].mss
    BY <2>1, <2>2
  <2>5. SizesAreSane'
    BY <2>1, <2>2, <2>4 DEF SizesAreSane
  <2>6. ShakesAreTrue'
    BY <2>1, <2>2, <2>4 DEF ShakesAreTrue, Shakes
  <2>7. RecordsAreKept'
    BY <2>1, <2>2, <2>4 DEF RecordsAreKept
  <2>8. ListenerDecides'
    BY <2>1, <2>2, <2>4 DEF ListenerDecides, Ends
  <2>9. LossListHasRoom'
    BY <2>1, <2>2, <2>4 DEF LossListHasRoom
  <2> QED BY <2>3, <2>5, <2>6, <2>7, <2>8, <2>9
<1>2. CASE SetFc(s, v)
  <2> DEFINE f == Max({v, MinPackets})
  <2>1. f \in Nat
    BY <1>0, MaxOfTwo, SMTT(60)
  <2>2. /\ opt' = [opt EXCEPT ![s] = [@ EXCEPT !.fc = f]]
        /\ fcLast' = [fcLast EXCEPT ![s] = f < opt[s].rcv] /\ optCalls' = optCalls + 1
        /\ UNCHANGED <<rendezvous, phase, unitSize, reqType, record, flow, shakes>>
    BY <1>2 DEF SetFc, SetOption
  <2> HIDE DEF f
  <2>3. SettingsTypes'
    BY <2>1, <2>2
  <2>4. \A e \in Ends :
           /\ opt'[e].rcv = opt[e].rcv /\ opt'[e].fc = (IF e = s THEN f ELSE opt[e].fc)
           /\ opt'[e].udpSnd = opt[e].udpSnd /\ opt'[e].udpRcv = opt[e].udpRcv
           /\ opt'[e].mss = opt[e].mss
    BY <2>1, <2>2
  <2>5. SizesAreSane'
    BY <2>1, <2>2, <2>4 DEF SizesAreSane
  <2>6. ShakesAreTrue'
    BY <2>1, <2>2, <2>4 DEF ShakesAreTrue, Shakes
  <2>7. RecordsAreKept'
    BY <2>1, <2>2, <2>4 DEF RecordsAreKept
  <2>8. ListenerDecides'
    BY <2>1, <2>2, <2>4 DEF ListenerDecides, Ends
  <2>9. LossListHasRoom'
    <3> SUFFICES ASSUME NEW e \in Ends, ~fcLast'[e] PROVE opt'[e].rcv <= opt'[e].fc
      BY DEF LossListHasRoom
    <3>1. opt[e].rcv \in Nat
      OBVIOUS
    <3>2. CASE e = s
      <4>1. fcLast'[s] = (f < opt[s].rcv)
        BY <2>2
      <4>2. opt'[s].rcv = opt[s].rcv /\ opt'[s].fc = f
        BY <2>4
      <4>3. ~(f < opt[s].rcv)
        BY <3>2, <4>1
      <4> QED BY <2>1, <3>1, <3>2, <4>2, <4>3
    <3>3. CASE e # s
      BY <2>2, <2>4, <3>3 DEF LossListHasRoom
    <3> QED BY <3>2, <3>3
  <2> QED BY <2>3, <2>5, <2>6, <2>7, <2>8, <2>9
<1>3. CASE SetRcvBuf(s, v)
  <2> DEFINE q == v \div (opt[s].mss - 1)
             r == Min({opt[s].fc, Max({MinPackets, q})})
  <2>1. r \in Nat /\ r <= opt[s].fc
    <3>1. opt[s].mss - 1 \in Nat /\ opt[s].mss - 1 > 0
      BY <1>0, <1>3 DEF SetRcvBuf, SizesAreSane
    <3>2. q \in Nat
      BY <1>0, <3>1, QuotientIsNat
    <3> QED BY <1>0, <3>2, BufferWithinFlight
  <2>2. /\ opt' = [opt EXCEPT ![s] = [@ EXCEPT !.rcv = r]]
        /\ fcLast' = [fcLast EXCEPT ![s] = FALSE] /\ optCalls' = optCalls + 1
        /\ phase[s] = "init"
        /\ UNCHANGED <<rendezvous, phase, unitSize, reqType, record, flow, shakes>>
    BY <1>3 DEF SetRcvBuf, SetOption
  <2> HIDE DEF r
  <2>3. SettingsTypes'
    BY <2>1, <2>2
  <2>4. \A e \in Ends :
           /\ opt'[e].rcv = (IF e = s THEN r ELSE opt[e].rcv) /\ opt'[e].fc = opt[e].fc
           /\ opt'[e].udpSnd = opt[e].udpSnd /\ opt'[e].udpRcv = opt[e].udpRcv
           /\ opt'[e].mss = opt[e].mss
    BY <2>1, <2>2
  <2>5. SizesAreSane'
    BY <2>1, <2>2, <2>4 DEF SizesAreSane
  <2>6. ShakesAreTrue'
    BY <2>1, <2>2, <2>4 DEF ShakesAreTrue, Shakes
  <2>7. RecordsAreKept'
    BY <2>1, <2>2, <2>4 DEF RecordsAreKept
  <2>8. ListenerDecides'
    BY <2>1, <2>2, <2>4 DEF ListenerDecides, Ends
  <2>9. LossListHasRoom'
    BY <2>1, <2>2, <2>4 DEF LossListHasRoom
  <2> QED BY <2>3, <2>5, <2>6, <2>7, <2>8, <2>9
<1>4. ASSUME NEW name \in {"udpSnd", "udpRcv"}, SetUdpBuf(s, name, v) PROVE SettingsInv'
  <2> DEFINE u == Max({v, opt[s].mss})
  <2>1. u \in Nat /\ u >= opt[s].mss
    BY <1>0, MaxOfTwo, SMTT(60)
  <2>2. /\ opt' = [opt EXCEPT ![s] = [@ EXCEPT ![name] = u]]
        /\ phase[s] = "init" /\ optCalls' = optCalls + 1
        /\ UNCHANGED <<rendezvous, phase, unitSize, reqType, record, flow, shakes, fcLast>>
    BY <1>4 DEF SetUdpBuf, SetOption
  <2> HIDE DEF u
  <2>3. SettingsTypes'
    BY <2>1, <2>2
  <2>4. \A e \in Ends :
           /\ opt'[e].rcv = opt[e].rcv /\ opt'[e].fc = opt[e].fc
           /\ opt'[e].udpSnd = (IF e = s /\ name = "udpSnd" THEN u ELSE opt[e].udpSnd)
           /\ opt'[e].udpRcv = (IF e = s /\ name = "udpRcv" THEN u ELSE opt[e].udpRcv)
           /\ opt'[e].mss = opt[e].mss
    BY <2>1, <2>2
  <2>5. SizesAreSane'
    BY <2>1, <2>2, <2>4 DEF SizesAreSane
  <2>6. ShakesAreTrue'
    BY <2>1, <2>2, <2>4 DEF ShakesAreTrue, Shakes
  <2>7. RecordsAreKept'
    BY <2>1, <2>2, <2>4 DEF RecordsAreKept
  <2>8. ListenerDecides'
    BY <2>1, <2>2, <2>4 DEF ListenerDecides, Ends
  <2>9. LossListHasRoom'
    BY <2>1, <2>2, <2>4 DEF LossListHasRoom
  <2> QED BY <2>3, <2>5, <2>6, <2>7, <2>8, <2>9
<1> QED BY <1>1, <1>2, <1>3, <1>4

\* What is sent as a request tells the options, which are settled by then.
LEMMA RequestIsTrue ==
  ASSUME SettingsInv, NEW s \in Ends, NEW type \in {0, -1},
         phase[s] \in {"opened", "connecting"}
  PROVE  /\ Request(s, type) \in Shakes
         /\ Request(s, type).from = s /\ Request(s, type).kind = "options"
         /\ Request(s, type).type = type /\ Request(s, type).mss = unitSize[s]
         /\ Request(s, type).mss <= opt[s].udpRcv /\ Request(s, type).flow <= opt[s].rcv
<1> USE DEF SettingsInv, SettingsTypes, Options
<1>1. /\ opt[s].mss \in Nat /\ opt[s].mss = unitSize[s] /\ opt[s].mss <= opt[s].udpRcv
      /\ opt[s].rcv \in Nat /\ opt[s].fc \in Nat /\ opt[s].udpRcv \in Nat
  BY DEF SizesAreSane
<1>2. Window(s) \in Nat /\ Window(s) <= opt[s].rcv
  BY <1>1 DEF Window
<1> QED BY <1>1, <1>2 DEF Request, HandShake, Shakes

\* A handshake is not taken for an absent record, and its sizes are numbers.
LEMMA ShakeIsRecord ==
  ASSUME NEW m \in Shakes
  PROVE  m # NoRecord /\ m.mss \in Nat /\ m.flow \in Nat
<1>1. m.kind \in {"options", "state"} /\ m.mss \in Nat /\ m.flow \in Nat
  BY DEF Shakes
<1>2. NoRecord.kind = "none"
  BY DEF NoRecord
<1> QED BY <1>1, <1>2

\* Opening a socket, which fixes its buffers, keeps the invariant.
LEMMA OpenKeeps ==
  ASSUME SettingsInv, NEW s \in Ends, Open(s)
  PROVE  SettingsInv'
<1> USE DEF SettingsInv, SettingsTypes, Options, Open
<1>1. SettingsTypes'
  OBVIOUS
<1>2. SizesAreSane'
  BY DEF SizesAreSane
<1>3. ShakesAreTrue'
  BY DEF ShakesAreTrue, Shakes
<1>4. RecordsAreKept'
  BY DEF RecordsAreKept
<1>5. ListenerDecides'
  <2> SUFFICES ASSUME ~rendezvous PROVE ListenerDecides'
    BY DEF ListenerDecides
  <2>1. phase["b"] = "connected" => phase["a"] # "init"
    <3>1. phase["b"] = "connected" => record["b"] \in shakes /\ record["b"].from = "a"
      BY DEF RecordsAreKept, Ends, Mate
    <3> QED BY <3>1 DEF ListenerDecides
  <2> QED BY <2>1 DEF ListenerDecides, Ends, Shakes
<1>6. LossListHasRoom'
  BY DEF LossListHasRoom
<1> QED BY <1>1, <1>2, <1>3, <1>4, <1>5, <1>6

\* Sending the request keeps the invariant.
LEMMA StartConnectKeeps ==
  ASSUME SettingsInv, NEW s \in Ends, StartConnect(s)
  PROVE  SettingsInv'
<1> DEFINE type == IF rendezvous THEN 0 ELSE -1
           m    == Request(s, type)
<1> USE DEF SettingsInv, SettingsTypes, Options
<1>1. /\ phase[s] = "opened" /\ (rendezvous \/ s = "a")
      /\ phase' = [phase EXCEPT ![s] = "connecting"]
      /\ reqType' = [reqType EXCEPT ![s] = type] /\ shakes' = shakes \union {m}
      /\ UNCHANGED <<rendezvous, opt, optCalls, fcLast, unitSize, record, flow>>
  BY DEF StartConnect
<1>2. /\ type \in {0, -1} /\ m \in Shakes /\ m.from = s /\ m.mss = unitSize[s]
      /\ m.mss <= opt[s].udpRcv /\ m.flow <= opt[s].rcv
  BY <1>1, RequestIsTrue
<1> HIDE DEF m, type
<1>3. SettingsTypes'
  BY <1>1, <1>2
<1>4. SizesAreSane'
  BY <1>1 DEF SizesAreSane
<1>5. ShakesAreTrue'
  BY <1>1, <1>2 DEF ShakesAreTrue, Shakes
<1>6. RecordsAreKept'
  BY <1>1 DEF RecordsAreKept
<1>7. ListenerDecides'
  BY <1>1, <1>2 DEF ListenerDecides, Ends
<1>8. LossListHasRoom'
  BY <1>1 DEF LossListHasRoom
<1> QED BY <1>3, <1>4, <1>5, <1>6, <1>7, <1>8

\* A connection is set up with what a handshake of the other side says.
LEMMA ConfigureKeeps ==
  ASSUME SettingsInv, NEW s \in Ends, phase[s] = "connecting",
         NEW m \in shakes, m.from = Mate(s), Configure(s, m), UNCHANGED <<reqType, shakes>>
  PROVE  SettingsInv'
<1> USE DEF SettingsInv, SettingsTypes, Options
<1>1. /\ phase' = [phase EXCEPT ![s] = "connected"]
      /\ opt' = [opt EXCEPT ![s].mss = m.mss] /\ flow' = [flow EXCEPT ![s] = m.flow]
      /\ record' = [record EXCEPT ![s] = m]
      /\ UNCHANGED <<rendezvous, optCalls, fcLast, unitSize, reqType, shakes>>
  BY DEF Configure
<1>2. m \in Shakes /\ m.mss \in Nat /\ m.flow \in Nat /\ m # NoRecord
  BY ShakeIsRecord
<1>3. \A e \in Ends :
        /\ opt'[e].rcv = opt[e].rcv /\ opt'[e].fc = opt[e].fc
        /\ opt'[e].udpSnd = opt[e].udpSnd /\ opt'[e].udpRcv = opt[e].udpRcv
        /\ opt'[e].mss = IF e = s THEN m.mss ELSE opt[e].mss
  BY <1>1, <1>2
<1>4. SettingsTypes'
  BY <1>1, <1>2
<1>5. SizesAreSane'
  BY <1>1, <1>3 DEF SizesAreSane
<1>6. ShakesAreTrue'
  BY <1>1, <1>3 DEF ShakesAreTrue, Shakes
<1>7. RecordsAreKept'
  BY <1>1, <1>2, <1>3 DEF RecordsAreKept
<1>8. ListenerDecides'
  BY <1>1, <1>3 DEF ListenerDecides, Ends, Mate
<1>9. LossListHasRoom'
  BY <1>1, <1>3 DEF LossListHasRoom
<1> QED BY <1>4, <1>5, <1>6, <1>7, <1>8, <1>9

\* Taking the handshake of the other side keeps the invariant.
LEMMA TakeShakeKeeps ==
  ASSUME SettingsInv, NEW s \in Ends, NEW m \in shakes, TakeShake(s, m)
  PROVE  SettingsInv'
<1> USE DEF SettingsInv, SettingsTypes, Options
<1>1. phase[s] = "connecting" /\ m.from = Mate(s) /\ m \in Shakes
  BY DEF TakeShake, Shakes, Ends, Mate
<1>2. CASE rendezvous /\ (reqType[s] = 0 \/ m.type = 0)
  <2> DEFINE answer == Request(s, -1)
  <2>1. /\ record' = [record EXCEPT ![s] = m] /\ reqType' = [reqType EXCEPT ![s] = -1]
        /\ shakes' = shakes \union {answer}
        /\ UNCHANGED <<rendezvous, opt, optCalls, fcLast, phase, unitSize, flow>>
    BY <1>2 DEF TakeShake
  <2>2. /\ answer \in Shakes /\ answer.from = s /\ answer.mss = unitSize[s]
        /\ answer.mss <= opt[s].udpRcv /\ answer.flow <= opt[s].rcv
    BY <1>1, RequestIsTrue
  <2> HIDE DEF answer
  <2>3. SettingsTypes'
    BY <1>1, <2>1, <2>2
  <2>4. SizesAreSane'
    BY <2>1 DEF SizesAreSane
  <2>5. ShakesAreTrue'
    BY <1>1, <2>1, <2>2 DEF ShakesAreTrue, Shakes
  <2>6. RecordsAreKept'
    BY <1>1, <2>1 DEF RecordsAreKept
  <2>7. ListenerDecides'
    BY <1>2, <2>1 DEF ListenerDecides
  <2>8. LossListHasRoom'
    BY <2>1 DEF LossListHasRoom
  <2> QED BY <2>3, <2>4, <2>5, <2>6, <2>7, <2>8
<1>3. CASE ~(rendezvous /\ (reqType[s] = 0 \/ m.type = 0))
  BY <1>1, <1>3, ConfigureKeeps DEF TakeShake
<1> QED BY <1>2, <1>3

\* Taking the options of a recorded handshake keeps the invariant.
LEMMA TakeSpeechKeeps ==
  ASSUME SettingsInv, NEW s \in Ends, TakeSpeech(s)
  PROVE  SettingsInv'
<1>1. record[s] \in shakes /\ record[s].from = Mate(s)
  BY DEF TakeSpeech, SettingsInv, RecordsAreKept
<1> QED BY <1>1, ConfigureKeeps DEF TakeSpeech

\* The listener's socket takes the smaller packet size of the two.
LEMMA AcceptRequestKeeps ==
  ASSUME SettingsInv, NEW m \in shakes, AcceptRequest(m)
  PROVE  SettingsInv'
<1> DEFINE mss    == Smaller("b", m.mss)
           answer == HandShake("b", "options", -1, mss, Window("b"))
<1> USE DEF SettingsInv, SettingsTypes, Options
<1>1. /\ ~rendezvous /\ phase["b"] = "opened" /\ m.from = "a" /\ "a" \in Ends /\ "b" \in Ends
      /\ phase' = [phase EXCEPT !["b"] = "connected"]
      /\ opt' = [opt EXCEPT !["b"].mss = mss] /\ flow' = [flow EXCEPT !["b"] = m.flow]
      /\ record' = [record EXCEPT !["b"] = m] /\ shakes' = shakes \union {answer}
      /\ UNCHANGED <<rendezvous, optCalls, fcLast, unitSize, reqType>>
  BY DEF AcceptRequest, Ends
<1>2. m \in Shakes /\ m.mss \in Nat /\ m.flow \in Nat /\ m # NoRecord
  BY ShakeIsRecord
<1>3. /\ opt["b"].mss \in Nat /\ opt["b"].mss = unitSize["b"] /\ opt["b"].udpRcv \in Nat
      /\ opt["b"].mss <= opt["b"].udpRcv /\ opt["b"].rcv \in Nat /\ opt["b"].fc \in Nat
  BY <1>1 DEF SizesAreSane
<1>4. unitSize["a"] \in Nat /\ m.mss = unitSize["a"]
  BY <1>1 DEF ListenerDecides
<1>5. /\ mss \in Nat /\ mss <= m.mss /\ mss <= unitSize["b"] /\ mss <= opt["b"].udpRcv
      /\ mss = Min({unitSize["a"], unitSize["b"]})
  <2>1. mss = IF m.mss > opt["b"].mss THEN opt["b"].mss ELSE m.mss
    BY DEF Smaller
  <2>2. Min({unitSize["a"], unitSize["b"]})
          = IF unitSize["a"] > unitSize["b"] THEN unitSize["b"] ELSE unitSize["a"]
    BY <1>3, <1>4, MinOfTwo
  <2> HIDE DEF mss
  <2> QED BY <1>2, <1>3, <1>4, <2>1, <2>2
<1>6. Window("b") \in Nat /\ Window("b") <= opt["b"].rcv
  BY <1>3 DEF Window
<1> HIDE DEF mss
<1>7. /\ answer \in Shakes /\ answer.from = "b" /\ answer.mss = mss
      /\ answer.flow = Window("b")
  BY <1>1, <1>5, <1>6 DEF HandShake, Shakes
<1> HIDE DEF answer
<1>8. \A e \in Ends :
        /\ opt'[e].rcv = opt[e].rcv /\ opt'[e].fc = opt[e].fc
        /\ opt'[e].udpSnd = opt[e].udpSnd /\ opt'[e].udpRcv = opt[e].udpRcv
        /\ opt'[e].mss = IF e = "b" THEN mss ELSE opt[e].mss
  BY <1>1, <1>5
<1>9. SettingsTypes'
  BY <1>1, <1>2, <1>5, <1>7
<1>10. SizesAreSane'
  BY <1>1, <1>8 DEF SizesAreSane
<1>11. ShakesAreTrue'
  BY <1>1, <1>5, <1>6, <1>7, <1>8 DEF ShakesAreTrue, Shakes
<1>12. RecordsAreKept'
  BY <1>1, <1>2, <1>5, <1>8 DEF RecordsAreKept, Mate
<1>13. ListenerDecides'
  BY <1>1, <1>5, <1>7, <1>8 DEF ListenerDecides, Ends
<1>14. LossListHasRoom'
  BY <1>1, <1>8 DEF LossListHasRoom
<1> QED BY <1>9, <1>10, <1>11, <1>12, <1>13, <1>14

\* Answering a repeated request keeps the invariant.
LEMMA AnswerAgainKeeps ==
  ASSUME SettingsInv, NEW s \in Ends, NEW m \in shakes, AnswerAgain(s, m)
  PROVE  SettingsInv'
<1> DEFINE answer == HandShake(s, "state", IF rendezvous THEN -2 ELSE -1, opt[s].mss, opt[s].fc)
<1> USE DEF SettingsInv, SettingsTypes, Options
<1>1. /\ phase[s] = "connected" /\ (rendezvous \/ s = "b") /\ shakes' = shakes \union {answer}
      /\ UNCHANGED <<rendezvous, opt, optCalls, fcLast, phase, unitSize, reqType, record, flow>>
  BY DEF AnswerAgain
<1>2. /\ answer \in Shakes /\ answer.from = s /\ answer.kind = "state"
      /\ answer.mss = opt[s].mss
  BY DEF HandShake, Shakes
<1> HIDE DEF answer
<1>3. SettingsTypes'
  BY <1>1, <1>2
<1>4. SizesAreSane'
  BY <1>1 DEF SizesAreSane
<1>5. ShakesAreTrue'
  BY <1>1, <1>2 DEF ShakesAreTrue, Shakes
<1>6. RecordsAreKept'
  BY <1>1 DEF RecordsAreKept
<1>7. ListenerDecides'
  BY <1>1, <1>2 DEF ListenerDecides
<1>8. LossListHasRoom'
  BY <1>1 DEF LossListHasRoom
<1> QED BY <1>3, <1>4, <1>5, <1>6, <1>7, <1>8

\* Every step of the negotiation keeps the invariant.
LEMMA SettingsInvStep == SettingsInv /\ [SettingsNext]_settingsVars => SettingsInv'
<1> SUFFICES ASSUME SettingsInv, [SettingsNext]_settingsVars PROVE SettingsInv'
  OBVIOUS
<1>1. ASSUME NEW s \in Ends, NEW v \in OptionSizes,
             \/ SetMss(s, v) \/ SetFc(s, v) \/ SetRcvBuf(s, v)
             \/ \E name \in {"udpSnd", "udpRcv"} : SetUdpBuf(s, name, v)
      PROVE  SettingsInv'
  BY <1>1, SetOptionKeeps
<1>2. ASSUME NEW s \in Ends, Open(s) \/ StartConnect(s) \/ TakeSpeech(s) PROVE SettingsInv'
  BY <1>2, OpenKeeps, StartConnectKeeps, TakeSpeechKeeps
<1>3. ASSUME NEW m \in shakes, AcceptRequest(m) PROVE SettingsInv'
  BY <1>3, AcceptRequestKeeps
<1>4. ASSUME NEW m \in shakes, NEW s \in Ends, TakeShake(s, m) \/ AnswerAgain(s, m)
      PROVE  SettingsInv'
  BY <1>4, TakeShakeKeeps, AnswerAgainKeeps
<1>5. CASE UNCHANGED settingsVars
  BY <1>5 DEF settingsVars, SettingsInv, SettingsTypes, SizesAreSane, ShakesAreTrue,
              RecordsAreKept, ListenerDecides, LossListHasRoom
<1> QED BY <1>1, <1>2, <1>3, <1>4, <1>5 DEF SettingsNext

\* Options and the settings of a connection fit both sides, whatever setOpt is called with,
\* and however often handshakes are lost, repeated and delayed: packets fit the units and
\* the UDP buffers of the peer, a listener and its client agree on their size, the first
\* window is no larger than the peer's buffer, and the loss list has room.
THEOREM SettingsAlwaysFit == SettingsSpec => []SettingsFit
<1>1. SettingsInv => SettingsFit
  <2> SUFFICES ASSUME SettingsInv PROVE SettingsFit
    OBVIOUS
  <2> USE DEF SettingsInv, SettingsTypes
  <2>1. ASSUME NEW s \in Ends, phase[s] = "connected", record[s].kind = "options"
        PROVE  /\ opt[s].mss <= unitSize[Mate(s)] /\ opt[s].mss <= opt[Mate(s)].udpRcv
               /\ flow[s] <= opt[Mate(s)].rcv
    <3>1. /\ record[s] \in shakes /\ record[s].from = Mate(s) /\ record[s].mss \in Nat
          /\ opt[s].mss <= record[s].mss /\ flow[s] = record[s].flow
      BY <2>1 DEF RecordsAreKept, Shakes
    <3>2. /\ record[s].mss <= unitSize[Mate(s)] /\ record[s].mss <= opt[Mate(s)].udpRcv
          /\ record[s].flow <= opt[Mate(s)].rcv
      BY <2>1, <3>1 DEF ShakesAreTrue
    <3>3. /\ Mate(s) \in Ends /\ opt[s].mss \in Nat /\ unitSize[Mate(s)] \in Nat
          /\ opt[Mate(s)].udpRcv \in Nat
      BY DEF Mate, Ends, Options
    <3> QED BY <3>1, <3>2, <3>3
  <2>2. PacketsFitUnits /\ WindowFitsBuffer
    BY <2>1 DEF PacketsFitUnits, WindowFitsBuffer
  <2>3. ListenerAgrees
    BY DEF ListenerAgrees, ListenerDecides
  <2> QED BY <2>2, <2>3 DEF SettingsFit
<1> QED BY <1>1, SettingsInvInit, SettingsInvStep, PTL DEF SettingsSpec

-----------------------------------------------------------------------------
(***************************************************************************)
(* UdtEpoll                                                                *)
(***************************************************************************)
PollerSteps == {"nothing", "list", "testIn", "tellIn", "testOut", "tellOut", "clear", "unlist"}

\* The types of the variables that the argument is about.
EpollTypes ==
  /\ polls \subseteq Polls /\ watch \subseteq Polls \X Events
  /\ data \in Nat /\ room \in Nat
  /\ poller \in [next : PollerSteps, eid : Nat]
  /\ receiver \in [next : {"nothing", "tellIn", "tellOut", "tellAll"}, eid : {0}]
  /\ link \in {"no", "connected", "broken", "shut", "closed"}

\* A socket that is not connected has no data, and only close, which takes the polls one
\* by one, ends with a closed one.
LinkIsInStep ==
  /\ link = "no" => data = 0
  /\ link = "closed" => closer # Nothing

\* Until close, what is watched is watched by a poll that exists and that the socket has on
\* its list, or is about to enter there; and a poll that is being taken out watches nothing.
WatchersAreListed ==
  /\ \A x \in watch : x[1] \in polls
  /\ closer = Nothing => \A x \in watch : x[1] \in pollIds \/ poller = Next_("list", x[1])
  /\ poller.next \in {"clear", "unlist"} => \A x \in watch : x[1] # poller.eid

\* Somebody is still going to tell x: the thread that has subscribed its poll, before the
\* test of this event or between the test and m_EPollLock, or the receiving thread.
Coming(x) ==
  \/ /\ poller.eid = x[1]
     /\ \/ poller.next \in {"list", "testIn"}
        \/ x[2] = "in" /\ poller.next = "tellIn"
        \/ x[2] = "out" /\ poller.next \in {"tellIn", "testOut", "tellOut"}
  \/ receiver.next = IF x[2] = "in" THEN "tellIn" ELSE "tellOut"
  \/ receiver.next = "tellAll"

\* The event of x has happened.
Happened(x) == IF x[2] = "in" THEN data > 0 ELSE room > 0

\* ReadinessIsTold in every state: what is watched and there is told, is going to be told,
\* or has been cleared by a stale test.
TellingIsComing ==
  closer = Nothing /\ link = "connected" =>
    \A x \in watch : Happened(x) => x \in ready \union untold \/ Coming(x)

\* BreakIsTold in every state.
BreakIsComing ==
  closer = Nothing /\ link = "broken" =>
    \A x \in watch : \/ x \in ready \union untold
                     \/ receiver.next = "tellAll"
                     \/ poller = Next_("list", x[1])

EpollInv == /\ EpollTypes /\ LinkIsInStep /\ WatchersAreListed
            /\ TellingIsComing /\ BreakIsComing /\ RemovedIsSilent

\* Nothing is watched at first.
LEMMA EpollInvInit == EpollInit => EpollInv
BY EpollAssumption
   DEF EpollInit, EpollInv, EpollTypes, PollerSteps, LinkIsInStep, WatchersAreListed,
       TellingIsComing, BreakIsComing, RemovedIsSilent, Nothing

\* What the polling thread does next, and for which poll.
LEMMA PollerSteps_ ==
  ASSUME NEW next \in PollerSteps, NEW p \in Nat
  PROVE  /\ Next_(next, p) \in [next : PollerSteps, eid : Nat]
         /\ Nothing \in [next : PollerSteps, eid : Nat]
BY DEF Next_, Nothing, PollerSteps

\* Every step keeps the types, and the states of the connection in step with the rest.
LEMMA EpollTypesStep == EpollInv /\ [EpollNext]_epollVars => EpollTypes' /\ LinkIsInStep'
<1> SUFFICES ASSUME EpollInv, [EpollNext]_epollVars PROVE EpollTypes' /\ LinkIsInStep'
  OBVIOUS
<1> USE EpollAssumption
    DEF EpollInv, EpollTypes, LinkIsInStep, Nothing, Next_, Events, CountBusy
<1>a. poller.eid \in Nat /\ Polls \subseteq Nat
  OBVIOUS
<1>1. CASE UNCHANGED epollVars
  BY <1>1 DEF epollVars, threads
<1>2. ASSUME NEW p \in Polls, NEW events \in (SUBSET Events) \ {{}}, AddWatch(p, events)
      PROVE  EpollTypes' /\ LinkIsInStep'
  <2>1. poller' \in [next : PollerSteps, eid : Nat]
    BY <1>2, <1>a, PollerSteps_ DEF AddWatch, PollerSteps
  <2>2. watch' \subseteq Polls \X Events
    BY <1>2 DEF AddWatch
  <2> QED BY <1>2, <2>1, <2>2 DEF AddWatch
<1>3. ASSUME NEW p \in Polls, RemoveWatch(p) PROVE EpollTypes' /\ LinkIsInStep'
  <2>1. poller' \in [next : PollerSteps, eid : Nat]
    BY <1>3, <1>a, PollerSteps_ DEF RemoveWatch, PollerSteps
  <2> QED BY <1>3, <2>1 DEF RemoveWatch
<1>3a. ASSUME NEW p \in Polls, Release(p) PROVE EpollTypes' /\ LinkIsInStep'
  BY <1>3a DEF Release, threads
<1>4. CASE ListPoll \/ TestIn \/ TellIn \/ TestOut \/ TellOut \/ ClearReady \/ UnlistPoll
  <2>1. poller' \in [next : PollerSteps, eid : Nat]
    BY <1>4, <1>a, PollerSteps_
       DEF ListPoll, TestIn, TellIn, TestOut, TellOut, ClearReady, UnlistPoll, PollerSteps
  <2> QED BY <1>4, <2>1 DEF ListPoll, TestIn, TellIn, TestOut, TellOut, ClearReady, UnlistPoll
<1>5. CASE Read \/ Write
  <2>1. data' \in Nat /\ room' \in Nat
    BY <1>5 DEF Read, Write
  <2>2. UNCHANGED <<polls, watch, poller, receiver, link, closer>> /\ link # "no"
    BY <1>5 DEF Read, Write
  <2> QED BY <2>1, <2>2
<1>5a. CASE NotReadable \/ NotWritable
  BY <1>5a DEF NotReadable, NotWritable
<1>6. CASE Connected \/ DataArrives \/ RoomIsMade \/ Break \/ Shutdown \/ ReceiverTells
  BY <1>6 DEF Connected, DataArrives, RoomIsMade, Break, Shutdown, ReceiverTells, threads
<1>7. CASE CloseBegins
  BY <1>7 DEF CloseBegins
<1>7a. CASE CloseEnds
  BY <1>7a DEF CloseEnds
<1>8. CASE CloseUnwatches
  <2>1. closer' # Nothing
    BY <1>8 DEF CloseUnwatches
  <2>2. watch' \subseteq watch /\ UNCHANGED <<polls, link, data, room, poller, receiver>>
    BY <1>8 DEF CloseUnwatches
  <2> QED BY <2>1, <2>2
<1> QED
  BY <1>1, <1>2, <1>3, <1>3a, <1>4, <1>5, <1>5a, <1>6, <1>7, <1>7a, <1>8 DEF EpollNext

\* Polls enter the list of the socket before they are told of anything, and leave it after
\* they have stopped watching.
LEMMA WatchersAreListedStep == EpollInv /\ [EpollNext]_epollVars => WatchersAreListed'
<1> SUFFICES ASSUME EpollInv, [EpollNext]_epollVars PROVE WatchersAreListed'
  OBVIOUS
<1> USE DEF EpollInv, EpollTypes, WatchersAreListed, LinkIsInStep, Nothing, Next_, Tell, Silence
<1>1. CASE UNCHANGED epollVars
  BY <1>1 DEF epollVars, threads
<1>2. ASSUME NEW p \in Polls, NEW events \in (SUBSET Events) \ {{}}, AddWatch(p, events)
      PROVE  WatchersAreListed'
  <2>1. \A x \in watch' : x \in watch \/ x[1] = p
    BY <1>2 DEF AddWatch
  <2> QED BY <1>2, <2>1 DEF AddWatch
<1>3. ASSUME NEW p \in Polls, RemoveWatch(p) \/ Release(p) PROVE WatchersAreListed'
  BY <1>3 DEF RemoveWatch, Release, threads
<1>4. CASE ListPoll \/ TestIn \/ TellIn \/ TestOut \/ TellOut \/ ClearReady \/ UnlistPoll
  BY <1>4 DEF ListPoll, TestIn, TellIn, TestOut, TellOut, ClearReady, UnlistPoll
<1>5. CASE Read \/ NotReadable \/ Write \/ NotWritable
  BY <1>5 DEF Read, NotReadable, Write, NotWritable
<1>6. CASE Connected \/ DataArrives \/ RoomIsMade \/ Break \/ Shutdown \/ ReceiverTells
  BY <1>6 DEF Connected, DataArrives, RoomIsMade, Break, Shutdown, ReceiverTells, threads
<1>7. CASE CloseBegins \/ CloseEnds
  BY <1>7 DEF CloseBegins, CloseEnds
<1>8. CASE CloseUnwatches
  <2>1. closer' # Nothing
    BY <1>8 DEF CloseUnwatches
  <2>2. watch' \subseteq watch /\ UNCHANGED <<polls, poller>>
    BY <1>8 DEF CloseUnwatches
  <2> QED BY <2>1, <2>2
<1> QED
  BY <1>1, <1>2, <1>3, <1>4, <1>5, <1>6, <1>7, <1>8 DEF EpollNext

\* What Tell leaves: everything that was told or excused is, and so is everything watched
\* of these events by a poll on the list.
LEMMA TellTells ==
  ASSUME NEW events, Tell(events), watch' = watch, NEW x \in watch
  PROVE  /\ x \in ready \union untold => x \in ready' \union untold'
         /\ x[1] \in pollIds /\ x[1] \in polls /\ x[2] \in events => x \in ready'
BY DEF Tell, Enabled

\* What Silence leaves: of the events that are there all the same, those that were told are
\* excused.
LEMMA SilenceExcuses ==
  ASSUME NEW events, NEW due, Silence(events, due), NEW x \in watch,
         x \in ready \union untold, x[2] \in events => x[2] \in due
  PROVE  x \in ready' \union untold'
BY DEF Silence

\* What is there is told, is going to be told, or a stale test has cleared it: an event is
\* told after it has happened by who has made it happen, and a poll that comes later tests
\* for it after it has entered the list.
LEMMA TellingIsComingStep == EpollInv /\ [EpollNext]_epollVars => TellingIsComing'
<1> SUFFICES ASSUME EpollInv, [EpollNext]_epollVars, closer' = Nothing, link' = "connected",
                    NEW x \in watch', Happened(x)'
             PROVE  x \in ready' \union untold' \/ Coming(x)'
  BY DEF TellingIsComing
<1> USE DEF Coming, Happened, Nothing, Next_
<1>a. EpollTypes /\ LinkIsInStep /\ WatchersAreListed /\ TellingIsComing
  BY DEF EpollInv
<1>b. ASSUME x \in watch, closer = Nothing
      PROVE  /\ link = "connected" /\ Happened(x) => x \in ready \union untold \/ Coming(x)
             /\ x[1] \in polls /\ (x[1] \in pollIds \/ poller = Next_("list", x[1]))
             /\ x \in Polls \X Events /\ x[2] \in Events /\ (x[2] = "in" \/ x[2] = "out")
  BY <1>a, <1>b DEF TellingIsComing, WatchersAreListed, EpollTypes, Events
<1>1. CASE UNCHANGED epollVars
  BY <1>1, <1>b DEF epollVars, threads
<1>2. ASSUME NEW p \in Polls, NEW events \in (SUBSET Events) \ {{}}, AddWatch(p, events)
      PROVE  x \in ready' \union untold' \/ Coming(x)'
  <2>1. x \in watch \/ x[1] = p
    BY <1>2 DEF AddWatch
  <2> QED BY <1>2, <2>1, <1>b DEF AddWatch
<1>3. ASSUME NEW p \in Polls, RemoveWatch(p) PROVE x \in ready' \union untold' \/ Coming(x)'
  BY <1>3, <1>b DEF RemoveWatch
<1>3a. ASSUME NEW p \in Polls, Release(p) PROVE x \in ready' \union untold' \/ Coming(x)'
  BY <1>3a, <1>b DEF Release, threads
<1>4. CASE ListPoll
  BY <1>4, <1>b DEF ListPoll
<1>5. CASE TestIn
  BY <1>5, <1>b DEF TestIn
<1>6. CASE TellIn
  <2>1. x \in watch /\ closer = Nothing /\ link = "connected" /\ Happened(x)
    BY <1>6 DEF TellIn
  <2>2. poller.next = "tellIn" /\ Tell({"in"}) /\ watch' = watch /\ receiver' = receiver
        /\ poller' = Next_("testOut", poller.eid)
    BY <1>6 DEF TellIn
  <2> QED BY <2>1, <2>2, <1>b, TellTells
<1>7. CASE TestOut
  BY <1>7, <1>b DEF TestOut
<1>8. CASE TellOut
  <2>1. x \in watch /\ closer = Nothing /\ link = "connected" /\ Happened(x)
    BY <1>8 DEF TellOut
  <2>2. poller.next = "tellOut" /\ Tell({"out"}) /\ watch' = watch /\ receiver' = receiver
    BY <1>8 DEF TellOut
  <2> QED BY <2>1, <2>2, <1>b, TellTells
<1>9. CASE ClearReady \/ UnlistPoll
  <2>1. x[1] # poller.eid
    BY <1>9, <1>a DEF ClearReady, UnlistPoll, WatchersAreListed
  <2> QED BY <1>9, <2>1, <1>b DEF ClearReady, UnlistPoll
<1>10. CASE Read \/ Write
  <2>1. UNCHANGED <<watch, ready, untold, link, closer, poller, receiver>>
    BY <1>10 DEF Read, Write
  <2>2. Happened(x)
    BY <1>10, <1>a DEF Read, Write, EpollTypes
  <2> QED BY <2>1, <2>2, <1>b
<1>11. CASE NotReadable
  <2>1. Silence({"in"}, IF data > 0 \/ link = "broken" THEN {"in"} ELSE {})
        /\ UNCHANGED <<watch, link, closer, poller, receiver, data, room>>
    BY <1>11 DEF NotReadable
  <2>2. x[2] \in {"in"} => x[2] \in (IF data > 0 \/ link = "broken" THEN {"in"} ELSE {})
    BY <2>1
  <2> QED BY <2>1, <2>2, <1>b, SilenceExcuses
<1>12. CASE NotWritable
  <2>1. Silence({"out"}, IF room > 0 \/ link = "broken" THEN {"out"} ELSE {})
        /\ UNCHANGED <<watch, link, closer, poller, receiver, data, room>>
    BY <1>12 DEF NotWritable
  <2>2. x[2] \in {"out"} => x[2] \in (IF room > 0 \/ link = "broken" THEN {"out"} ELSE {})
    BY <2>1
  <2> QED BY <2>1, <2>2, <1>b, SilenceExcuses
<1>13. CASE Connected
  BY <1>13, <1>a, <1>b DEF Connected, LinkIsInStep
<1>14. CASE DataArrives \/ RoomIsMade
  BY <1>14, <1>b DEF DataArrives, RoomIsMade
<1>15. CASE ReceiverTells
  <2>1. x \in watch /\ closer = Nothing /\ link = "connected" /\ Happened(x)
        /\ poller' = poller /\ receiver # Nothing /\ watch' = watch
    BY <1>15 DEF ReceiverTells
  <2>2. CASE receiver.next = "tellIn"
    BY <1>15, <2>1, <2>2, <1>b, TellTells DEF ReceiverTells
  <2>3. CASE receiver.next = "tellOut"
    BY <1>15, <2>1, <2>3, <1>b, TellTells DEF ReceiverTells
  <2>4. CASE receiver.next = "tellAll"
    BY <1>15, <2>1, <2>4, <1>b, TellTells DEF ReceiverTells
  <2> QED BY <2>1, <2>2, <2>3, <2>4, <1>a DEF EpollTypes
<1>16. CASE Break \/ Shutdown \/ CloseBegins \/ CloseUnwatches \/ CloseEnds
  BY <1>16 DEF Break, Shutdown, CloseBegins, CloseUnwatches, CloseEnds
<1> QED
  BY <1>1, <1>2, <1>3, <1>3a, <1>4, <1>5, <1>6, <1>7, <1>8, <1>9, <1>10, <1>11, <1>12, <1>13,
     <1>14, <1>15, <1>16 DEF EpollNext

\* A connection given up by the timers is told by the thread that has given it up; a poll
\* that enters the list afterwards is excused.
LEMMA BreakIsComingStep == EpollInv /\ [EpollNext]_epollVars => BreakIsComing'
<1> SUFFICES ASSUME EpollInv, [EpollNext]_epollVars, closer' = Nothing, link' = "broken",
                    NEW x \in watch'
             PROVE  \/ x \in ready' \union untold'
                    \/ receiver'.next = "tellAll"
                    \/ poller' = Next_("list", x[1])
  BY DEF BreakIsComing
<1> USE DEF Nothing, Next_
<1> DEFINE Goal == \/ x \in ready' \union untold'
                   \/ receiver'.next = "tellAll"
                   \/ poller' = Next_("list", x[1])
<1>a. EpollTypes /\ LinkIsInStep /\ WatchersAreListed /\ BreakIsComing
  BY DEF EpollInv
<1>b. ASSUME x \in watch, closer = Nothing
      PROVE  /\ link = "broken" => \/ x \in ready \union untold
                                  \/ receiver.next = "tellAll"
                                  \/ poller = Next_("list", x[1])
             /\ x[1] \in polls /\ (x[1] \in pollIds \/ poller = Next_("list", x[1]))
             /\ x \in Polls \X Events /\ x[2] \in Events
  BY <1>a, <1>b DEF BreakIsComing, WatchersAreListed, EpollTypes
<1>1. CASE UNCHANGED epollVars
  BY <1>1, <1>b DEF epollVars, threads
<1>2. ASSUME NEW p \in Polls, NEW events \in (SUBSET Events) \ {{}}, AddWatch(p, events)
      PROVE  Goal
  <2>1. x \in watch \/ x[1] = p
    BY <1>2 DEF AddWatch
  <2> QED BY <1>2, <2>1, <1>b DEF AddWatch
<1>3. ASSUME NEW p \in Polls, RemoveWatch(p) PROVE Goal
  BY <1>3, <1>b DEF RemoveWatch
<1>4. ASSUME NEW p \in Polls, Release(p) PROVE Goal
  BY <1>4, <1>b DEF Release, threads
<1>5. CASE ListPoll
  BY <1>5, <1>b DEF ListPoll
<1>6. CASE TestIn \/ TestOut
  BY <1>6, <1>b DEF TestIn, TestOut
<1>7. CASE TellIn
  BY <1>7, <1>b, TellTells DEF TellIn
<1>8. CASE TellOut
  BY <1>8, <1>b, TellTells DEF TellOut
<1>9. CASE ClearReady \/ UnlistPoll
  <2>1. x[1] # poller.eid
    BY <1>9, <1>a DEF ClearReady, UnlistPoll, WatchersAreListed
  <2> QED BY <1>9, <2>1, <1>b DEF ClearReady, UnlistPoll
<1>10. CASE Read \/ Write
  BY <1>10, <1>b DEF Read, Write
<1>11. CASE NotReadable
  <2>1. Silence({"in"}, {"in"})
    BY <1>11 DEF NotReadable
  <2> QED BY <1>11, <2>1, <1>b, SilenceExcuses DEF NotReadable
<1>12. CASE NotWritable
  <2>1. Silence({"out"}, {"out"})
    BY <1>12 DEF NotWritable
  <2> QED BY <1>12, <2>1, <1>b, SilenceExcuses DEF NotWritable
<1>13. CASE Connected \/ DataArrives \/ RoomIsMade \/ Break \/ Shutdown
  BY <1>13, <1>b DEF Connected, DataArrives, RoomIsMade, Break, Shutdown
<1>14. CASE ReceiverTells
  <2>1. x \in watch /\ closer = Nothing /\ link = "broken" /\ poller' = poller /\ watch' = watch
    BY <1>14 DEF ReceiverTells
  <2>2. CASE receiver.next = "tellAll"
    BY <1>14, <2>1, <2>2, <1>b, TellTells DEF ReceiverTells
  <2>3. CASE receiver.next # "tellAll"
    <3>1. PICK events : Tell(events)
      BY <1>14 DEF ReceiverTells
    <3> QED BY <2>1, <2>3, <3>1, <1>b, TellTells
  <2> QED BY <2>2, <2>3
<1>15. CASE CloseBegins \/ CloseUnwatches \/ CloseEnds
  BY <1>15 DEF CloseBegins, CloseUnwatches, CloseEnds
<1> QED
  BY <1>1, <1>2, <1>3, <1>4, <1>5, <1>6, <1>7, <1>8, <1>9, <1>10, <1>11, <1>12, <1>13, <1>14,
     <1>15 DEF EpollNext

\* Only what is watched is told, and who stops watching clears what has been told.
LEMMA RemovedIsSilentStep == EpollInv /\ [EpollNext]_epollVars => RemovedIsSilent'
<1> SUFFICES ASSUME EpollInv, [EpollNext]_epollVars, closer' = Nothing, NEW x \in ready'
             PROVE  x \in watch' \/ (poller'.next = "clear" /\ x[1] = poller'.eid)
  BY DEF RemovedIsSilent
<1> USE DEF EpollInv, RemovedIsSilent, LinkIsInStep, Nothing, Next_, Tell, Silence, Enabled
<1>1. CASE UNCHANGED epollVars
  BY <1>1 DEF epollVars, threads
<1>2. ASSUME NEW p \in Polls, NEW events \in (SUBSET Events) \ {{}}, AddWatch(p, events)
      PROVE  x \in watch' \/ (poller'.next = "clear" /\ x[1] = poller'.eid)
  BY <1>2 DEF AddWatch
<1>3. ASSUME NEW p \in Polls, RemoveWatch(p) \/ Release(p)
      PROVE  x \in watch' \/ (poller'.next = "clear" /\ x[1] = poller'.eid)
  BY <1>3 DEF RemoveWatch, Release, threads
<1>4. CASE ListPoll \/ TestIn \/ TellIn \/ TestOut \/ TellOut \/ ClearReady \/ UnlistPoll
  BY <1>4 DEF ListPoll, TestIn, TellIn, TestOut, TellOut, ClearReady, UnlistPoll
<1>5. CASE Read \/ NotReadable \/ Write \/ NotWritable
  BY <1>5 DEF Read, NotReadable, Write, NotWritable
<1>6. CASE Connected \/ DataArrives \/ RoomIsMade \/ Break \/ Shutdown \/ ReceiverTells
  BY <1>6 DEF Connected, DataArrives, RoomIsMade, Break, Shutdown, ReceiverTells, threads
<1>7. CASE CloseBegins \/ CloseUnwatches \/ CloseEnds
  BY <1>7 DEF CloseBegins, CloseUnwatches, CloseEnds
<1> QED
  BY <1>1, <1>2, <1>3, <1>4, <1>5, <1>6, <1>7 DEF EpollNext

\* In every order of subscriptions, arrivals, reads, writes and breaks: a poll is told of
\* what is there, and of nothing it does not watch.
THEOREM EventsAreAlwaysTold == EpollSpec => []EventsAreTold
<1>1. EpollInv /\ [EpollNext]_epollVars => EpollInv'
  BY EpollTypesStep, WatchersAreListedStep, TellingIsComingStep, BreakIsComingStep,
     RemovedIsSilentStep DEF EpollInv
<1>2. EpollInv => EventsAreTold
  <2> SUFFICES ASSUME EpollInv PROVE EventsAreTold
    OBVIOUS
  <2> USE DEF EpollInv, Quiet, Nothing, Next_
  <2>1. ReadinessIsTold
    <3> SUFFICES ASSUME Quiet, link = "connected", NEW x \in watch, Happened(x)
                 PROVE  x \in ready \union untold
      BY DEF ReadinessIsTold, Happened
    <3> QED BY DEF TellingIsComing, Coming
  <2>2. BreakIsTold
    <3> SUFFICES ASSUME Quiet, link = "broken", NEW x \in watch PROVE x \in ready \union untold
      BY DEF BreakIsTold
    <3> QED BY DEF BreakIsComing
  <2> QED BY <2>1, <2>2 DEF EventsAreTold
<1> QED BY EpollInvInit, <1>1, <1>2, PTL DEF EpollSpec

-----------------------------------------------------------------------------
(***************************************************************************)
(* UdtSockets                                                              *)
(***************************************************************************)
\* The invariant, of values ss, mx, ... of the variables, so that what an action does can
\* be taken apart into steps that each keep it.
IdsOrNone == Ids \union {0}

SocketSet ==
  [place : {"none", "made", "listed", "closed", "deleted"},
   status : {"init", "opened", "listening", "connected", "closed"}, opened : BOOLEAN, broken : BOOLEAN,
   closing : BOOLEAN, connected : BOOLEAN, onList : BOOLEAN, onHeap : BOOLEAN, old : BOOLEAN,
   linger : {"no", "yes", "over", "expired", "left"}, counter : Int, reuse : BOOLEAN, mux : IdsOrNone, listener : IdsOrNone, peer : SUBSET Peers,
   queue : SUBSET Ids, accepted : SUBSET Ids]
MuxSet    == [ref : Nat, port : Ports \union {0}, reusable : BOOLEAN, listener : IdsOrNone]
WorkerSet == [at : {"idle", "broken", "dropped", "made", "listed", "queued"}, ls : IdsOrNone, ns : IdsOrNone]
AcceptSet == [at : {"idle", "waiting", "woken", "popped", "crashed"}, ls : IdsOrNone, u : IdsOrNone]

TypesAreRight(ss, mx, sd, wk, ac, cl, g) ==
  /\ ss \in [Ids -> SocketSet] /\ mx \in [Ids -> MuxSet] /\ sd \in 1..(MaxSockets + 1)
  /\ wk \in [Ids -> WorkerSet] /\ ac \in [Acceptors -> AcceptSet]
  /\ cl \in SUBSET Ids /\ g \in {"running", "clearing", "ended"}

\* What holds of a socket by itself; inClose when it is in CUDTUnited::close.
Sane(s, inClose) ==
  /\ s.place \in {"none", "made", "deleted"} =>
       /\ s.status = "init" /\ s.linger = "no" /\ s.mux = 0 /\ s.queue = {}
       /\ ~s.opened /\ ~s.connected /\ ~s.onList /\ ~s.closing /\ ~s.broken
  /\ s.place \in {"none", "made"} => s.accepted = {}
  /\ s.onHeap => s.connected \/ s.place = "deleted"
  /\ s.place = "none" => s.listener = 0 /\ ~inClose
  /\ s.listener = 0 => s.peer = {}
  /\ s.place = "listed" =>
       /\ s.listener # 0 => s.status \in {"connected", "closed"}
       /\ s.status = "init" => s.mux = 0
       /\ s.status \in {"init", "opened"} => ~s.onList /\ ~s.connected
       /\ s.status = "closed" => s.broken
       /\ s.closing /\ ~inClose => s.broken
       /\ s.status # "closed" /\ ~inClose => s.linger = "no"
       /\ s.status = "opened" /\ ~inClose => s.opened
       /\ s.connected /\ ~s.broken => ~s.closing /\ s.onList
  /\ s.place = "closed" => s.status = "closed"
  /\ s.status \notin {"init", "closed"} => s.mux # 0
  /\ s.onList => s.mux # 0
  /\ s.status = "listening" => s.listener = 0 /\ ~s.connected /\ ~s.onList /\ ~inClose /\ s.place = "listed"
  /\ s.connected => s.opened
  /\ s.linger \in {"yes", "over", "expired"} /\ ~s.broken => s.connected /\ ~s.closing /\ s.onList
  /\ s.linger = "left" => s.place = "closed" /\ s.closing
  /\ (s.place = "closed" \/ inClose) /\ s.onList => s.linger # "no" \/ s.closing \/ s.broken \/ ~s.connected

AllSane(ss, cl) == \A i \in Ids : Sane(ss[i], i \in cl)

SeedIsNext(ss, sd) == \A i \in Ids : ss[i].place = "none" <=> i < sd

\* A receiving thread that makes a connection: for a listener that stays,
ListensFor(ss, m, l) ==
  l \in Ids /\ ss[l].place \in {"listed", "closed"} /\ ss[l].mux = m /\ (ss[l].place = "closed" => ~ss[l].old)

\* with a socket that nobody else knows, for a peer that has no other,
MakesFor(ss, mx, p, m, n) ==
  /\ ss[n].peer = {p} /\ mx[m].port = PortOf[p]
  /\ \A j \in Ids : ss[j].place = "listed" /\ ss[j].peer = {p} => n < j /\ ss[j].broken

Makes(w) == w.at \in {"made", "listed"}

NewIsRight(ss, mx, wk, cl, m, n, l) ==
  /\ n \in Ids /\ ss[n].listener = l /\ ~ss[n].broken /\ n \notin cl
  /\ \A k \in Ids : n \notin ss[k].queue /\ n \notin ss[k].accepted
  /\ \A k \in Ids : wk[k].ns = n => k = m
  /\ wk[m].at = "listed" => ss[n].place = "listed" /\ ss[n].mux = m
  /\ wk[m].at = "made" => ss[n].place = "made" /\ \E p \in Peers : MakesFor(ss, mx, p, m, n)

\* or with the broken connection of a peer that has none that works.
Replaces(w) == w.at \in {"broken", "dropped"}

HasNone(ss, mx, p, m, n) ==
  /\ ss[n].peer = {p} /\ mx[m].port = PortOf[p]
  /\ \A j \in Ids : ss[j].place = "listed" /\ ss[j].peer = {p} => ss[j].broken

GoneIsRight(ss, mx, m, n) ==
  /\ n \in Ids /\ ss[n].place \in {"listed", "closed"} /\ ss[n].status = "closed" /\ ss[n].broken
  /\ ss[n].place = "closed" => ~ss[n].old
  /\ \E p \in Peers : HasNone(ss, mx, p, m, n)

WorkerIsRight(ss, mx, wk, cl, m, n, l) ==
  /\ ListensFor(ss, m, l)
  /\ Makes(wk[m]) => NewIsRight(ss, mx, wk, cl, m, n, l)
  /\ Replaces(wk[m]) => GoneIsRight(ss, mx, m, n)
  /\ wk[m].at = "queued" => n = 0

WorkersAreRight(ss, mx, wk, cl) ==
  \A m \in Ids : IF wk[m].at = "idle" THEN wk[m].ns = 0 /\ wk[m].ls = 0
                 ELSE WorkerIsRight(ss, mx, wk, cl, m, wk[m].ns, wk[m].ls)

PortsDiffer(mx) ==
  \A m \in Ids : \A k \in Ids : mx[m].ref > 0 /\ mx[k].ref > 0 /\ mx[m].port = mx[k].port => m = k

NewestIsUp(ss) ==
  \A i \in Ids : \A j \in Ids :
    ss[i].place = "listed" /\ ss[j].place = "listed" /\ i < j /\ ss[i].peer = ss[j].peer /\ ss[i].peer # {}
      => ss[j].broken

QueuesAreRight(ss, cl) ==
  \A l \in Ids :
    /\ \A q \in ss[l].queue : ss[q].place = "listed" /\ ss[q].listener = l /\ q \notin cl /\ q \notin ss[l].accepted
    /\ \A a \in ss[l].accepted : ss[a].place # "none"

NobodyIsLost(ss, wk) ==
  \A i \in Ids : ss[i].place = "listed" /\ ss[i].status # "closed" /\ ss[i].listener # 0 =>
    \/ i \in ss[ss[i].listener].queue \/ i \in ss[ss[i].listener].accepted
    \/ \E m \in Ids : wk[m].at = "listed" /\ wk[m].ns = i

WaitingIn(ac, l) == {t \in Acceptors : ac[t].at = "waiting" /\ ac[t].ls = l}
WokenIn(ac, l)   == {t \in Acceptors : ac[t].at = "woken" /\ ac[t].ls = l}
QueuedIn(wk, l)  == {m \in Ids : wk[m].at = "queued" /\ wk[m].ls = l}
Roused(wk, ac, l) == Cardinality(WokenIn(ac, l)) + Cardinality(QueuedIn(wk, l))

SleepersAreRight(ss, wk, ac, g) ==
  /\ \A t \in Acceptors : ac[t].at \in {"waiting", "woken"} => ac[t].ls \in Ids
  /\ g = "running" =>
       \A l \in Ids : WaitingIn(ac, l) # {} =>
         /\ ss[l].place = "listed" /\ ss[l].status = "listening" /\ ~ss[l].broken
         /\ Cardinality(ss[l].queue) <= Roused(wk, ac, l)

AliveIn(ss)  == {i \in Ids : ss[i].place \in {"made", "listed", "closed"}}
Users(ss, m) == {i \in AliveIn(ss) : ss[i].mux = m}

MuxesAreRight(ss, mx) ==
  \A m \in Ids :
    /\ mx[m].ref = Cardinality(Users(ss, m))
    /\ mx[m].listener # 0 => mx[m].listener \in Users(ss, m)
    /\ ss[m].place \in {"none", "made"} \/ (ss[m].place = "listed" /\ ss[m].status = "init") => mx[m].ref = 0

EndIsRight(ss, wk, g) ==
  /\ g # "running" => \A i \in Ids : ss[i].place # "listed" /\ wk[i].at = "idle"
  /\ g = "ended" => \A i \in Ids : ss[i].place # "closed"

Good(ss, mx, sd, wk, ac, cl, g) ==
  /\ TypesAreRight(ss, mx, sd, wk, ac, cl, g) /\ AllSane(ss, cl) /\ SeedIsNext(ss, sd)
  /\ WorkersAreRight(ss, mx, wk, cl) /\ PortsDiffer(mx) /\ NewestIsUp(ss)
  /\ QueuesAreRight(ss, cl) /\ NobodyIsLost(ss, wk) /\ SleepersAreRight(ss, wk, ac, g)
  /\ MuxesAreRight(ss, mx) /\ EndIsRight(ss, wk, g)

SocketsInv == Good(sockets, muxes, seed, workers, accepts, closes, gc)

\* Identifiers are finitely many positive numbers.
LEMMA IdsAre == Ids \in SUBSET Nat /\ 0 \notin Ids /\ IsFiniteSet(Ids)
BY SocketsAssumption, FS_Interval DEF Ids

\* The users of a multiplexer can be counted.
LEMMA UsersAre == ASSUME NEW ss, NEW m PROVE Users(ss, m) \in SUBSET Ids /\ IsFiniteSet(Users(ss, m)) /\ Cardinality(Users(ss, m)) \in Nat
<1>1. Users(ss, m) \in SUBSET Ids
  BY DEF Users, AliveIn
<1>2. IsFiniteSet(Users(ss, m))
  BY <1>1, IdsAre, FS_Subset
<1> QED BY <1>1, <1>2, FS_CardinalityType

\* The invariant implies what is true of every state.
LEMMA SocketsImply == ASSUME SocketsInv PROVE ConnectionsAreKept /\ MuxIsCounted /\ ClosedLeavesTheList /\ CleanupIsComplete
<1> USE DEF SocketsInv, Good
<1>1. QueuedIsListed
  BY DEF QueuesAreRight, QueuedIsListed, Listed, Alive
<1>2. NoOrphan
  <2> SUFFICES ASSUME NEW i \in Ids, Located(i), sockets[i].listener # 0, sockets[sockets[i].listener].place = "deleted",
                      i \notin sockets[sockets[i].listener].accepted
               PROVE  FALSE
    BY DEF NoOrphan
  <2>1. PICK l \in Ids : l = sockets[i].listener /\ sockets[l].queue = {}
    <3>1. sockets[i].listener \in Ids
      BY DEF TypesAreRight, SocketSet, IdsOrNone
    <3> QED BY <3>1 DEF AllSane, Sane
  <2>2. PICK m \in Ids : workers[m].at = "listed" /\ workers[m].ns = i
    BY <2>1 DEF NobodyIsLost, Located, Listed
  <2>3. WorkerIsRight(sockets, muxes, workers, closes, m, i, workers[m].ls)
    BY <2>2 DEF WorkersAreRight
  <2> QED BY <2>1, <2>2, <2>3 DEF WorkerIsRight, ListensFor, Makes, NewIsRight
<1>3. OneConnectionPerPeer
  <2> SUFFICES ASSUME NEW i \in Ids, NEW j \in Ids, Listed(i), Listed(j), ~sockets[i].broken, ~sockets[j].broken,
                      sockets[i].peer = sockets[j].peer, sockets[i].peer # {}, i # j
               PROVE  FALSE
    BY DEF OneConnectionPerPeer
  <2>1. i < j \/ j < i
    BY IdsAre
  <2> QED BY <2>1 DEF NewestIsUp, Listed
<1>4. NobodyOversleeps
  <2> SUFFICES ASSUME gc = "running", NEW l \in Ids, Waiting(l) # {}
               PROVE  /\ Located(l) /\ ~sockets[l].broken
                      /\ Cardinality(sockets[l].queue) <=
                           Cardinality({t \in Acceptors : accepts[t].at = "woken" /\ accepts[t].ls = l})
                           + Cardinality({m \in Ids : workers[m].at = "queued" /\ workers[m].ls = l})
    BY DEF NobodyOversleeps
  <2>1. WaitingIn(accepts, l) # {}
    BY DEF Waiting, WaitingIn
  <2> QED BY <2>1 DEF SleepersAreRight, Located, Listed, Roused, WokenIn, QueuedIn
<1>5. MuxIsCounted
  <2>1. \A m \in Ids : Users(sockets, m) = {i \in Alive : sockets[i].mux = m}
    BY DEF Users, AliveIn, Alive
  <2> QED BY <2>1 DEF MuxIsCounted, MuxesAreRight
<1>6. ClosedLeavesTheList
  <2> SUFFICES ASSUME NEW i \in Ids, sockets[i].place = "closed", sockets[i].onList
               PROVE  \/ sockets[i].linger \in {"yes", "over", "expired"}
                      \/ sockets[i].closing \/ sockets[i].broken \/ ~sockets[i].connected
    BY DEF ClosedLeavesTheList
  <2>1. sockets[i].linger \in {"no", "yes", "over", "expired", "left"}
    BY DEF TypesAreRight, SocketSet
  <2> QED BY <2>1 DEF AllSane, Sane
<1>7. CleanupIsComplete
  <2> SUFFICES ASSUME gc = "ended", NEW m \in Ids PROVE muxes[m].ref = 0
    BY DEF CleanupIsComplete
  <2>1. Users(sockets, m) = {}
    <3> SUFFICES ASSUME NEW i \in Users(sockets, m) PROVE FALSE
      OBVIOUS
    <3>1. i \in Ids /\ sockets[i].place \in {"made", "listed", "closed"} /\ sockets[i].mux = m
      BY DEF Users, AliveIn
    <3>2. sockets[i].place = "made"
      BY <3>1 DEF EndIsRight
    <3> QED BY <3>1, <3>2, IdsAre DEF AllSane, Sane
  <2> QED BY <2>1, FS_EmptySet DEF MuxesAreRight
<1> QED BY <1>1, <1>2, <1>3, <1>4, <1>5, <1>6, <1>7 DEF ConnectionsAreKept

\* A socket that does not exist yet.
LEMMA FreshIs == Fresh \in SocketSet /\ Sane(Fresh, FALSE)
BY DEF Fresh, SocketSet, Sane, IdsOrNone

\* Nothing exists at first.
LEMMA SocketsStart == SocketsInit => SocketsInv
<1> SUFFICES ASSUME SocketsInit PROVE SocketsInv
  OBVIOUS
<1>1. /\ sockets = [i \in Ids |-> Fresh] /\ muxes = [i \in Ids |-> NoMux] /\ seed = MaxSockets + 1
      /\ workers = [i \in Ids |-> IdleWorker] /\ accepts = [t \in Acceptors |-> IdleAccept] /\ closes = {} /\ gc = "running"
  BY DEF SocketsInit
<1>2. TypesAreRight(sockets, muxes, seed, workers, accepts, closes, gc)
  BY <1>1, FreshIs, SocketsAssumption
  DEF TypesAreRight, MuxSet, WorkerSet, AcceptSet, NoMux, IdleWorker, IdleAccept, IdsOrNone
<1>3. \A i \in Ids : /\ sockets[i].place = "none" /\ sockets[i].queue = {} /\ sockets[i].accepted = {} /\ sockets[i].peer = {}
                     /\ workers[i].at = "idle" /\ workers[i].ns = 0 /\ workers[i].ls = 0
                     /\ muxes[i].ref = 0 /\ muxes[i].listener = 0
  BY <1>1 DEF Fresh, NoMux, IdleWorker
<1>4. AllSane(sockets, closes) /\ SeedIsNext(sockets, seed)
  <2>1. \A i \in Ids : i < MaxSockets + 1
    BY SocketsAssumption DEF Ids
  <2>2. AllSane(sockets, closes)
    BY <1>1 DEF AllSane, Sane, Fresh
  <2> QED BY <1>1, <1>3, <2>1, <2>2 DEF SeedIsNext
<1>5. /\ WorkersAreRight(sockets, muxes, workers, closes) /\ PortsDiffer(muxes) /\ NewestIsUp(sockets)
      /\ QueuesAreRight(sockets, closes) /\ NobodyIsLost(sockets, workers)
  BY <1>3 DEF WorkersAreRight, PortsDiffer, NewestIsUp, QueuesAreRight, NobodyIsLost
<1>6. SleepersAreRight(sockets, workers, accepts, gc)
  BY <1>1 DEF SleepersAreRight, IdleAccept, WaitingIn
<1>7. MuxesAreRight(sockets, muxes)
  <2>1. \A m \in Ids : Users(sockets, m) = {}
    BY <1>3 DEF Users, AliveIn
  <2> QED BY <1>3, <2>1, FS_EmptySet DEF MuxesAreRight
<1>8. EndIsRight(sockets, workers, gc)
  BY <1>1 DEF EndIsRight
<1> QED BY <1>2, <1>4, <1>5, <1>6, <1>7, <1>8 DEF SocketsInv, Good

-----------------------------------------------------------------------------
\* Sockets that break, close, leave a queue or change their flags.
Fades(ss, st) ==
  \A j \in Ids :
    /\ st[j].mux = ss[j].mux /\ st[j].listener = ss[j].listener /\ st[j].peer = ss[j].peer
    /\ st[j].queue \subseteq ss[j].queue /\ st[j].accepted \subseteq ss[j].accepted
    /\ st[j].place = ss[j].place \/ (ss[j].place = "listed" /\ st[j].place = "closed")
    /\ st[j].status = ss[j].status \/ (ss[j].status = "opened" /\ st[j].status \in {"connected", "listening"}) \/ st[j].status = "closed"
    /\ ss[j].broken => st[j].broken

\* Nobody leaves a queue but to be closed, nor is closed and stays in one.
FadesInOrder(ss, st) ==
  /\ \A l \in Ids : \A i \in Ids :
       st[i].place = "listed" /\ st[i].status # "closed" =>
         (i \in ss[l].queue => i \in st[l].queue) /\ (i \in ss[l].accepted => i \in st[l].accepted)
  /\ \A l \in Ids : \A q \in st[l].queue : st[q].place = "listed"

\* What threads that make connections rely on.
FadesBesideWorkers(ss, st, wk, cl) ==
  \A m \in Ids : wk[m].at # "idle" =>
    /\ Makes(wk[m]) => st[wk[m].ns].place = ss[wk[m].ns].place /\ ~st[wk[m].ns].broken /\ wk[m].ns \notin cl
    /\ Replaces(wk[m]) => (st[wk[m].ns].place = "closed" => ~st[wk[m].ns].old)
    /\ st[wk[m].ls].place = "closed" => ~st[wk[m].ls].old

\* A step of such changes, in which calls may begin, return or be woken.
FadeIs(ss, wk, cl, st, a2, c2, g2) ==
  /\ st \in [Ids -> SocketSet] /\ c2 \in SUBSET Ids /\ a2 \in [Acceptors -> AcceptSet]
  /\ g2 \in {"running", "clearing", "ended"}
  /\ AllSane(st, c2) /\ SleepersAreRight(st, wk, a2, g2) /\ EndIsRight(st, wk, g2)
  /\ Fades(ss, st) /\ FadesInOrder(ss, st) /\ FadesBesideWorkers(ss, st, wk, c2)
  /\ \A j \in c2 : j \in cl \/ \A l \in Ids : j \notin ss[l].queue

\* Such a step keeps the invariant.
LEMMA FadeKeeps ==
  ASSUME NEW ss, NEW mx, NEW sd, NEW wk, NEW ac, NEW cl, NEW g, Good(ss, mx, sd, wk, ac, cl, g),
         NEW st, NEW c2, NEW a2, NEW g2, FadeIs(ss, wk, cl, st, a2, c2, g2)
  PROVE  Good(st, mx, sd, wk, a2, c2, g2)
<1> USE DEF FadeIs
<1> USE DEF Good
<1>1. TypesAreRight(st, mx, sd, wk, a2, c2, g2)
  BY DEF TypesAreRight
<1>2. SeedIsNext(st, sd)
  BY DEF Fades, SeedIsNext
<1>3. WorkersAreRight(st, mx, wk, c2)
  <2> SUFFICES ASSUME NEW m \in Ids
               PROVE  IF wk[m].at = "idle" THEN wk[m].ns = 0 /\ wk[m].ls = 0
                      ELSE WorkerIsRight(st, mx, wk, c2, m, wk[m].ns, wk[m].ls)
    BY DEF WorkersAreRight
  <2>1. CASE wk[m].at = "idle"
    BY <2>1 DEF WorkersAreRight
  <2>2. CASE wk[m].at # "idle"
    <3>1. PICK n, l : n = wk[m].ns /\ l = wk[m].ls
      OBVIOUS
    <3>2. WorkerIsRight(ss, mx, wk, cl, m, n, l)
      BY <2>2, <3>1 DEF WorkersAreRight
    <3>3. ListensFor(st, m, l)
      <4>1. st[l].place = "closed" => ~st[l].old
        BY <2>2, <3>1 DEF FadesBesideWorkers
      <4>2. l \in Ids /\ ss[l].place \in {"listed", "closed"} /\ ss[l].mux = m
        BY <3>2 DEF WorkerIsRight, ListensFor
      <4> QED BY <4>1, <4>2 DEF ListensFor, Fades
    <3>4. ASSUME Makes(wk[m]) PROVE NewIsRight(st, mx, wk, c2, m, n, l)
      <4>1. NewIsRight(ss, mx, wk, cl, m, n, l)
        BY <3>2, <3>4 DEF WorkerIsRight
      <4>2. st[n].place = ss[n].place /\ ~st[n].broken /\ n \notin c2
        BY <2>2, <3>1, <3>4 DEF FadesBesideWorkers
      <4>3. n \in Ids /\ st[n].listener = l /\ st[n].mux = ss[n].mux
        BY <4>1 DEF NewIsRight, Fades
      <4>4. \A k \in Ids : n \notin st[k].queue /\ n \notin st[k].accepted
        BY <4>1 DEF NewIsRight, Fades
      <4>5. ASSUME NEW p \in Peers, MakesFor(ss, mx, p, m, n) PROVE MakesFor(st, mx, p, m, n)
        BY <4>3, <4>5 DEF MakesFor, Fades
      <4> QED BY <4>1, <4>2, <4>3, <4>4, <4>5 DEF NewIsRight
    <3>5. ASSUME Replaces(wk[m]) PROVE GoneIsRight(st, mx, m, n)
      <4>1. GoneIsRight(ss, mx, m, n)
        BY <3>2, <3>5 DEF WorkerIsRight
      <4>2. st[n].place = "closed" => ~st[n].old
        BY <2>2, <3>1, <3>5 DEF FadesBesideWorkers
      <4>3. n \in Ids /\ st[n].place \in {"listed", "closed"} /\ st[n].status = "closed" /\ st[n].broken
        BY <4>1 DEF GoneIsRight, Fades
      <4>4. ASSUME NEW p \in Peers, HasNone(ss, mx, p, m, n) PROVE HasNone(st, mx, p, m, n)
        BY <4>3, <4>4 DEF HasNone, Fades
      <4> QED BY <4>1, <4>2, <4>3, <4>4 DEF GoneIsRight
    <3>6. WorkerIsRight(st, mx, wk, c2, m, n, l)
      BY <3>2, <3>3, <3>4, <3>5 DEF WorkerIsRight
    <3> QED BY <2>2, <3>1, <3>6
  <2> QED BY <2>1, <2>2
<1>4. NewestIsUp(st)
  BY DEF NewestIsUp, Fades
<1>5. QueuesAreRight(st, c2)
  <2> SUFFICES ASSUME NEW l \in Ids PROVE
                /\ \A q \in st[l].queue : st[q].place = "listed" /\ st[q].listener = l /\ q \notin c2 /\ q \notin st[l].accepted
                /\ \A a \in st[l].accepted : st[a].place # "none"
    BY DEF QueuesAreRight
  <2>1. \A q \in st[l].queue : q \in Ids /\ q \in ss[l].queue
    BY DEF Fades, TypesAreRight, SocketSet
  <2>2. \A a \in st[l].accepted : a \in Ids /\ a \in ss[l].accepted
    BY DEF Fades, TypesAreRight, SocketSet
  <2> QED BY <2>1, <2>2 DEF QueuesAreRight, Fades, FadesInOrder
<1>6. NobodyIsLost(st, wk)
  <2> SUFFICES ASSUME NEW i \in Ids, st[i].place = "listed", st[i].status # "closed", st[i].listener # 0
               PROVE  \/ i \in st[st[i].listener].queue \/ i \in st[st[i].listener].accepted
                      \/ \E m \in Ids : wk[m].at = "listed" /\ wk[m].ns = i
    BY DEF NobodyIsLost
  <2>1. PICK l \in Ids : l = st[i].listener /\ l = ss[i].listener
    BY DEF Fades, SocketSet, IdsOrNone
  <2>2. ss[i].place = "listed" /\ ss[i].status # "closed"
    BY DEF Fades
  <2>3. i \in ss[l].queue \/ i \in ss[l].accepted \/ \E m \in Ids : wk[m].at = "listed" /\ wk[m].ns = i
    BY <2>1, <2>2 DEF NobodyIsLost
  <2> QED BY <2>1, <2>3 DEF FadesInOrder
<1>7. MuxesAreRight(st, mx)
  <2>1. \A m \in Ids : Users(st, m) = Users(ss, m)
    BY DEF Users, AliveIn, Fades
  <2>2. ASSUME NEW m \in Ids, st[m].place \in {"none", "made"} \/ (st[m].place = "listed" /\ st[m].status = "init")
        PROVE  ss[m].place \in {"none", "made"} \/ (ss[m].place = "listed" /\ ss[m].status = "init")
    BY <2>2 DEF Fades
  <2> QED BY <2>1, <2>2 DEF MuxesAreRight
<1> QED BY <1>1, <1>2, <1>3, <1>4, <1>5, <1>6, <1>7

\* Those who are awake, or about to be woken, can be counted.
LEMMA RousedAre ==
  ASSUME NEW wk, NEW ac, NEW l
  PROVE  /\ IsFiniteSet(WokenIn(ac, l)) /\ Cardinality(WokenIn(ac, l)) \in Nat
         /\ IsFiniteSet(QueuedIn(wk, l)) /\ Cardinality(QueuedIn(wk, l)) \in Nat
         /\ Roused(wk, ac, l) \in Nat /\ Roused(wk, ac, l) = Cardinality(WokenIn(ac, l)) + Cardinality(QueuedIn(wk, l))
<1>1. WokenIn(ac, l) \subseteq Acceptors /\ QueuedIn(wk, l) \subseteq Ids
  BY DEF WokenIn, QueuedIn
<1>2. IsFiniteSet(WokenIn(ac, l)) /\ IsFiniteSet(QueuedIn(wk, l))
  BY <1>1, SocketsAssumption, IdsAre, FS_Subset
<1>3. Cardinality(WokenIn(ac, l)) \in Nat /\ Cardinality(QueuedIn(wk, l)) \in Nat
  BY <1>2, FS_CardinalityType
<1> QED BY <1>2, <1>3 DEF Roused

\* Who waits or is woken stays right when listeners and queues are left alone.
LEMMA SleepersStay ==
  ASSUME NEW ss, NEW st, NEW wk, NEW ac, NEW g, SleepersAreRight(ss, wk, ac, g),
         ss \in [Ids -> SocketSet],
         g = "running" =>
           \A l \in Ids : WaitingIn(ac, l) # {} =>
             /\ st[l].place = ss[l].place /\ st[l].status = ss[l].status /\ st[l].broken = ss[l].broken
             /\ st[l].queue \subseteq ss[l].queue
  PROVE  SleepersAreRight(st, wk, ac, g)
<1> SUFFICES ASSUME g = "running", NEW l \in Ids, WaitingIn(ac, l) # {}
             PROVE  Cardinality(st[l].queue) <= Roused(wk, ac, l)
  BY DEF SleepersAreRight
<1>1. IsFiniteSet(ss[l].queue) /\ st[l].queue \subseteq ss[l].queue
  <2>1. ss[l].queue \in SUBSET Ids
    BY DEF SocketSet
  <2> QED BY <2>1, IdsAre, FS_Subset
<1>2. /\ Cardinality(st[l].queue) <= Cardinality(ss[l].queue)
      /\ Cardinality(ss[l].queue) <= Roused(wk, ac, l)
  BY <1>1, FS_Subset DEF SleepersAreRight
<1>3. IsFiniteSet(st[l].queue)
  BY <1>1, FS_Subset
<1>4. PICK a \in Nat, b \in Nat, c \in Nat : /\ a = Cardinality(st[l].queue) /\ b = Cardinality(ss[l].queue)
                                             /\ c = Roused(wk, ac, l)
  BY <1>1, <1>3, RousedAre, FS_CardinalityType
<1> QED BY <1>2, <1>4

\* One socket changes its flags.
FlagsIs(ss, wk, cl, i, s, c2) ==
  /\ s \in SocketSet /\ Sane(s, i \in c2)
  /\ s.place = ss[i].place /\ s.mux = ss[i].mux /\ s.listener = ss[i].listener
  /\ \/ s.status = ss[i].status
     \/ ss[i].status = "opened" /\ s.status \in {"connected", "listening"}
     \/ ss[i].status # "listening" /\ s.status = "closed"
  /\ s.peer = ss[i].peer /\ s.queue = ss[i].queue /\ s.accepted = ss[i].accepted
  /\ ss[i].broken => s.broken
  /\ s.broken /\ ~ss[i].broken => s.status # "listening"
  /\ c2 \in SUBSET Ids /\ cl \subseteq c2
  /\ \A j \in c2 : j \in cl \/ (j = i /\ \A l \in Ids : i \notin ss[l].queue)
  /\ \A m \in Ids : wk[m].at # "idle" => /\ wk[m].ns = i /\ Makes(wk[m]) => ~s.broken /\ i \notin c2
                                         /\ i \in {wk[m].ls, wk[m].ns} /\ s.old => ss[i].old

\* One socket that changes its flags is such a step.
LEMMA FlagsKeep ==
  ASSUME NEW ss, NEW mx, NEW sd, NEW wk, NEW ac, NEW cl, NEW g, Good(ss, mx, sd, wk, ac, cl, g),
         NEW i \in Ids, NEW s, NEW c2, FlagsIs(ss, wk, cl, i, s, c2), NEW st, st = [ss EXCEPT ![i] = s]
  PROVE  Good(st, mx, sd, wk, ac, c2, g)
<1>2. TypesAreRight(ss, mx, sd, wk, ac, cl, g)
  BY DEF Good
<1>3. st \in [Ids -> SocketSet] /\ \A j \in Ids : st[j] = IF j = i THEN s ELSE ss[j]
  BY <1>2 DEF TypesAreRight, FlagsIs
<1>4. AllSane(st, c2)
  <2> SUFFICES ASSUME NEW j \in Ids PROVE Sane(st[j], j \in c2)
    BY DEF AllSane
  <2>1. CASE j = i
    BY <1>3, <2>1 DEF FlagsIs
  <2>2. CASE j # i
    <3>1. st[j] = ss[j] /\ (j \in c2 <=> j \in cl) /\ Sane(ss[j], j \in cl)
      BY <1>3, <2>2 DEF Good, AllSane, FlagsIs
    <3> QED BY <3>1 DEF Sane
  <2> QED BY <2>1, <2>2
<1>5. Fades(ss, st)
  BY <1>3 DEF Fades, FlagsIs
<1>6. FadesInOrder(ss, st)
  BY <1>2, <1>3 DEF FadesInOrder, Good, QueuesAreRight, TypesAreRight, SocketSet, FlagsIs
<1>7. FadesBesideWorkers(ss, st, wk, c2)
  <2> SUFFICES ASSUME NEW m \in Ids, wk[m].at # "idle", NEW n, NEW l, n = wk[m].ns, l = wk[m].ls
               PROVE  /\ Makes(wk[m]) => st[n].place = ss[n].place /\ ~st[n].broken /\ n \notin c2
                      /\ Replaces(wk[m]) => (st[n].place = "closed" => ~st[n].old)
                      /\ st[l].place = "closed" => ~st[l].old
    BY DEF FadesBesideWorkers
  <2>1. WorkerIsRight(ss, mx, wk, cl, m, n, l)
    BY DEF Good, WorkersAreRight
  <2>2. Makes(wk[m]) => st[n].place = ss[n].place /\ ~st[n].broken /\ n \notin c2
    BY <1>3, <2>1 DEF WorkerIsRight, NewIsRight, FlagsIs
  <2>3. Replaces(wk[m]) => (st[n].place = "closed" => ~st[n].old)
    BY <1>3, <2>1 DEF WorkerIsRight, GoneIsRight, FlagsIs
  <2>4. st[l].place = "closed" => ~st[l].old
    BY <1>3, <2>1 DEF WorkerIsRight, ListensFor, FlagsIs
  <2> QED BY <2>2, <2>3, <2>4
<1>8. SleepersAreRight(st, wk, ac, g)
  <2>1. SleepersAreRight(ss, wk, ac, g)
    BY DEF Good
  <2>2. \A l \in Ids : WaitingIn(ac, l) # {} /\ g = "running" =>
          /\ st[l].place = ss[l].place /\ st[l].status = ss[l].status
          /\ st[l].broken = ss[l].broken /\ st[l].queue \subseteq ss[l].queue
    <3> SUFFICES ASSUME NEW l \in Ids, WaitingIn(ac, l) # {}, g = "running"
                 PROVE  /\ st[l].place = ss[l].place /\ st[l].status = ss[l].status
                        /\ st[l].broken = ss[l].broken /\ st[l].queue \subseteq ss[l].queue
      OBVIOUS
    <3>1. ss[l].status = "listening" /\ ~ss[l].broken
      BY <2>1 DEF SleepersAreRight
    <3>2. ss[l].broken \in BOOLEAN /\ st[l].broken \in BOOLEAN
      BY <1>2, <1>3 DEF TypesAreRight, SocketSet
    <3> QED BY <1>3, <3>1, <3>2 DEF FlagsIs
  <2> QED BY <1>2, <2>1, <2>2, SleepersStay DEF TypesAreRight
<1>9. EndIsRight(st, wk, g)
  BY <1>3 DEF Good, EndIsRight, FlagsIs
<1>10. FadeIs(ss, wk, cl, st, ac, c2, g)
  <2>1. c2 \in SUBSET Ids /\ ac \in [Acceptors -> AcceptSet] /\ g \in {"running", "clearing", "ended"}
    BY <1>2 DEF TypesAreRight, FlagsIs
  <2>2. \A j \in c2 : j \in cl \/ \A l \in Ids : j \notin ss[l].queue
    BY DEF FlagsIs
  <2> QED BY <1>3, <1>4, <1>5, <1>6, <1>7, <1>8, <1>9, <2>1, <2>2 DEF FadeIs
<1> QED BY ONLY <1>10, FadeKeeps, Good(ss, mx, sd, wk, ac, cl, g), Zenon

\* The same, of the variables.
LEMMA FlagsKeepInv ==
  ASSUME SocketsInv, NEW i \in Ids, NEW s, FlagsIs(sockets, workers, closes, i, s, closes'),
         sockets' = [sockets EXCEPT ![i] = s], UNCHANGED <<muxes, seed, workers, accepts, gc>>
  PROVE  SocketsInv'
<1>1. Good(sockets', muxes, seed, workers, accepts, closes', gc)
  BY FlagsKeep, Zenon DEF SocketsInv
<1> QED BY <1>1 DEF SocketsInv

\* What a thread that makes a connection says of a socket.
LEMMA WorkerFacts ==
  ASSUME SocketsInv, NEW m \in Ids, workers[m].at # "idle"
  PROVE  WorkerIsRight(sockets, muxes, workers, closes, m, workers[m].ns, workers[m].ls)
BY DEF SocketsInv, Good, WorkersAreRight

\* The socket that it makes works, and nobody else knows it.
LEMMA MakerFacts ==
  ASSUME SocketsInv, NEW m \in Ids, Makes(workers[m]), NEW i, workers[m].ns = i
  PROVE  /\ i \in Ids /\ ~sockets[i].broken /\ i \notin closes
         /\ \A l \in Ids : i \notin sockets[l].queue /\ i \notin sockets[l].accepted
         /\ sockets[i].place = "made" \/ (sockets[i].place = "listed" /\ sockets[i].mux = m)
<1>1. workers[m].at # "idle"
  BY DEF Makes
<1>2. NewIsRight(sockets, muxes, workers, closes, m, i, workers[m].ls)
  BY <1>1, WorkerFacts DEF WorkerIsRight
<1> QED BY <1>2 DEF NewIsRight, Makes

\* What is known of any socket.
LEMMA SocketFacts ==
  ASSUME SocketsInv, NEW i \in Ids
  PROVE  /\ sockets \in [Ids -> SocketSet] /\ sockets[i] \in SocketSet /\ Sane(sockets[i], i \in closes)
         /\ closes \in SUBSET Ids
BY DEF SocketsInv, Good, AllSane, TypesAreRight

\* The connection breaks.
LEMMA PeerGoneKeeps == ASSUME SocketsInv, NEW i \in Ids, PeerGone(i) PROVE SocketsInv'
<1>1. PICK s : s = [sockets[i] EXCEPT !.broken = TRUE, !.closing = TRUE, !.counter = BrokenRounds]
  OBVIOUS
<1>2. PICK o \in SocketSet : o = sockets[i] /\ Sane(o, i \in closes)
  BY SocketFacts
<1>3. /\ o.onList /\ workers[o.mux].at = "idle" /\ o.connected /\ ~o.broken /\ ~o.closing
      /\ UNCHANGED <<muxes, seed, workers, accepts, closes, gc>>
  BY <1>2 DEF PeerGone, callVars
<1>4. s \in SocketSet
  <2>1. BrokenRounds \in Int
    BY SocketsAssumption
  <2> QED BY <1>1, <1>2, <2>1 DEF SocketSet
<1>5. /\ s.broken /\ s.place = o.place /\ s.status = o.status /\ s.mux = o.mux /\ s.listener = o.listener /\ s.old = o.old
      /\ s.peer = o.peer /\ s.queue = o.queue /\ s.accepted = o.accepted /\ Sane(s, i \in closes) /\ s.status # "listening"
  BY <1>1, <1>2, <1>3 DEF SocketSet, Sane
<1>6. sockets' = [sockets EXCEPT ![i] = s]
  BY <1>1, SocketFacts DEF PeerGone
<1>7. ASSUME NEW m \in Ids, Makes(workers[m]), workers[m].ns = i PROVE FALSE
  <2>1. o.place = "made" \/ o.mux = m
    BY <1>2, <1>7, MakerFacts
  <2>2. workers[m].at # "idle"
    BY <1>7 DEF Makes
  <2> QED BY <1>2, <1>3, <2>1, <2>2 DEF Sane
<1>8. \A m \in Ids : workers[m].at # "idle" => /\ workers[m].ns = i /\ Makes(workers[m]) => ~s.broken /\ i \notin closes'
                                               /\ i \in {workers[m].ls, workers[m].ns} /\ s.old => o.old
  BY <1>5, <1>7
<1>9. closes' \in SUBSET Ids /\ closes' = closes
  BY <1>3, SocketFacts
<1>10. FlagsIs(sockets, workers, closes, i, s, closes')
  BY <1>2, <1>3, <1>4, <1>5, <1>8, <1>9 DEF FlagsIs
<1> QED BY <1>3, <1>6, <1>10, FlagsKeepInv

\* The receiving thread lets a socket go.
LEMMA LeaveReceiverKeeps == ASSUME SocketsInv, NEW i \in Ids, LeaveReceiver(i) PROVE SocketsInv'
<1>1. PICK s : s = [sockets[i] EXCEPT !.onList = FALSE]
  OBVIOUS
<1>2. PICK o \in SocketSet : o = sockets[i] /\ Sane(o, i \in closes)
  BY SocketFacts
<1>3. (~o.connected \/ o.broken \/ o.closing) /\ UNCHANGED <<muxes, seed, workers, accepts, closes, gc>>
  BY <1>2 DEF LeaveReceiver, callVars
<1>4. s \in SocketSet
  BY <1>1, <1>2 DEF SocketSet
<1>5. /\ s.broken = o.broken /\ s.place = o.place /\ s.status = o.status /\ s.mux = o.mux /\ s.listener = o.listener /\ s.old = o.old
      /\ s.peer = o.peer /\ s.queue = o.queue /\ s.accepted = o.accepted /\ Sane(s, i \in closes)
  BY <1>1, <1>2, <1>3 DEF SocketSet, Sane
<1>6. sockets' = [sockets EXCEPT ![i] = s]
  BY <1>1, SocketFacts DEF LeaveReceiver
<1>8. \A m \in Ids : workers[m].at # "idle" => /\ workers[m].ns = i /\ Makes(workers[m]) => ~s.broken /\ i \notin closes'
                                               /\ i \in {workers[m].ls, workers[m].ns} /\ s.old => o.old
  BY <1>2, <1>3, <1>5, MakerFacts
<1>9. closes' \in SUBSET Ids /\ closes' = closes
  BY <1>3, SocketFacts
<1>10. FlagsIs(sockets, workers, closes, i, s, closes')
  BY <1>2, <1>3, <1>4, <1>5, <1>8, <1>9 DEF FlagsIs
<1> QED BY <1>3, <1>6, <1>10, FlagsKeepInv

\* Lingering is over.
LEMMA LingerEndsKeeps == ASSUME SocketsInv, NEW i \in Ids, NEW how \in {"over", "expired"}, LingerEnds(i, how) PROVE SocketsInv'
<1>1. PICK s : s = [sockets[i] EXCEPT !.linger = how]
  OBVIOUS
<1>2. PICK o \in SocketSet : o = sockets[i] /\ Sane(o, i \in closes)
  BY SocketFacts
<1>3. o.linger = "yes" /\ UNCHANGED <<muxes, seed, workers, accepts, closes, gc>>
  BY <1>2 DEF LingerEnds, callVars
<1>4. s \in SocketSet
  BY <1>1, <1>2 DEF SocketSet
<1>5. /\ s.broken = o.broken /\ s.place = o.place /\ s.status = o.status /\ s.mux = o.mux /\ s.listener = o.listener /\ s.old = o.old
      /\ s.peer = o.peer /\ s.queue = o.queue /\ s.accepted = o.accepted /\ Sane(s, i \in closes)
  BY <1>1, <1>2, <1>3 DEF SocketSet, Sane
<1>6. sockets' = [sockets EXCEPT ![i] = s]
  BY <1>1, SocketFacts DEF LingerEnds
<1>8. \A m \in Ids : workers[m].at # "idle" => /\ workers[m].ns = i /\ Makes(workers[m]) => ~s.broken /\ i \notin closes'
                                               /\ i \in {workers[m].ls, workers[m].ns} /\ s.old => o.old
  BY <1>2, <1>3, <1>5, MakerFacts
<1>9. closes' \in SUBSET Ids /\ closes' = closes
  BY <1>3, SocketFacts
<1>10. FlagsIs(sockets, workers, closes, i, s, closes')
  BY <1>2, <1>3, <1>4, <1>5, <1>8, <1>9 DEF FlagsIs
<1> QED BY <1>3, <1>6, <1>10, FlagsKeepInv

\* A sending thread is to serve a socket.
LEMMA ScheduleKeeps == ASSUME SocketsInv, NEW i \in Ids, Schedule(i) PROVE SocketsInv'
<1>1. PICK s : s = [sockets[i] EXCEPT !.onHeap = TRUE]
  OBVIOUS
<1>2. PICK o \in SocketSet : o = sockets[i] /\ Sane(o, i \in closes)
  BY SocketFacts
<1>3. o.connected /\ UNCHANGED <<muxes, seed, workers, accepts, closes, gc>>
  BY <1>2 DEF Schedule, callVars
<1>4. s \in SocketSet
  BY <1>1, <1>2 DEF SocketSet
<1>5. /\ s.broken = o.broken /\ s.place = o.place /\ s.status = o.status /\ s.mux = o.mux /\ s.listener = o.listener /\ s.old = o.old
      /\ s.peer = o.peer /\ s.queue = o.queue /\ s.accepted = o.accepted /\ Sane(s, i \in closes)
  BY <1>1, <1>2, <1>3 DEF SocketSet, Sane
<1>6. sockets' = [sockets EXCEPT ![i] = s]
  BY <1>1, SocketFacts DEF Schedule
<1>8. \A m \in Ids : workers[m].at # "idle" => /\ workers[m].ns = i /\ Makes(workers[m]) => ~s.broken /\ i \notin closes'
                                               /\ i \in {workers[m].ls, workers[m].ns} /\ s.old => o.old
  BY <1>2, <1>3, <1>5, MakerFacts
<1>9. closes' \in SUBSET Ids /\ closes' = closes
  BY <1>3, SocketFacts
<1>10. FlagsIs(sockets, workers, closes, i, s, closes')
  BY <1>2, <1>3, <1>4, <1>5, <1>8, <1>9 DEF FlagsIs
<1> QED BY <1>3, <1>6, <1>10, FlagsKeepInv

\* A sending thread has nothing to do for a socket.
LEMMA UnscheduleKeeps == ASSUME SocketsInv, NEW i \in Ids, Unschedule(i) PROVE SocketsInv'
<1>1. PICK s : s = [sockets[i] EXCEPT !.onHeap = FALSE]
  OBVIOUS
<1>2. PICK o \in SocketSet : o = sockets[i] /\ Sane(o, i \in closes)
  BY SocketFacts
<1>3. UNCHANGED <<muxes, seed, workers, accepts, closes, gc>>
  BY <1>2 DEF Unschedule, callVars
<1>4. s \in SocketSet
  BY <1>1, <1>2 DEF SocketSet
<1>5. /\ s.broken = o.broken /\ s.place = o.place /\ s.status = o.status /\ s.mux = o.mux /\ s.listener = o.listener /\ s.old = o.old
      /\ s.peer = o.peer /\ s.queue = o.queue /\ s.accepted = o.accepted /\ Sane(s, i \in closes)
  BY <1>1, <1>2, <1>3 DEF SocketSet, Sane
<1>6. sockets' = [sockets EXCEPT ![i] = s]
  BY <1>1, SocketFacts DEF Unschedule
<1>8. \A m \in Ids : workers[m].at # "idle" => /\ workers[m].ns = i /\ Makes(workers[m]) => ~s.broken /\ i \notin closes'
                                               /\ i \in {workers[m].ls, workers[m].ns} /\ s.old => o.old
  BY <1>2, <1>3, <1>5, MakerFacts
<1>9. closes' \in SUBSET Ids /\ closes' = closes
  BY <1>3, SocketFacts
<1>10. FlagsIs(sockets, workers, closes, i, s, closes')
  BY <1>2, <1>3, <1>4, <1>5, <1>8, <1>9 DEF FlagsIs
<1> QED BY <1>3, <1>6, <1>10, FlagsKeepInv

\* The time until removal is over.
LEMMA RipenKeeps == ASSUME SocketsInv, NEW i \in Ids, Ripen(i) PROVE SocketsInv'
<1>1. PICK s : s = [sockets[i] EXCEPT !.old = TRUE]
  OBVIOUS
<1>2. PICK o \in SocketSet : o = sockets[i] /\ Sane(o, i \in closes)
  BY SocketFacts
<1>3. (\A m \in Ids : workers[m].ls # i /\ workers[m].ns # i) /\ UNCHANGED <<muxes, seed, workers, accepts, closes, gc>>
  BY <1>2 DEF Ripen, callVars
<1>4. s \in SocketSet
  BY <1>1, <1>2 DEF SocketSet
<1>5. /\ s.broken = o.broken /\ s.place = o.place /\ s.status = o.status /\ s.mux = o.mux /\ s.listener = o.listener
      /\ s.peer = o.peer /\ s.queue = o.queue /\ s.accepted = o.accepted /\ Sane(s, i \in closes)
  BY <1>1, <1>2, <1>3 DEF SocketSet, Sane
<1>6. sockets' = [sockets EXCEPT ![i] = s]
  BY <1>1, SocketFacts DEF Ripen
<1>8. \A m \in Ids : workers[m].at # "idle" => /\ workers[m].ns = i /\ Makes(workers[m]) => ~s.broken /\ i \notin closes'
                                               /\ i \in {workers[m].ls, workers[m].ns} /\ s.old => o.old
  BY <1>2, <1>3, <1>5, MakerFacts
<1>9. closes' \in SUBSET Ids /\ closes' = closes
  BY <1>3, SocketFacts
<1>10. FlagsIs(sockets, workers, closes, i, s, closes')
  BY <1>2, <1>3, <1>4, <1>5, <1>8, <1>9 DEF FlagsIs
<1> QED BY <1>3, <1>6, <1>10, FlagsKeepInv

\* A socket that an application may use is not one that waits or is being made.
LEMMA HeldIs ==
  ASSUME SocketsInv, NEW i \in Ids, Held(i)
  PROVE  /\ gc = "running" /\ sockets[i].place = "listed" /\ sockets[i].status # "closed" /\ i \notin closes
         /\ \A l \in Ids : i \notin sockets[l].queue
         /\ \A m \in Ids : workers[m].at # "idle" => workers[m].ns # i
<1>1. gc = "running" /\ sockets[i].place = "listed" /\ sockets[i].status # "closed" /\ i \notin closes
  BY DEF Held, Located, Listed
<1>2. sockets[i].listener # 0 => sockets[i].listener \in Ids /\ i \in sockets[sockets[i].listener].accepted
  BY SocketFacts DEF Held, SocketSet, IdsOrNone
<1>3. ASSUME NEW l \in Ids, i \in sockets[l].queue PROVE FALSE
  <2>1. sockets[i].listener = l /\ i \notin sockets[l].accepted
    BY <1>3 DEF SocketsInv, Good, QueuesAreRight
  <2> QED BY <1>2, <2>1, IdsAre
<1>4. ASSUME NEW m \in Ids, workers[m].at # "idle", workers[m].ns = i PROVE FALSE
  <2>1. WorkerIsRight(sockets, muxes, workers, closes, m, i, workers[m].ls)
    BY <1>4, WorkerFacts
  <2>2. workers[m].at \in {"broken", "dropped", "made", "listed", "queued"}
    BY <1>4 DEF SocketsInv, Good, TypesAreRight, WorkerSet
  <2>3. CASE workers[m].at = "queued"
    BY <2>1, <2>3, IdsAre DEF WorkerIsRight
  <2>4. CASE Replaces(workers[m])
    BY <1>1, <2>1, <2>4 DEF WorkerIsRight, GoneIsRight
  <2>5. CASE Makes(workers[m])
    <3>1. NewIsRight(sockets, muxes, workers, closes, m, i, workers[m].ls) /\ workers[m].ls \in Ids
      BY <2>1, <2>5 DEF WorkerIsRight, ListensFor
    <3> QED BY <1>2, <3>1, IdsAre DEF NewIsRight
  <2> QED BY <2>2, <2>3, <2>4, <2>5 DEF Replaces, Makes
<1> QED BY <1>1, <1>3, <1>4

\* The first half of close.
LEMMA CloseKeeps == ASSUME SocketsInv, NEW i \in Ids, Close(i) PROVE SocketsInv'
<1>2. PICK o \in SocketSet : o = sockets[i] /\ Sane(o, i \in closes)
  BY SocketFacts
<1>3. /\ Held(i) /\ o.status # "listening" /\ closes' = closes \union {i}
      /\ \/ sockets' = [sockets EXCEPT ![i] = Shut(@)]
         \/ /\ o.connected /\ ~o.broken /\ sockets' = [sockets EXCEPT ![i].linger = "yes"]
      /\ UNCHANGED <<muxes, seed, workers, accepts, gc>>
  BY <1>2 DEF Close
<1>4. o.place = "listed" /\ i \notin closes /\ \A l \in Ids : i \notin sockets[l].queue /\ o.status # "closed"
  BY <1>2, <1>3, HeldIs
<1>5. PICK s \in SocketSet :
        /\ sockets' = [sockets EXCEPT ![i] = s]
        /\ s.broken = o.broken /\ s.place = o.place /\ s.status = o.status /\ s.mux = o.mux /\ s.listener = o.listener /\ s.old = o.old
        /\ s.peer = o.peer /\ s.queue = o.queue /\ s.accepted = o.accepted /\ Sane(s, TRUE)
  <2>1. CASE sockets' = [sockets EXCEPT ![i] = Shut(@)]
    <3>1. PICK s : s = Shut(o)
      OBVIOUS
    <3>2. sockets' = [sockets EXCEPT ![i] = s]
      BY <1>2, <2>1, <3>1, SocketFacts
    <3>3. CASE o.opened
      <4>0. PICK h \in BOOLEAN : h = (o.onHeap /\ ~o.connected)
        BY Zenon
      <4>1. s = [o EXCEPT !.closing = TRUE, !.connected = FALSE, !.opened = FALSE, !.onHeap = h]
        BY <3>1, <3>3, <4>0, Zenon DEF Shut
      <4>2. s \in SocketSet
        BY <4>1 DEF SocketSet
      <4>3. /\ s.broken = o.broken /\ s.place = o.place /\ s.status = o.status /\ s.mux = o.mux /\ s.listener = o.listener
            /\ s.old = o.old /\ s.peer = o.peer /\ s.queue = o.queue /\ s.accepted = o.accepted
            /\ s.closing /\ ~s.connected /\ ~s.opened /\ s.linger = o.linger /\ s.onList = o.onList
            /\ s.onHeap = h
        BY <4>1, <4>2 DEF SocketSet
      <4>4. Sane(s, TRUE)
        BY <1>2, <1>3, <1>4, <4>0, <4>3 DEF Sane
      <4> QED BY <3>2, <4>2, <4>3, <4>4
    <3>4. CASE ~o.opened
      <4>1. s = o
        BY <3>1, <3>4 DEF Shut
      <4> QED BY <1>2, <1>3, <1>4, <3>2, <3>4, <4>1 DEF Sane
    <3> QED BY <3>3, <3>4
  <2>2. CASE o.connected /\ ~o.broken /\ sockets' = [sockets EXCEPT ![i].linger = "yes"]
    <3>1. PICK s : s = [o EXCEPT !.linger = "yes"]
      OBVIOUS
    <3>2. s \in SocketSet /\ sockets' = [sockets EXCEPT ![i] = s]
      BY <1>2, <2>2, <3>1, SocketFacts DEF SocketSet
    <3>3. /\ s.broken = o.broken /\ s.place = o.place /\ s.status = o.status /\ s.mux = o.mux /\ s.listener = o.listener
          /\ s.old = o.old /\ s.peer = o.peer /\ s.queue = o.queue /\ s.accepted = o.accepted
          /\ s.closing = o.closing /\ s.connected = o.connected /\ s.opened = o.opened /\ s.linger = "yes" /\ s.onList = o.onList
          /\ s.onHeap = o.onHeap
      BY <3>1, <3>2 DEF SocketSet
    <3>4. Sane(s, TRUE)
      BY <1>2, <1>3, <1>4, <2>2, <3>3 DEF Sane
    <3> QED BY <3>2, <3>3, <3>4
  <2> QED BY <1>3, <2>1, <2>2
<1>6. \A m \in Ids : workers[m].at # "idle" => /\ workers[m].ns = i /\ Makes(workers[m]) => ~s.broken /\ i \notin closes'
                                               /\ i \in {workers[m].ls, workers[m].ns} /\ s.old => o.old
  BY <1>2, <1>3, <1>5, HeldIs
<1>7. /\ closes' \in SUBSET Ids /\ closes \subseteq closes' /\ (i \in closes' <=> TRUE)
      /\ \A j \in closes' : j \in closes \/ (j = i /\ \A l \in Ids : i \notin sockets[l].queue)
  BY <1>3, <1>4, SocketFacts
<1>8. Sane(s, i \in closes')
  BY <1>5, <1>7 DEF Sane
<1>9. FlagsIs(sockets, workers, closes, i, s, closes')
  BY <1>2, <1>5, <1>6, <1>7, <1>8 DEF FlagsIs
<1> QED BY <1>3, <1>5, <1>9, FlagsKeepInv

\* The second half of close, after which the socket waits for its removal.
LEMMA CloseReturnsKeeps == ASSUME SocketsInv, NEW i \in Ids, CloseReturns(i) PROVE SocketsInv'
<1>1. Good(sockets, muxes, seed, workers, accepts, closes, gc)
  BY DEF SocketsInv
<1>2. TypesAreRight(sockets, muxes, seed, workers, accepts, closes, gc)
  BY <1>1 DEF Good
<1>3. PICK c2 \in SUBSET Ids : c2 = closes \ {i}
  BY <1>2 DEF TypesAreRight
<1>4. /\ i \in closes /\ closes' = c2 /\ UNCHANGED <<muxes, seed, workers, accepts, gc>>
      /\ sockets' = IF Located(i) THEN [sockets EXCEPT ![i].status = "closed", ![i].place = "closed", ![i].old = FALSE]
                    ELSE sockets
  BY <1>3 DEF CloseReturns
<1>5. PICK o \in SocketSet : o = sockets[i] /\ Sane(o, TRUE)
  <2>1. Sane(sockets[i], i \in closes)
    BY SocketFacts
  <2>2. Sane(sockets[i], TRUE)
    BY <1>4, <2>1 DEF Sane
  <2> QED BY <2>2, SocketFacts
<1>6. PICK s \in SocketSet :
        /\ sockets' = [sockets EXCEPT ![i] = s] /\ Sane(s, FALSE)
        /\ s.mux = o.mux /\ s.listener = o.listener /\ s.peer = o.peer /\ s.queue = o.queue /\ s.accepted = o.accepted
        /\ s.broken = o.broken /\ s.status \in {"closed", o.status}
        /\ (s.place = o.place /\ s.old = o.old) \/ (s.place = "closed" /\ ~s.old /\ o.place = "listed")
        /\ s.place = "listed" => s.status = "closed" /\ o.place = "listed"
        /\ s.place = "closed" => s.status = "closed"
        /\ gc # "running" => s.place = o.place
  <2>1. CASE Located(i)
    <3>1. PICK s : s = [o EXCEPT !.status = "closed", !.place = "closed", !.old = FALSE]
      OBVIOUS
    <3>2. sockets' = [sockets EXCEPT ![i] = s] /\ s \in SocketSet
      BY <1>2, <1>4, <1>5, <2>1, <3>1, ZenonT(60) DEF SocketSet, TypesAreRight
    <3>3. /\ s.mux = o.mux /\ s.listener = o.listener /\ s.peer = o.peer /\ s.queue = o.queue /\ s.accepted = o.accepted
          /\ s.broken = o.broken /\ s.status = "closed" /\ s.place = "closed" /\ ~s.old /\ s.linger = o.linger
          /\ s.opened = o.opened /\ s.closing = o.closing /\ s.connected = o.connected /\ s.onList = o.onList
          /\ s.onHeap = o.onHeap
      BY <3>1, <3>2 DEF SocketSet
    <3>4. o.place = "listed" /\ gc = "running"
      BY <1>1, <1>5, <2>1 DEF Located, Listed, Good, EndIsRight
    <3>5. Sane(s, FALSE)
      BY <1>5, <3>3, <3>4 DEF Sane
    <3> QED BY <3>2, <3>3, <3>4, <3>5
  <2>2. CASE ~Located(i)
    <3>1. sockets' = [sockets EXCEPT ![i] = o]
      BY <1>2, <1>4, <1>5, <2>2 DEF TypesAreRight
    <3>2. o.place = "listed" => o.status = "closed"
      BY <1>5, <2>2 DEF Located, Listed
    <3>3. Sane(o, FALSE) /\ (o.place = "closed" => o.status = "closed")
      BY <1>5, <3>2 DEF Sane
    <3> QED BY <3>1, <3>2, <3>3
  <2> QED BY <2>1, <2>2
<1>7. PICK st \in [Ids -> SocketSet] : st = sockets' /\ \A j \in Ids : st[j] = IF j = i THEN s ELSE sockets[j]
  BY <1>2, <1>6 DEF TypesAreRight
<1>8. AllSane(st, c2)
  <2> SUFFICES ASSUME NEW j \in Ids PROVE Sane(st[j], j \in c2)
    BY DEF AllSane
  <2>1. CASE j = i
    <3>1. (j \in c2) = FALSE
      BY <1>3, <2>1
    <3> QED BY <1>6, <1>7, <2>1, <3>1
  <2>2. CASE j # i
    <3>1. (j \in c2) = (j \in closes)
      BY <1>3, <2>2
    <3> QED BY <1>1, <1>7, <2>2, <3>1 DEF Good, AllSane
  <2> QED BY <2>1, <2>2
<1>9. Fades(sockets, st)
  <2>1. \A j \in Ids : j # i => st[j] = sockets[j]
    BY <1>7
  <2>2. /\ st[i].mux = sockets[i].mux /\ st[i].listener = sockets[i].listener /\ st[i].peer = sockets[i].peer
        /\ st[i].queue = sockets[i].queue /\ st[i].accepted = sockets[i].accepted /\ st[i].broken = sockets[i].broken
        /\ st[i].place = sockets[i].place \/ (sockets[i].place = "listed" /\ st[i].place = "closed")
        /\ st[i].status = sockets[i].status \/ st[i].status = "closed"
    BY <1>5, <1>6, <1>7
  <2> QED BY <2>1, <2>2 DEF Fades
<1>10. FadesInOrder(sockets, st)
  <2>1. \A l \in Ids : i \notin sockets[l].queue
    BY <1>1, <1>4 DEF Good, QueuesAreRight
  <2>2. \A l \in Ids : st[l].queue = sockets[l].queue /\ st[l].accepted = sockets[l].accepted /\ sockets[l].queue \in SUBSET Ids
    BY <1>2, <1>5, <1>6, <1>7 DEF TypesAreRight, SocketSet
  <2>3. \A l \in Ids : \A q \in sockets[l].queue : sockets[q].place = "listed"
    BY <1>1 DEF Good, QueuesAreRight
  <2> QED BY <1>7, <2>1, <2>2, <2>3 DEF FadesInOrder
<1>11. FadesBesideWorkers(sockets, st, workers, c2)
  <2> SUFFICES ASSUME NEW m \in Ids, workers[m].at # "idle", NEW n, NEW l, n = workers[m].ns, l = workers[m].ls
               PROVE  /\ Makes(workers[m]) => st[n].place = sockets[n].place /\ ~st[n].broken /\ n \notin c2
                      /\ Replaces(workers[m]) => (st[n].place = "closed" => ~st[n].old)
                      /\ st[l].place = "closed" => ~st[l].old
    BY DEF FadesBesideWorkers
  <2>1. WorkerIsRight(sockets, muxes, workers, closes, m, n, l)
    BY WorkerFacts
  <2>2. \A j \in Ids : (sockets[j].place = "closed" => ~sockets[j].old) => (st[j].place = "closed" => ~st[j].old)
    BY <1>5, <1>6, <1>7
  <2>3. Makes(workers[m]) => st[n].place = sockets[n].place /\ ~st[n].broken /\ n \notin c2
    BY <1>3, <1>4, <1>7, MakerFacts
  <2>4. Replaces(workers[m]) => (st[n].place = "closed" => ~st[n].old)
    BY <2>1, <2>2 DEF WorkerIsRight, GoneIsRight
  <2>5. st[l].place = "closed" => ~st[l].old
    BY <2>1, <2>2 DEF WorkerIsRight, ListensFor
  <2> QED BY <2>3, <2>4, <2>5
<1>12. SleepersAreRight(st, workers, accepts, gc)
  <2>1. SleepersAreRight(sockets, workers, accepts, gc)
    BY <1>1 DEF Good
  <2>2. \A l \in Ids : WaitingIn(accepts, l) # {} /\ gc = "running" => l # i
    BY <1>5, <2>1 DEF SleepersAreRight, Sane
  <2> QED BY <1>2, <1>7, <2>1, <2>2, SleepersStay DEF TypesAreRight
<1>13. EndIsRight(st, workers, gc)
  <2>1. EndIsRight(sockets, workers, gc)
    BY <1>1 DEF Good
  <2>2. gc # "running" => \A j \in Ids : st[j].place = sockets[j].place
    BY <1>5, <1>6, <1>7
  <2> QED BY <2>1, <2>2 DEF EndIsRight
<1>14. FadeIs(sockets, workers, closes, st, accepts, c2, gc)
  <2>1. accepts \in [Acceptors -> AcceptSet] /\ gc \in {"running", "clearing", "ended"} /\ \A j \in c2 : j \in closes
    BY <1>2, <1>3 DEF TypesAreRight
  <2> QED BY <1>7, <1>8, <1>9, <1>10, <1>11, <1>12, <1>13, <2>1 DEF FadeIs
<1>15. Good(st, muxes, seed, workers, accepts, c2, gc)
  BY <1>1, <1>14, FadeKeeps, Zenon
<1> QED BY <1>4, <1>7, <1>15 DEF SocketsInv

\* Only a call of accept moves, or the collector.
LEMMA CallsKeep ==
  ASSUME SocketsInv, NEW a2 \in [Acceptors -> AcceptSet], NEW g2 \in {"running", "clearing", "ended"},
         SleepersAreRight(sockets, workers, a2, g2), EndIsRight(sockets, workers, g2)
  PROVE  Good(sockets, muxes, seed, workers, a2, closes, g2)
<1>1. Good(sockets, muxes, seed, workers, accepts, closes, gc)
  BY DEF SocketsInv
<1>2. TypesAreRight(sockets, muxes, seed, workers, accepts, closes, gc)
  BY <1>1 DEF Good
<1>3. Good(sockets, muxes, seed, workers, a2, closes, g2)
  BY <1>1, <1>2 DEF Good, TypesAreRight
<1> QED BY <1>3

\* Everything is gone, and the collector ends.
LEMMA ClearingEndsKeeps == ASSUME SocketsInv, ClearingEnds PROVE SocketsInv'
<1>1. Good(sockets, muxes, seed, workers, accepts, closes, gc)
  BY DEF SocketsInv
<1>2. /\ gc = "clearing" /\ gc' = "ended" /\ UNCHANGED <<sockets, muxes, seed, workers, accepts, closes>>
      /\ \A i \in Ids : sockets[i].place # "closed"
  BY DEF ClearingEnds
<1>3. SleepersAreRight(sockets, workers, accepts, "ended") /\ EndIsRight(sockets, workers, "ended")
  BY <1>1, <1>2 DEF Good, SleepersAreRight, EndIsRight
<1>4. accepts \in [Acceptors -> AcceptSet]
  BY <1>1 DEF Good, TypesAreRight
<1>5. Good(sockets, muxes, seed, workers, accepts, closes, "ended")
  BY <1>3, <1>4, CallsKeep
<1> QED BY <1>2, <1>5 DEF SocketsInv

\* accept returns what it has taken.
LEMMA AcceptReturnsKeeps == ASSUME SocketsInv, NEW t \in Acceptors, AcceptReturns(t) PROVE SocketsInv'
<1>1. Good(sockets, muxes, seed, workers, accepts, closes, gc)
  BY DEF SocketsInv
<1>2. accepts \in [Acceptors -> AcceptSet] /\ SleepersAreRight(sockets, workers, accepts, gc) /\ EndIsRight(sockets, workers, gc)
      /\ gc \in {"running", "clearing", "ended"}
  BY <1>1 DEF Good, TypesAreRight
<1>3. PICK x \in AcceptSet : x.at \in {"idle", "crashed"} /\ accepts' = [accepts EXCEPT ![t] = x]
  <2>1. accepts[t] \in AcceptSet /\ IdleAccept \in AcceptSet
    BY <1>2 DEF IdleAccept, AcceptSet, IdsOrNone
  <2>2. [accepts[t] EXCEPT !.at = "crashed"] \in AcceptSet /\ [accepts[t] EXCEPT !.at = "crashed"].at = "crashed"
    BY <2>1 DEF AcceptSet
  <2>3. accepts' = [accepts EXCEPT ![t] = IdleAccept] \/ accepts' = [accepts EXCEPT ![t] = [accepts[t] EXCEPT !.at = "crashed"]]
    BY <1>2 DEF AcceptReturns
  <2>4. IdleAccept.at = "idle"
    BY DEF IdleAccept
  <2> QED BY <2>1, <2>2, <2>3, <2>4
<1>4. PICK a2 \in [Acceptors -> AcceptSet] : a2 = accepts' /\ \A u \in Acceptors : a2[u] = IF u = t THEN x ELSE accepts[u]
  BY <1>2, <1>3
<1>5. accepts[t].at = "popped"
  BY DEF AcceptReturns
<1>6. \A l : WaitingIn(a2, l) = WaitingIn(accepts, l) /\ WokenIn(a2, l) = WokenIn(accepts, l)
  BY <1>3, <1>4, <1>5 DEF WaitingIn, WokenIn
<1>7. SleepersAreRight(sockets, workers, a2, gc)
  <2>1. \A l : Roused(workers, a2, l) = Roused(workers, accepts, l)
    BY <1>6 DEF Roused
  <2> QED BY <1>2, <1>3, <1>4, <1>6, <2>1 DEF SleepersAreRight
<1>8. Good(sockets, muxes, seed, workers, a2, closes, gc)
  BY <1>2, <1>7, CallsKeep
<1> QED BY <1>4, <1>8 DEF SocketsInv, AcceptReturns

\* close of a listener wakes all who wait for it.
LEMMA CloseListenerKeeps == ASSUME SocketsInv, NEW i \in Ids, CloseListener(i) PROVE SocketsInv'
<1>1. Good(sockets, muxes, seed, workers, accepts, closes, gc)
  BY DEF SocketsInv
<1>2. TypesAreRight(sockets, muxes, seed, workers, accepts, closes, gc)
  BY <1>1 DEF Good
<1>3. PICK o \in SocketSet : o = sockets[i] /\ Sane(o, i \in closes)
  BY SocketFacts
<1>4. /\ Held(i) /\ o.status = "listening" /\ ~o.broken /\ o.place = "listed"
      /\ sockets' = [sockets EXCEPT ![i].broken = TRUE, ![i].old = FALSE]
      /\ UNCHANGED <<muxes, seed, workers, closes, gc>>
      /\ accepts' = [t \in Acceptors |-> IF t \in Waiting(i) THEN [accepts[t] EXCEPT !.at = "woken"] ELSE accepts[t]]
  BY <1>3 DEF CloseListener, Sane
<1>5. PICK s \in SocketSet :
        /\ sockets' = [sockets EXCEPT ![i] = s] /\ Sane(s, i \in closes)
        /\ s.mux = o.mux /\ s.listener = o.listener /\ s.peer = o.peer /\ s.queue = o.queue /\ s.accepted = o.accepted
        /\ s.broken /\ s.status = o.status /\ s.place = o.place /\ ~s.old
  <2>1. PICK s : s = [o EXCEPT !.broken = TRUE, !.old = FALSE]
    OBVIOUS
  <2>2. sockets' = [sockets EXCEPT ![i] = s] /\ s \in SocketSet
    BY <1>2, <1>3, <1>4, <2>1 DEF SocketSet, TypesAreRight
  <2>3. /\ s.mux = o.mux /\ s.listener = o.listener /\ s.peer = o.peer /\ s.queue = o.queue /\ s.accepted = o.accepted
        /\ s.broken /\ s.status = o.status /\ s.place = o.place /\ ~s.old /\ s.linger = o.linger
        /\ s.opened = o.opened /\ s.closing = o.closing /\ s.connected = o.connected /\ s.onList = o.onList
        /\ s.onHeap = o.onHeap
    BY <2>1, <2>2 DEF SocketSet
  <2>4. Sane(s, i \in closes)
    BY <1>3, <1>4, <2>3 DEF Sane
  <2> QED BY <2>2, <2>3, <2>4
<1>6. PICK st \in [Ids -> SocketSet] : st = sockets' /\ \A j \in Ids : st[j] = IF j = i THEN s ELSE sockets[j]
  BY <1>2, <1>5 DEF TypesAreRight
<1>7. PICK a2 \in [Acceptors -> AcceptSet] : /\ a2 = accepts'
        /\ \A t \in Acceptors : /\ a2[t].ls = accepts[t].ls
                                /\ a2[t].at = IF accepts[t].at = "waiting" /\ accepts[t].ls = i THEN "woken" ELSE accepts[t].at
  <2>1. \A t \in Acceptors : accepts[t] \in AcceptSet
    BY <1>2 DEF TypesAreRight
  <2>2. \A t \in Acceptors : /\ [accepts[t] EXCEPT !.at = "woken"] \in AcceptSet
                             /\ [accepts[t] EXCEPT !.at = "woken"].at = "woken" /\ [accepts[t] EXCEPT !.at = "woken"].ls = accepts[t].ls
    BY <2>1 DEF AcceptSet
  <2>3. accepts' \in [Acceptors -> AcceptSet]
    BY <1>4, <2>1, <2>2
  <2>4. \A t \in Acceptors : t \in Waiting(i) <=> accepts[t].at = "waiting" /\ accepts[t].ls = i
    BY DEF Waiting
  <2>5. \A t \in Acceptors : accepts'[t] = IF t \in Waiting(i) THEN [accepts[t] EXCEPT !.at = "woken"] ELSE accepts[t]
    BY <1>4
  <2>6. ASSUME NEW t \in Acceptors
        PROVE  /\ accepts'[t].ls = accepts[t].ls
               /\ accepts'[t].at = IF accepts[t].at = "waiting" /\ accepts[t].ls = i THEN "woken" ELSE accepts[t].at
    <3>1. CASE t \in Waiting(i)
      BY <2>2, <2>4, <2>5, <3>1
    <3>2. CASE t \notin Waiting(i)
      BY <2>4, <2>5, <3>2
    <3> QED BY <3>1, <3>2
  <2> QED BY <2>3, <2>6
<1>8. AllSane(st, closes)
  BY <1>1, <1>5, <1>6 DEF Good, AllSane
<1>9. Fades(sockets, st)
  BY <1>3, <1>4, <1>5, <1>6 DEF Fades
<1>10. FadesInOrder(sockets, st)
  <2>1. \A l \in Ids : st[l].queue = sockets[l].queue /\ st[l].accepted = sockets[l].accepted /\ sockets[l].queue \in SUBSET Ids
                       /\ st[l].place = sockets[l].place
    BY <1>2, <1>3, <1>5, <1>6 DEF TypesAreRight, SocketSet
  <2>2. \A l \in Ids : \A q \in sockets[l].queue : sockets[q].place = "listed"
    BY <1>1 DEF Good, QueuesAreRight
  <2> QED BY <2>1, <2>2 DEF FadesInOrder
<1>11. FadesBesideWorkers(sockets, st, workers, closes)
  <2> SUFFICES ASSUME NEW m \in Ids, workers[m].at # "idle", NEW n, NEW l, n = workers[m].ns, l = workers[m].ls
               PROVE  /\ Makes(workers[m]) => st[n].place = sockets[n].place /\ ~st[n].broken /\ n \notin closes
                      /\ Replaces(workers[m]) => (st[n].place = "closed" => ~st[n].old)
                      /\ st[l].place = "closed" => ~st[l].old
    BY DEF FadesBesideWorkers
  <2>1. WorkerIsRight(sockets, muxes, workers, closes, m, n, l)
    BY WorkerFacts
  <2>2. \A j \in Ids : (sockets[j].place = "closed" => ~sockets[j].old) => (st[j].place = "closed" => ~st[j].old)
    BY <1>5, <1>6
  <2>3. Makes(workers[m]) => st[n].place = sockets[n].place /\ ~st[n].broken /\ n \notin closes
    BY <1>4, <1>6, MakerFacts, HeldIs
  <2>4. Replaces(workers[m]) => (st[n].place = "closed" => ~st[n].old)
    BY <2>1, <2>2 DEF WorkerIsRight, GoneIsRight
  <2>5. st[l].place = "closed" => ~st[l].old
    BY <2>1, <2>2 DEF WorkerIsRight, ListensFor
  <2> QED BY <2>3, <2>4, <2>5
<1>12. SleepersAreRight(st, workers, a2, gc)
  <2>1. SleepersAreRight(sockets, workers, accepts, gc)
    BY <1>1 DEF Good
  <2>2. \A t \in Acceptors : a2[t].at \in {"waiting", "woken"} => a2[t].ls \in Ids
    BY <1>7, <2>1 DEF SleepersAreRight
  <2>3. \A l \in Ids : WaitingIn(a2, l) # {} => l # i
    BY <1>7 DEF WaitingIn
  <2>4. \A l \in Ids : l # i => WaitingIn(a2, l) = WaitingIn(accepts, l) /\ WokenIn(a2, l) = WokenIn(accepts, l) /\ st[l] = sockets[l]
    BY <1>6, <1>7 DEF WaitingIn, WokenIn
  <2>5. \A l \in Ids : l # i => Roused(workers, a2, l) = Roused(workers, accepts, l)
    BY <2>4 DEF Roused
  <2> QED BY <2>1, <2>2, <2>3, <2>4, <2>5 DEF SleepersAreRight
<1>13. EndIsRight(st, workers, gc)
  <2>2. \A j \in Ids : st[j].place = sockets[j].place
    BY <1>3, <1>5, <1>6
  <2> QED BY <1>1, <2>2 DEF EndIsRight, Good
<1>14. FadeIs(sockets, workers, closes, st, a2, closes, gc)
  <2>1. gc \in {"running", "clearing", "ended"} /\ closes \in SUBSET Ids
    BY <1>2 DEF TypesAreRight
  <2> QED BY <1>6, <1>7, <1>8, <1>9, <1>10, <1>11, <1>12, <1>13, <2>1 DEF FadeIs
<1>15. Good(st, muxes, seed, workers, a2, closes, gc)
  BY <1>1, <1>14, FadeKeeps, Zenon
<1> QED BY <1>4, <1>6, <1>7, <1>15 DEF SocketsInv

\* A socket that the application holds and opened becomes something else.
LEMMA OpenedKeeps ==
  ASSUME SocketsInv, NEW i \in Ids, Held(i), NEW o \in SocketSet, o = sockets[i], o.status \in {"init", "opened"},
         NEW s \in SocketSet,
         s.status = o.status \/ (o.status = "opened" /\ s.status \in {"connected", "listening"}), Sane(s, FALSE),
         s.place = o.place, s.mux = o.mux, s.listener = o.listener, s.peer = o.peer, s.queue = o.queue,
         s.accepted = o.accepted, s.broken = o.broken, s.old = o.old,
         NEW st, st = [sockets EXCEPT ![i] = s]
  PROVE  Good(st, muxes, seed, workers, accepts, closes, gc)
<1>1. Good(sockets, muxes, seed, workers, accepts, closes, gc)
  BY DEF SocketsInv
<1>2. closes \in SUBSET Ids /\ i \notin closes /\ \A m \in Ids : workers[m].at # "idle" => workers[m].ns # i
  BY HeldIs, SocketFacts
<1>3. Sane(s, i \in closes)
  BY <1>2 DEF Sane
<1>4. \A m \in Ids : workers[m].at # "idle" => /\ workers[m].ns = i /\ Makes(workers[m]) => ~s.broken /\ i \notin closes
                                               /\ i \in {workers[m].ls, workers[m].ns} /\ s.old => sockets[i].old
  BY <1>2
<1>5. \A j \in closes : j \in closes \/ (j = i /\ \A l \in Ids : i \notin sockets[l].queue)
  OBVIOUS
<1>6. FlagsIs(sockets, workers, closes, i, s, closes)
  BY <1>2, <1>3, <1>4, <1>5 DEF FlagsIs
<1> QED BY <1>1, <1>6, FlagsKeep, Zenon

\* The listeners of multiplexers change.
LEMMA ListenersKeep ==
  ASSUME NEW ss, NEW mx, NEW sd, NEW wk, NEW ac, NEW cl, NEW g, Good(ss, mx, sd, wk, ac, cl, g),
         NEW m2 \in [Ids -> MuxSet],
         \A m \in Ids : /\ m2[m].ref = mx[m].ref /\ m2[m].port = mx[m].port
                        /\ m2[m].listener # 0 => m2[m].listener \in Users(ss, m)
  PROVE  Good(ss, m2, sd, wk, ac, cl, g)
<1>1. TypesAreRight(ss, m2, sd, wk, ac, cl, g)
  BY DEF Good, TypesAreRight
<1>2. PortsDiffer(m2)
  BY DEF Good, PortsDiffer
<1>3. WorkersAreRight(ss, m2, wk, cl)
  <2> SUFFICES ASSUME NEW m \in Ids, wk[m].at # "idle", WorkerIsRight(ss, mx, wk, cl, m, wk[m].ns, wk[m].ls)
               PROVE  WorkerIsRight(ss, m2, wk, cl, m, wk[m].ns, wk[m].ls)
    BY DEF Good, WorkersAreRight
  <2>1. ASSUME NEW p \in Peers, MakesFor(ss, mx, p, m, wk[m].ns) PROVE MakesFor(ss, m2, p, m, wk[m].ns)
    BY <2>1 DEF MakesFor
  <2>2. ASSUME NEW p \in Peers, HasNone(ss, mx, p, m, wk[m].ns) PROVE HasNone(ss, m2, p, m, wk[m].ns)
    BY <2>2 DEF HasNone
  <2> QED BY <2>1, <2>2 DEF WorkerIsRight, NewIsRight, GoneIsRight
<1>4. MuxesAreRight(ss, m2)
  BY DEF Good, MuxesAreRight
<1> QED BY <1>1, <1>2, <1>3, <1>4 DEF Good

\* A socket becomes the listener of its multiplexer.
LEMMA ListenKeeps == ASSUME SocketsInv, NEW i \in Ids, Listen(i) PROVE SocketsInv'
<1>1. Good(sockets, muxes, seed, workers, accepts, closes, gc)
  BY DEF SocketsInv
<1>2. PICK o \in SocketSet : o = sockets[i] /\ Sane(o, i \in closes)
  BY SocketFacts
<1>3. TypesAreRight(sockets, muxes, seed, workers, accepts, closes, gc)
  BY <1>1 DEF Good
<1>4. /\ Held(i) /\ o.status = "opened" /\ sockets' = [sockets EXCEPT ![i].status = "listening"]
      /\ muxes' = [muxes EXCEPT ![o.mux].listener = i] /\ UNCHANGED <<seed, workers, accepts, closes, gc>>
  BY <1>2 DEF Listen, callVars
<1>5. o.place = "listed" /\ i \notin closes
  BY <1>2, <1>4, HeldIs
<1>6. PICK s \in SocketSet : /\ sockets' = [sockets EXCEPT ![i] = s] /\ s.status = "listening" /\ Sane(s, FALSE)
                             /\ s.place = o.place /\ s.mux = o.mux /\ s.listener = o.listener /\ s.peer = o.peer /\ s.queue = o.queue
                             /\ s.accepted = o.accepted /\ s.broken = o.broken /\ s.old = o.old
  <2>1. PICK s : s = [o EXCEPT !.status = "listening"]
    OBVIOUS
  <2>2. s \in SocketSet /\ sockets' = [sockets EXCEPT ![i] = s]
    BY <1>2, <1>3, <1>4, <2>1 DEF SocketSet, TypesAreRight
  <2>3. /\ s.mux = o.mux /\ s.listener = o.listener /\ s.peer = o.peer /\ s.queue = o.queue /\ s.accepted = o.accepted
        /\ s.broken = o.broken /\ s.status = "listening" /\ s.place = o.place /\ s.old = o.old /\ s.linger = o.linger
        /\ s.opened = o.opened /\ s.closing = o.closing /\ s.connected = o.connected /\ s.onList = o.onList /\ s.onHeap = o.onHeap
    BY <2>1, <2>2 DEF SocketSet
  <2>4. Sane(s, FALSE)
    BY <1>2, <1>4, <1>5, <2>3 DEF Sane
  <2> QED BY <2>2, <2>3, <2>4
<1>7. PICK st : st = sockets'
  OBVIOUS
<1>8. Good(st, muxes, seed, workers, accepts, closes, gc)
  <2>1. st = [sockets EXCEPT ![i] = s] /\ o.status \in {"init", "opened"} /\ (s.status = o.status \/ (o.status = "opened" /\ s.status \in {"connected", "listening"}))
    BY <1>4, <1>6, <1>7
  <2> QED BY <1>2, <1>4, <1>6, <2>1, OpenedKeeps
<1>9. PICK m2 \in [Ids -> MuxSet] : /\ m2 = muxes'
                                    /\ \A m \in Ids : /\ m2[m].ref = muxes[m].ref /\ m2[m].port = muxes[m].port
                                                      /\ m2[m].listener # 0 => m2[m].listener \in Users(st, m)
  <2>1. o.mux \in Ids /\ muxes \in [Ids -> MuxSet] /\ i \in IdsOrNone
    BY <1>2, <1>3, <1>4 DEF Sane, SocketSet, IdsOrNone, TypesAreRight
  <2>2. PICK r \in MuxSet : /\ r.ref = muxes[o.mux].ref /\ r.port = muxes[o.mux].port /\ r.listener = i
                            /\ muxes' = [muxes EXCEPT ![o.mux] = r]
    <3>1. [muxes[o.mux] EXCEPT !.listener = i] \in MuxSet
      BY <2>1 DEF MuxSet
    <3>2. /\ [muxes[o.mux] EXCEPT !.listener = i].ref = muxes[o.mux].ref /\ [muxes[o.mux] EXCEPT !.listener = i].port = muxes[o.mux].port
          /\ [muxes[o.mux] EXCEPT !.listener = i].listener = i
      BY <2>1 DEF MuxSet
    <3> QED BY <1>4, <2>1, <3>1, <3>2
  <2>3. muxes' \in [Ids -> MuxSet] /\ \A m \in Ids : muxes'[m] = IF m = o.mux THEN r ELSE muxes[m]
    BY <2>1, <2>2
  <2>4. i \in Users(st, o.mux)
    BY <1>3, <1>5, <1>6, <1>7 DEF Users, AliveIn, TypesAreRight
  <2>5. \A m \in Ids : muxes[m].listener # 0 => muxes[m].listener \in Users(st, m)
    BY <1>8 DEF Good, MuxesAreRight
  <2> QED BY <2>2, <2>3, <2>4, <2>5
<1>10. Good(st, m2, seed, workers, accepts, closes, gc)
  BY <1>8, <1>9, ListenersKeep
<1> QED BY <1>4, <1>7, <1>9, <1>10 DEF SocketsInv

\* A multiplexer gets one more socket, or its first.
Joins(ss, mx, st, m2, i, m) ==
  /\ ss[i].mux = 0 /\ st[i].mux = m
  /\ ss[i].place = "made" \/ (ss[i].place = "listed" /\ ss[i].status = "init")
  /\ st[i].place = "listed" /\ st[i].status # "init"
  /\ \A j \in Ids : j # i => st[j] = ss[j]
  /\ \A k \in Ids : k # m => m2[k] = mx[k]
  /\ m2[m].ref = mx[m].ref + 1 /\ m2[m].listener = mx[m].listener
  /\ m = i \/ mx[m].ref > 0

\* The count goes up with the users.
LEMMA MuxGrows ==
  ASSUME NEW ss, NEW mx, NEW sd, NEW wk, NEW ac, NEW cl, NEW g, Good(ss, mx, sd, wk, ac, cl, g),
         NEW st, NEW m2, NEW i \in Ids, NEW m \in Ids, Joins(ss, mx, st, m2, i, m)
  PROVE  MuxesAreRight(st, m2)
<1>1. MuxesAreRight(ss, mx)
  BY DEF Good
<1>a. \A k \in Ids : k # 0
  BY IdsAre
<1>b. \A k \in Ids : \A j \in Ids : j \in Users(st, k) <=> (j \in Users(ss, k) \/ (j = i /\ k = m))
  BY <1>a DEF Users, AliveIn, Joins
<1>c. \A k \in Ids : Users(st, k) \in SUBSET Ids /\ Users(ss, k) \in SUBSET Ids
  BY UsersAre
<1>2. \A k \in Ids : k # m => Users(st, k) = Users(ss, k)
  BY <1>b, <1>c
<1>3. Users(st, m) = Users(ss, m) \union {i} /\ i \notin Users(ss, m)
  <2>1. i \notin Users(ss, m)
    BY <1>a DEF Users, Joins
  <2> QED BY <1>b, <1>c, <2>1
<1>4. Cardinality(Users(st, m)) = Cardinality(Users(ss, m)) + 1
  BY <1>3, UsersAre, FS_AddElement
<1>5. \A k \in Ids : m2[k].ref = Cardinality(Users(st, k))
  BY <1>1, <1>2, <1>4 DEF MuxesAreRight, Joins
<1>6. \A k \in Ids : m2[k].listener # 0 => m2[k].listener \in Users(st, k)
  BY <1>1, <1>2, <1>3 DEF MuxesAreRight, Joins
<1>7. ASSUME NEW k \in Ids, st[k].place \in {"none", "made"} \/ (st[k].place = "listed" /\ st[k].status = "init")
      PROVE  m2[k].ref = 0
  <2>1. k # i
    BY <1>7 DEF Joins
  <2>2. mx[k].ref = 0
    BY <1>1, <1>7, <2>1 DEF MuxesAreRight, Joins
  <2>3. k # m
    BY <2>1, <2>2 DEF Joins
  <2> QED BY <2>2, <2>3 DEF Joins
<1> QED BY <1>5, <1>6, <1>7 DEF MuxesAreRight

\* What updateMux does for bind and connect.
Attaches(ss, mx, wk, cl, st, m2, i, m) ==
  /\ st \in [Ids -> SocketSet] /\ m2 \in [Ids -> MuxSet] /\ i \notin cl
  /\ Joins(ss, mx, st, m2, i, m) /\ ss[i].place = "listed"
  /\ Sane(st[i], FALSE) /\ st[i].listener = ss[i].listener /\ st[i].peer = ss[i].peer /\ st[i].queue = ss[i].queue
  /\ st[i].accepted = ss[i].accepted /\ st[i].broken = ss[i].broken /\ ss[i].listener = 0
  /\ IF mx[m].ref > 0 THEN m2[m].port = mx[m].port
     ELSE \A k \in Ids : mx[k].ref > 0 => mx[k].port # m2[m].port
  /\ \A k \in Ids : wk[k].at # "idle" => wk[k].ns # i

\* Such a step keeps the invariant.
LEMMA AttachKeeps ==
  ASSUME NEW ss, NEW mx, NEW sd, NEW wk, NEW ac, NEW cl, NEW g, Good(ss, mx, sd, wk, ac, cl, g),
         NEW st, NEW m2, NEW i \in Ids, NEW m \in Ids, Attaches(ss, mx, wk, cl, st, m2, i, m)
  PROVE  Good(st, m2, sd, wk, ac, cl, g)
<1>1. TypesAreRight(ss, mx, sd, wk, ac, cl, g)
  BY DEF Good
<1>2. TypesAreRight(st, m2, sd, wk, ac, cl, g)
  BY <1>1 DEF TypesAreRight, Attaches
<1>3. \A j \in Ids : j # i => st[j] = ss[j]
  BY DEF Attaches, Joins
<1>4. /\ st[i].place = "listed" /\ ss[i].place = "listed" /\ ss[i].mux = 0 /\ st[i].mux = m /\ st[i].listener = 0 /\ ss[i].listener = 0
      /\ st[i].peer = ss[i].peer /\ st[i].queue = ss[i].queue /\ st[i].accepted = ss[i].accepted /\ st[i].broken = ss[i].broken
      /\ ss[i].status = "init"
  BY DEF Attaches, Joins
<1>5. AllSane(st, cl)
  <2> SUFFICES ASSUME NEW j \in Ids PROVE Sane(st[j], j \in cl)
    BY DEF AllSane
  <2>1. CASE j = i
    <3>1. i \notin cl /\ Sane(st[i], FALSE)
      BY DEF Attaches
    <3> QED BY <2>1, <3>1 DEF Sane
  <2>2. CASE j # i
    BY <1>3, <2>2 DEF Good, AllSane
  <2> QED BY <2>1, <2>2
<1>6. SeedIsNext(st, sd)
  BY <1>3, <1>4 DEF Good, SeedIsNext
<1>7. \A k \in Ids : (k = m /\ mx[m].ref = 0 /\ m2[k].ref > 0) \/ (m2[k].port = mx[k].port /\ (m2[k].ref > 0 <=> mx[k].ref > 0))
  <2>1. \A k \in Ids : mx[k].ref \in Nat
    BY <1>1 DEF TypesAreRight, MuxSet
  <2> QED BY <2>1 DEF Attaches, Joins
<1>8. PortsDiffer(m2)
  <2> SUFFICES ASSUME NEW k \in Ids, NEW j \in Ids, m2[k].ref > 0, m2[j].ref > 0, m2[k].port = m2[j].port, k # j
               PROVE  FALSE
    BY DEF PortsDiffer
  <2>1. mx[m].ref > 0 \/ \A c \in Ids : mx[c].ref > 0 => mx[c].port # m2[m].port
    BY DEF Attaches
  <2>2. CASE mx[m].ref > 0
    <3>1. mx[m].ref # 0
      BY <2>2
    <3> QED BY <1>7, <3>1 DEF Good, PortsDiffer
  <2>3. CASE \A c \in Ids : mx[c].ref > 0 => mx[c].port # m2[m].port
    BY <1>7, <2>3 DEF Good, PortsDiffer
  <2> QED BY <2>1, <2>2, <2>3
<1>9. WorkersAreRight(st, m2, wk, cl)
  <2> SUFFICES ASSUME NEW c \in Ids, wk[c].at # "idle", NEW n, NEW l, n = wk[c].ns, l = wk[c].ls,
                      WorkerIsRight(ss, mx, wk, cl, c, n, l)
               PROVE  WorkerIsRight(st, m2, wk, cl, c, n, l)
    BY DEF Good, WorkersAreRight
  <2>1. l \in Ids /\ n # i
    BY DEF WorkerIsRight, ListensFor, Attaches
  <2>2. l # i
    BY <1>4, IdsAre DEF WorkerIsRight, ListensFor
  <2>3. m2[c].port = mx[c].port
    <3>1. l \in Users(ss, c)
      BY <2>1 DEF WorkerIsRight, ListensFor, Users, AliveIn
    <3>2. mx[c].ref # 0
      BY <3>1, UsersAre, FS_EmptySet DEF Good, MuxesAreRight
    <3> QED BY <1>7, <3>2
  <2>4. st[l] = ss[l] /\ (n \in Ids => st[n] = ss[n])
    BY <1>3, <2>1, <2>2
  <2>5. ListensFor(st, c, l)
    BY <2>4 DEF WorkerIsRight, ListensFor
  <2>6. ASSUME Makes(wk[c]) PROVE NewIsRight(st, m2, wk, cl, c, n, l)
    <3>1. NewIsRight(ss, mx, wk, cl, c, n, l) /\ n \in Ids
      BY <2>6 DEF WorkerIsRight, NewIsRight
    <3>2. \A k \in Ids : n \notin st[k].queue /\ n \notin st[k].accepted
      BY <1>3, <1>4, <3>1 DEF NewIsRight
    <3>3. ASSUME NEW p \in Peers, MakesFor(ss, mx, p, c, n) PROVE MakesFor(st, m2, p, c, n)
      BY <1>3, <1>4, <2>3, <2>4, <3>1, <3>3 DEF MakesFor
    <3> QED BY <2>4, <3>1, <3>2, <3>3 DEF NewIsRight
  <2>7. ASSUME Replaces(wk[c]) PROVE GoneIsRight(st, m2, c, n)
    <3>1. GoneIsRight(ss, mx, c, n) /\ n \in Ids
      BY <2>7 DEF WorkerIsRight, GoneIsRight
    <3>2. ASSUME NEW p \in Peers, HasNone(ss, mx, p, c, n) PROVE HasNone(st, m2, p, c, n)
      BY <1>3, <1>4, <2>3, <2>4, <3>1, <3>2 DEF HasNone
    <3> QED BY <2>4, <3>1, <3>2 DEF GoneIsRight
  <2> QED BY <2>5, <2>6, <2>7 DEF WorkerIsRight
<1>10. NewestIsUp(st)
  BY <1>3, <1>4 DEF Good, NewestIsUp
<1>11. QueuesAreRight(st, cl)
  <2>1. \A l \in Ids : st[l].queue = ss[l].queue /\ st[l].accepted = ss[l].accepted /\ ss[l].queue \in SUBSET Ids
                       /\ ss[l].accepted \in SUBSET Ids /\ st[l].place = ss[l].place /\ st[l].listener = ss[l].listener
    BY <1>1, <1>3, <1>4 DEF TypesAreRight, SocketSet
  <2> QED BY <2>1 DEF Good, QueuesAreRight
<1>12. NobodyIsLost(st, wk)
  <2> SUFFICES ASSUME NEW j \in Ids, st[j].place = "listed", st[j].status # "closed", st[j].listener # 0
               PROVE  \/ j \in st[st[j].listener].queue \/ j \in st[st[j].listener].accepted
                      \/ \E k \in Ids : wk[k].at = "listed" /\ wk[k].ns = j
    BY DEF NobodyIsLost
  <2>1. j # i /\ st[j] = ss[j]
    BY <1>3, <1>4
  <2>2. PICK l \in Ids : l = ss[j].listener
    BY <1>1, <2>1 DEF TypesAreRight, SocketSet, IdsOrNone
  <2>3. j \in ss[l].queue \/ j \in ss[l].accepted \/ \E k \in Ids : wk[k].at = "listed" /\ wk[k].ns = j
    BY <2>1, <2>2 DEF Good, NobodyIsLost
  <2>4. st[l].queue = ss[l].queue /\ st[l].accepted = ss[l].accepted
    BY <1>3, <1>4
  <2> QED BY <2>1, <2>2, <2>3, <2>4
<1>13. SleepersAreRight(st, wk, ac, g)
  <2>1. SleepersAreRight(ss, wk, ac, g)
    BY DEF Good
  <2>2. \A l \in Ids : WaitingIn(ac, l) # {} /\ g = "running" => l # i
    BY <1>4, <2>1 DEF SleepersAreRight
  <2> QED BY <1>1, <1>3, <2>1, <2>2, SleepersStay DEF TypesAreRight
<1>14. MuxesAreRight(st, m2)
  <2>1. Joins(ss, mx, st, m2, i, m)
    BY DEF Attaches
  <2> QED BY <2>1, MuxGrows
<1>15. EndIsRight(st, wk, g)
  BY <1>3, <1>4 DEF Good, EndIsRight
<1> QED BY <1>2, <1>5, <1>6, <1>8, <1>9, <1>10, <1>11, <1>12, <1>13, <1>14, <1>15 DEF Good

\* A socket that is not bound has no multiplexer, and none of its own.
LEMMA UnboundIs ==
  ASSUME SocketsInv, NEW i \in Ids, Held(i), NEW o \in SocketSet, o = sockets[i], o.status = "init"
  PROVE  /\ o.place = "listed" /\ i \notin closes /\ Sane(o, FALSE) /\ o.mux = 0 /\ o.listener = 0 /\ ~o.onList /\ ~o.connected
         /\ o.linger = "no" /\ muxes[i].ref = 0 /\ muxes[i].listener = 0 /\ muxes \in [Ids -> MuxSet]
         /\ \A k \in Ids : workers[k].at # "idle" => workers[k].ns # i
<1>1. Good(sockets, muxes, seed, workers, accepts, closes, gc)
  BY DEF SocketsInv
<1>2. /\ o.place = "listed" /\ i \notin closes /\ \A k \in Ids : workers[k].at # "idle" => workers[k].ns # i
  BY HeldIs
<1>3. Sane(o, FALSE)
  <2>1. Sane(o, i \in closes)
    BY SocketFacts
  <2> QED BY <1>2, <2>1 DEF Sane
<1>4. o.mux = 0 /\ ~o.onList /\ ~o.connected /\ o.linger = "no" /\ o.listener = 0
  BY <1>2, <1>3 DEF Sane
<1>5. muxes \in [Ids -> MuxSet]
  BY <1>1 DEF Good, TypesAreRight
<1>6. muxes[i].ref = 0
  BY <1>1, <1>2 DEF Good, MuxesAreRight
<1>7. Users(sockets, i) = {}
  BY <1>1, <1>6, UsersAre, FS_EmptySet DEF Good, MuxesAreRight
<1>8. muxes[i].listener = 0
  BY <1>1, <1>7 DEF Good, MuxesAreRight
<1> QED BY <1>2, <1>3, <1>4, <1>5, <1>6, <1>8

\* A socket takes the multiplexer of another.
LEMMA JoinKeeps ==
  ASSUME SocketsInv, NEW i \in Ids, Held(i), sockets[i].status = "init", NEW port, NEW m \in Shared(i, port), Join(i, m),
         UNCHANGED <<seed, workers, accepts, closes, gc>>
  PROVE  SocketsInv'
<1>1. Good(sockets, muxes, seed, workers, accepts, closes, gc)
  BY DEF SocketsInv
<1>2. PICK o \in SocketSet : o = sockets[i]
  BY SocketFacts
<1>3. /\ o.place = "listed" /\ i \notin closes /\ Sane(o, FALSE) /\ o.mux = 0 /\ o.listener = 0 /\ ~o.onList /\ ~o.connected
      /\ o.linger = "no" /\ muxes \in [Ids -> MuxSet] /\ \A k \in Ids : workers[k].at # "idle" => workers[k].ns # i
  BY <1>2, UnboundIs
<1>4. m \in Ids /\ muxes[m].ref > 0 /\ muxes[m].ref \in Nat
  BY <1>3 DEF Shared, MuxSet
<1>5. PICK s \in SocketSet : /\ sockets' = [sockets EXCEPT ![i] = s] /\ s.status = "opened" /\ s.place = "listed" /\ s.mux = m
                             /\ s.listener = o.listener /\ s.peer = o.peer /\ s.queue = o.queue /\ s.accepted = o.accepted
                             /\ s.broken = o.broken /\ Sane(s, FALSE)
  <2>1. PICK s : s = [o EXCEPT !.mux = m, !.opened = TRUE, !.status = "opened"]
    OBVIOUS
  <2>2. m \in IdsOrNone /\ sockets \in [Ids -> SocketSet]
    BY <1>4, SocketFacts DEF IdsOrNone
  <2>3. s \in SocketSet
    BY <2>1, <2>2 DEF SocketSet
  <2>4. sockets' = [sockets EXCEPT ![i] = s]
    BY <1>2, <2>1, <2>2 DEF Join
  <2>5. /\ s.mux = m /\ s.listener = o.listener /\ s.peer = o.peer /\ s.queue = o.queue /\ s.accepted = o.accepted
        /\ s.broken = o.broken /\ s.status = "opened" /\ s.place = o.place /\ s.linger = o.linger
        /\ s.opened /\ s.closing = o.closing /\ s.connected = o.connected /\ s.onList = o.onList /\ s.onHeap = o.onHeap
    BY <2>1, <2>3 DEF SocketSet
  <2>6. Sane(s, FALSE)
    BY <1>3, <1>4, <2>5, IdsAre DEF Sane
  <2> QED BY <1>3, <2>3, <2>4, <2>5, <2>6
<1>6. PICK st \in [Ids -> SocketSet] : st = sockets' /\ \A j \in Ids : st[j] = IF j = i THEN s ELSE sockets[j]
  BY <1>5, SocketFacts
<1>7. PICK m2 \in [Ids -> MuxSet] : /\ m2 = muxes' /\ \A k \in Ids : k # m => m2[k] = muxes[k]
                                    /\ m2[m].ref = muxes[m].ref + 1 /\ m2[m].listener = muxes[m].listener /\ m2[m].port = muxes[m].port
  <2>1. PICK r \in MuxSet : r.ref = muxes[m].ref + 1 /\ r.listener = muxes[m].listener /\ r.port = muxes[m].port
                            /\ muxes' = [muxes EXCEPT ![m] = r]
    <3>1. PICK r : r = [muxes[m] EXCEPT !.ref = @ + 1]
      OBVIOUS
    <3>2. r \in MuxSet /\ r.ref = muxes[m].ref + 1 /\ r.listener = muxes[m].listener /\ r.port = muxes[m].port
      BY <1>3, <1>4, <3>1 DEF MuxSet
    <3>3. muxes' = [muxes EXCEPT ![m] = r]
      BY <1>3, <1>4, <3>1 DEF Join
    <3> QED BY <3>2, <3>3
  <2> QED BY <1>3, <1>4, <2>1
<1>8. Joins(sockets, muxes, st, m2, i, m)
  BY <1>2, <1>3, <1>4, <1>5, <1>6, <1>7 DEF Joins
<1>9. Attaches(sockets, muxes, workers, closes, st, m2, i, m)
  BY <1>2, <1>3, <1>4, <1>5, <1>6, <1>7, <1>8 DEF Attaches
<1>10. Good(st, m2, seed, workers, accepts, closes, gc)
  BY <1>1, <1>4, <1>9, AttachKeeps, Zenon
<1> QED BY <1>6, <1>7, <1>10 DEF SocketsInv

\* A socket gets a multiplexer of its own.
LEMMA FoundKeeps ==
  ASSUME SocketsInv, NEW i \in Ids, Held(i), sockets[i].status = "init", NEW p \in FreePorts, NEW status, NEW up \in BOOLEAN,
         status = IF up THEN "connected" ELSE "opened", Found(i, p, status, up), UNCHANGED <<seed, workers, accepts, closes, gc>>
  PROVE  SocketsInv'
<1>1. Good(sockets, muxes, seed, workers, accepts, closes, gc)
  BY DEF SocketsInv
<1>2. PICK o \in SocketSet : o = sockets[i]
  BY SocketFacts
<1>3. /\ o.place = "listed" /\ i \notin closes /\ Sane(o, FALSE) /\ o.mux = 0 /\ o.listener = 0 /\ ~o.onList /\ ~o.connected
      /\ o.linger = "no" /\ muxes \in [Ids -> MuxSet] /\ muxes[i].ref = 0 /\ muxes[i].listener = 0
      /\ \A k \in Ids : workers[k].at # "idle" => workers[k].ns # i
  BY <1>2, UnboundIs
<1>4. p \in Ports /\ \A k \in Ids : muxes[k].ref > 0 => muxes[k].port # p
  BY DEF FreePorts
<1>5. PICK s \in SocketSet : /\ sockets' = [sockets EXCEPT ![i] = s] /\ s.status # "init" /\ s.place = "listed" /\ s.mux = i
                             /\ s.listener = o.listener /\ s.peer = o.peer /\ s.queue = o.queue /\ s.accepted = o.accepted
                             /\ s.broken = o.broken /\ Sane(s, FALSE)
  <2>1. PICK s : s = [o EXCEPT !.mux = i, !.opened = TRUE, !.status = status, !.connected = up, !.onList = up]
    OBVIOUS
  <2>2. i \in IdsOrNone /\ sockets \in [Ids -> SocketSet] /\ status \in {"opened", "connected"}
    BY SocketFacts DEF IdsOrNone
  <2>3. s \in SocketSet
    BY <2>1, <2>2, ZenonT(60) DEF SocketSet
  <2>4. sockets' = [sockets EXCEPT ![i] = s]
    BY <1>2, <2>1, <2>2 DEF Found
  <2>5. /\ s.mux = i /\ s.listener = o.listener /\ s.peer = o.peer /\ s.queue = o.queue /\ s.accepted = o.accepted
        /\ s.broken = o.broken /\ s.status = status /\ s.place = o.place /\ s.linger = o.linger
        /\ s.opened /\ s.closing = o.closing /\ s.connected = up /\ s.onList = up /\ s.onHeap = o.onHeap
    BY <2>1, <2>3 DEF SocketSet
  <2>6. Sane(s, FALSE)
    BY <1>3, <2>2, <2>5, IdsAre DEF Sane
  <2> QED BY <1>3, <2>2, <2>3, <2>4, <2>5, <2>6
<1>6. PICK st \in [Ids -> SocketSet] : st = sockets' /\ \A j \in Ids : st[j] = IF j = i THEN s ELSE sockets[j]
  BY <1>5, SocketFacts
<1>7. PICK m2 \in [Ids -> MuxSet] : /\ m2 = muxes' /\ \A k \in Ids : k # i => m2[k] = muxes[k]
                                    /\ m2[i].ref = 1 /\ m2[i].listener = 0 /\ m2[i].port = p
  <2>1. PICK r : r = [ref |-> 1, port |-> p, reusable |-> sockets[i].reuse, listener |-> 0]
    OBVIOUS
  <2>2. r \in MuxSet /\ r.ref = 1 /\ r.listener = 0 /\ r.port = p
    BY <1>2, <1>4, <2>1 DEF MuxSet, IdsOrNone, SocketSet
  <2>3. muxes' = [muxes EXCEPT ![i] = r]
    BY <2>1 DEF Found
  <2> QED BY <1>3, <2>2, <2>3
<1>8. Joins(sockets, muxes, st, m2, i, i)
  BY <1>2, <1>3, <1>5, <1>6, <1>7 DEF Joins
<1>9. Attaches(sockets, muxes, workers, closes, st, m2, i, i)
  <2>1. ~(muxes[i].ref > 0) /\ \A k \in Ids : muxes[k].ref > 0 => muxes[k].port # m2[i].port
    <3>1. ~(muxes[i].ref > 0)
      BY <1>3
    <3> QED BY <1>4, <1>7, <3>1
  <2>2. /\ i \notin closes /\ sockets[i].place = "listed" /\ sockets[i].listener = 0
        /\ \A k \in Ids : workers[k].at # "idle" => workers[k].ns # i
    BY <1>2, <1>3
  <2>3. /\ Sane(st[i], FALSE) /\ st[i].listener = sockets[i].listener /\ st[i].peer = sockets[i].peer
        /\ st[i].queue = sockets[i].queue /\ st[i].accepted = sockets[i].accepted /\ st[i].broken = sockets[i].broken
    BY <1>2, <1>5, <1>6
  <2> QED BY <1>6, <1>7, <1>8, <2>1, <2>2, <2>3 DEF Attaches
<1>10. Good(st, m2, seed, workers, accepts, closes, gc)
  BY <1>1, <1>9, AttachKeeps, Zenon
<1> QED BY <1>6, <1>7, <1>10 DEF SocketsInv

\* bind joins one, founds one, or fails.
LEMMA BindKeeps == ASSUME SocketsInv, NEW i \in Ids, NEW port, Bind(i, port) PROVE SocketsInv'
<1>1. Held(i) /\ sockets[i].status = "init" /\ UNCHANGED <<seed, workers, accepts, closes, gc>>
  BY DEF Bind, callVars
<1>2. ASSUME NEW m \in Shared(i, port), Join(i, m) PROVE SocketsInv'
  BY <1>1, <1>2, JoinKeeps
<1>3. ASSUME NEW p \in FreePorts, Found(i, p, "opened", FALSE) PROVE SocketsInv'
  BY <1>1, <1>3, FoundKeeps
<1>4. ASSUME sockets' = [sockets EXCEPT ![i].opened = TRUE], muxes' = muxes PROVE SocketsInv'
  <2>1. PICK o \in SocketSet : o = sockets[i]
    BY SocketFacts
  <2>2. /\ o.place = "listed" /\ i \notin closes /\ Sane(o, FALSE) /\ o.status = "init"
    BY <1>1, <2>1, UnboundIs
  <2>3. PICK s : s = [o EXCEPT !.opened = TRUE]
    OBVIOUS
  <2>4. s \in SocketSet /\ sockets' = [sockets EXCEPT ![i] = s]
    BY <1>4, <2>1, <2>3, SocketFacts, ZenonT(60) DEF SocketSet
  <2>5. /\ s.mux = o.mux /\ s.listener = o.listener /\ s.peer = o.peer /\ s.queue = o.queue /\ s.accepted = o.accepted
        /\ s.broken = o.broken /\ s.status = o.status /\ s.place = o.place /\ s.linger = o.linger /\ s.old = o.old
        /\ s.opened /\ s.closing = o.closing /\ s.connected = o.connected /\ s.onList = o.onList /\ s.onHeap = o.onHeap
    BY <2>3, <2>4 DEF SocketSet
  <2>6. Sane(s, FALSE)
    BY <2>2, <2>5 DEF Sane
  <2>7. PICK st : st = sockets'
    OBVIOUS
  <2>8. Good(st, muxes, seed, workers, accepts, closes, gc)
    BY <1>1, <2>1, <2>2, <2>4, <2>5, <2>6, <2>7, OpenedKeeps
  <2> QED BY <1>1, <1>4, <2>7, <2>8 DEF SocketsInv
<1> QED BY <1>2, <1>3, <1>4 DEF Bind

\* connect founds one if bind has not been called.
LEMMA ConnectKeeps == ASSUME SocketsInv, NEW i \in Ids, NEW up \in BOOLEAN, Connect(i, up) PROVE SocketsInv'
<1>1. Held(i) /\ UNCHANGED <<seed, workers, accepts, closes, gc>>
  BY DEF Connect, callVars
<1>2. ASSUME sockets[i].status = "init", NEW p \in FreePorts, Found(i, p, IF up THEN "connected" ELSE "opened", up) PROVE SocketsInv'
  BY <1>1, <1>2, FoundKeeps
<1>3. ASSUME sockets[i].status = "opened", muxes' = muxes,
             sockets' = [sockets EXCEPT ![i].status = "connected", ![i].connected = TRUE, ![i].onList = TRUE]
      PROVE  SocketsInv'
  <2>1. PICK o \in SocketSet : o = sockets[i] /\ Sane(o, i \in closes)
    BY SocketFacts
  <2>2. o.place = "listed" /\ i \notin closes /\ o.status = "opened"
    BY <1>1, <1>3, <2>1, HeldIs
  <2>3. PICK s : s = [o EXCEPT !.status = "connected", !.connected = TRUE, !.onList = TRUE]
    OBVIOUS
  <2>4. s \in SocketSet /\ sockets' = [sockets EXCEPT ![i] = s]
    BY <1>3, <2>1, <2>3, SocketFacts, ZenonT(60) DEF SocketSet
  <2>5. /\ s.mux = o.mux /\ s.listener = o.listener /\ s.peer = o.peer /\ s.queue = o.queue /\ s.accepted = o.accepted
        /\ s.broken = o.broken /\ s.status = "connected" /\ s.place = o.place /\ s.linger = o.linger /\ s.old = o.old
        /\ s.opened = o.opened /\ s.closing = o.closing /\ s.connected /\ s.onList /\ s.onHeap = o.onHeap
    BY <2>3, <2>4 DEF SocketSet
  <2>6. Sane(s, FALSE)
    BY <2>1, <2>2, <2>5 DEF Sane
  <2>7. PICK st : st = sockets'
    OBVIOUS
  <2>8. Good(st, muxes, seed, workers, accepts, closes, gc)
    BY <1>1, <2>1, <2>2, <2>4, <2>5, <2>6, <2>7, OpenedKeeps
  <2> QED BY <1>1, <1>3, <2>7, <2>8 DEF SocketsInv
<1> QED BY <1>2, <1>3 DEF Connect

\* A new identifier.
Appears(ss, sd, cl, st, n) ==
  /\ n \in Ids /\ n = sd - 1 /\ st \in [Ids -> SocketSet] /\ \A j \in Ids : j # n => st[j] = ss[j]
  /\ st[n].place \in {"listed", "made"} /\ st[n].status = "init" /\ st[n].mux = 0 /\ st[n].queue = {} /\ st[n].accepted = {}
  /\ st[n].place = "listed" => st[n].listener = 0 /\ st[n].peer = {}
  /\ Sane(st[n], FALSE)

\* Nobody knows an identifier that is not in use.
LEMMA NewIs ==
  ASSUME NEW ss, NEW mx, NEW sd, NEW wk, NEW ac, NEW cl, NEW g, Good(ss, mx, sd, wk, ac, cl, g), NEW n \in Ids, ss[n].place = "none"
  PROVE  /\ n \notin cl /\ ss[n].listener = 0 /\ ss[n].peer = {} /\ ss[n].mux = 0 /\ ss[n].queue = {} /\ ss[n].accepted = {}
         /\ \A l \in Ids : n \notin ss[l].queue /\ n \notin ss[l].accepted
         /\ \A k \in Ids : wk[k].at # "idle" => wk[k].ns # n /\ wk[k].ls # n
         /\ mx[n].ref = 0
<1>1. Sane(ss[n], n \in cl)
  BY DEF Good, AllSane
<1>2. n \notin cl /\ ss[n].listener = 0 /\ ss[n].peer = {} /\ ss[n].mux = 0 /\ ss[n].queue = {} /\ ss[n].accepted = {}
  BY <1>1 DEF Sane
<1>3. \A l \in Ids : n \notin ss[l].queue /\ n \notin ss[l].accepted
  BY DEF Good, QueuesAreRight
<1>4. ASSUME NEW k \in Ids, wk[k].at # "idle" PROVE wk[k].ns # n /\ wk[k].ls # n
  <2>1. WorkerIsRight(ss, mx, wk, cl, k, wk[k].ns, wk[k].ls)
    BY <1>4 DEF Good, WorkersAreRight
  <2>2. wk[k].at \in {"broken", "dropped", "made", "listed", "queued"} /\ n # 0
    BY <1>4, IdsAre DEF Good, TypesAreRight, WorkerSet
  <2>3. wk[k].ls # n
    BY <2>1 DEF WorkerIsRight, ListensFor
  <2>4. wk[k].ns # n
    BY <2>1, <2>2 DEF WorkerIsRight, Makes, NewIsRight, Replaces, GoneIsRight
  <2> QED BY <2>3, <2>4
<1>5. mx[n].ref = 0
  BY DEF Good, MuxesAreRight
<1> QED BY <1>2, <1>3, <1>4, <1>5

\* Such a step keeps the invariant.
LEMMA AppearKeeps ==
  ASSUME NEW ss, NEW mx, NEW sd, NEW wk, NEW ac, NEW cl, NEW g, Good(ss, mx, sd, wk, ac, cl, g), g = "running",
         NEW st, NEW n, Appears(ss, sd, cl, st, n)
  PROVE  /\ Good(st, mx, n, wk, ac, cl, g)
         /\ \A k \in Ids : n \notin st[k].queue /\ n \notin st[k].accepted /\ wk[k].ns # n
<1>1. TypesAreRight(ss, mx, sd, wk, ac, cl, g)
  BY DEF Good
<1>2. n \in Ids /\ n = sd - 1 /\ sd \in Nat /\ n \in Nat
  BY <1>1, SocketsAssumption, IdsAre DEF Appears, TypesAreRight
<1>3. ss[n].place = "none"
  BY <1>2 DEF Good, SeedIsNext
<1>4. /\ n \notin cl /\ ss[n].listener = 0 /\ ss[n].peer = {} /\ ss[n].mux = 0 /\ ss[n].queue = {} /\ ss[n].accepted = {}
      /\ \A l \in Ids : n \notin ss[l].queue /\ n \notin ss[l].accepted
      /\ \A k \in Ids : wk[k].at # "idle" => wk[k].ns # n /\ wk[k].ls # n
      /\ mx[n].ref = 0
  BY <1>2, <1>3, NewIs
<1>5. \A j \in Ids : j # n => st[j] = ss[j]
  BY DEF Appears
<1>6. /\ st[n].place \in {"listed", "made"} /\ st[n].status = "init" /\ st[n].mux = 0 /\ st[n].queue = {} /\ st[n].accepted = {}
      /\ st[n].place = "listed" => st[n].listener = 0 /\ st[n].peer = {}
  BY DEF Appears
<1>7. TypesAreRight(st, mx, n, wk, ac, cl, g)
  <2>1. n \in 1..(MaxSockets + 1)
    BY <1>2, SocketsAssumption DEF Ids
  <2> QED BY <1>1, <2>1 DEF TypesAreRight, Appears
<1>8. AllSane(st, cl)
  <2> SUFFICES ASSUME NEW j \in Ids PROVE Sane(st[j], j \in cl)
    BY DEF AllSane
  <2>1. CASE j = n
    <3>1. Sane(st[n], FALSE)
      BY DEF Appears
    <3> QED BY <1>4, <2>1, <3>1 DEF Sane
  <2>2. CASE j # n
    BY <1>5, <2>2 DEF Good, AllSane
  <2> QED BY <2>1, <2>2
<1>9. SeedIsNext(st, n)
  <2> SUFFICES ASSUME NEW j \in Ids PROVE st[j].place = "none" <=> j < n
    BY DEF SeedIsNext
  <2>1. CASE j = n
    BY <1>2, <1>6, <2>1
  <2>2. CASE j # n
    <3>1. st[j].place = "none" <=> j < sd
      BY <1>5, <2>2 DEF Good, SeedIsNext
    <3> QED BY <1>2, <2>2, <3>1, IdsAre
  <2> QED BY <2>1, <2>2
<1>10. WorkersAreRight(st, mx, wk, cl)
  <2> SUFFICES ASSUME NEW c \in Ids, wk[c].at # "idle", NEW m, NEW l, m = wk[c].ns, l = wk[c].ls,
                      WorkerIsRight(ss, mx, wk, cl, c, m, l)
               PROVE  WorkerIsRight(st, mx, wk, cl, c, m, l)
    BY DEF Good, WorkersAreRight
  <2>1. l \in Ids /\ m # n /\ l # n
    BY <1>4 DEF WorkerIsRight, ListensFor
  <2>2. st[l] = ss[l] /\ (m \in Ids => st[m] = ss[m])
    BY <1>5, <2>1
  <2>3. ListensFor(st, c, l)
    BY <2>2 DEF WorkerIsRight, ListensFor
  <2>4. ASSUME Makes(wk[c]) PROVE NewIsRight(st, mx, wk, cl, c, m, l)
    <3>1. NewIsRight(ss, mx, wk, cl, c, m, l) /\ m \in Ids
      BY <2>4 DEF WorkerIsRight, NewIsRight
    <3>2. \A k \in Ids : m \notin st[k].queue /\ m \notin st[k].accepted
      BY <1>5, <1>6, <3>1 DEF NewIsRight
    <3>3. ASSUME NEW p \in Peers, MakesFor(ss, mx, p, c, m) PROVE MakesFor(st, mx, p, c, m)
      <4> SUFFICES ASSUME NEW j \in Ids, st[j].place = "listed", st[j].peer = {p} PROVE m < j /\ st[j].broken
        BY <2>2, <3>1, <3>3 DEF MakesFor
      <4>1. j # n
        BY <1>6
      <4> QED BY <1>5, <3>3, <4>1 DEF MakesFor
    <3> QED BY <2>2, <3>1, <3>2, <3>3 DEF NewIsRight
  <2>5. ASSUME Replaces(wk[c]) PROVE GoneIsRight(st, mx, c, m)
    <3>1. GoneIsRight(ss, mx, c, m) /\ m \in Ids
      BY <2>5 DEF WorkerIsRight, GoneIsRight
    <3>2. ASSUME NEW p \in Peers, HasNone(ss, mx, p, c, m) PROVE HasNone(st, mx, p, c, m)
      <4> SUFFICES ASSUME NEW j \in Ids, st[j].place = "listed", st[j].peer = {p} PROVE st[j].broken
        BY <2>2, <3>1, <3>2 DEF HasNone
      <4>1. j # n
        BY <1>6
      <4> QED BY <1>5, <3>2, <4>1 DEF HasNone
    <3> QED BY <2>2, <3>1, <3>2 DEF GoneIsRight
  <2> QED BY <2>3, <2>4, <2>5 DEF WorkerIsRight
<1>11. NewestIsUp(st)
  BY <1>5, <1>6 DEF Good, NewestIsUp
<1>12. QueuesAreRight(st, cl)
  <2> SUFFICES ASSUME NEW l \in Ids
               PROVE  /\ \A q \in st[l].queue : st[q].place = "listed" /\ st[q].listener = l /\ q \notin cl /\ q \notin st[l].accepted
                      /\ \A a \in st[l].accepted : st[a].place # "none"
    BY DEF QueuesAreRight
  <2>1. CASE l = n
    BY <1>6, <2>1
  <2>2. CASE l # n
    <3>1. st[l] = ss[l] /\ ss[l].queue \in SUBSET Ids /\ ss[l].accepted \in SUBSET Ids
      BY <1>1, <1>5, <2>2 DEF TypesAreRight, SocketSet
    <3>2. \A q \in ss[l].queue \union ss[l].accepted : st[q] = ss[q]
      BY <1>4, <1>5, <3>1
    <3> QED BY <3>1, <3>2 DEF Good, QueuesAreRight
  <2> QED BY <2>1, <2>2
<1>13. NobodyIsLost(st, wk)
  <2> SUFFICES ASSUME NEW j \in Ids, st[j].place = "listed", st[j].status # "closed", st[j].listener # 0
               PROVE  \/ j \in st[st[j].listener].queue \/ j \in st[st[j].listener].accepted
                      \/ \E k \in Ids : wk[k].at = "listed" /\ wk[k].ns = j
    BY DEF NobodyIsLost
  <2>1. j # n /\ st[j] = ss[j]
    BY <1>5, <1>6
  <2>2. PICK l \in Ids : l = ss[j].listener
    BY <1>1, <2>1 DEF TypesAreRight, SocketSet, IdsOrNone
  <2>3. j \in ss[l].queue \/ j \in ss[l].accepted \/ \E k \in Ids : wk[k].at = "listed" /\ wk[k].ns = j
    BY <2>1, <2>2 DEF Good, NobodyIsLost
  <2>4. (j \in ss[l].queue => j \in st[l].queue) /\ (j \in ss[l].accepted => j \in st[l].accepted)
    BY <1>4, <1>5
  <2> QED BY <2>1, <2>2, <2>3, <2>4
<1>14. SleepersAreRight(st, wk, ac, g)
  <2>1. SleepersAreRight(ss, wk, ac, g)
    BY DEF Good
  <2>2. \A l \in Ids : WaitingIn(ac, l) # {} /\ g = "running" => l # n
    BY <1>3, <2>1 DEF SleepersAreRight
  <2> QED BY <1>1, <1>5, <2>1, <2>2, SleepersStay DEF TypesAreRight
<1>15. MuxesAreRight(st, mx)
  <2>1. \A m \in Ids : m # 0
    BY IdsAre
  <2>2. \A m \in Ids : \A j \in Ids : j \in Users(st, m) <=> j \in Users(ss, m)
    BY <1>4, <1>5, <1>6, <2>1 DEF Users, AliveIn
  <2>3. \A m \in Ids : Users(st, m) = Users(ss, m)
    BY <2>2, UsersAre
  <2>4. ASSUME NEW m \in Ids, st[m].place \in {"none", "made"} \/ (st[m].place = "listed" /\ st[m].status = "init")
        PROVE  mx[m].ref = 0
    BY <1>4, <1>5, <2>4 DEF Good, MuxesAreRight
  <2> QED BY <2>3, <2>4 DEF Good, MuxesAreRight
<1>16. EndIsRight(st, wk, g)
  BY DEF EndIsRight
<1>17. \A k \in Ids : n \notin st[k].queue /\ n \notin st[k].accepted /\ wk[k].ns # n
  <2> SUFFICES ASSUME NEW k \in Ids PROVE n \notin st[k].queue /\ n \notin st[k].accepted /\ wk[k].ns # n
    OBVIOUS
  <2>1. wk[k].ns # n
    <3>1. CASE wk[k].at = "idle"
      BY <1>2, <3>1, IdsAre DEF Good, WorkersAreRight
    <3>2. CASE wk[k].at # "idle"
      BY <1>4, <3>2
    <3> QED BY <3>1, <3>2
  <2> QED BY <1>4, <1>5, <1>6, <2>1
<1> QED BY <1>7, <1>8, <1>9, <1>10, <1>11, <1>12, <1>13, <1>14, <1>15, <1>16, <1>17 DEF Good

\* newSocket takes the next identifier.
LEMMA NewSocketKeeps == ASSUME SocketsInv, NEW reuse \in BOOLEAN, NewSocket(reuse) PROVE SocketsInv'
<1>1. Good(sockets, muxes, seed, workers, accepts, closes, gc)
  BY DEF SocketsInv
<1>2. TypesAreRight(sockets, muxes, seed, workers, accepts, closes, gc)
  BY <1>1 DEF Good
<1>3. PICK n : n = seed - 1
  OBVIOUS
<1>4. n \in Ids
  BY <1>3, SocketsAssumption DEF NewSocket, Ids
<1>5. /\ gc = "running" /\ seed' = n /\ UNCHANGED <<muxes, workers, accepts, closes, gc>>
      /\ sockets' = [sockets EXCEPT ![n].place = "listed", ![n].reuse = reuse]
  BY <1>3 DEF NewSocket, callVars
<1>6. PICK o \in SocketSet : o = sockets[n] /\ Sane(o, n \in closes)
  BY <1>4, SocketFacts
<1>7. o.place = "none"
  <2>1. seed \in Nat
    BY <1>2, SocketsAssumption DEF TypesAreRight
  <2> QED BY <1>1, <1>3, <1>4, <1>6, <2>1 DEF Good, SeedIsNext
<1>8. PICK s \in SocketSet :
        /\ sockets' = [sockets EXCEPT ![n] = s]
        /\ s.place = "listed" /\ s.status = "init" /\ s.mux = 0 /\ s.queue = {} /\ s.accepted = {} /\ s.listener = 0 /\ s.peer = {}
        /\ Sane(s, FALSE)
  <2>1. PICK s : s = [o EXCEPT !.place = "listed", !.reuse = reuse]
    OBVIOUS
  <2>2. s \in SocketSet /\ sockets' = [sockets EXCEPT ![n] = s]
    BY <1>2, <1>4, <1>5, <1>6, <2>1, ZenonT(60) DEF SocketSet, TypesAreRight
  <2>3. /\ s.mux = o.mux /\ s.listener = o.listener /\ s.peer = o.peer /\ s.queue = o.queue /\ s.accepted = o.accepted
        /\ s.broken = o.broken /\ s.status = o.status /\ s.place = "listed" /\ s.linger = o.linger
        /\ s.opened = o.opened /\ s.closing = o.closing /\ s.connected = o.connected /\ s.onList = o.onList /\ s.onHeap = o.onHeap
    BY <2>1, <2>2 DEF SocketSet
  <2>4. /\ o.status = "init" /\ o.mux = 0 /\ o.queue = {} /\ o.accepted = {} /\ o.listener = 0 /\ o.peer = {} /\ o.linger = "no"
        /\ ~o.opened /\ ~o.connected /\ ~o.onList /\ ~o.onHeap /\ ~o.closing /\ ~o.broken
    BY <1>6, <1>7 DEF Sane
  <2>5. Sane(s, FALSE)
    BY <2>3, <2>4 DEF Sane
  <2> QED BY <2>2, <2>3, <2>4, <2>5
<1>9. PICK st \in [Ids -> SocketSet] : st = sockets' /\ \A j \in Ids : st[j] = IF j = n THEN s ELSE sockets[j]
  BY <1>2, <1>8 DEF TypesAreRight
<1>10. Appears(sockets, seed, closes, st, n)
  BY <1>3, <1>4, <1>8, <1>9 DEF Appears
<1>11. Good(st, muxes, n, workers, accepts, closes, gc)
  BY <1>1, <1>5, <1>10, AppearKeeps, Zenon
<1> QED BY <1>5, <1>9, <1>11 DEF SocketsInv

\* The minimum of identifiers, as both loops of the code find it.
LEMMA LeastIs ==
  ASSUME NEW S \in SUBSET Ids, S # {}
  PROVE  Min(S) \in S /\ \A x \in S : Min(S) <= x
<1>1. \E x \in S : \A y \in S : x <= y
  BY IdsAre, LeastNatural
<1> QED BY <1>1 DEF Min

\* A receiving thread turns to what a thread may do.
TurnIs(ss, mx, wk, cl, g, m, w, w2) ==
  /\ w \in WorkerSet /\ w2 = [wk EXCEPT ![m] = w]
  /\ w.at = "idle" => w.ns = 0 /\ w.ls = 0
  /\ w.at # "idle" => g = "running" /\ WorkerIsRight(ss, mx, w2, cl, m, w.ns, w.ls)
  /\ \A k \in Ids : k # m /\ Makes(wk[k]) => wk[k].ns # w.ns

\* The sockets stay as they are.
LEMMA WorkerTurns ==
  ASSUME NEW ss, NEW mx, NEW sd, NEW wk, NEW ac, NEW cl, NEW g, Good(ss, mx, sd, wk, ac, cl, g),
         NEW m \in Ids, wk[m].at # "listed", NEW w, NEW w2, TurnIs(ss, mx, wk, cl, g, m, w, w2),
         NEW a2 \in [Acceptors -> AcceptSet], SleepersAreRight(ss, w2, a2, g)
  PROVE  Good(ss, mx, sd, w2, a2, cl, g)
<1> USE DEF TurnIs
<1>1. TypesAreRight(ss, mx, sd, wk, ac, cl, g)
  BY DEF Good
<1>2. w2 \in [Ids -> WorkerSet] /\ \A k \in Ids : w2[k] = IF k = m THEN w ELSE wk[k]
  BY <1>1 DEF TypesAreRight
<1>3. TypesAreRight(ss, mx, sd, w2, a2, cl, g)
  BY <1>1, <1>2 DEF TypesAreRight
<1>4. WorkersAreRight(ss, mx, w2, cl)
  <2> SUFFICES ASSUME NEW c \in Ids
               PROVE  IF w2[c].at = "idle" THEN w2[c].ns = 0 /\ w2[c].ls = 0
                      ELSE WorkerIsRight(ss, mx, w2, cl, c, w2[c].ns, w2[c].ls)
    BY DEF WorkersAreRight
  <2>1. CASE c = m
    BY <1>2, <2>1
  <2>2. CASE c # m /\ wk[c].at # "idle"
    <3>1. PICK a, b : a = wk[c].ns /\ b = wk[c].ls /\ WorkerIsRight(ss, mx, wk, cl, c, a, b)
      BY <2>2 DEF Good, WorkersAreRight
    <3>2. w2[c] = wk[c]
      BY <1>2, <2>2
    <3>3. ASSUME Makes(wk[c]) PROVE NewIsRight(ss, mx, w2, cl, c, a, b)
      <4>1. NewIsRight(ss, mx, wk, cl, c, a, b)
        BY <3>1, <3>3 DEF WorkerIsRight
      <4>2. \A k \in Ids : w2[k].ns = a => k = c
        BY <1>2, <2>2, <3>1, <3>3, <4>1 DEF NewIsRight
      <4> QED BY <3>2, <4>1, <4>2 DEF NewIsRight
    <3>4. WorkerIsRight(ss, mx, w2, cl, c, a, b)
      BY <3>1, <3>2, <3>3 DEF WorkerIsRight
    <3> QED BY <2>2, <3>1, <3>2, <3>4
  <2>3. CASE c # m /\ wk[c].at = "idle"
    BY <1>2, <2>3 DEF Good, WorkersAreRight
  <2> QED BY <2>1, <2>2, <2>3
<1>5. NobodyIsLost(ss, w2)
  <2>1. \A k \in Ids : wk[k].at = "listed" => w2[k] = wk[k]
    BY <1>2
  <2> QED BY <2>1 DEF Good, NobodyIsLost
<1>6. EndIsRight(ss, w2, g)
  <2>1. g # "running" => \A k \in Ids : w2[k].at = "idle"
    BY <1>2 DEF Good, EndIsRight
  <2> QED BY <2>1 DEF Good, EndIsRight
<1> QED BY <1>3, <1>4, <1>5, <1>6 DEF Good

\* The same, when nobody waits for what the thread does.
LEMMA WorkerMoves ==
  ASSUME NEW ss, NEW mx, NEW sd, NEW wk, NEW ac, NEW cl, NEW g, Good(ss, mx, sd, wk, ac, cl, g),
         NEW m \in Ids, wk[m].at \notin {"listed", "queued"}, NEW w, w.at # "queued", NEW w2,
         TurnIs(ss, mx, wk, cl, g, m, w, w2)
  PROVE  Good(ss, mx, sd, w2, ac, cl, g)
<1>1. wk \in [Ids -> WorkerSet] /\ ac \in [Acceptors -> AcceptSet] /\ SleepersAreRight(ss, wk, ac, g)
  BY DEF Good, TypesAreRight
<1>2. \A k \in Ids : w2[k] = wk[k] \/ (k = m /\ w2[k] = w)
  BY <1>1 DEF TurnIs
<1>5. \A l : QueuedIn(w2, l) = QueuedIn(wk, l)
  <2>1. \A k \in Ids : w2[k].at = "queued" => w2[k] = wk[k]
    BY <1>2
  <2>2. \A k \in Ids : wk[k].at = "queued" => w2[k] = wk[k]
    BY <1>2
  <2> QED BY <2>1, <2>2 DEF QueuedIn
<1>6. \A l : Roused(w2, ac, l) = Roused(wk, ac, l)
  BY <1>5 DEF Roused
<1>3. SleepersAreRight(ss, w2, ac, g)
  BY <1>1, <1>6 DEF SleepersAreRight
<1>4. wk[m].at # "listed"
  OBVIOUS
<1> QED BY <1>1, <1>3, <1>4, WorkerTurns

\* A receiving thread takes up a socket that it has made.
LEMMA HireKeeps ==
  ASSUME NEW ss, NEW mx, NEW sd, NEW wk, NEW ac, NEW cl, Good(ss, mx, sd, wk, ac, cl, "running"),
         NEW m \in Ids, wk[m].at \in {"idle", "dropped"}, NEW n \in Ids, NEW l \in Ids, NEW p \in Peers,
         ss[n].place = "made", ss[n].listener = l, MakesFor(ss, mx, p, m, n),
         \A k \in Ids : n \notin ss[k].queue /\ n \notin ss[k].accepted /\ wk[k].ns # n,
         n \notin cl, ListensFor(ss, m, l),
         NEW w2, w2 = [wk EXCEPT ![m] = [at |-> "made", ls |-> l, ns |-> n]]
  PROVE  Good(ss, mx, sd, w2, ac, cl, "running")
<1>1. wk \in [Ids -> WorkerSet]
  BY DEF Good, TypesAreRight
<1>2. PICK w \in WorkerSet : w = [at |-> "made", ls |-> l, ns |-> n] /\ w.at = "made" /\ w.ls = l /\ w.ns = n
  <2>1. PICK w : w = [at |-> "made", ls |-> l, ns |-> n]
    OBVIOUS
  <2>2. w \in WorkerSet
    BY <2>1 DEF WorkerSet, IdsOrNone
  <2> QED BY <2>1, <2>2
<1>3. w2[m] = w /\ \A k \in Ids : k # m => w2[k] = wk[k]
  BY <1>1, <1>2
<1>4. ~ss[n].broken
  BY DEF Good, AllSane, Sane
<1>5. NewIsRight(ss, mx, w2, cl, m, n, l)
  BY <1>2, <1>3, <1>4 DEF NewIsRight
<1>6. WorkerIsRight(ss, mx, w2, cl, m, n, l)
  BY <1>2, <1>3, <1>5 DEF WorkerIsRight, Replaces
<1>7. wk[m].at \notin {"listed", "queued"} /\ w.at # "queued"
  BY <1>2
<1>8. TurnIs(ss, mx, wk, cl, "running", m, w, w2)
  BY <1>2, <1>6 DEF TurnIs
<1> QED BY <1>7, <1>8, WorkerMoves

\* A peer that asks has no connection that works.
LEMMA KnownIsBroken ==
  ASSUME SocketsInv, NEW p, Known(p) # {}, sockets[KnownSocket(p)].broken
  PROVE  KnownSocket(p) \in Known(p) /\ \A j \in Known(p) : sockets[j].broken
<1>1. Known(p) \in SUBSET Ids
  BY DEF Known
<1>2. KnownSocket(p) \in Known(p) /\ \A x \in Known(p) : KnownSocket(p) <= x
  BY <1>1, LeastIs DEF KnownSocket
<1>3. ASSUME NEW j \in Known(p), ~sockets[j].broken PROVE FALSE
  <2>1. PICK i \in Known(p) : i = KnownSocket(p)
    BY <1>2
  <2>2. i <= j /\ i \in Nat /\ j \in Nat /\ i # j
    BY <1>1, <1>2, <1>3, <2>1, IdsAre
  <2>3. i < j /\ {p} # {}
    BY <2>2
  <2>4. /\ sockets[i].place = "listed" /\ sockets[j].place = "listed" /\ i \in Ids /\ j \in Ids
        /\ sockets[i].peer = {p} /\ sockets[j].peer = {p}
    BY DEF Known, Listed
  <2> QED BY <1>3, <2>3, <2>4 DEF SocketsInv, Good, NewestIsUp
<1> QED BY <1>2, <1>3

\* A request is for a listener of the process.
LEMMA RequestIs ==
  ASSUME SocketsInv, NEW m \in Ids, NEW p \in Peers, Requests(m, p), NEW l, l = muxes[m].listener
  PROVE  /\ l \in Ids /\ ListensFor(sockets, m, l) /\ workers[m].at = "idle" /\ muxes[m].port = PortOf[p] /\ gc = "running"
<1>1. Good(sockets, muxes, seed, workers, accepts, closes, gc)
  BY DEF SocketsInv
<1>2. workers[m].at = "idle" /\ l # 0 /\ muxes[m].port = PortOf[p] /\ sockets[l].place = "listed"
  BY DEF Requests, Answers, Asks, Located, Listed
<1>3. l \in Ids /\ sockets[l].mux = m
  BY <1>1, <1>2 DEF Good, MuxesAreRight, Users, AliveIn
<1>4. gc = "running"
  BY <1>1, <1>2, <1>3 DEF Good, EndIsRight
<1> QED BY <1>2, <1>3, <1>4 DEF ListensFor

\* A socket is made for a peer that has none that works, or the backlog is full.
LEMMA MakeKeeps ==
  ASSUME SocketsInv, gc = "running", NEW m \in Ids, NEW l \in Ids, NEW p \in Peers, workers[m].at \in {"idle", "dropped"},
         ListensFor(sockets, m, l), muxes[m].port = PortOf[p],
         \A j \in Ids : sockets[j].place = "listed" /\ sockets[j].peer = {p} => sockets[j].broken,
         Make(m, l, p), UNCHANGED <<muxes, accepts, closes, gc>>
  PROVE  SocketsInv'
<1>1. Good(sockets, muxes, seed, workers, accepts, closes, gc)
  BY DEF SocketsInv
<1>2. TypesAreRight(sockets, muxes, seed, workers, accepts, closes, gc)
  BY <1>1 DEF Good
<1>3. CASE workers' = [workers EXCEPT ![m] = IdleWorker] /\ UNCHANGED <<sockets, seed>>
  <2>1. IdleWorker \in WorkerSet /\ IdleWorker.at = "idle" /\ IdleWorker.ns = 0 /\ IdleWorker.ls = 0
    BY DEF IdleWorker, WorkerSet, IdsOrNone
  <2>2. \A k \in Ids : Makes(workers[k]) => workers[k].ns # 0
    BY IdsAre, MakerFacts
  <2>3. PICK w2 : w2 = workers'
    OBVIOUS
  <2>5. TurnIs(sockets, muxes, workers, closes, gc, m, IdleWorker, w2)
    BY <1>3, <2>1, <2>2, <2>3 DEF TurnIs
  <2>6. workers[m].at \notin {"listed", "queued"} /\ IdleWorker.at # "queued"
    BY <2>1
  <2>4. Good(sockets, muxes, seed, w2, accepts, closes, gc)
    BY <1>1, <2>5, <2>6, WorkerMoves
  <2> QED BY <1>3, <2>3, <2>4 DEF SocketsInv
<1>4. CASE /\ seed > 1 /\ seed' = seed - 1 /\ workers' = [workers EXCEPT ![m] = [at |-> "made", ls |-> l, ns |-> seed - 1]]
           /\ sockets' = [sockets EXCEPT ![seed - 1] = [Fresh EXCEPT !.place = "made", !.listener = l, !.peer = {p}]]
  <2>1. PICK n : n = seed - 1
    OBVIOUS
  <2>2. n \in Ids /\ seed \in Nat
    BY <1>2, <1>4, <2>1, SocketsAssumption DEF Ids, TypesAreRight
  <2>3. PICK s : s = [Fresh EXCEPT !.place = "made", !.listener = l, !.peer = {p}]
    OBVIOUS
  <2>4. l \in IdsOrNone /\ {p} \in SUBSET Peers /\ l # 0
    BY IdsAre DEF IdsOrNone
  <2>5. /\ s \in SocketSet /\ s.place = "made" /\ s.listener = l /\ s.peer = {p}
        /\ s.status = "init" /\ s.mux = 0 /\ s.queue = {} /\ s.accepted = {} /\ s.linger = "no"
        /\ ~s.opened /\ ~s.connected /\ ~s.onList /\ ~s.onHeap /\ ~s.closing /\ ~s.broken
    <3>1. PICK f \in SocketSet : f = Fresh
      BY FreshIs
    <3>2. /\ f.status = "init" /\ f.mux = 0 /\ f.queue = {} /\ f.accepted = {} /\ f.linger = "no"
          /\ ~f.opened /\ ~f.connected /\ ~f.onList /\ ~f.onHeap /\ ~f.closing /\ ~f.broken
      BY <3>1 DEF Fresh
    <3>3. s = [f EXCEPT !.place = "made", !.listener = l, !.peer = {p}]
      BY <2>3, <3>1
    <3> QED BY <2>4, <3>2, <3>3 DEF SocketSet
  <2>6. Sane(s, FALSE)
    BY <2>4, <2>5 DEF Sane
  <2>7. sockets \in [Ids -> SocketSet]
    BY <1>2 DEF TypesAreRight
  <2>19. s \in SocketSet
    BY <2>5
  <2>20. sockets' = [sockets EXCEPT ![n] = s]
    BY <1>4, <2>1, <2>3
  <2>8. PICK st \in [Ids -> SocketSet] : st = sockets' /\ st[n] = s /\ \A j \in Ids : j # n => st[j] = sockets[j]
    BY ONLY <2>2, <2>7, <2>19, <2>20
  <2>9. Appears(sockets, seed, closes, st, n)
    BY <2>1, <2>2, <2>5, <2>6, <2>8 DEF Appears
  <2>10. /\ Good(st, muxes, n, workers, accepts, closes, gc)
         /\ \A k \in Ids : n \notin st[k].queue /\ n \notin st[k].accepted /\ workers[k].ns # n
    BY ONLY <1>1, gc = "running", <2>9, AppearKeeps
  <2>11. sockets[n].place = "none"
    BY <1>1, <2>1, <2>2 DEF Good, SeedIsNext
  <2>12. n \notin closes
    BY <1>1, <2>2, <2>11, NewIs
  <2>13. MakesFor(st, muxes, p, m, n)
    <3> SUFFICES ASSUME NEW j \in Ids, st[j].place = "listed", st[j].peer = {p} PROVE n < j /\ st[j].broken
      BY <2>5, <2>8 DEF MakesFor
    <3>1. j # n
      BY <2>5, <2>8
    <3>2. sockets[j].place = "listed" /\ sockets[j].peer = {p} /\ st[j].broken = sockets[j].broken
      BY <2>8, <3>1
    <3>3. ~(j < seed) /\ j \in Nat
      BY <1>1, <3>2, IdsAre DEF Good, SeedIsNext
    <3>4. n < j
      BY <2>1, <2>2, <3>3
    <3> QED BY <3>2, <3>4
  <2>14. ListensFor(st, m, l) /\ st[n].place = "made" /\ st[n].listener = l
    <3>1. l # n
      BY <2>11 DEF ListensFor
    <3> QED BY <2>5, <2>8, <3>1 DEF ListensFor
  <2>15. PICK w2 : w2 = [workers EXCEPT ![m] = [at |-> "made", ls |-> l, ns |-> n]]
    OBVIOUS
  <2>16. Good(st, muxes, n, workers, accepts, closes, "running")
    BY <2>10
  <2>17. \A k \in Ids : n \notin st[k].queue /\ n \notin st[k].accepted /\ workers[k].ns # n
    BY <2>10
  <2>18. Good(st, muxes, n, w2, accepts, closes, "running")
    BY ONLY <2>2, <2>12, <2>13, <2>14, <2>15, <2>16, <2>17, m \in Ids, l \in Ids, p \in Peers,
            workers[m].at \in {"idle", "dropped"}, HireKeeps, Zenon
  <2> QED BY <1>4, <2>1, <2>8, <2>15, <2>18 DEF SocketsInv
<1> QED BY <1>3, <1>4 DEF Make

\* A request of a peer that is not known.
LEMMA ConnectRequestKeeps == ASSUME SocketsInv, NEW m \in Ids, NEW p \in Peers, ConnectRequest(m, p) PROVE SocketsInv'
<1>1. PICK l : l = muxes[m].listener
  OBVIOUS
<1>2. /\ Requests(m, p) /\ Known(p) = {} /\ Make(m, l, p) /\ UNCHANGED <<muxes, accepts, closes, gc>>
  BY <1>1 DEF ConnectRequest
<1>3. /\ l \in Ids /\ ListensFor(sockets, m, l) /\ workers[m].at = "idle" /\ muxes[m].port = PortOf[p] /\ gc = "running"
  BY <1>1, <1>2, RequestIs
<1>4. \A j \in Ids : sockets[j].place = "listed" /\ sockets[j].peer = {p} => sockets[j].broken
  BY <1>2 DEF Known, Listed
<1> QED BY <1>2, <1>3, <1>4, MakeKeeps

\* A request of a peer whose connection is broken.
LEMMA FindBrokenKeeps == ASSUME SocketsInv, NEW m \in Ids, NEW p \in Peers, FindBroken(m, p) PROVE SocketsInv'
<1>1. Good(sockets, muxes, seed, workers, accepts, closes, gc)
  BY DEF SocketsInv
<1>2. TypesAreRight(sockets, muxes, seed, workers, accepts, closes, gc)
  BY <1>1 DEF Good
<1>3. PICK l, n : l = muxes[m].listener /\ n = KnownSocket(p)
  OBVIOUS
<1>4. /\ Requests(m, p) /\ Known(p) # {} /\ sockets[n].broken
      /\ sockets' = [sockets EXCEPT ![n].status = "closed", ![n].old = FALSE]
      /\ workers' = [workers EXCEPT ![m] = [at |-> "broken", ls |-> l, ns |-> n]]
      /\ UNCHANGED <<muxes, seed, accepts, closes, gc>>
  BY <1>3 DEF FindBroken
<1>5. /\ l \in Ids /\ ListensFor(sockets, m, l) /\ workers[m].at = "idle" /\ muxes[m].port = PortOf[p] /\ gc = "running"
  BY <1>3, <1>4, RequestIs
<1>6. /\ n \in Ids /\ sockets[n].place = "listed" /\ sockets[n].peer = {p}
      /\ \A j \in Ids : sockets[j].place = "listed" /\ sockets[j].peer = {p} => sockets[j].broken
  BY <1>3, <1>4, KnownIsBroken DEF Known, Listed
<1>7. PICK o \in SocketSet : o = sockets[n] /\ Sane(o, n \in closes)
  BY <1>6, SocketFacts
<1>8. o.place = "listed" /\ o.broken /\ o.listener # 0 /\ o.status # "listening"
  BY <1>4, <1>6, <1>7 DEF Sane
<1>9. PICK s \in SocketSet : /\ sockets' = [sockets EXCEPT ![n] = s] /\ s.status = "closed" /\ ~s.old /\ Sane(s, n \in closes)
                             /\ s.place = o.place /\ s.mux = o.mux /\ s.listener = o.listener /\ s.peer = o.peer /\ s.queue = o.queue
                             /\ s.accepted = o.accepted /\ s.broken = o.broken
  <2>1. PICK s : s = [o EXCEPT !.status = "closed", !.old = FALSE]
    OBVIOUS
  <2>2. s \in SocketSet /\ sockets' = [sockets EXCEPT ![n] = s]
    BY <1>2, <1>4, <1>6, <1>7, <2>1, ZenonT(60) DEF SocketSet, TypesAreRight
  <2>3. /\ s.mux = o.mux /\ s.listener = o.listener /\ s.peer = o.peer /\ s.queue = o.queue /\ s.accepted = o.accepted
        /\ s.broken = o.broken /\ s.status = "closed" /\ s.place = o.place /\ ~s.old /\ s.linger = o.linger
        /\ s.opened = o.opened /\ s.closing = o.closing /\ s.connected = o.connected /\ s.onList = o.onList /\ s.onHeap = o.onHeap
    BY <2>1, <2>2 DEF SocketSet
  <2>4. Sane(s, n \in closes)
    BY <1>7, <1>8, <2>3 DEF Sane
  <2> QED BY <2>2, <2>3, <2>4
<1>10. FlagsIs(sockets, workers, closes, n, s, closes)
  <2>1. \A k \in Ids : ~(Makes(workers[k]) /\ workers[k].ns = n)
    BY <1>4, MakerFacts
  <2>2. closes \in SUBSET Ids
    BY <1>2 DEF TypesAreRight
  <2> QED BY <1>6, <1>7, <1>8, <1>9, <2>1, <2>2 DEF FlagsIs
<1>11. PICK st \in [Ids -> SocketSet] : st = sockets' /\ \A j \in Ids : st[j] = IF j = n THEN s ELSE sockets[j]
  BY <1>2, <1>9 DEF TypesAreRight
<1>12. Good(st, muxes, seed, workers, accepts, closes, gc)
  <2>1. st = [sockets EXCEPT ![n] = s]
    BY <1>9, <1>11
  <2> QED BY ONLY <1>1, <1>6, <1>10, <2>1, FlagsKeep, Zenon
<1>13. PICK w \in WorkerSet : w = [at |-> "broken", ls |-> l, ns |-> n] /\ w.at = "broken" /\ w.ls = l /\ w.ns = n
  <2>1. PICK w : w = [at |-> "broken", ls |-> l, ns |-> n]
    OBVIOUS
  <2>2. w \in WorkerSet
    BY <1>5, <1>6, <2>1 DEF WorkerSet, IdsOrNone
  <2> QED BY <2>1, <2>2
<1>14. PICK w2 : w2 = [workers EXCEPT ![m] = w]
  OBVIOUS
<1>15. WorkerIsRight(st, muxes, w2, closes, m, n, l)
  <2>1. w2[m] = w
    BY <1>2, <1>14 DEF TypesAreRight
  <2>2. ListensFor(st, m, l)
    BY <1>5, <1>7, <1>9, <1>11 DEF ListensFor
  <2>3. HasNone(st, muxes, p, m, n)
    BY <1>4, <1>5, <1>6, <1>7, <1>9, <1>11 DEF HasNone
  <2>4. GoneIsRight(st, muxes, m, n)
    BY <1>6, <1>8, <1>9, <1>11, <2>3 DEF GoneIsRight
  <2> QED BY <1>13, <2>1, <2>2, <2>4 DEF WorkerIsRight, Makes
<1>16. \A k \in Ids : k # m /\ Makes(workers[k]) => workers[k].ns # w.ns
  BY <1>4, <1>13, MakerFacts
<1>17. Good(st, muxes, seed, w2, accepts, closes, gc)
  <2>1. workers[m].at \notin {"listed", "queued"} /\ w.at # "queued"
    BY <1>5, <1>13
  <2>2. TurnIs(st, muxes, workers, closes, gc, m, w, w2)
    BY <1>5, <1>13, <1>14, <1>15, <1>16 DEF TurnIs
  <2> QED BY <1>12, <2>1, <2>2, WorkerMoves
<1> QED BY <1>4, <1>11, <1>13, <1>14, <1>17 DEF SocketsInv

\* Two sockets that differ only in their queues.
Alike(s, o) ==
  /\ s.mux = o.mux /\ s.listener = o.listener /\ s.peer = o.peer /\ s.place = o.place /\ s.broken = o.broken
  /\ s.linger = o.linger /\ s.opened = o.opened /\ s.closing = o.closing /\ s.connected = o.connected /\ s.onList = o.onList
  /\ s.status = o.status /\ s.old = o.old /\ s.onHeap = o.onHeap

\* A listener forgets a connection that is closed.
Forgotten(ss, l, n) == [ss EXCEPT ![l].queue = @ \ {n}, ![l].accepted = @ \ {n}]

\* That is a step of fading sockets.
LEMMA ForgetKeeps ==
  ASSUME SocketsInv, NEW l \in Ids, NEW n \in Ids, sockets[n].status = "closed", NEW st, st = Forgotten(sockets, l, n)
  PROVE  /\ Good(st, muxes, seed, workers, accepts, closes, gc)
         /\ \A j \in Ids : Alike(st[j], sockets[j])
<1>1. Good(sockets, muxes, seed, workers, accepts, closes, gc)
  BY DEF SocketsInv
<1>2. TypesAreRight(sockets, muxes, seed, workers, accepts, closes, gc)
  BY <1>1 DEF Good
<1>3. sockets \in [Ids -> SocketSet]
  BY <1>2 DEF TypesAreRight
<1>5. /\ st \in [Ids -> SocketSet]
      /\ \A j \in Ids : /\ Alike(st[j], sockets[j])
                        /\ st[j].queue = (IF j = l THEN sockets[j].queue \ {n} ELSE sockets[j].queue)
                        /\ st[j].accepted = (IF j = l THEN sockets[j].accepted \ {n} ELSE sockets[j].accepted)
  <2>1. PICK o \in SocketSet : o = sockets[l]
    BY <1>3
  <2>2. PICK y : y = [o EXCEPT !.queue = o.queue \ {n}, !.accepted = o.accepted \ {n}]
    OBVIOUS
  <2>3. o.queue \ {n} \in SUBSET Ids /\ o.accepted \ {n} \in SUBSET Ids
    BY DEF SocketSet
  <2>4. y \in SocketSet /\ Alike(y, o) /\ y.queue = o.queue \ {n} /\ y.accepted = o.accepted \ {n}
    BY <2>2, <2>3 DEF SocketSet, Alike
  <2>5. st = [sockets EXCEPT ![l] = y]
    BY <1>3, <2>1, <2>2 DEF Forgotten
  <2>6. st \in [Ids -> SocketSet] /\ st[l] = y /\ \A j \in Ids : j # l => st[j] = sockets[j]
    BY ONLY <1>3, <2>4, <2>5, l \in Ids
  <2>7. ASSUME NEW j \in Ids
        PROVE  /\ Alike(st[j], sockets[j])
               /\ st[j].queue = (IF j = l THEN sockets[j].queue \ {n} ELSE sockets[j].queue)
               /\ st[j].accepted = (IF j = l THEN sockets[j].accepted \ {n} ELSE sockets[j].accepted)
    <3>1. CASE j = l
      BY <2>1, <2>4, <2>6, <3>1
    <3>2. CASE j # l
      BY <2>6, <3>2 DEF Alike
    <3> QED BY <3>1, <3>2
  <2> QED BY <2>6, <2>7
<1>a. \A j \in Ids : st[j].queue \subseteq sockets[j].queue /\ st[j].accepted \subseteq sockets[j].accepted
  <2> SUFFICES ASSUME NEW j \in Ids PROVE st[j].queue \subseteq sockets[j].queue /\ st[j].accepted \subseteq sockets[j].accepted
    OBVIOUS
  <2>1. CASE j = l
    <3>1. st[j].queue = sockets[j].queue \ {n} /\ st[j].accepted = sockets[j].accepted \ {n}
      BY <1>5, <2>1
    <3> QED BY ONLY <3>1
  <2>2. CASE j # l
    BY <1>5, <2>2
  <2> QED BY <2>1, <2>2
<1>7. AllSane(st, closes)
  <2> SUFFICES ASSUME NEW j \in Ids PROVE Sane(st[j], j \in closes)
    BY DEF AllSane
  <2>1. Sane(sockets[j], j \in closes)
    BY SocketFacts
  <2>2. Alike(st[j], sockets[j]) /\ st[j].queue \subseteq sockets[j].queue /\ st[j].accepted \subseteq sockets[j].accepted
    BY <1>5, <1>a
  <2> QED BY <2>1, <2>2 DEF Sane, Alike
<1>8. Fades(sockets, st)
  BY <1>5, <1>a DEF Fades, Alike
<1>9. FadesInOrder(sockets, st)
  <2>1. \A k \in Ids : \A q \in st[k].queue : st[q].place = "listed"
    <3> SUFFICES ASSUME NEW k \in Ids, NEW q \in st[k].queue PROVE st[q].place = "listed"
      OBVIOUS
    <3>1. q \in sockets[k].queue /\ q \in Ids
      <4>1. sockets[k].queue \in SUBSET Ids /\ st[k].queue \subseteq sockets[k].queue
        BY <1>3, <1>a DEF SocketSet
      <4> QED BY ONLY <4>1
    <3>2. sockets[q].place = "listed"
      BY <1>1, <3>1 DEF Good, QueuesAreRight
    <3>3. Alike(st[q], sockets[q])
      BY <1>5, <3>1
    <3> QED BY <3>2, <3>3 DEF Alike
  <2>2. ASSUME NEW i \in Ids, st[i].status # "closed"
        PROVE  i # n
    <3>1. Alike(st[i], sockets[i])
      BY <1>5
    <3>2. st[i].status = sockets[i].status
      BY ONLY <3>1 DEF Alike
    <3> QED BY <2>2, <3>2
  <2>3. ASSUME NEW k \in Ids, NEW i \in Ids, i # n
        PROVE  (i \in sockets[k].queue => i \in st[k].queue) /\ (i \in sockets[k].accepted => i \in st[k].accepted)
    <3>1. CASE k = l
      BY <1>5, <2>3, <3>1
    <3>2. CASE k # l
      BY <1>5, <3>2
    <3> QED BY <3>1, <3>2
  <2> QED BY <2>1, <2>2, <2>3 DEF FadesInOrder
<1>10. FadesBesideWorkers(sockets, st, workers, closes)
  <2> SUFFICES ASSUME NEW m \in Ids, workers[m].at # "idle", NEW a, NEW b, a = workers[m].ns, b = workers[m].ls
               PROVE  /\ Makes(workers[m]) => st[a].place = sockets[a].place /\ ~st[a].broken /\ a \notin closes
                      /\ Replaces(workers[m]) => (st[a].place = "closed" => ~st[a].old)
                      /\ st[b].place = "closed" => ~st[b].old
    BY DEF FadesBesideWorkers
  <2>1. WorkerIsRight(sockets, muxes, workers, closes, m, a, b)
    BY WorkerFacts
  <2>2. Makes(workers[m]) => st[a].place = sockets[a].place /\ ~st[a].broken /\ a \notin closes
    BY <1>5, MakerFacts DEF Alike
  <2>3. Replaces(workers[m]) => (st[a].place = "closed" => ~st[a].old)
    BY <1>5, <2>1 DEF WorkerIsRight, GoneIsRight, Alike
  <2>4. st[b].place = "closed" => ~st[b].old
    BY <1>5, <2>1 DEF WorkerIsRight, ListensFor, Alike
  <2> QED BY <2>2, <2>3, <2>4
<1>11. SleepersAreRight(st, workers, accepts, gc)
  <2>1. SleepersAreRight(sockets, workers, accepts, gc)
    BY <1>1 DEF Good
  <2>2. gc = "running" =>
          \A k \in Ids : WaitingIn(accepts, k) # {} =>
            /\ st[k].place = sockets[k].place /\ st[k].status = sockets[k].status /\ st[k].broken = sockets[k].broken
            /\ st[k].queue \subseteq sockets[k].queue
    BY <1>5, <1>a DEF Alike
  <2> QED BY ONLY <1>3, <2>1, <2>2, SleepersStay, Zenon
<1>12. EndIsRight(st, workers, gc)
  BY <1>1, <1>5 DEF Good, EndIsRight, Alike
<1>13. FadeIs(sockets, workers, closes, st, accepts, closes, gc)
  <2>1. /\ accepts \in [Acceptors -> AcceptSet] /\ gc \in {"running", "clearing", "ended"} /\ closes \in SUBSET Ids
        /\ \A j \in closes : j \in closes
    BY <1>2 DEF TypesAreRight
  <2> QED BY <1>5, <1>7, <1>8, <1>9, <1>10, <1>11, <1>12, <2>1 DEF FadeIs
<1>14. Good(st, muxes, seed, workers, accepts, closes, gc)
  BY <1>1, <1>13, FadeKeeps, Zenon
<1> QED BY <1>5, <1>14

\* The broken connection is taken from the sets of the listener.
LEMMA DropBrokenKeeps == ASSUME SocketsInv, NEW m \in Ids, DropBroken(m) PROVE SocketsInv'
<1>1. Good(sockets, muxes, seed, workers, accepts, closes, gc)
  BY DEF SocketsInv
<1>2. workers \in [Ids -> WorkerSet]
  BY <1>1 DEF Good, TypesAreRight
<1>3. PICK n, l : n = workers[m].ns /\ l = workers[m].ls
  OBVIOUS
<1>4. /\ workers[m].at = "broken" /\ UNCHANGED <<muxes, seed, accepts, closes, gc>>
      /\ sockets' = Forgotten(sockets, l, n) /\ workers' = [workers EXCEPT ![m].at = "dropped"]
  BY <1>3 DEF DropBroken, Forgotten
<1>5. ListensFor(sockets, m, l) /\ GoneIsRight(sockets, muxes, m, n) /\ l \in Ids /\ n \in Ids /\ sockets[n].status = "closed" /\ sockets[n].broken
  BY <1>3, <1>4, WorkerFacts DEF WorkerIsRight, Replaces, ListensFor, GoneIsRight
<1>6. PICK st : st = sockets'
  OBVIOUS
<1>7. Good(st, muxes, seed, workers, accepts, closes, gc) /\ \A j \in Ids : Alike(st[j], sockets[j])
  BY <1>4, <1>5, <1>6, ForgetKeeps
<1>8. PICK w \in WorkerSet : w.at = "dropped" /\ w.ls = l /\ w.ns = n /\ workers' = [workers EXCEPT ![m] = w]
  <2>1. PICK v \in WorkerSet : v = workers[m]
    BY <1>2
  <2>2. PICK w : w = [v EXCEPT !.at = "dropped"]
    OBVIOUS
  <2>3. w \in WorkerSet /\ w.at = "dropped" /\ w.ls = l /\ w.ns = n
    BY <1>3, <2>1, <2>2 DEF WorkerSet
  <2>4. workers' = [workers EXCEPT ![m] = w]
    BY <1>2, <1>4, <2>1, <2>2
  <2> QED BY <2>3, <2>4
<1>9. PICK w2 : w2 = workers'
  OBVIOUS
<1>10. WorkerIsRight(st, muxes, w2, closes, m, n, l)
  <2>1. w2[m] = w
    BY <1>2, <1>8, <1>9
  <2>2. ListensFor(st, m, l)
    BY <1>5, <1>7 DEF ListensFor, Alike
  <2>3. ASSUME NEW p \in Peers, HasNone(sockets, muxes, p, m, n) PROVE HasNone(st, muxes, p, m, n)
    BY <1>5, <1>7, <2>3 DEF HasNone, Alike
  <2>4. GoneIsRight(st, muxes, m, n)
    BY <1>5, <1>7, <2>3 DEF GoneIsRight, Alike
  <2> QED BY <1>8, <2>1, <2>2, <2>4 DEF WorkerIsRight, Makes
<1>11. \A k \in Ids : k # m /\ Makes(workers[k]) => workers[k].ns # w.ns
  BY <1>5, <1>8, MakerFacts
<1>12. gc = "running"
  BY <1>1, <1>4 DEF Good, EndIsRight
<1>13. Good(st, muxes, seed, w2, accepts, closes, gc)
  <2>1. workers[m].at \notin {"listed", "queued"} /\ w.at # "queued"
    BY <1>4, <1>8
  <2>2. TurnIs(st, muxes, workers, closes, gc, m, w, w2)
    BY <1>8, <1>9, <1>10, <1>11, <1>12 DEF TurnIs
  <2> QED BY <1>7, <2>1, <2>2, WorkerMoves
<1> QED BY <1>4, <1>6, <1>9, <1>13 DEF SocketsInv

\* A new socket follows.
LEMMA ReconnectKeeps == ASSUME SocketsInv, NEW m \in Ids, NEW p \in Peers, Reconnect(m, p) PROVE SocketsInv'
<1>1. PICK n, l : n = workers[m].ns /\ l = workers[m].ls
  OBVIOUS
<1>2. /\ workers[m].at = "dropped" /\ sockets[n].peer = {p} /\ Make(m, l, p) /\ UNCHANGED <<muxes, accepts, closes, gc>>
  BY <1>1 DEF Reconnect
<1>3. ListensFor(sockets, m, l) /\ GoneIsRight(sockets, muxes, m, n) /\ l \in Ids
  BY <1>1, <1>2, WorkerFacts DEF WorkerIsRight, Replaces, ListensFor
<1>4. HasNone(sockets, muxes, p, m, n)
  <2>1. PICK q \in Peers : HasNone(sockets, muxes, q, m, n)
    BY <1>3 DEF GoneIsRight
  <2>2. q = p
    <3>1. {q} = {p}
      BY <1>2, <2>1 DEF HasNone
    <3> QED BY ONLY <3>1
  <2> QED BY <2>1, <2>2
<1>5. gc = "running"
  BY <1>2 DEF SocketsInv, Good, EndIsRight
<1> QED BY <1>2, <1>3, <1>4, <1>5, MakeKeeps DEF HasNone

\* The new connection joins the multiplexer and the table.
LEMMA EnlistKeeps == ASSUME SocketsInv, NEW m \in Ids, Enlist(m) PROVE SocketsInv'
<1>1. Good(sockets, muxes, seed, workers, accepts, closes, gc)
  BY DEF SocketsInv
<1>2. TypesAreRight(sockets, muxes, seed, workers, accepts, closes, gc)
  BY <1>1 DEF Good
<1>3. PICK n, l : n = workers[m].ns /\ l = workers[m].ls
  OBVIOUS
<1>4. /\ workers[m].at = "made" /\ UNCHANGED <<seed, accepts, closes, gc>>
      /\ sockets' = [sockets EXCEPT ![n] = [@ EXCEPT !.place = "listed", !.status = "connected", !.mux = m,
                                                     !.opened = TRUE, !.connected = TRUE, !.onList = TRUE]]
      /\ muxes' = [muxes EXCEPT ![m].ref = @ + 1] /\ workers' = [workers EXCEPT ![m].at = "listed"]
  BY <1>3 DEF Enlist
<1>5. WorkerIsRight(sockets, muxes, workers, closes, m, n, l)
  BY <1>3, <1>4, WorkerFacts
<1>6. /\ n \in Ids /\ l \in Ids /\ sockets[n].listener = l /\ ~sockets[n].broken /\ n \notin closes
      /\ sockets[l].place \in {"listed", "closed"} /\ sockets[l].mux = m /\ (sockets[l].place = "closed" => ~sockets[l].old)
      /\ \A k \in Ids : n \notin sockets[k].queue /\ n \notin sockets[k].accepted
      /\ \A k \in Ids : workers[k].ns = n => k = m
      /\ sockets[n].place = "made" /\ l # n /\ 0 \notin Ids
  BY <1>4, <1>5, IdsAre DEF WorkerIsRight, ListensFor, NewIsRight, Makes
<1>7. PICK p \in Peers : MakesFor(sockets, muxes, p, m, n)
  BY <1>4, <1>5 DEF WorkerIsRight, NewIsRight, Makes
<1>8. gc = "running"
  BY <1>1, <1>4 DEF Good, EndIsRight
<1>9. PICK s \in SocketSet :
        /\ sockets' = [sockets EXCEPT ![n] = s] /\ s.place = "listed" /\ s.status = "connected" /\ s.mux = m
        /\ s.listener = l /\ s.peer = {p} /\ s.queue = {} /\ s.accepted = {} /\ ~s.broken /\ Sane(s, FALSE)
  <2>1. PICK o \in SocketSet : o = sockets[n] /\ Sane(o, n \in closes)
    BY <1>6, SocketFacts
  <2>2. PICK s : s = [o EXCEPT !.place = "listed", !.status = "connected", !.mux = m,
                               !.opened = TRUE, !.connected = TRUE, !.onList = TRUE]
    OBVIOUS
  <2>3. m \in IdsOrNone /\ sockets \in [Ids -> SocketSet]
    BY SocketFacts DEF IdsOrNone
  <2>4. s \in SocketSet
    BY <2>2, <2>3 DEF SocketSet
  <2>5. sockets' = [sockets EXCEPT ![n] = s]
    BY <1>4, <1>6, <2>1, <2>2, <2>3
  <2>6. /\ s.mux = m /\ s.listener = o.listener /\ s.peer = o.peer /\ s.queue = o.queue /\ s.accepted = o.accepted
        /\ s.broken = o.broken /\ s.status = "connected" /\ s.place = "listed" /\ s.linger = o.linger
        /\ s.opened /\ s.closing = o.closing /\ s.connected /\ s.onList /\ s.onHeap = o.onHeap
    BY <2>2, <2>4 DEF SocketSet
  <2>7. o.place = "made" /\ o.listener = l /\ o.peer = {p} /\ ~o.broken
    BY <1>6, <1>7, <2>1 DEF MakesFor
  <2>8. o.queue = {} /\ o.accepted = {} /\ ~o.closing /\ o.linger = "no"
    BY <2>1, <2>7 DEF Sane
  <2>9. m # 0 /\ l # 0
    BY <1>6
  <2>10. Sane(s, FALSE)
    BY <2>6, <2>7, <2>8, <2>9 DEF Sane
  <2> QED BY <2>4, <2>5, <2>6, <2>7, <2>8, <2>10
<1>10. PICK st \in [Ids -> SocketSet] : st = sockets' /\ st[n] = s /\ \A j \in Ids : j # n => st[j] = sockets[j]
  BY <1>6, <1>9, SocketFacts
<1>11. PICK m2 \in [Ids -> MuxSet] : /\ m2 = muxes' /\ \A k \in Ids : k # m => m2[k] = muxes[k]
                                     /\ m2[m].ref = muxes[m].ref + 1 /\ m2[m].listener = muxes[m].listener /\ m2[m].port = muxes[m].port
  <2>1. PICK o \in MuxSet : o = muxes[m]
    BY <1>2 DEF TypesAreRight
  <2>2. PICK r : r = [o EXCEPT !.ref = o.ref + 1]
    OBVIOUS
  <2>3. o.ref + 1 \in Nat
    BY <2>1 DEF MuxSet
  <2>4. r \in MuxSet /\ r.ref = o.ref + 1 /\ r.listener = o.listener /\ r.port = o.port
    BY <2>2, <2>3 DEF MuxSet
  <2>5. muxes' = [muxes EXCEPT ![m] = r] /\ muxes \in [Ids -> MuxSet]
    BY <1>2, <1>4, <2>1, <2>2 DEF TypesAreRight
  <2> QED BY <2>1, <2>4, <2>5
<1>12. PICK w2 \in [Ids -> WorkerSet] : /\ w2 = workers' /\ \A k \in Ids : k # m => w2[k] = workers[k]
                                        /\ w2[m].at = "listed" /\ w2[m].ns = n /\ w2[m].ls = l
  <2>1. PICK o \in WorkerSet : o = workers[m]
    BY <1>2 DEF TypesAreRight
  <2>2. PICK r : r = [o EXCEPT !.at = "listed"]
    OBVIOUS
  <2>3. r \in WorkerSet /\ r.at = "listed" /\ r.ns = o.ns /\ r.ls = o.ls
    BY <2>2 DEF WorkerSet
  <2>4. workers' = [workers EXCEPT ![m] = r] /\ workers \in [Ids -> WorkerSet]
    BY <1>2, <1>4, <2>1, <2>2 DEF TypesAreRight
  <2> QED BY <1>3, <2>1, <2>3, <2>4
<1>13. muxes[m].ref > 0
  <2>1. l \in Users(sockets, m)
    BY <1>6 DEF Users, AliveIn
  <2>2. muxes[m].ref # 0
    BY <1>1, <2>1, UsersAre, FS_EmptySet DEF Good, MuxesAreRight
  <2> QED BY <1>2, <2>2 DEF TypesAreRight, MuxSet
<1>14. MuxesAreRight(st, m2)
  <2>1. sockets[n].mux = 0
    BY <1>6, SocketFacts DEF Sane
  <2>2. Joins(sockets, muxes, st, m2, n, m)
    BY <1>6, <1>9, <1>10, <1>11, <1>13, <2>1 DEF Joins
  <2> QED BY <1>1, <1>6, <2>2, MuxGrows
<1>15. TypesAreRight(st, m2, seed, w2, accepts, closes, gc)
  BY <1>2 DEF TypesAreRight
<1>16. AllSane(st, closes)
  <2> SUFFICES ASSUME NEW j \in Ids PROVE Sane(st[j], j \in closes)
    BY DEF AllSane
  <2>1. CASE j = n
    BY <1>6, <1>9, <1>10, <2>1 DEF Sane
  <2>2. CASE j # n
    BY <1>10, <2>2, SocketFacts
  <2> QED BY <2>1, <2>2
<1>17. SeedIsNext(st, seed)
  BY <1>1, <1>6, <1>9, <1>10 DEF Good, SeedIsNext
<1>18. PortsDiffer(m2)
  <2>1. \A k \in Ids : m2[k].port = muxes[k].port /\ (m2[k].ref > 0 => muxes[k].ref > 0)
    BY <1>11, <1>13
  <2> QED BY <1>1, <2>1 DEF Good, PortsDiffer
<1>19. WorkersAreRight(st, m2, w2, closes)
  <2> SUFFICES ASSUME NEW c \in Ids
               PROVE  IF w2[c].at = "idle" THEN w2[c].ns = 0 /\ w2[c].ls = 0
                      ELSE WorkerIsRight(st, m2, w2, closes, c, w2[c].ns, w2[c].ls)
    BY DEF WorkersAreRight
  <2>1. CASE c = m
    <3>1. \A k \in Ids : n \notin st[k].queue /\ n \notin st[k].accepted
      BY <1>6, <1>9, <1>10
    <3>2. \A k \in Ids : w2[k].ns = n => k = m
      BY <1>6, <1>12
    <3>3. /\ st[n].listener = l /\ ~st[n].broken /\ st[l].place \in {"listed", "closed"} /\ st[l].mux = m
          /\ st[l].place = "closed" => ~st[l].old
      BY <1>6, <1>9, <1>10
    <3>4. ListensFor(st, m, l)
      BY <1>6, <3>3 DEF ListensFor
    <3>5. NewIsRight(st, m2, w2, closes, m, n, l)
      BY <1>6, <1>9, <1>10, <1>12, <3>1, <3>2, <3>3 DEF NewIsRight
    <3>6. WorkerIsRight(st, m2, w2, closes, m, n, l)
      BY <1>12, <3>4, <3>5 DEF WorkerIsRight, Replaces
    <3> QED BY <1>12, <2>1, <3>6
  <2>2. CASE c # m /\ workers[c].at # "idle"
    <3>1. PICK a, b : a = workers[c].ns /\ b = workers[c].ls /\ WorkerIsRight(sockets, muxes, workers, closes, c, a, b)
      BY <2>2, WorkerFacts
    <3>2. w2[c] = workers[c] /\ b \in Ids /\ ListensFor(sockets, c, b) /\ a # n
      BY <1>6, <1>12, <2>2, <3>1 DEF WorkerIsRight, ListensFor
    <3>3. ListensFor(st, c, b)
      BY <1>6, <1>10, <3>2 DEF ListensFor
    <3>4. muxes[c].port # muxes[m].port
      <4>1. b \in Users(sockets, c)
        BY <3>2 DEF ListensFor, Users, AliveIn
      <4>2. muxes[c].ref # 0
        BY <1>1, <4>1, UsersAre, FS_EmptySet DEF Good, MuxesAreRight
      <4>3. muxes[c].ref > 0
        BY <1>2, <4>2 DEF TypesAreRight, MuxSet
      <4> QED BY <1>1, <1>13, <2>2, <4>3 DEF Good, PortsDiffer
    <3>5. m2[c].port = muxes[c].port
      BY <1>11
    <3>6. \A q \in Peers : muxes[c].port = PortOf[q] => q # p
      BY <1>7, <3>4 DEF MakesFor
    <3>7. \A q \in Peers : q # p => \A j \in Ids : st[j].peer = {q} => j # n /\ st[j] = sockets[j]
      BY <1>9, <1>10
    <3>8. ASSUME Makes(workers[c]) PROVE NewIsRight(st, m2, w2, closes, c, a, b)
      <4>1. NewIsRight(sockets, muxes, workers, closes, c, a, b)
        BY <3>1, <3>8 DEF WorkerIsRight
      <4>2. a \in Ids /\ st[a] = sockets[a]
        BY <1>10, <3>2, <4>1 DEF NewIsRight
      <4>3. \A k \in Ids : w2[k].ns = a => k = c
        BY <1>12, <3>2, <4>1 DEF NewIsRight
      <4>4. \A k \in Ids : a \notin st[k].queue /\ a \notin st[k].accepted
        BY <1>9, <1>10, <4>1 DEF NewIsRight
      <4>5. ASSUME NEW q \in Peers, MakesFor(sockets, muxes, q, c, a) PROVE MakesFor(st, m2, q, c, a)
        <5>1. q # p
          BY <3>6, <4>5 DEF MakesFor
        <5> QED BY <3>5, <3>7, <4>2, <4>5, <5>1 DEF MakesFor
      <4> QED BY <3>2, <4>1, <4>2, <4>3, <4>4, <4>5 DEF NewIsRight
    <3>9. ASSUME Replaces(workers[c]) PROVE GoneIsRight(st, m2, c, a)
      <4>1. GoneIsRight(sockets, muxes, c, a)
        BY <3>1, <3>9 DEF WorkerIsRight
      <4>2. a \in Ids /\ st[a] = sockets[a]
        BY <1>10, <3>2, <4>1 DEF GoneIsRight
      <4>3. ASSUME NEW q \in Peers, HasNone(sockets, muxes, q, c, a) PROVE HasNone(st, m2, q, c, a)
        <5>1. q # p
          BY <3>6, <4>3 DEF HasNone
        <5> QED BY <3>5, <3>7, <4>2, <4>3, <5>1 DEF HasNone
      <4> QED BY <4>1, <4>2, <4>3 DEF GoneIsRight
    <3>10. WorkerIsRight(st, m2, w2, closes, c, a, b)
      BY <3>1, <3>2, <3>3, <3>8, <3>9 DEF WorkerIsRight
    <3> QED BY <2>2, <3>1, <3>2, <3>10
  <2>3. CASE c # m /\ workers[c].at = "idle"
    BY <1>1, <1>12, <2>3 DEF Good, WorkersAreRight
  <2> QED BY <2>1, <2>2, <2>3
<1>20. NewestIsUp(st)
  <2> SUFFICES ASSUME NEW i \in Ids, NEW j \in Ids, st[i].place = "listed", st[j].place = "listed", i < j,
                      st[i].peer = st[j].peer, st[i].peer # {}
               PROVE  st[j].broken
    BY DEF NewestIsUp
  <2>1. CASE i = n
    <3>1. j # n /\ st[j] = sockets[j] /\ sockets[j].peer = {p}
      BY <1>9, <1>10, <2>1, IdsAre
    <3> QED BY <1>7, <3>1 DEF MakesFor
  <2>2. CASE j = n
    <3>0. i \in Int /\ n \in Int /\ i < n
      BY <1>6, <2>2, IdsAre
    <3>1. i # n /\ st[i] = sockets[i] /\ sockets[i].peer = {p}
      BY <1>9, <1>10, <2>2, <3>0
    <3>2. n < i
      BY <1>7, <3>1 DEF MakesFor
    <3> QED BY <3>0, <3>2
  <2>3. CASE i # n /\ j # n
    BY <1>1, <1>10, <2>3 DEF Good, NewestIsUp
  <2> QED BY <2>1, <2>2, <2>3
<1>21. QueuesAreRight(st, closes)
  <2> SUFFICES ASSUME NEW k \in Ids
               PROVE  /\ \A q \in st[k].queue : st[q].place = "listed" /\ st[q].listener = k /\ q \notin closes /\ q \notin st[k].accepted
                      /\ \A a \in st[k].accepted : st[a].place # "none"
    BY DEF QueuesAreRight
  <2>1. CASE k = n
    BY <1>9, <1>10, <2>1
  <2>2. CASE k # n
    <3>1. st[k] = sockets[k] /\ sockets[k].queue \in SUBSET Ids /\ sockets[k].accepted \in SUBSET Ids
      BY <1>2, <1>10, <2>2 DEF TypesAreRight, SocketSet
    <3>2. \A q \in sockets[k].queue \union sockets[k].accepted : st[q] = sockets[q]
      BY <1>6, <1>10, <3>1
    <3> QED BY <1>1, <3>1, <3>2 DEF Good, QueuesAreRight
  <2> QED BY <2>1, <2>2
<1>22. NobodyIsLost(st, w2)
  <2> SUFFICES ASSUME NEW j \in Ids, st[j].place = "listed", st[j].status # "closed", st[j].listener # 0
               PROVE  \/ j \in st[st[j].listener].queue \/ j \in st[st[j].listener].accepted
                      \/ \E k \in Ids : w2[k].at = "listed" /\ w2[k].ns = j
    BY DEF NobodyIsLost
  <2>1. CASE j = n
    BY <1>12, <2>1
  <2>2. CASE j # n
    <3>1. st[j] = sockets[j]
      BY <1>10, <2>2
    <3>2. PICK b \in Ids : b = sockets[j].listener
      BY <1>2, <3>1 DEF TypesAreRight, SocketSet, IdsOrNone
    <3>3. j \in sockets[b].queue \/ j \in sockets[b].accepted \/ \E k \in Ids : workers[k].at = "listed" /\ workers[k].ns = j
      BY <1>1, <3>1, <3>2 DEF Good, NobodyIsLost
    <3>4. (j \in sockets[b].queue => j \in st[b].queue) /\ (j \in sockets[b].accepted => j \in st[b].accepted)
      <4>1. CASE b = n
        <5>1. sockets[n].queue = {} /\ sockets[n].accepted = {}
          BY <1>6, SocketFacts DEF Sane
        <5> QED BY <4>1, <5>1
      <4>2. CASE b # n
        BY <1>10, <4>2
      <4> QED BY <4>1, <4>2
    <3>5. \A k \in Ids : workers[k].at = "listed" => w2[k] = workers[k]
      BY <1>4, <1>12
    <3> QED BY <3>1, <3>2, <3>3, <3>4, <3>5
  <2> QED BY <2>1, <2>2
<1>23. SleepersAreRight(st, workers, accepts, gc)
  <2>1. SleepersAreRight(sockets, workers, accepts, gc)
    BY <1>1 DEF Good
  <2>2. \A k \in Ids : WaitingIn(accepts, k) # {} /\ gc = "running" => k # n
    BY <1>6, <2>1 DEF SleepersAreRight
  <2> QED BY <1>2, <1>10, <2>1, <2>2, SleepersStay DEF TypesAreRight
<1>26. SleepersAreRight(st, w2, accepts, gc)
  <2>1. \A k \in Ids : w2[k].at = "queued" <=> workers[k].at = "queued"
    BY <1>4, <1>12
  <2>2. \A k \in Ids : w2[k].at = "queued" => w2[k] = workers[k]
    BY <1>12
  <2>3. \A k : QueuedIn(w2, k) = QueuedIn(workers, k)
    BY <2>1, <2>2 DEF QueuedIn
  <2>4. \A k : Roused(w2, accepts, k) = Roused(workers, accepts, k)
    BY <2>3 DEF Roused
  <2> QED BY <1>23, <2>4 DEF SleepersAreRight
<1>24. EndIsRight(st, w2, gc)
  BY <1>8 DEF EndIsRight
<1>25. Good(st, m2, seed, w2, accepts, closes, gc)
  BY <1>14, <1>15, <1>16, <1>17, <1>18, <1>19, <1>20, <1>21, <1>22, <1>24, <1>26 DEF Good
<1> QED BY <1>4, <1>10, <1>11, <1>12, <1>25 DEF SocketsInv

\* A socket that is one more in the queue, and one more who is about to wake somebody.
LEMMA OneMore ==
  ASSUME NEW Q \in SUBSET Ids, NEW n \in Ids, n \notin Q, NEW W, IsFiniteSet(W), NEW V, IsFiniteSet(V), NEW m, m \notin V,
         Cardinality(Q) <= Cardinality(W) + Cardinality(V)
  PROVE  Cardinality(Q \union {n}) <= Cardinality(W) + Cardinality(V \union {m})
<1>1. IsFiniteSet(Q)
  BY IdsAre, FS_Subset
<1>2. Cardinality(Q \union {n}) = Cardinality(Q) + 1 /\ Cardinality(V \union {m}) = Cardinality(V) + 1
  BY <1>1, FS_AddElement
<1>3. PICK a \in Nat, b \in Nat, c \in Nat : a = Cardinality(Q) /\ b = Cardinality(W) /\ c = Cardinality(V)
  BY <1>1, FS_CardinalityType
<1> QED BY <1>2, <1>3

\* It is put in the queue of its listener.
LEMMA EnqueueKeeps == ASSUME SocketsInv, NEW m \in Ids, Enqueue(m) PROVE SocketsInv'
<1>1. Good(sockets, muxes, seed, workers, accepts, closes, gc)
  BY DEF SocketsInv
<1>2. TypesAreRight(sockets, muxes, seed, workers, accepts, closes, gc)
  BY <1>1 DEF Good
<1>3. PICK n, l : n = workers[m].ns /\ l = workers[m].ls
  OBVIOUS
<1>4. /\ workers[m].at = "listed" /\ UNCHANGED <<muxes, seed, accepts, closes, gc>>
      /\ sockets' = [sockets EXCEPT ![l].queue = @ \union {n}]
      /\ workers' = [workers EXCEPT ![m] = [at |-> "queued", ls |-> l, ns |-> 0]]
  BY <1>3 DEF Enqueue
<1>5. WorkerIsRight(sockets, muxes, workers, closes, m, n, l)
  BY <1>3, <1>4, WorkerFacts
<1>6. /\ n \in Ids /\ l \in Ids /\ sockets[n].listener = l /\ ~sockets[n].broken /\ n \notin closes
      /\ sockets[l].place \in {"listed", "closed"}
      /\ \A k \in Ids : n \notin sockets[k].queue /\ n \notin sockets[k].accepted
      /\ \A k \in Ids : workers[k].ns = n => k = m
      /\ sockets[n].place = "listed" /\ ListensFor(sockets, m, l)
  BY <1>4, <1>5 DEF WorkerIsRight, ListensFor, NewIsRight, Makes
<1>7. gc = "running"
  BY <1>1, <1>4 DEF Good, EndIsRight
<1>8. PICK o \in SocketSet : o = sockets[l] /\ Sane(o, l \in closes)
  BY <1>6, SocketFacts
<1>9. PICK s \in SocketSet :
        /\ sockets' = [sockets EXCEPT ![l] = s] /\ Alike(s, o) /\ s.status = o.status /\ s.old = o.old
        /\ s.queue = o.queue \union {n} /\ s.accepted = o.accepted /\ Sane(s, l \in closes)
  <2>1. PICK s : s = [o EXCEPT !.queue = o.queue \union {n}]
    OBVIOUS
  <2>2. o.queue \union {n} \in SUBSET Ids
    BY <1>6, <1>8 DEF SocketSet
  <2>3. s \in SocketSet /\ Alike(s, o) /\ s.status = o.status /\ s.old = o.old /\ s.queue = o.queue \union {n} /\ s.accepted = o.accepted
    BY <2>1, <2>2 DEF SocketSet, Alike
  <2>4. sockets' = [sockets EXCEPT ![l] = s]
    BY <1>4, <1>6, <1>8, <2>1, SocketFacts
  <2>5. o.place \in {"listed", "closed"}
    BY <1>6, <1>8
  <2>6. Sane(s, l \in closes)
    BY <1>8, <2>3, <2>5 DEF Sane, Alike
  <2> QED BY <2>3, <2>4, <2>6
<1>10. PICK st \in [Ids -> SocketSet] : st = sockets' /\ st[l] = s /\ \A j \in Ids : j # l => st[j] = sockets[j]
  BY <1>6, <1>9, SocketFacts
<1>11. \A j \in Ids : /\ Alike(st[j], sockets[j]) /\ st[j].status = sockets[j].status /\ st[j].old = sockets[j].old
                      /\ st[j].accepted = sockets[j].accepted /\ st[j].queue = (IF j = l THEN sockets[j].queue \union {n} ELSE sockets[j].queue)
  <2> SUFFICES ASSUME NEW j \in Ids
               PROVE  /\ Alike(st[j], sockets[j]) /\ st[j].status = sockets[j].status /\ st[j].old = sockets[j].old
                      /\ st[j].accepted = sockets[j].accepted /\ st[j].queue = (IF j = l THEN sockets[j].queue \union {n} ELSE sockets[j].queue)
    OBVIOUS
  <2>1. CASE j = l
    BY <1>8, <1>9, <1>10, <2>1
  <2>2. CASE j # l
    BY <1>10, <2>2 DEF Alike
  <2> QED BY <2>1, <2>2
<1>12. PICK w2 \in [Ids -> WorkerSet] : /\ w2 = workers' /\ \A k \in Ids : k # m => w2[k] = workers[k]
                                        /\ w2[m].at = "queued" /\ w2[m].ns = 0 /\ w2[m].ls = l
  <2>1. PICK w : w = [at |-> "queued", ls |-> l, ns |-> 0]
    OBVIOUS
  <2>2. w \in WorkerSet /\ w.at = "queued" /\ w.ns = 0 /\ w.ls = l
    BY <1>6, <2>1 DEF WorkerSet, IdsOrNone
  <2>3. workers \in [Ids -> WorkerSet] /\ workers' = [workers EXCEPT ![m] = w]
    BY <1>2, <1>4, <2>1 DEF TypesAreRight
  <2> QED BY <2>2, <2>3
<1>14. TypesAreRight(st, muxes, seed, w2, accepts, closes, gc)
  BY <1>2 DEF TypesAreRight
<1>15. AllSane(st, closes)
  <2> SUFFICES ASSUME NEW j \in Ids PROVE Sane(st[j], j \in closes)
    BY DEF AllSane
  <2>1. CASE j = l
    BY <1>9, <1>10, <2>1
  <2>2. CASE j # l
    BY <1>10, <2>2, SocketFacts
  <2> QED BY <2>1, <2>2
<1>16. SeedIsNext(st, seed)
  BY <1>1, <1>11, ZenonT(60) DEF Good, SeedIsNext, Alike
<1>17. WorkersAreRight(st, muxes, w2, closes)
  <2> SUFFICES ASSUME NEW c \in Ids
               PROVE  IF w2[c].at = "idle" THEN w2[c].ns = 0 /\ w2[c].ls = 0
                      ELSE WorkerIsRight(st, muxes, w2, closes, c, w2[c].ns, w2[c].ls)
    BY DEF WorkersAreRight
  <2>1. CASE c = m
    <3>1. ListensFor(st, m, l)
      BY <1>6, <1>11 DEF ListensFor, Alike
    <3>2. WorkerIsRight(st, muxes, w2, closes, m, 0, l)
      BY <1>12, <3>1 DEF WorkerIsRight, Makes, Replaces
    <3> QED BY <1>12, <2>1, <3>2
  <2>2. CASE c # m /\ workers[c].at # "idle"
    <3>1. PICK a, b : a = workers[c].ns /\ b = workers[c].ls /\ WorkerIsRight(sockets, muxes, workers, closes, c, a, b)
      BY <2>2, WorkerFacts
    <3>2. w2[c] = workers[c] /\ a # n
      BY <1>6, <1>12, <2>2, <3>1
    <3>3. ListensFor(st, c, b)
      BY <1>11, <3>1 DEF WorkerIsRight, ListensFor, Alike
    <3>4. ASSUME Makes(workers[c]) PROVE NewIsRight(st, muxes, w2, closes, c, a, b)
      <4>1. NewIsRight(sockets, muxes, workers, closes, c, a, b)
        BY <3>1, <3>4 DEF WorkerIsRight
      <4>2. a \in Ids /\ a # 0
        BY <4>1, IdsAre DEF NewIsRight
      <4>3. ASSUME NEW k \in Ids, w2[k].ns = a PROVE k = c
        <5>1. k # m
          BY <1>12, <4>2, <4>3
        <5> QED BY <1>12, <4>1, <4>3, <5>1 DEF NewIsRight
      <4>4. ASSUME NEW k \in Ids PROVE a \notin st[k].queue /\ a \notin st[k].accepted
        <5>1. st[k].accepted = sockets[k].accepted /\ (st[k].queue = sockets[k].queue \/ st[k].queue = sockets[k].queue \union {n})
          BY <1>11
        <5> QED BY <3>2, <4>1, <5>1 DEF NewIsRight
      <4>5. ASSUME NEW q \in Peers, MakesFor(sockets, muxes, q, c, a) PROVE MakesFor(st, muxes, q, c, a)
        BY <1>11, <4>2, <4>5, ZenonT(60) DEF MakesFor, Alike
      <4>6. Alike(st[a], sockets[a])
        BY <1>11, <4>2
      <4> QED BY <3>2, <4>1, <4>3, <4>4, <4>5, <4>6 DEF NewIsRight, Alike
    <3>5. ASSUME Replaces(workers[c]) PROVE GoneIsRight(st, muxes, c, a)
      <4>1. GoneIsRight(sockets, muxes, c, a)
        BY <3>1, <3>5 DEF WorkerIsRight
      <4>2. a \in Ids /\ Alike(st[a], sockets[a])
        BY <1>11, <4>1 DEF GoneIsRight
      <4>3. ASSUME NEW q \in Peers, HasNone(sockets, muxes, q, c, a) PROVE HasNone(st, muxes, q, c, a)
        BY <1>11, <4>2, <4>3, ZenonT(60) DEF HasNone, Alike
      <4> QED BY <4>1, <4>2, <4>3 DEF GoneIsRight, Alike
    <3>6. WorkerIsRight(st, muxes, w2, closes, c, a, b)
      BY <3>1, <3>2, <3>3, <3>4, <3>5 DEF WorkerIsRight
    <3> QED BY <2>2, <3>1, <3>2, <3>6
  <2>3. CASE c # m /\ workers[c].at = "idle"
    BY <1>1, <1>12, <2>3 DEF Good, WorkersAreRight
  <2> QED BY <2>1, <2>2, <2>3
<1>18. NewestIsUp(st)
  <2>1. \A j \in Ids : st[j].place = sockets[j].place /\ st[j].peer = sockets[j].peer /\ st[j].broken = sockets[j].broken
    BY <1>11 DEF Alike
  <2> QED BY <1>1, <2>1 DEF Good, NewestIsUp
<1>19. QueuesAreRight(st, closes)
  <2> SUFFICES ASSUME NEW k \in Ids
               PROVE  /\ \A q \in st[k].queue : st[q].place = "listed" /\ st[q].listener = k /\ q \notin closes /\ q \notin st[k].accepted
                      /\ \A a \in st[k].accepted : st[a].place # "none"
    BY DEF QueuesAreRight
  <2>1. sockets[k].queue \in SUBSET Ids /\ sockets[k].accepted \in SUBSET Ids /\ st[k].accepted = sockets[k].accepted
    BY <1>2, <1>11 DEF TypesAreRight, SocketSet
  <2>2. \A q \in Ids : st[q].place = sockets[q].place /\ st[q].listener = sockets[q].listener
    BY <1>11 DEF Alike
  <2>3. \A a \in st[k].accepted : st[a].place # "none"
    BY <1>1, <2>1, <2>2 DEF Good, QueuesAreRight
  <2>4. ASSUME NEW q \in st[k].queue PROVE st[q].place = "listed" /\ st[q].listener = k /\ q \notin closes /\ q \notin st[k].accepted
    <3>1. q \in sockets[k].queue \/ (q = n /\ k = l)
      BY <1>11
    <3>2. CASE q \in sockets[k].queue
      BY <1>1, <2>1, <2>2, <3>2 DEF Good, QueuesAreRight
    <3>3. CASE q = n /\ k = l
      BY <1>6, <2>1, <2>2, <3>3
    <3> QED BY <3>1, <3>2, <3>3
  <2> QED BY <2>3, <2>4
<1>20. NobodyIsLost(st, w2)
  <2> SUFFICES ASSUME NEW j \in Ids, st[j].place = "listed", st[j].status # "closed", st[j].listener # 0
               PROVE  \/ j \in st[st[j].listener].queue \/ j \in st[st[j].listener].accepted
                      \/ \E k \in Ids : w2[k].at = "listed" /\ w2[k].ns = j
    BY DEF NobodyIsLost
  <2>1. st[j].listener = sockets[j].listener /\ sockets[j].place = "listed" /\ sockets[j].status # "closed"
    BY <1>11 DEF Alike
  <2>2. PICK b \in Ids : b = sockets[j].listener
    BY <1>2, <2>1 DEF TypesAreRight, SocketSet, IdsOrNone
  <2>3. j \in sockets[b].queue \/ j \in sockets[b].accepted \/ \E k \in Ids : workers[k].at = "listed" /\ workers[k].ns = j
    BY <1>1, <2>1, <2>2 DEF Good, NobodyIsLost
  <2>4. (j \in sockets[b].queue => j \in st[b].queue) /\ (j \in sockets[b].accepted => j \in st[b].accepted)
    BY <1>11
  <2>5. ASSUME NEW k \in Ids, workers[k].at = "listed", workers[k].ns = j
        PROVE  j \in st[b].queue \/ (w2[k].at = "listed" /\ w2[k].ns = j)
    <3>1. CASE k = m
      BY <1>3, <1>6, <1>11, <2>2, <2>5, <3>1
    <3>2. CASE k # m
      BY <1>12, <2>5, <3>2
    <3> QED BY <3>1, <3>2
  <2> QED BY <2>1, <2>2, <2>3, <2>4, <2>5
<1>21. SleepersAreRight(st, w2, accepts, gc)
  <2>1. SleepersAreRight(sockets, workers, accepts, gc)
    BY <1>1 DEF Good
  <2>2. ASSUME NEW k \in Ids, WaitingIn(accepts, k) # {}
        PROVE  /\ st[k].place = "listed" /\ st[k].status = "listening" /\ ~st[k].broken
               /\ Cardinality(st[k].queue) <= Roused(w2, accepts, k)
    <3>1. /\ sockets[k].place = "listed" /\ sockets[k].status = "listening" /\ ~sockets[k].broken
          /\ Cardinality(sockets[k].queue) <= Cardinality(WokenIn(accepts, k)) + Cardinality(QueuedIn(workers, k))
      BY <1>7, <2>1, <2>2 DEF SleepersAreRight, Roused
    <3>2. st[k].place = "listed" /\ st[k].status = "listening" /\ ~st[k].broken
      BY <1>11, <3>1 DEF Alike
    <3>3. CASE k # l
      <4>1. QueuedIn(w2, k) = QueuedIn(workers, k)
        BY <1>4, <1>12, <3>3 DEF QueuedIn
      <4>2. st[k] = sockets[k]
        BY <1>10, <3>3
      <4> QED BY <3>1, <3>2, <4>1, <4>2 DEF Roused
    <3>4. CASE k = l
      <4>1. QueuedIn(w2, l) = QueuedIn(workers, l) \union {m} /\ m \notin QueuedIn(workers, l)
        BY <1>4, <1>12 DEF QueuedIn
      <4>2. IsFiniteSet(WokenIn(accepts, l)) /\ IsFiniteSet(QueuedIn(workers, l))
        BY RousedAre
      <4>3. sockets[l].queue \in SUBSET Ids /\ n \notin sockets[l].queue /\ st[l].queue = sockets[l].queue \union {n}
        BY <1>2, <1>6, <1>11 DEF TypesAreRight, SocketSet
      <4>4. Cardinality(sockets[l].queue \union {n}) <= Cardinality(WokenIn(accepts, l)) + Cardinality(QueuedIn(workers, l) \union {m})
        BY <1>6, <3>1, <3>4, <4>1, <4>2, <4>3, OneMore
      <4> QED BY <3>2, <3>4, <4>1, <4>3, <4>4 DEF Roused
    <3> QED BY <3>3, <3>4
  <2> QED BY <2>1, <2>2 DEF SleepersAreRight
<1>22. MuxesAreRight(st, muxes)
  <2>1. \A j \in Ids : st[j].place = sockets[j].place /\ st[j].mux = sockets[j].mux /\ st[j].status = sockets[j].status
    BY <1>11 DEF Alike
  <2>2. \A k \in Ids : Users(st, k) = Users(sockets, k)
    BY <2>1 DEF Users, AliveIn
  <2> QED BY <1>1, <2>1, <2>2 DEF Good, MuxesAreRight
<1>23. EndIsRight(st, w2, gc)
  BY <1>7 DEF EndIsRight
<1>24. PortsDiffer(muxes)
  BY <1>1 DEF Good
<1>25. Good(st, muxes, seed, w2, accepts, closes, gc)
  BY <1>14, <1>15, <1>16, <1>17, <1>18, <1>19, <1>20, <1>21, <1>22, <1>23, <1>24 DEF Good
<1> QED BY <1>4, <1>10, <1>12, <1>25 DEF SocketsInv

\* One who waits is woken.
LEMMA AnnounceKeeps == ASSUME SocketsInv, NEW m \in Ids, Announce(m) PROVE SocketsInv'
<1>1. Good(sockets, muxes, seed, workers, accepts, closes, gc)
  BY DEF SocketsInv
<1>2. /\ workers \in [Ids -> WorkerSet] /\ accepts \in [Acceptors -> AcceptSet]
      /\ SleepersAreRight(sockets, workers, accepts, gc)
  BY <1>1 DEF Good, TypesAreRight
<1>3. PICK l : l = workers[m].ls
  OBVIOUS
<1>4. /\ workers[m].at = "queued" /\ UNCHANGED <<sockets, muxes, seed, closes, gc>>
      /\ workers' = [workers EXCEPT ![m] = IdleWorker] /\ Signal(l)
  BY <1>3 DEF Announce
<1>5. l \in Ids
  BY <1>3, <1>4, WorkerFacts DEF WorkerIsRight, ListensFor
<1>6. PICK w2 : w2 = workers' /\ w2 = [workers EXCEPT ![m] = IdleWorker]
  BY <1>4
<1>7. IdleWorker \in WorkerSet /\ IdleWorker.at = "idle" /\ IdleWorker.ns = 0 /\ IdleWorker.ls = 0
  BY DEF IdleWorker, WorkerSet, IdsOrNone
<1>8. TurnIs(sockets, muxes, workers, closes, gc, m, IdleWorker, w2)
  <2>1. \A k \in Ids : Makes(workers[k]) => workers[k].ns # 0
    BY IdsAre, MakerFacts
  <2> QED BY <1>6, <1>7, <2>1 DEF TurnIs
<1>9. \A k \in Ids : IF k = m THEN w2[k].at = "idle" ELSE w2[k] = workers[k]
  BY <1>2, <1>6, <1>7
<1>10. PICK a2 \in [Acceptors -> AcceptSet] :
         /\ a2 = accepts'
         /\ \/ WaitingIn(accepts, l) = {} /\ a2 = accepts
            \/ \E t \in WaitingIn(accepts, l) : /\ \A u \in Acceptors : u # t => a2[u] = accepts[u]
                                                /\ a2[t].at = "woken" /\ a2[t].ls = l
  <2>1. Waiting(l) = WaitingIn(accepts, l)
    BY DEF Waiting, WaitingIn
  <2>2. CASE Waiting(l) = {} /\ accepts' = accepts
    BY <1>2, <2>1, <2>2
  <2>3. ASSUME NEW t \in Waiting(l), accepts' = [accepts EXCEPT ![t].at = "woken"]
        PROVE  /\ accepts' \in [Acceptors -> AcceptSet] /\ t \in WaitingIn(accepts, l)
               /\ \A u \in Acceptors : u # t => accepts'[u] = accepts[u]
               /\ accepts'[t].at = "woken" /\ accepts'[t].ls = l
    <3>1. PICK x \in AcceptSet : x = accepts[t] /\ x.ls = l /\ t \in Acceptors
      BY <1>2, <2>1 DEF WaitingIn
    <3>2. PICK y : y = [x EXCEPT !.at = "woken"]
      OBVIOUS
    <3>3. y \in AcceptSet /\ y.at = "woken" /\ y.ls = l
      BY <3>1, <3>2 DEF AcceptSet
    <3>4. accepts' = [accepts EXCEPT ![t] = y]
      BY <1>2, <2>3, <3>1, <3>2
    <3> QED BY <1>2, <2>1, <3>1, <3>3, <3>4
  <2>4. (Waiting(l) = {} /\ accepts' = accepts) \/ \E t \in Waiting(l) : accepts' = [accepts EXCEPT ![t].at = "woken"]
    BY <1>4 DEF Signal
  <2> QED BY <2>1, <2>2, <2>3, <2>4
<1>11. SleepersAreRight(sockets, w2, a2, gc)
  <2>1. \A t \in Acceptors : a2[t].at \in {"waiting", "woken"} => a2[t].ls \in Ids
    BY <1>2, <1>5, <1>10 DEF SleepersAreRight
  <2>2. ASSUME gc = "running", NEW k \in Ids, WaitingIn(a2, k) # {}
        PROVE  /\ sockets[k].place = "listed" /\ sockets[k].status = "listening" /\ ~sockets[k].broken
               /\ Cardinality(sockets[k].queue) <= Roused(w2, a2, k)
    <3>1. WaitingIn(accepts, k) # {}
      BY <1>10, <2>2 DEF WaitingIn
    <3>2. /\ sockets[k].place = "listed" /\ sockets[k].status = "listening" /\ ~sockets[k].broken
          /\ Cardinality(sockets[k].queue) <= Roused(workers, accepts, k)
      BY <1>2, <2>2, <3>1 DEF SleepersAreRight
    <3>3. Roused(w2, a2, k) = Roused(workers, accepts, k)
      <4>1. CASE k # l
        <5>1. WokenIn(a2, k) = WokenIn(accepts, k)
          BY <1>10, <4>1 DEF WokenIn, WaitingIn
        <5>2. QueuedIn(w2, k) = QueuedIn(workers, k)
          BY <1>3, <1>9, <4>1 DEF QueuedIn
        <5> QED BY <5>1, <5>2 DEF Roused
      <4>2. CASE k = l
        <5>1. PICK t \in WaitingIn(accepts, l) : /\ \A u \in Acceptors : u # t => a2[u] = accepts[u]
                                                 /\ a2[t].at = "woken" /\ a2[t].ls = l
          BY <1>10, <3>1, <4>2
        <5>2. WokenIn(a2, l) = WokenIn(accepts, l) \union {t} /\ t \notin WokenIn(accepts, l)
          BY <5>1 DEF WokenIn, WaitingIn
        <5>3. QueuedIn(w2, l) = QueuedIn(workers, l) \ {m} /\ m \in QueuedIn(workers, l)
          BY <1>3, <1>4, <1>9 DEF QueuedIn
        <5>4. IsFiniteSet(WokenIn(accepts, l)) /\ IsFiniteSet(QueuedIn(workers, l))
          BY RousedAre
        <5>5. PICK a \in Nat, b \in Nat : a = Cardinality(WokenIn(accepts, l)) /\ b = Cardinality(QueuedIn(workers, l))
          BY <5>4, FS_CardinalityType
        <5>6. Cardinality(WokenIn(a2, l)) = a + 1
          BY <5>2, <5>4, <5>5, FS_AddElement
        <5>7. Cardinality(QueuedIn(w2, l)) = b - 1
          BY <5>3, <5>4, <5>5, FS_RemoveElement
        <5> QED BY <4>2, <5>5, <5>6, <5>7 DEF Roused
      <4> QED BY <4>1, <4>2
    <3> QED BY <3>2, <3>3
  <2> QED BY <2>1, <2>2 DEF SleepersAreRight
<1>12. workers[m].at # "listed"
  BY <1>4
<1>13. Good(sockets, muxes, seed, w2, a2, closes, gc)
  BY ONLY <1>1, <1>8, <1>11, <1>12, m \in Ids, a2 \in [Acceptors -> AcceptSet], WorkerTurns, Zenon
<1> QED BY <1>4, <1>6, <1>10, <1>13 DEF SocketsInv

\* A socket less in the queue, and perhaps somebody less who is woken.
LEMMA OneLess ==
  ASSUME NEW Q \in SUBSET Ids, NEW u \in Q, NEW W, NEW t, IsFiniteSet(W), NEW c \in Nat, Cardinality(Q) <= Cardinality(W) + c
  PROVE  Cardinality(Q \ {u}) <= Cardinality(W \ {t}) + c
<1>1. IsFiniteSet(Q)
  BY IdsAre, FS_Subset
<1>2. Cardinality(Q \ {u}) = Cardinality(Q) - 1
  BY <1>1, FS_RemoveElement
<1>3. PICK a \in Nat, b \in Nat : a = Cardinality(Q) /\ b = Cardinality(W) /\ a <= b + c
  BY <1>1, FS_CardinalityType
<1>4. CASE t \in W
  <2>1. Cardinality(W \ {t}) = Cardinality(W) - 1
    BY <1>4, FS_RemoveElement
  <2> QED BY <1>2, <1>3, <2>1
<1>5. CASE t \notin W
  <2>1. W \ {t} = W
    BY <1>5
  <2> QED BY <1>2, <1>3, <2>1
<1> QED BY <1>4, <1>5

\* A turn of accept on a listener, by a call that has just begun or been woken.
LEMMA TurnKeeps ==
  ASSUME SocketsInv, NEW t \in Acceptors, NEW l \in Ids, AcceptTurn(t, l),
         accepts[t].at = "idle" \/ (accepts[t].at = "woken" /\ accepts[t].ls = l),
         UNCHANGED <<muxes, seed, workers, closes, gc>>
  PROVE  SocketsInv'
<1>1. Good(sockets, muxes, seed, workers, accepts, closes, gc)
  BY DEF SocketsInv
<1>2. TypesAreRight(sockets, muxes, seed, workers, accepts, closes, gc)
  BY <1>1 DEF Good
<1>3. PICK o \in SocketSet : o = sockets[l] /\ Sane(o, l \in closes)
  BY SocketFacts
<1>4. accepts \in [Acceptors -> AcceptSet] /\ gc \in {"running", "clearing", "ended"} /\ SleepersAreRight(sockets, workers, accepts, gc)
      /\ EndIsRight(sockets, workers, gc)
  BY <1>1, <1>2 DEF Good, TypesAreRight
<1>5. ASSUME NEW x \in AcceptSet, x.at \in {"idle", "popped"} \/ (x.at = "waiting" /\ x.ls = l), NEW a2, a2 = [accepts EXCEPT ![t] = x]
      PROVE  /\ a2 \in [Acceptors -> AcceptSet]
             /\ \A u \in Acceptors : a2[u].at \in {"waiting", "woken"} => a2[u].ls \in Ids
             /\ \A k \in Ids : k # l => WaitingIn(a2, k) = WaitingIn(accepts, k) /\ WokenIn(a2, k) = WokenIn(accepts, k)
             /\ WokenIn(a2, l) = WokenIn(accepts, l) \ {t} /\ IsFiniteSet(WokenIn(a2, l))
             /\ x.at # "waiting" => WaitingIn(a2, l) = WaitingIn(accepts, l)
             /\ \A k \in Ids : k # l => Roused(workers, a2, k) = Roused(workers, accepts, k)
  <2>1. a2 \in [Acceptors -> AcceptSet] /\ a2[t] = x /\ \A u \in Acceptors : u # t => a2[u] = accepts[u]
    BY <1>4, <1>5
  <2>2. \A u \in Acceptors : a2[u].at \in {"waiting", "woken"} => a2[u].ls \in Ids
    BY <1>4, <1>5, <2>1 DEF SleepersAreRight
  <2>3. \A k \in Ids : k # l => WaitingIn(a2, k) = WaitingIn(accepts, k) /\ WokenIn(a2, k) = WokenIn(accepts, k)
    BY <1>5, <2>1 DEF WaitingIn, WokenIn
  <2>4. WokenIn(a2, l) = WokenIn(accepts, l) \ {t}
    BY <1>5, <2>1 DEF WokenIn
  <2>5. IsFiniteSet(WokenIn(a2, l))
    BY SocketsAssumption, FS_Subset DEF WokenIn
  <2>6. x.at # "waiting" => WaitingIn(a2, l) = WaitingIn(accepts, l)
    BY <1>5, <2>1 DEF WaitingIn
  <2>7. \A k \in Ids : k # l => Roused(workers, a2, k) = Roused(workers, accepts, k)
    BY <2>3 DEF Roused
  <2> QED BY <2>1, <2>2, <2>3, <2>4, <2>5, <2>6, <2>7
<1>6. ASSUME o.status # "listening" \/ o.broken, accepts' = [accepts EXCEPT ![t] = IdleAccept], sockets' = sockets PROVE SocketsInv'
  <2>1. PICK x \in AcceptSet : x = IdleAccept /\ x.at = "idle"
    <3>1. PICK x : x = [at |-> "idle", ls |-> 0, u |-> 0] /\ x = IdleAccept
      BY DEF IdleAccept
    <3> QED BY <3>1 DEF AcceptSet, IdsOrNone
  <2>2. PICK a2 : a2 = accepts'
    OBVIOUS
  <2>3. a2 = [accepts EXCEPT ![t] = x]
    BY <1>6, <2>1, <2>2
  <2>4. SleepersAreRight(sockets, workers, a2, gc)
    <3>1. gc = "running" => WaitingIn(accepts, l) = {}
      BY <1>3, <1>4, <1>6 DEF SleepersAreRight
    <3>2. /\ \A u \in Acceptors : a2[u].at \in {"waiting", "woken"} => a2[u].ls \in Ids
          /\ \A k \in Ids : k # l => WaitingIn(a2, k) = WaitingIn(accepts, k) /\ Roused(workers, a2, k) = Roused(workers, accepts, k)
          /\ WaitingIn(a2, l) = WaitingIn(accepts, l)
      BY <1>5, <2>1, <2>3
    <3> QED BY <1>4, <3>1, <3>2 DEF SleepersAreRight
  <2>5. a2 \in [Acceptors -> AcceptSet]
    BY <1>5, <2>1, <2>3
  <2>6. Good(sockets, muxes, seed, workers, a2, closes, gc)
    BY ONLY SocketsInv, <1>4, <2>4, <2>5, CallsKeep
  <2> QED BY <1>6, <2>2, <2>6 DEF SocketsInv
<1>7. ASSUME o.status = "listening", ~o.broken, o.queue = {},
             accepts' = [accepts EXCEPT ![t] = [at |-> "waiting", ls |-> l, u |-> 0]], sockets' = sockets
      PROVE  SocketsInv'
  <2>1. PICK x \in AcceptSet : x = [at |-> "waiting", ls |-> l, u |-> 0] /\ x.at = "waiting" /\ x.ls = l
    <3>1. PICK x : x = [at |-> "waiting", ls |-> l, u |-> 0]
      OBVIOUS
    <3> QED BY <3>1 DEF AcceptSet, IdsOrNone
  <2>2. PICK a2 : a2 = accepts'
    OBVIOUS
  <2>3. a2 = [accepts EXCEPT ![t] = x]
    BY <1>7, <2>1, <2>2
  <2>4. SleepersAreRight(sockets, workers, a2, gc)
    <3>1. o.place = "listed"
      BY <1>3, <1>7 DEF Sane
    <3>2. Cardinality(sockets[l].queue) <= Roused(workers, a2, l)
      <4>1. Cardinality(sockets[l].queue) = 0
        BY <1>3, <1>7, FS_EmptySet
      <4>2. Cardinality(WokenIn(a2, l)) \in Nat /\ Cardinality(QueuedIn(workers, l)) \in Nat
        BY RousedAre, FS_CardinalityType
      <4> QED BY <4>1, <4>2 DEF Roused
    <3>3. sockets[l].place = "listed" /\ sockets[l].status = "listening" /\ ~sockets[l].broken
      BY <1>3, <1>7, <3>1
    <3>4. \A k \in Ids : k # l => WaitingIn(a2, k) = WaitingIn(accepts, k) /\ Roused(workers, a2, k) = Roused(workers, accepts, k)
      BY <1>5, <2>1, <2>3
    <3>5. \A u \in Acceptors : a2[u].at \in {"waiting", "woken"} => a2[u].ls \in Ids
      BY <1>5, <2>1, <2>3
    <3> QED BY <1>4, <3>2, <3>3, <3>4, <3>5 DEF SleepersAreRight
  <2>5. a2 \in [Acceptors -> AcceptSet]
    BY <1>5, <2>1, <2>3
  <2>6. Good(sockets, muxes, seed, workers, a2, closes, gc)
    BY ONLY SocketsInv, <1>4, <2>4, <2>5, CallsKeep
  <2> QED BY <1>7, <2>2, <2>6 DEF SocketsInv
<1>8. ASSUME o.status = "listening", ~o.broken, o.queue # {}, NEW u, u = Min(o.queue),
             sockets' = [sockets EXCEPT ![l].queue = @ \ {u}, ![l].accepted = @ \union {u}],
             accepts' = [accepts EXCEPT ![t] = [at |-> "popped", ls |-> l, u |-> u]]
      PROVE  SocketsInv'
  <2>1. u \in Ids /\ u \in o.queue /\ o.queue \in SUBSET Ids /\ o.accepted \in SUBSET Ids
    <3>1. o.queue \in SUBSET Ids /\ o.accepted \in SUBSET Ids
      BY <1>3 DEF SocketSet
    <3>2. Min(o.queue) \in o.queue
      BY ONLY <1>8, <3>1, LeastIs
    <3> QED BY <1>8, <3>1, <3>2
  <2>2. PICK x \in AcceptSet : x = [at |-> "popped", ls |-> l, u |-> u] /\ x.at = "popped"
    <3>1. PICK x : x = [at |-> "popped", ls |-> l, u |-> u]
      OBVIOUS
    <3> QED BY <2>1, <3>1 DEF AcceptSet, IdsOrNone
  <2>3. PICK a2 : a2 = accepts' /\ a2 = [accepts EXCEPT ![t] = x]
    BY <1>8, <2>2
  <2>4. PICK s \in SocketSet : /\ sockets' = [sockets EXCEPT ![l] = s] /\ Alike(s, o) /\ s.status = o.status /\ s.old = o.old
                               /\ s.queue = o.queue \ {u} /\ s.accepted = o.accepted \union {u}
    <3>1. PICK s : s = [o EXCEPT !.queue = o.queue \ {u}, !.accepted = o.accepted \union {u}]
      OBVIOUS
    <3>2. o.queue \ {u} \in SUBSET Ids /\ o.accepted \union {u} \in SUBSET Ids
      BY <2>1
    <3>3. s \in SocketSet /\ Alike(s, o) /\ s.status = o.status /\ s.old = o.old /\ s.queue = o.queue \ {u} /\ s.accepted = o.accepted \union {u}
      BY <3>1, <3>2 DEF SocketSet, Alike
    <3>4. sockets' = [sockets EXCEPT ![l] = s]
      BY <1>3, <1>8, <3>1, SocketFacts
    <3> QED BY <3>3, <3>4
  <2>5. PICK st \in [Ids -> SocketSet] : st = sockets' /\ st[l] = s /\ \A j \in Ids : j # l => st[j] = sockets[j]
    BY <2>4, SocketFacts
  <2>6. \A j \in Ids : /\ Alike(st[j], sockets[j]) /\ st[j].status = sockets[j].status /\ st[j].old = sockets[j].old
                       /\ st[j].accepted = (IF j = l THEN sockets[j].accepted \union {u} ELSE sockets[j].accepted)
                       /\ st[j].queue = (IF j = l THEN sockets[j].queue \ {u} ELSE sockets[j].queue)
    <3> SUFFICES ASSUME NEW j \in Ids
                 PROVE  /\ Alike(st[j], sockets[j]) /\ st[j].status = sockets[j].status /\ st[j].old = sockets[j].old
                        /\ st[j].accepted = (IF j = l THEN sockets[j].accepted \union {u} ELSE sockets[j].accepted)
                        /\ st[j].queue = (IF j = l THEN sockets[j].queue \ {u} ELSE sockets[j].queue)
      OBVIOUS
    <3>1. CASE j = l
      BY <1>3, <2>4, <2>5, <3>1
    <3>2. CASE j # l
      BY <2>5, <3>2 DEF Alike
    <3> QED BY <3>1, <3>2
  <2>7. \A j \in Ids : /\ st[j].place = sockets[j].place /\ st[j].mux = sockets[j].mux /\ st[j].status = sockets[j].status
                       /\ st[j].listener = sockets[j].listener /\ st[j].peer = sockets[j].peer /\ st[j].broken = sockets[j].broken
    BY <2>6 DEF Alike
  <2>8. o.place = "listed" /\ sockets[u].place = "listed"
    BY <1>1, <1>3, <1>8, <2>1 DEF Sane, Good, QueuesAreRight
  <2>9. a2 \in [Acceptors -> AcceptSet] /\ \A v \in Acceptors : a2[v].at \in {"waiting", "woken"} => a2[v].ls \in Ids
    BY <1>5, <2>2, <2>3
  <2>10. TypesAreRight(st, muxes, seed, workers, a2, closes, gc)
    BY <1>2, <2>9 DEF TypesAreRight
  <2>11. AllSane(st, closes)
    <3> SUFFICES ASSUME NEW j \in Ids PROVE Sane(st[j], j \in closes)
      BY DEF AllSane
    <3>1. CASE j = l
      <4>1. Sane(s, l \in closes)
        BY <1>3, <2>4, <2>8 DEF Sane, Alike
      <4> QED BY <2>5, <3>1, <4>1
    <3>2. CASE j # l
      BY <2>5, <3>2, SocketFacts
    <3> QED BY <3>1, <3>2
  <2>12. SeedIsNext(st, seed) /\ NewestIsUp(st) /\ EndIsRight(st, workers, gc)
    BY <1>1, <2>7 DEF Good, SeedIsNext, NewestIsUp, EndIsRight
  <2>13. WorkersAreRight(st, muxes, workers, closes)
    <3> SUFFICES ASSUME NEW c \in Ids, workers[c].at # "idle", NEW a, NEW b, a = workers[c].ns, b = workers[c].ls,
                        WorkerIsRight(sockets, muxes, workers, closes, c, a, b)
                 PROVE  WorkerIsRight(st, muxes, workers, closes, c, a, b)
      BY <1>1 DEF Good, WorkersAreRight
    <3>1. ListensFor(st, c, b)
      BY <2>6 DEF WorkerIsRight, ListensFor, Alike
    <3>2. ASSUME Makes(workers[c]) PROVE NewIsRight(st, muxes, workers, closes, c, a, b)
      <4>1. NewIsRight(sockets, muxes, workers, closes, c, a, b)
        BY <3>2 DEF WorkerIsRight
      <4>2. a \in Ids /\ a # u
        BY <1>3, <2>1, <4>1 DEF NewIsRight
      <4>3. ASSUME NEW k \in Ids PROVE a \notin st[k].queue /\ a \notin st[k].accepted
        <5>1. a \notin sockets[k].queue /\ a \notin sockets[k].accepted
          BY <4>1 DEF NewIsRight
        <5>2. CASE k = l
          <6>1. st[k].queue = sockets[k].queue \ {u} /\ st[k].accepted = sockets[k].accepted \union {u}
            BY <2>6, <5>2
          <6> QED BY <4>2, <5>1, <6>1
        <5>3. CASE k # l
          BY <2>5, <5>1, <5>3
        <5> QED BY <5>2, <5>3
      <4>4. ASSUME NEW q \in Peers, MakesFor(sockets, muxes, q, c, a) PROVE MakesFor(st, muxes, q, c, a)
        BY <2>7, <4>2, <4>4 DEF MakesFor
      <4> QED BY <2>7, <4>1, <4>2, <4>3, <4>4 DEF NewIsRight
    <3>3. ASSUME Replaces(workers[c]) PROVE GoneIsRight(st, muxes, c, a)
      <4>1. GoneIsRight(sockets, muxes, c, a)
        BY <3>3 DEF WorkerIsRight
      <4>2. a \in Ids /\ Alike(st[a], sockets[a])
        BY <2>6, <4>1 DEF GoneIsRight
      <4>3. ASSUME NEW q \in Peers, HasNone(sockets, muxes, q, c, a) PROVE HasNone(st, muxes, q, c, a)
        BY <2>7, <4>2, <4>3 DEF HasNone
      <4> QED BY <4>1, <4>2, <4>3 DEF GoneIsRight, Alike
    <3> QED BY <3>1, <3>2, <3>3 DEF WorkerIsRight
  <2>14. QueuesAreRight(st, closes)
    <3> SUFFICES ASSUME NEW k \in Ids
                 PROVE  /\ \A q \in st[k].queue : st[q].place = "listed" /\ st[q].listener = k /\ q \notin closes /\ q \notin st[k].accepted
                        /\ \A a \in st[k].accepted : st[a].place # "none"
      BY DEF QueuesAreRight
    <3>1. /\ sockets[k].queue \in SUBSET Ids /\ sockets[k].accepted \in SUBSET Ids
          /\ \A q \in sockets[k].queue : sockets[q].place = "listed" /\ sockets[q].listener = k /\ q \notin closes /\ q \notin sockets[k].accepted
          /\ \A a \in sockets[k].accepted : sockets[a].place # "none"
      BY <1>1, <1>2 DEF TypesAreRight, SocketSet, Good, QueuesAreRight
    <3>2. CASE k = l
      <4>1. st[k].queue = sockets[k].queue \ {u} /\ st[k].accepted = sockets[k].accepted \union {u}
        BY <2>6, <3>2
      <4> QED BY <2>1, <2>7, <2>8, <3>1, <4>1
    <3>3. CASE k # l
      <4>1. st[k].queue = sockets[k].queue /\ st[k].accepted = sockets[k].accepted
        BY <2>6, <3>3
      <4> QED BY <2>7, <3>1, <4>1
    <3> QED BY <3>2, <3>3
  <2>15. NobodyIsLost(st, workers)
    <3> SUFFICES ASSUME NEW j \in Ids, st[j].place = "listed", st[j].status # "closed", st[j].listener # 0
                 PROVE  \/ j \in st[st[j].listener].queue \/ j \in st[st[j].listener].accepted
                        \/ \E k \in Ids : workers[k].at = "listed" /\ workers[k].ns = j
      BY DEF NobodyIsLost
    <3>1. st[j].listener = sockets[j].listener /\ sockets[j].place = "listed" /\ sockets[j].status # "closed"
      BY <2>7
    <3>2. PICK b \in Ids : b = sockets[j].listener
      BY <1>2, <3>1 DEF TypesAreRight, SocketSet, IdsOrNone
    <3>3. j \in sockets[b].queue \/ j \in sockets[b].accepted \/ \E k \in Ids : workers[k].at = "listed" /\ workers[k].ns = j
      BY <1>1, <3>1, <3>2 DEF Good, NobodyIsLost
    <3>4. j \in sockets[b].queue \/ j \in sockets[b].accepted => j \in st[b].queue \/ j \in st[b].accepted
      <4>1. CASE b = l
        <5>1. st[b].queue = sockets[b].queue \ {u} /\ st[b].accepted = sockets[b].accepted \union {u}
          BY <2>6, <4>1
        <5> QED BY <5>1
      <4>2. CASE b # l
        BY <2>5, <4>2
      <4> QED BY <4>1, <4>2
    <3> QED BY <3>1, <3>2, <3>3, <3>4
  <2>16. SleepersAreRight(st, workers, a2, gc)
    <3> SUFFICES ASSUME gc = "running", NEW k \in Ids, WaitingIn(a2, k) # {}
                 PROVE  /\ st[k].place = "listed" /\ st[k].status = "listening" /\ ~st[k].broken
                        /\ Cardinality(st[k].queue) <= Roused(workers, a2, k)
      BY <2>9 DEF SleepersAreRight
    <3>1. /\ WaitingIn(accepts, k) = WaitingIn(a2, k)
          /\ k # l => Roused(workers, a2, k) = Roused(workers, accepts, k)
          /\ WokenIn(a2, l) = WokenIn(accepts, l) \ {t}
      BY <1>5, <2>2, <2>3
    <3>2. /\ sockets[k].place = "listed" /\ sockets[k].status = "listening" /\ ~sockets[k].broken
          /\ Cardinality(sockets[k].queue) <= Roused(workers, accepts, k)
      BY <1>4, <3>1 DEF SleepersAreRight
    <3>3. Cardinality(st[k].queue) <= Roused(workers, a2, k)
      <4>1. CASE k = l
        <5>1. IsFiniteSet(WokenIn(accepts, l))
          BY SocketsAssumption, FS_Subset DEF WokenIn
        <5>2. PICK c \in Nat : c = Cardinality(QueuedIn(workers, l))
          BY RousedAre, FS_CardinalityType
        <5>3. Cardinality(o.queue) <= Cardinality(WokenIn(accepts, l)) + c
          BY <1>3, <3>2, <4>1, <5>2 DEF Roused
        <5>4. Cardinality(o.queue \ {u}) <= Cardinality(WokenIn(accepts, l) \ {t}) + c
          BY ONLY <2>1, <5>1, <5>3, c \in Nat, OneLess
        <5> QED BY <2>4, <2>5, <3>1, <4>1, <5>2, <5>4 DEF Roused
      <4>2. CASE k # l
        BY <2>5, <3>1, <3>2, <4>2
      <4> QED BY <4>1, <4>2
    <3> QED BY <2>7, <3>2, <3>3
  <2>17. MuxesAreRight(st, muxes)
    <3>2. \A k \in Ids : Users(st, k) = Users(sockets, k)
      BY <2>7 DEF Users, AliveIn
    <3> QED BY <1>1, <2>7, <3>2 DEF Good, MuxesAreRight
  <2>18. PortsDiffer(muxes)
    BY <1>1 DEF Good
  <2>19. Good(st, muxes, seed, workers, a2, closes, gc)
    BY <2>10, <2>11, <2>12, <2>13, <2>14, <2>15, <2>16, <2>17, <2>18 DEF Good
  <2> QED BY <2>3, <2>5, <2>19 DEF SocketsInv
<1> QED BY <1>3, <1>6, <1>7, <1>8 DEF AcceptTurn

\* accept takes the first of the queue, waits, or gives up.
LEMMA AcceptKeeps == ASSUME SocketsInv, NEW t \in Acceptors, Accept(t) PROVE SocketsInv'
<1>1. UNCHANGED <<muxes, seed, workers, closes, gc>>
  BY DEF Accept
<1>2. ASSUME accepts[t].at = "idle", NEW l \in Ids, AcceptTurn(t, l) PROVE SocketsInv'
  BY <1>1, <1>2, TurnKeeps
<1>3. ASSUME accepts[t].at = "woken", AcceptTurn(t, accepts[t].ls) PROVE SocketsInv'
  <2>1. accepts[t].ls \in Ids
    BY <1>3 DEF SocketsInv, Good, SleepersAreRight
  <2> QED BY <1>1, <1>3, <2>1, TurnKeeps
<1> QED BY <1>2, <1>3 DEF Accept

\* Threads that make connections are left alone by who touches only sockets that are broken or
\* in a queue, and makes none due for removal.
LEMMA WorkersLeftAlone ==
  ASSUME NEW ss, NEW mx, NEW sd, NEW wk, NEW ac, NEW cl, NEW g, Good(ss, mx, sd, wk, ac, cl, g), NEW st,
         \A j \in Ids : (ss[j].place = "closed" => ~ss[j].old) => (st[j].place = "closed" => ~st[j].old),
         \A j \in Ids : ~ss[j].broken /\ (\A k \in Ids : j \notin ss[k].queue) => st[j].place = ss[j].place /\ ~st[j].broken
  PROVE  FadesBesideWorkers(ss, st, wk, cl)
<1> SUFFICES ASSUME NEW m \in Ids, wk[m].at # "idle", NEW a, NEW b, a = wk[m].ns, b = wk[m].ls,
                    WorkerIsRight(ss, mx, wk, cl, m, a, b)
             PROVE  /\ Makes(wk[m]) => st[a].place = ss[a].place /\ ~st[a].broken /\ a \notin cl
                    /\ Replaces(wk[m]) => (st[a].place = "closed" => ~st[a].old)
                    /\ st[b].place = "closed" => ~st[b].old
  BY DEF Good, WorkersAreRight, FadesBesideWorkers
<1>1. Makes(wk[m]) => st[a].place = ss[a].place /\ ~st[a].broken /\ a \notin cl
  BY DEF WorkerIsRight, NewIsRight
<1>2. Replaces(wk[m]) => (st[a].place = "closed" => ~st[a].old)
  BY DEF WorkerIsRight, GoneIsRight
<1>3. st[b].place = "closed" => ~st[b].old
  BY DEF WorkerIsRight, ListensFor
<1> QED BY <1>1, <1>2, <1>3

\* What the first loop of the collector leaves of a socket.
ClosesSome(ss, st, C) ==
  \A j \in Ids :
    /\ st[j].mux = ss[j].mux /\ st[j].listener = ss[j].listener /\ st[j].peer = ss[j].peer /\ st[j].broken = ss[j].broken
    /\ st[j].linger = ss[j].linger /\ st[j].opened = ss[j].opened /\ st[j].closing = ss[j].closing
    /\ st[j].connected = ss[j].connected /\ st[j].onList = ss[j].onList /\ st[j].onHeap = ss[j].onHeap
    /\ st[j].queue = ss[j].queue \ C /\ st[j].accepted = ss[j].accepted \ C
    /\ IF j \in C THEN st[j].place = "closed" /\ st[j].status = "closed" /\ ~st[j].old
       ELSE st[j].place = ss[j].place /\ st[j].status = ss[j].status /\ st[j].old = ss[j].old

\* The first loop closes what is broken.
LEMMA ClosedBrokenIs ==
  ASSUME SocketsInv, NEW unread \in SUBSET Patients
  PROVE  ClosedBroken(unread) \in [Ids -> SocketSet] /\ ClosesSome(sockets, ClosedBroken(unread), ToClose(unread))
<1>1. PICK C : C = ToClose(unread)
  OBVIOUS
<1>2. C \in SUBSET Ids /\ C \intersect unread = {}
  BY <1>1 DEF ToClose
<1>3. PICK st : st = ClosedBroken(unread)
  OBVIOUS
<1>4. ASSUME NEW j \in Ids
      PROVE  /\ st[j] \in SocketSet
             /\ st[j].mux = sockets[j].mux /\ st[j].listener = sockets[j].listener /\ st[j].peer = sockets[j].peer
             /\ st[j].broken = sockets[j].broken
             /\ st[j].linger = sockets[j].linger /\ st[j].opened = sockets[j].opened /\ st[j].closing = sockets[j].closing
             /\ st[j].connected = sockets[j].connected /\ st[j].onList = sockets[j].onList /\ st[j].onHeap = sockets[j].onHeap
             /\ st[j].queue = sockets[j].queue \ C /\ st[j].accepted = sockets[j].accepted \ C
             /\ IF j \in C THEN st[j].place = "closed" /\ st[j].status = "closed" /\ ~st[j].old
                ELSE st[j].place = sockets[j].place /\ st[j].status = sockets[j].status /\ st[j].old = sockets[j].old
  <2>1. PICK o \in SocketSet : o = sockets[j]
    BY SocketFacts
  <2>2. PICK s : s = [o EXCEPT !.queue = o.queue \ C, !.accepted = o.accepted \ C]
    OBVIOUS
  <2>3. o.queue \ C \in SUBSET Ids /\ o.accepted \ C \in SUBSET Ids
    BY DEF SocketSet
  <2>4. s \in SocketSet /\ Alike(s, o) /\ s.status = o.status /\ s.old = o.old /\ s.queue = o.queue \ C /\ s.accepted = o.accepted \ C
    BY <2>2, <2>3 DEF SocketSet, Alike
  <2>5. st[j] = IF j \in unread THEN [s EXCEPT !.counter = s.counter - 1]
                ELSE IF j \in C THEN [s EXCEPT !.status = "closed", !.place = "closed", !.old = FALSE]
                ELSE s
    BY <1>1, <1>3, <2>1, <2>2 DEF ClosedBroken
  <2>6. CASE j \in unread
    <3>1. PICK c \in Int : c = s.counter - 1
      BY <2>4 DEF SocketSet
    <3>2. PICK x : x = [s EXCEPT !.counter = c]
      OBVIOUS
    <3>3. /\ x \in SocketSet /\ Alike(x, s) /\ x.status = s.status /\ x.old = s.old /\ x.queue = s.queue /\ x.accepted = s.accepted
      BY <2>4, <3>2 DEF SocketSet, Alike
    <3>4. st[j] = x /\ j \notin C
      BY <1>2, <2>5, <2>6, <3>1, <3>2
    <3> QED BY <2>1, <2>4, <3>3, <3>4 DEF Alike
  <2>7. CASE j \notin unread /\ j \in C
    <3>2. PICK x : x = [s EXCEPT !.status = "closed", !.place = "closed", !.old = FALSE]
      OBVIOUS
    <3>3. /\ x \in SocketSet /\ x.status = "closed" /\ ~x.old /\ x.place = "closed" /\ x.queue = s.queue /\ x.accepted = s.accepted
          /\ x.mux = s.mux /\ x.listener = s.listener /\ x.peer = s.peer /\ x.broken = s.broken /\ x.linger = s.linger
          /\ x.opened = s.opened /\ x.closing = s.closing /\ x.connected = s.connected /\ x.onList = s.onList /\ x.onHeap = s.onHeap
      BY <2>4, <3>2, ZenonT(60) DEF SocketSet
    <3>4. st[j] = x
      BY <2>5, <2>7, <3>2
    <3> QED BY <2>1, <2>4, <2>7, <3>3, <3>4 DEF Alike
  <2>8. CASE j \notin unread /\ j \notin C
    <3>1. st[j] = s
      BY <2>5, <2>8, SMTT(60)
    <3> QED BY <2>1, <2>4, <2>8, <3>1 DEF Alike
  <2> QED BY <2>6, <2>7, <2>8
<1>5. st = [j \in Ids |-> st[j]]
  BY <1>3 DEF ClosedBroken
<1>6. st \in [Ids -> SocketSet]
  BY <1>4, <1>5
<1>7. ClosesSome(sockets, st, C)
  BY <1>4 DEF ClosesSome
<1> QED BY <1>1, <1>3, <1>6, <1>7

\* The first loop.
LEMMA ClosedKeeps ==
  ASSUME SocketsInv, gc # "ended", NEW unread \in SUBSET Patients, NEW st, st = ClosedBroken(unread)
  PROVE  Good(st, muxes, seed, workers, accepts, closes, gc)
<1>1. Good(sockets, muxes, seed, workers, accepts, closes, gc)
  BY DEF SocketsInv
<1>2. TypesAreRight(sockets, muxes, seed, workers, accepts, closes, gc)
  BY <1>1 DEF Good
<1>3. PICK C : C = ToClose(unread)
  OBVIOUS
<1>4. C \in SUBSET Ids /\ \A j \in C : sockets[j].place = "listed" /\ sockets[j].broken
  BY <1>3 DEF ToClose, Listed
<1>5. st \in [Ids -> SocketSet] /\ ClosesSome(sockets, st, C)
  BY <1>3, ClosedBrokenIs
<1>6. AllSane(st, closes)
  <2> SUFFICES ASSUME NEW j \in Ids PROVE Sane(st[j], j \in closes)
    BY DEF AllSane
  <2>1. Sane(sockets[j], j \in closes)
    BY SocketFacts
  <2>2. /\ st[j].mux = sockets[j].mux /\ st[j].listener = sockets[j].listener /\ st[j].peer = sockets[j].peer
        /\ st[j].broken = sockets[j].broken
        /\ st[j].linger = sockets[j].linger /\ st[j].opened = sockets[j].opened /\ st[j].closing = sockets[j].closing
        /\ st[j].connected = sockets[j].connected /\ st[j].onList = sockets[j].onList /\ st[j].onHeap = sockets[j].onHeap
        /\ st[j].queue = sockets[j].queue \ C /\ st[j].accepted = sockets[j].accepted \ C
    BY <1>5 DEF ClosesSome
  <2>3. CASE j \in C
    <3>1. st[j].place = "closed" /\ st[j].status = "closed" /\ sockets[j].place = "listed" /\ sockets[j].broken
      BY <1>4, <1>5, <2>3 DEF ClosesSome
    <3> QED BY <2>1, <2>2, <3>1 DEF Sane
  <2>4. CASE j \notin C
    <3>1. st[j].place = sockets[j].place /\ st[j].status = sockets[j].status
      BY <1>5, <2>4 DEF ClosesSome
    <3> QED BY <2>1, <2>2, <3>1 DEF Sane
  <2> QED BY <2>3, <2>4
<1>7. Fades(sockets, st)
  <2> SUFFICES ASSUME NEW j \in Ids
               PROVE  /\ st[j].mux = sockets[j].mux /\ st[j].listener = sockets[j].listener /\ st[j].peer = sockets[j].peer
                      /\ st[j].queue \subseteq sockets[j].queue /\ st[j].accepted \subseteq sockets[j].accepted
                      /\ st[j].place = sockets[j].place \/ (sockets[j].place = "listed" /\ st[j].place = "closed")
                      /\ st[j].status = sockets[j].status \/ st[j].status = "closed"
                      /\ sockets[j].broken => st[j].broken
    BY DEF Fades
  <2>1. /\ st[j].mux = sockets[j].mux /\ st[j].listener = sockets[j].listener /\ st[j].peer = sockets[j].peer
        /\ st[j].broken = sockets[j].broken /\ st[j].queue = sockets[j].queue \ C /\ st[j].accepted = sockets[j].accepted \ C
        /\ IF j \in C THEN st[j].place = "closed" /\ st[j].status = "closed" /\ ~st[j].old
           ELSE st[j].place = sockets[j].place /\ st[j].status = sockets[j].status /\ st[j].old = sockets[j].old
    BY <1>5 DEF ClosesSome
  <2> QED BY <1>4, <2>1
<1>8. FadesInOrder(sockets, st)
  <2>1. ASSUME NEW l \in Ids, NEW i \in Ids, st[i].place = "listed", st[i].status # "closed"
        PROVE  (i \in sockets[l].queue => i \in st[l].queue) /\ (i \in sockets[l].accepted => i \in st[l].accepted)
    <3>1. i \notin C /\ st[l].queue = sockets[l].queue \ C /\ st[l].accepted = sockets[l].accepted \ C
      BY <1>5, <2>1 DEF ClosesSome
    <3> QED BY <3>1
  <2>2. ASSUME NEW l \in Ids, NEW q \in st[l].queue PROVE st[q].place = "listed"
    <3>1. q \in Ids /\ q \in sockets[l].queue /\ q \notin C
      <4>1. st[l].queue = sockets[l].queue \ C /\ sockets[l].queue \in SUBSET Ids
        BY <1>2, <1>5 DEF ClosesSome, TypesAreRight, SocketSet
      <4> QED BY <2>2, <4>1
    <3>2. sockets[q].place = "listed"
      BY <1>1, <3>1 DEF Good, QueuesAreRight
    <3> QED BY <1>5, <3>1, <3>2 DEF ClosesSome
  <2> QED BY <2>1, <2>2 DEF FadesInOrder
<1>9. FadesBesideWorkers(sockets, st, workers, closes)
  <2>1. \A j \in Ids : (sockets[j].place = "closed" => ~sockets[j].old) => (st[j].place = "closed" => ~st[j].old)
    BY <1>5 DEF ClosesSome
  <2>2. \A j \in Ids : ~sockets[j].broken => st[j].place = sockets[j].place /\ ~st[j].broken
    BY <1>4, <1>5 DEF ClosesSome
  <2> QED BY <1>1, <2>1, <2>2, WorkersLeftAlone
<1>10. SleepersAreRight(st, workers, accepts, gc)
  <2>1. SleepersAreRight(sockets, workers, accepts, gc) /\ sockets \in [Ids -> SocketSet]
    BY <1>1, <1>2 DEF Good, TypesAreRight
  <2>2. ASSUME NEW k \in Ids, WaitingIn(accepts, k) # {}, gc = "running"
        PROVE  /\ st[k].place = sockets[k].place /\ st[k].status = sockets[k].status /\ st[k].broken = sockets[k].broken
               /\ st[k].queue \subseteq sockets[k].queue
    <3>1. k \notin C
      BY <1>4, <2>1, <2>2 DEF SleepersAreRight
    <3> QED BY <1>5, <3>1 DEF ClosesSome
  <2> QED BY ONLY <2>1, <2>2, SleepersStay
<1>11. EndIsRight(st, workers, gc)
  <2>1. \A j \in Ids : st[j].place = "listed" => sockets[j].place = "listed"
    BY <1>5 DEF ClosesSome
  <2> QED BY <1>1, <2>1 DEF Good, EndIsRight
<1>12. FadeIs(sockets, workers, closes, st, accepts, closes, gc)
  <2>1. /\ accepts \in [Acceptors -> AcceptSet] /\ gc \in {"running", "clearing", "ended"} /\ closes \in SUBSET Ids
        /\ \A j \in closes : j \in closes
    BY <1>2 DEF TypesAreRight
  <2> QED BY <1>5, <1>6, <1>7, <1>8, <1>9, <1>10, <1>11, <2>1 DEF FadeIs
<1> QED BY <1>1, <1>12, FadeKeeps, Zenon

\* The second loop.
LEMMA SettledKeeps ==
  ASSUME NEW ss, NEW mx, NEW sd, NEW wk, NEW ac, NEW cl, NEW g, Good(ss, mx, sd, wk, ac, cl, g),
         NEW st, st = Settled(ss)
  PROVE  Good(st, mx, sd, wk, ac, cl, g)
<1>1. TypesAreRight(ss, mx, sd, wk, ac, cl, g)
  BY DEF Good
<1>2. ASSUME NEW j \in Ids
      PROVE  /\ st[j] \in SocketSet
             /\ \/ st[j] = ss[j]
                \/ /\ ss[j].place = "closed" /\ st[j].place = "closed" /\ st[j].linger \in {"no", "left"} /\ st[j].closing /\ ~st[j].old
                   /\ st[j].mux = ss[j].mux /\ st[j].listener = ss[j].listener /\ st[j].peer = ss[j].peer /\ st[j].broken = ss[j].broken
                   /\ st[j].opened = ss[j].opened /\ st[j].connected = ss[j].connected /\ st[j].onList = ss[j].onList
                   /\ st[j].onHeap = ss[j].onHeap
                   /\ st[j].queue = ss[j].queue /\ st[j].accepted = ss[j].accepted /\ st[j].status = ss[j].status
  <2>1. PICK o \in SocketSet : o = ss[j]
    BY <1>1 DEF TypesAreRight
  <2>7. PICK h \in {"no", "left"} : h = IF o.linger = "expired" THEN "left" ELSE "no"
    OBVIOUS
  <2>2. PICK x : x = [o EXCEPT !.linger = h, !.closing = TRUE, !.old = FALSE]
    OBVIOUS
  <2>3. st[j] = IF o.place = "closed" /\ o.linger \in {"over", "expired"} THEN x ELSE o
    BY <2>1, <2>2, <2>7 DEF Settled
  <2>4. /\ x \in SocketSet /\ x.linger \in {"no", "left"} /\ x.closing /\ ~x.old /\ x.place = o.place
        /\ x.mux = o.mux /\ x.listener = o.listener /\ x.peer = o.peer /\ x.broken = o.broken
        /\ x.opened = o.opened /\ x.connected = o.connected /\ x.onList = o.onList /\ x.onHeap = o.onHeap
        /\ x.queue = o.queue /\ x.accepted = o.accepted /\ x.status = o.status
    BY <2>2 DEF SocketSet
  <2>5. CASE o.place = "closed" /\ o.linger \in {"over", "expired"}
    BY <2>1, <2>3, <2>4, <2>5
  <2>6. CASE ~(o.place = "closed" /\ o.linger \in {"over", "expired"})
    BY <2>1, <2>3, <2>6
  <2> QED BY <2>5, <2>6
<1>3. st \in [Ids -> SocketSet]
  <2>1. st = [j \in Ids |-> st[j]]
    BY DEF Settled
  <2> QED BY <1>2, <2>1
<1>4. AllSane(st, cl)
  <2> SUFFICES ASSUME NEW j \in Ids PROVE Sane(st[j], j \in cl)
    BY DEF AllSane
  <2>1. Sane(ss[j], j \in cl)
    BY DEF Good, AllSane
  <2> QED BY <1>2, <2>1 DEF Sane
<1>5. \A j \in Ids : /\ st[j].mux = ss[j].mux /\ st[j].listener = ss[j].listener /\ st[j].peer = ss[j].peer
                     /\ st[j].queue = ss[j].queue /\ st[j].accepted = ss[j].accepted /\ st[j].place = ss[j].place
                     /\ st[j].status = ss[j].status /\ st[j].broken = ss[j].broken
                     /\ st[j].old => ss[j].old
  BY <1>2
<1>6. Fades(ss, st)
  BY <1>5 DEF Fades
<1>7. FadesInOrder(ss, st)
  <2>1. ASSUME NEW l \in Ids, NEW q \in st[l].queue PROVE st[q].place = "listed"
    <3>1. st[l].queue = ss[l].queue /\ ss[l].queue \in SUBSET Ids
      BY <1>1, <1>5 DEF TypesAreRight, SocketSet
    <3>2. q \in Ids /\ ss[q].place = "listed"
      BY <2>1, <3>1 DEF Good, QueuesAreRight
    <3> QED BY <1>5, <3>2
  <2>2. \A l \in Ids : st[l].queue = ss[l].queue /\ st[l].accepted = ss[l].accepted
    BY <1>5
  <2> QED BY <2>1, <2>2 DEF FadesInOrder
<1>8. FadesBesideWorkers(ss, st, wk, cl)
  <2>1. \A j \in Ids : (ss[j].place = "closed" => ~ss[j].old) => (st[j].place = "closed" => ~st[j].old)
    BY <1>5
  <2>2. \A j \in Ids : ~ss[j].broken => st[j].place = ss[j].place /\ ~st[j].broken
    BY <1>5
  <2> QED BY <2>1, <2>2, WorkersLeftAlone
<1>9. SleepersAreRight(st, wk, ac, g)
  <2>1. SleepersAreRight(ss, wk, ac, g) /\ ss \in [Ids -> SocketSet]
    BY <1>1 DEF Good, TypesAreRight
  <2>2. ASSUME NEW k \in Ids
        PROVE  /\ st[k].place = ss[k].place /\ st[k].status = ss[k].status /\ st[k].broken = ss[k].broken
               /\ st[k].queue \subseteq ss[k].queue
    BY <1>5
  <2> QED BY ONLY <2>1, <2>2, SleepersStay
<1>10. EndIsRight(st, wk, g)
  BY <1>5 DEF Good, EndIsRight
<1>11. FadeIs(ss, wk, cl, st, ac, cl, g)
  <2>1. /\ ac \in [Acceptors -> AcceptSet] /\ g \in {"running", "clearing", "ended"} /\ cl \in SUBSET Ids
        /\ \A j \in cl : j \in cl
    BY <1>1 DEF TypesAreRight
  <2> QED BY <1>3, <1>4, <1>6, <1>7, <1>8, <1>9, <1>10, <2>1 DEF FadeIs
<1> QED BY <1>11, FadeKeeps, Zenon

\* removeSocket, without the removal: the queues of the sockets in R go, and what waits there is closed.
Drains(ss, st, R) ==
  \A j \in Ids :
    /\ st[j].mux = ss[j].mux /\ st[j].listener = ss[j].listener /\ st[j].peer = ss[j].peer /\ st[j].accepted = ss[j].accepted
    /\ st[j].onList = ss[j].onList
    /\ st[j].queue = (IF j \in R THEN {} ELSE ss[j].queue)
    /\ IF j \in UNION {ss[l].queue : l \in R}
       THEN /\ st[j].place = "closed" /\ st[j].status = "closed" /\ ~st[j].old /\ st[j].broken /\ st[j].linger = ss[j].linger
            /\ \/ /\ st[j].opened = ss[j].opened /\ st[j].closing = ss[j].closing /\ st[j].connected = ss[j].connected
                  /\ st[j].onHeap = ss[j].onHeap
               \/ ~st[j].opened /\ st[j].closing /\ ~st[j].connected /\ (st[j].onHeap => ss[j].onHeap /\ ~ss[j].connected)
       ELSE /\ st[j].place = ss[j].place /\ st[j].status = ss[j].status /\ st[j].old = ss[j].old /\ st[j].broken = ss[j].broken
            /\ st[j].linger = ss[j].linger /\ st[j].opened = ss[j].opened /\ st[j].closing = ss[j].closing
            /\ st[j].connected = ss[j].connected /\ st[j].onHeap = ss[j].onHeap

\* Such a step keeps the invariant.
LEMMA DrainKeeps ==
  ASSUME NEW ss, NEW mx, NEW sd, NEW wk, NEW ac, NEW cl, NEW g, Good(ss, mx, sd, wk, ac, cl, g), g # "ended",
         NEW R, R = ToRemove(ss), NEW st \in [Ids -> SocketSet], Drains(ss, st, R)
  PROVE  Good(st, mx, sd, wk, ac, cl, g)
<1>1. TypesAreRight(ss, mx, sd, wk, ac, cl, g)
  BY DEF Good
<1>2. PICK Q : Q = UNION {ss[l].queue : l \in R}
  OBVIOUS
<1>3. R \in SUBSET Ids /\ \A j \in R : ss[j].place = "closed" /\ ss[j].old
  BY DEF ToRemove
<1>4. Q \in SUBSET Ids
  BY <1>1, <1>2, <1>3 DEF TypesAreRight, SocketSet
<1>5. ASSUME NEW q \in Q PROVE ss[q].place = "listed" /\ q \notin R /\ ss[q].listener \in R /\ q \in ss[ss[q].listener].queue
  <2>1. PICK l \in R : q \in ss[l].queue
    BY <1>2
  <2>2. ss[q].place = "listed" /\ ss[q].listener = l
    BY <1>3, <2>1 DEF Good, QueuesAreRight
  <2> QED BY <1>3, <2>1, <2>2
<1>6. ASSUME NEW j \in Ids
      PROVE  /\ st[j].mux = ss[j].mux /\ st[j].listener = ss[j].listener /\ st[j].peer = ss[j].peer /\ st[j].accepted = ss[j].accepted
             /\ st[j].onList = ss[j].onList /\ st[j].linger = ss[j].linger
             /\ st[j].queue = (IF j \in R THEN {} ELSE ss[j].queue)
             /\ j \in Q => /\ st[j].place = "closed" /\ st[j].status = "closed" /\ ~st[j].old /\ st[j].broken
                           /\ \/ st[j].opened = ss[j].opened /\ st[j].connected = ss[j].connected /\ st[j].onHeap = ss[j].onHeap
                              \/ ~st[j].connected /\ (st[j].onHeap => ss[j].onHeap /\ ~ss[j].connected)
             /\ j \notin Q => /\ st[j].place = ss[j].place /\ st[j].status = ss[j].status /\ st[j].old = ss[j].old
                              /\ st[j].broken = ss[j].broken /\ st[j].opened = ss[j].opened /\ st[j].closing = ss[j].closing
                              /\ st[j].connected = ss[j].connected /\ st[j].onHeap = ss[j].onHeap
  BY <1>2 DEF Drains
<1>7. AllSane(st, cl)
  <2> SUFFICES ASSUME NEW j \in Ids PROVE Sane(st[j], j \in cl)
    BY DEF AllSane
  <2>1. Sane(ss[j], j \in cl)
    BY DEF Good, AllSane
  <2>2. st[j].queue = {} \/ st[j].queue = ss[j].queue
    BY <1>6
  <2>3. CASE j \in Q
    <3>1. /\ st[j].mux = ss[j].mux /\ st[j].listener = ss[j].listener /\ st[j].peer = ss[j].peer
          /\ st[j].onList = ss[j].onList /\ st[j].place = "closed" /\ st[j].status = "closed" /\ st[j].broken
          /\ st[j].linger = ss[j].linger /\ st[j].accepted = ss[j].accepted /\ ss[j].place = "listed"
      BY <1>5, <1>6, <2>3
    <3>2. \/ st[j].opened = ss[j].opened /\ st[j].connected = ss[j].connected /\ st[j].onHeap = ss[j].onHeap
          \/ ~st[j].connected /\ (st[j].onHeap => ss[j].onHeap /\ ~ss[j].connected)
      BY <1>6, <2>3
    <3> QED BY <2>1, <3>1, <3>2 DEF Sane
  <2>4. CASE j \notin Q
    <3>1. /\ st[j].mux = ss[j].mux /\ st[j].listener = ss[j].listener /\ st[j].peer = ss[j].peer /\ st[j].accepted = ss[j].accepted
          /\ st[j].onList = ss[j].onList /\ st[j].linger = ss[j].linger
          /\ st[j].place = ss[j].place /\ st[j].status = ss[j].status
          /\ st[j].broken = ss[j].broken /\ st[j].opened = ss[j].opened /\ st[j].closing = ss[j].closing
          /\ st[j].connected = ss[j].connected /\ st[j].onHeap = ss[j].onHeap
      BY <1>6, <2>4
    <3> QED BY <2>1, <2>2, <3>1 DEF Sane
  <2> QED BY <2>3, <2>4
<1>8. Fades(ss, st)
  <2> SUFFICES ASSUME NEW j \in Ids
               PROVE  /\ st[j].mux = ss[j].mux /\ st[j].listener = ss[j].listener /\ st[j].peer = ss[j].peer
                      /\ st[j].queue \subseteq ss[j].queue /\ st[j].accepted \subseteq ss[j].accepted
                      /\ st[j].place = ss[j].place \/ (ss[j].place = "listed" /\ st[j].place = "closed")
                      /\ st[j].status = ss[j].status \/ st[j].status = "closed"
                      /\ ss[j].broken => st[j].broken
    BY DEF Fades
  <2>1. CASE j \in Q
    BY <1>5, <1>6, <2>1
  <2>2. CASE j \notin Q
    BY <1>6, <2>2
  <2> QED BY <2>1, <2>2
<1>9. FadesInOrder(ss, st)
  <2>1. ASSUME NEW l \in Ids, NEW i \in Ids, st[i].place = "listed", i \in ss[l].queue PROVE i \in st[l].queue
    <3>1. i \notin Q
      BY <1>6, <2>1
    <3>2. l \notin R
      BY <1>2, <2>1, <3>1
    <3> QED BY <1>6, <2>1, <3>2
  <2>2. ASSUME NEW l \in Ids, NEW q \in st[l].queue PROVE st[q].place = "listed"
    <3>1. l \notin R /\ st[l].queue = ss[l].queue /\ ss[l].queue \in SUBSET Ids
      BY <1>1, <1>6, <2>2 DEF TypesAreRight, SocketSet
    <3>2. q \in Ids /\ ss[q].place = "listed" /\ ss[q].listener = l
      BY <2>2, <3>1 DEF Good, QueuesAreRight
    <3>3. q \notin Q
      BY <1>5, <3>1, <3>2
    <3> QED BY <1>6, <3>2, <3>3
  <2>3. \A l \in Ids : st[l].accepted = ss[l].accepted
    BY <1>6
  <2> QED BY <2>1, <2>2, <2>3 DEF FadesInOrder
<1>10. FadesBesideWorkers(ss, st, wk, cl)
  <2>1. \A j \in Ids : (ss[j].place = "closed" => ~ss[j].old) => (st[j].place = "closed" => ~st[j].old)
    BY <1>6
  <2>2. ASSUME NEW j \in Ids, ~ss[j].broken, \A k \in Ids : j \notin ss[k].queue PROVE st[j].place = ss[j].place /\ ~st[j].broken
    <3>1. j \notin Q
      BY <1>2, <1>3, <2>2
    <3> QED BY <1>6, <2>2, <3>1
  <2> QED BY <2>1, <2>2, WorkersLeftAlone
<1>11. SleepersAreRight(st, wk, ac, g)
  <2>1. SleepersAreRight(ss, wk, ac, g) /\ ss \in [Ids -> SocketSet]
    BY <1>1 DEF Good, TypesAreRight
  <2>2. ASSUME NEW k \in Ids, WaitingIn(ac, k) # {}, g = "running"
        PROVE  /\ st[k].place = ss[k].place /\ st[k].status = ss[k].status /\ st[k].broken = ss[k].broken
               /\ st[k].queue \subseteq ss[k].queue
    <3>1. ss[k].status = "listening" /\ Sane(ss[k], k \in cl)
      BY <2>1, <2>2 DEF SleepersAreRight, Good, AllSane
    <3>2. ss[k].listener = 0
      BY <3>1 DEF Sane
    <3>3. k \notin Q
      BY <1>3, <1>5, <3>2, IdsAre
    <3> QED BY <1>6, <3>3
  <2> QED BY ONLY <2>1, <2>2, SleepersStay
<1>12. EndIsRight(st, wk, g)
  <2>1. \A j \in Ids : st[j].place = "listed" => ss[j].place = "listed"
    BY <1>6
  <2> QED BY <2>1 DEF Good, EndIsRight
<1>13. FadeIs(ss, wk, cl, st, ac, cl, g)
  <2>1. /\ ac \in [Acceptors -> AcceptSet] /\ g \in {"running", "clearing", "ended"} /\ cl \in SUBSET Ids
        /\ \A j \in cl : j \in cl
    BY <1>1 DEF TypesAreRight
  <2> QED BY <1>7, <1>8, <1>9, <1>10, <1>11, <1>12, <2>1 DEF FadeIs
<1> QED BY <1>13, FadeKeeps, Zenon

\* removeSocket: the sockets in R go, with the multiplexers that nobody else uses.
Deletes(ss, mx, st, m2, R) ==
  /\ R \in SUBSET Ids
  /\ \A j \in R : ss[j].place = "closed" /\ ss[j].old /\ ~ss[j].onList /\ ss[j].queue = {}
  /\ st = [j \in Ids |-> IF j \in R THEN Deleted(ss[j]) ELSE ss[j]]
  /\ m2 = [m \in Ids |->
             LET ref == mx[m].ref - Cardinality({i \in R : ss[i].mux = m})
                 r   == IF mx[m].listener \in R THEN [mx[m] EXCEPT !.listener = 0] ELSE mx[m]
             IN  IF ref = 0 THEN NoMux ELSE [r EXCEPT !.ref = ref]]

\* What is remembered of a deleted socket.
LEMMA DeletedIs ==
  ASSUME NEW s \in SocketSet, NEW x, x = Deleted(s)
  PROVE  /\ x \in SocketSet /\ x.place = "deleted" /\ x.accepted = s.accepted /\ x.queue = {} /\ x.mux = 0
         /\ x.listener = s.listener /\ Sane(x, TRUE) /\ Sane(x, FALSE)
<1>5. PICK h \in BOOLEAN : h = Finished(s).onHeap
  <2>1. CASE s.linger = "left" /\ s.connected /\ ~s.broken
    BY <2>1 DEF Finished, SocketSet
  <2>2. CASE ~(s.linger = "left" /\ s.connected /\ ~s.broken) /\ s.opened
    <3>1. PICK d : d = (s.onHeap /\ ~s.connected)
      OBVIOUS
    <3>2. d \in BOOLEAN
      BY <3>1
    <3>3. Finished(s) = [s EXCEPT !.closing = TRUE, !.connected = FALSE, !.opened = FALSE, !.onHeap = d]
      BY <2>2, <3>1 DEF Finished, Shut
    <3> QED BY <3>2, <3>3 DEF SocketSet
  <2>3. CASE ~(s.linger = "left" /\ s.connected /\ ~s.broken) /\ ~s.opened
    BY <2>3 DEF Finished, Shut, SocketSet
  <2> QED BY <2>1, <2>2, <2>3
<1>1. x = [Fresh EXCEPT !.place = "deleted", !.listener = s.listener, !.accepted = s.accepted, !.onHeap = h]
  BY <1>5 DEF Deleted
<1>2. s.listener \in IdsOrNone /\ s.accepted \in SUBSET Ids
  BY DEF SocketSet
<1>3. x \in SocketSet /\ x.place = "deleted" /\ x.listener = s.listener /\ x.accepted = s.accepted
  <2>1. PICK f \in SocketSet : f = Fresh
    BY FreshIs
  <2> QED BY <1>1, <1>2, <2>1, ZenonT(60) DEF SocketSet
<1>4. /\ x.status = "init" /\ x.linger = "no" /\ x.mux = 0 /\ x.queue = {} /\ x.peer = {}
      /\ ~x.opened /\ ~x.connected /\ ~x.onList /\ ~x.closing /\ ~x.broken
  BY <1>1 DEF Fresh
<1> QED BY <1>3, <1>4 DEF Sane

\* A multiplexer loses as many users as its count goes down.
LEMMA UsersLeft ==
  ASSUME NEW ss, NEW mx, NEW st, NEW m2, NEW R, ss \in [Ids -> SocketSet], mx \in [Ids -> MuxSet],
         MuxesAreRight(ss, mx), Deletes(ss, mx, st, m2, R), NEW m \in Ids
  PROVE  /\ m2[m] \in MuxSet /\ m2[m].ref = Cardinality(Users(st, m)) /\ m2[m].ref <= mx[m].ref
         /\ Users(st, m) = {i \in Users(ss, m) : i \notin R}
         /\ m2[m].ref # 0 => m2[m].port = mx[m].port
         /\ m2[m].listener # 0 => m2[m].listener = mx[m].listener /\ m2[m].listener \notin R
<1>1. PICK P : P = {i \in R : ss[i].mux = m}
  OBVIOUS
<1>2. ASSUME NEW j \in Ids
      PROVE  /\ j \in R => st[j].place = "deleted"
             /\ j \notin R => st[j] = ss[j]
    <2>1. CASE j \in R
      <3>1. st[j] = Deleted(ss[j]) /\ ss[j] \in SocketSet
        BY <2>1 DEF Deletes
      <3> QED BY <2>1, <3>1, DeletedIs
    <2>2. CASE j \notin R
      BY <2>2 DEF Deletes
    <2> QED BY <2>1, <2>2
<1>3. P \subseteq Users(ss, m)
  BY <1>1 DEF Deletes, Users, AliveIn
<1>4. Users(st, m) = {i \in Users(ss, m) : i \notin R}
  BY <1>2 DEF Users, AliveIn
<1>5. Users(st, m) = Users(ss, m) \ P
  BY <1>1, <1>4 DEF Users
<1>6. IsFiniteSet(Users(ss, m)) /\ IsFiniteSet(P)
  BY <1>3, UsersAre, FS_Subset
<1>7. Cardinality(Users(st, m)) = Cardinality(Users(ss, m)) - Cardinality(P)
  <2>1. Cardinality(Users(ss, m) \ P) = Cardinality(Users(ss, m)) - Cardinality(Users(ss, m) \cap P)
    BY <1>6, FS_Difference
  <2>2. Users(ss, m) \cap P = P
    BY <1>3
  <2> QED BY <1>5, <2>1, <2>2
<1>8. PICK a \in Nat, b \in Nat, c \in Nat : /\ a = Cardinality(Users(st, m)) /\ b = Cardinality(Users(ss, m))
                                             /\ c = Cardinality(P) /\ b = mx[m].ref /\ a = b - c
  <2>1. mx[m].ref = Cardinality(Users(ss, m))
    BY DEF MuxesAreRight
  <2> QED BY <1>6, <1>7, <2>1, UsersAre, FS_CardinalityType
<1>9. PICK o \in MuxSet : o = mx[m]
  OBVIOUS
<1>10. PICK r : r = IF o.listener \in R THEN [o EXCEPT !.listener = 0] ELSE o
  OBVIOUS
<1>11. m2[m] = IF a = 0 THEN NoMux ELSE [r EXCEPT !.ref = a]
  <2>1. m2[m] = LET ref == mx[m].ref - Cardinality({i \in R : ss[i].mux = m})
                    q   == IF mx[m].listener \in R THEN [mx[m] EXCEPT !.listener = 0] ELSE mx[m]
                IN  IF ref = 0 THEN NoMux ELSE [q EXCEPT !.ref = ref]
    BY DEF Deletes
  <2> QED BY <1>1, <1>8, <1>9, <1>10, <2>1
<1>12. r \in MuxSet /\ r.port = o.port /\ (r.listener # 0 => r.listener = o.listener /\ r.listener \notin R)
  BY <1>10 DEF MuxSet, IdsOrNone
<1>13. CASE a = 0
  <2>1. m2[m] = NoMux
    BY <1>11, <1>13
  <2>2. m2[m] \in MuxSet /\ m2[m].ref = 0 /\ m2[m].listener = 0
    BY <2>1 DEF NoMux, MuxSet, IdsOrNone
  <2> QED BY <1>4, <1>8, <1>13, <2>2
<1>14. CASE a # 0
  <2>1. PICK x : x = [r EXCEPT !.ref = a]
    OBVIOUS
  <2>2. x \in MuxSet /\ x.ref = a /\ x.port = r.port /\ x.listener = r.listener
    BY <1>12, <2>1 DEF MuxSet
  <2>3. m2[m] = x
    BY <1>11, <1>14, <2>1
  <2> QED BY <1>4, <1>8, <1>9, <1>12, <2>2, <2>3
<1> QED BY <1>13, <1>14

\* Such a step keeps the invariant.
LEMMA DeleteKeeps ==
  ASSUME NEW ss, NEW mx, NEW sd, NEW wk, NEW ac, NEW cl, NEW g, Good(ss, mx, sd, wk, ac, cl, g), g # "ended",
         NEW R, NEW st, NEW m2, Deletes(ss, mx, st, m2, R)
  PROVE  Good(st, m2, sd, wk, ac, cl, g)
<1>1. TypesAreRight(ss, mx, sd, wk, ac, cl, g) /\ MuxesAreRight(ss, mx)
  BY DEF Good
<1>2. R \in SUBSET Ids /\ \A j \in R : ss[j].place = "closed" /\ ss[j].old /\ ss[j].queue = {}
  BY DEF Deletes
<1>3. ASSUME NEW j \in Ids
      PROVE  /\ st[j] \in SocketSet /\ st[j].accepted = ss[j].accepted /\ st[j].queue = ss[j].queue /\ st[j].listener = ss[j].listener
             /\ j \in R => st[j].place = "deleted" /\ Sane(st[j], TRUE) /\ Sane(st[j], FALSE)
             /\ j \notin R => st[j] = ss[j]
  <2>1. PICK o \in SocketSet : o = ss[j]
    BY <1>1 DEF TypesAreRight
  <2>2. CASE j \in R
    <3>1. st[j] = Deleted(o) /\ o.queue = {}
      BY <1>2, <2>1, <2>2 DEF Deletes
    <3> QED BY <2>1, <2>2, <3>1, DeletedIs
  <2>3. CASE j \notin R
    BY <2>1, <2>3 DEF Deletes
  <2> QED BY <2>2, <2>3
<1>4. \A m \in Ids : /\ m2[m] \in MuxSet /\ m2[m].ref = Cardinality(Users(st, m)) /\ m2[m].ref <= mx[m].ref
                     /\ Users(st, m) = {i \in Users(ss, m) : i \notin R}
                     /\ m2[m].ref # 0 => m2[m].port = mx[m].port
                     /\ m2[m].listener # 0 => m2[m].listener = mx[m].listener /\ m2[m].listener \notin R
  BY <1>1, UsersLeft DEF TypesAreRight
<1>5. TypesAreRight(st, m2, sd, wk, ac, cl, g)
  <2>1. st = [j \in Ids |-> st[j]] /\ m2 = [m \in Ids |-> m2[m]]
    BY DEF Deletes
  <2>2. st \in [Ids -> SocketSet] /\ m2 \in [Ids -> MuxSet]
    BY <1>3, <1>4, <2>1
  <2> QED BY <1>1, <2>2 DEF TypesAreRight
<1>6. AllSane(st, cl)
  <2> SUFFICES ASSUME NEW j \in Ids PROVE Sane(st[j], j \in cl)
    BY DEF AllSane
  <2>1. Sane(ss[j], j \in cl)
    BY DEF Good, AllSane
  <2>2. CASE j \in R
    <3>1. CASE j \in cl
      BY <1>3, <2>2, <3>1 DEF Sane
    <3>2. CASE j \notin cl
      BY <1>3, <2>2, <3>2 DEF Sane
    <3> QED BY <3>1, <3>2
  <2>3. CASE j \notin R
    BY <1>3, <2>1, <2>3
  <2> QED BY <2>2, <2>3
<1>7. SeedIsNext(st, sd)
  <2>1. \A j \in Ids : st[j].place = "none" <=> ss[j].place = "none"
    BY <1>2, <1>3
  <2> QED BY <2>1 DEF Good, SeedIsNext
<1>8. WorkersAreRight(st, m2, wk, cl)
  <2> SUFFICES ASSUME NEW m \in Ids, wk[m].at # "idle", NEW n, NEW l, n = wk[m].ns, l = wk[m].ls
               PROVE  WorkerIsRight(st, m2, wk, cl, m, n, l)
    BY DEF Good, WorkersAreRight
  <2>1. WorkerIsRight(ss, mx, wk, cl, m, n, l)
    BY DEF Good, WorkersAreRight
  <2>2. l \in Ids /\ l \notin R /\ st[l] = ss[l]
    BY <1>2, <1>3, <2>1 DEF WorkerIsRight, ListensFor
  <2>3. ListensFor(st, m, l)
    BY <2>1, <2>2 DEF WorkerIsRight, ListensFor
  <2>4. \A j \in Ids : st[j].place = "listed" => st[j] = ss[j]
    BY <1>3
  <2>5. m2[m].port = mx[m].port
    <3>1. l \in Users(ss, m)
      BY <2>1, <2>2 DEF WorkerIsRight, ListensFor, Users, AliveIn
    <3>2. Users(st, m) # {}
      BY <1>4, <2>2, <3>1
    <3>3. Cardinality(Users(st, m)) # 0
      BY <3>2, UsersAre, FS_EmptySet
    <3> QED BY <1>4, <3>3
  <2>6. ASSUME Makes(wk[m]) PROVE NewIsRight(st, m2, wk, cl, m, n, l)
    <3>1. NewIsRight(ss, mx, wk, cl, m, n, l)
      BY <2>1, <2>6 DEF WorkerIsRight
    <3>2. n \in Ids /\ n \notin R
      BY <1>2, <2>6, <3>1 DEF NewIsRight, Makes
    <3>3. st[n] = ss[n] /\ \A k \in Ids : st[k].queue = ss[k].queue /\ st[k].accepted = ss[k].accepted
      BY <1>3, <3>2
    <3>4. ASSUME NEW p \in Peers, MakesFor(ss, mx, p, m, n) PROVE MakesFor(st, m2, p, m, n)
      BY <2>4, <2>5, <3>3, <3>4 DEF MakesFor
    <3> QED BY <3>1, <3>3, <3>4 DEF NewIsRight
  <2>7. ASSUME Replaces(wk[m]) PROVE GoneIsRight(st, m2, m, n)
    <3>1. GoneIsRight(ss, mx, m, n)
      BY <2>1, <2>7 DEF WorkerIsRight
    <3>2. st[n] = ss[n]
      BY <1>2, <1>3, <3>1 DEF GoneIsRight
    <3>3. ASSUME NEW p \in Peers, HasNone(ss, mx, p, m, n) PROVE HasNone(st, m2, p, m, n)
      BY <2>4, <2>5, <3>2, <3>3 DEF HasNone
    <3> QED BY <3>1, <3>2, <3>3 DEF GoneIsRight
  <2> QED BY <2>1, <2>3, <2>6, <2>7 DEF WorkerIsRight
<1>9. PortsDiffer(m2)
  <2> SUFFICES ASSUME NEW m \in Ids, NEW k \in Ids, m2[m].ref > 0, m2[k].ref > 0, m2[m].port = m2[k].port PROVE m = k
    BY DEF PortsDiffer
  <2>1. m2[m].ref \in Nat /\ m2[k].ref \in Nat /\ mx[m].ref \in Nat /\ mx[k].ref \in Nat
    BY <1>1, <1>4 DEF TypesAreRight, MuxSet
  <2>2. mx[m].ref > 0 /\ mx[k].ref > 0 /\ mx[m].port = mx[k].port
    BY <1>4, <2>1
  <2> QED BY <2>2 DEF Good, PortsDiffer
<1>10. NewestIsUp(st)
  <2>1. \A j \in Ids : st[j].place = "listed" => st[j] = ss[j]
    BY <1>3
  <2> QED BY <2>1 DEF Good, NewestIsUp
<1>11. QueuesAreRight(st, cl)
  <2> SUFFICES ASSUME NEW l \in Ids
               PROVE  /\ \A q \in st[l].queue : st[q].place = "listed" /\ st[q].listener = l /\ q \notin cl /\ q \notin st[l].accepted
                      /\ \A a \in st[l].accepted : st[a].place # "none"
    BY DEF QueuesAreRight
  <2>1. /\ \A q \in ss[l].queue : ss[q].place = "listed" /\ ss[q].listener = l /\ q \notin cl /\ q \notin ss[l].accepted
        /\ \A a \in ss[l].accepted : ss[a].place # "none"
    BY DEF Good, QueuesAreRight
  <2>2. ss[l].queue \in SUBSET Ids /\ ss[l].accepted \in SUBSET Ids
    BY <1>1 DEF TypesAreRight, SocketSet
  <2>3. \A q \in ss[l].queue : q \in Ids /\ q \notin R /\ st[q] = ss[q]
    BY <1>2, <1>3, <2>1, <2>2
  <2>4. \A a \in ss[l].accepted : st[a].place # "none"
    <3> SUFFICES ASSUME NEW a \in ss[l].accepted PROVE st[a].place # "none"
      OBVIOUS
    <3>1. a \in Ids /\ ss[a].place # "none"
      BY <2>1, <2>2
    <3> QED BY <1>3, <3>1
  <2>5. st[l].queue = ss[l].queue /\ st[l].accepted = ss[l].accepted
    BY <1>3
  <2> QED BY <2>1, <2>3, <2>4, <2>5
<1>12. NobodyIsLost(st, wk)
  <2> SUFFICES ASSUME NEW i \in Ids, st[i].place = "listed", st[i].status # "closed", st[i].listener # 0
               PROVE  \/ i \in st[st[i].listener].queue \/ i \in st[st[i].listener].accepted
                      \/ \E m \in Ids : wk[m].at = "listed" /\ wk[m].ns = i
    BY DEF NobodyIsLost
  <2>1. PICK l \in Ids : l = ss[i].listener /\ st[i] = ss[i]
    <3>1. st[i] = ss[i] /\ ss[i].listener \in IdsOrNone
      BY <1>1, <1>3 DEF TypesAreRight, SocketSet
    <3> QED BY <3>1 DEF IdsOrNone
  <2>2. i \in ss[l].queue \/ i \in ss[l].accepted \/ \E m \in Ids : wk[m].at = "listed" /\ wk[m].ns = i
    BY <2>1 DEF Good, NobodyIsLost
  <2>3. st[l].queue = ss[l].queue /\ st[l].accepted = ss[l].accepted
    BY <1>3
  <2> QED BY <2>1, <2>2, <2>3
<1>13. SleepersAreRight(st, wk, ac, g)
  <2>1. SleepersAreRight(ss, wk, ac, g) /\ ss \in [Ids -> SocketSet]
    BY <1>1 DEF Good, TypesAreRight
  <2>2. ASSUME NEW k \in Ids, WaitingIn(ac, k) # {}, g = "running"
        PROVE  /\ st[k].place = ss[k].place /\ st[k].status = ss[k].status /\ st[k].broken = ss[k].broken
               /\ st[k].queue \subseteq ss[k].queue
    <3>1. ss[k].place = "listed"
      BY <2>1, <2>2 DEF SleepersAreRight
    <3>2. st[k] = ss[k]
      BY <1>2, <1>3, <3>1
    <3> QED BY <3>2
  <2> QED BY ONLY <2>1, <2>2, SleepersStay
<1>14. MuxesAreRight(st, m2)
  <2> SUFFICES ASSUME NEW m \in Ids
               PROVE  /\ m2[m].ref = Cardinality(Users(st, m))
                      /\ m2[m].listener # 0 => m2[m].listener \in Users(st, m)
                      /\ st[m].place \in {"none", "made"} \/ (st[m].place = "listed" /\ st[m].status = "init") => m2[m].ref = 0
    BY DEF MuxesAreRight
  <2>1. m2[m].listener # 0 => m2[m].listener \in Users(st, m)
    BY <1>1, <1>4 DEF MuxesAreRight
  <2>2. ASSUME st[m].place \in {"none", "made"} \/ (st[m].place = "listed" /\ st[m].status = "init") PROVE m2[m].ref = 0
    <3>1. st[m] = ss[m]
      BY <1>3, <2>2
    <3>2. mx[m].ref = 0
      BY <1>1, <2>2, <3>1 DEF MuxesAreRight
    <3>3. m2[m].ref \in Nat /\ m2[m].ref <= mx[m].ref
      BY <1>4 DEF MuxSet
    <3> QED BY <3>2, <3>3
  <2> QED BY <1>4, <2>1, <2>2
<1>15. EndIsRight(st, wk, g)
  <2>1. \A j \in Ids : st[j].place = "listed" => ss[j].place = "listed"
    BY <1>3
  <2> QED BY <2>1 DEF Good, EndIsRight
<1> QED BY <1>5, <1>6, <1>7, <1>8, <1>9, <1>10, <1>11, <1>12, <1>13, <1>14, <1>15 DEF Good

\* Of a socket that is deleted its queue does not matter.
LEMMA AlikeAreDeleted ==
  ASSUME NEW x, NEW o, Alike(x, o), x.accepted = o.accepted, x \in SocketSet, o \in SocketSet
  PROVE  Deleted(x) = Deleted(o)
<1>1. Finished(x).onHeap = Finished(o).onHeap
  <2>1. CASE x.linger = "left" /\ x.connected /\ ~x.broken
    BY <2>1 DEF Finished, Alike
  <2>2. CASE ~(x.linger = "left" /\ x.connected /\ ~x.broken) /\ x.opened
    <3>1. PICK d \in BOOLEAN : d = (x.onHeap /\ ~x.connected)
      <4>1. (x.onHeap /\ ~x.connected) \in BOOLEAN
        OBVIOUS
      <4> QED BY <4>1
    <3>2. d = (o.onHeap /\ ~o.connected)
      BY <3>1, Zenon DEF Alike
    <3>3. Finished(x) = [x EXCEPT !.closing = TRUE, !.connected = FALSE, !.opened = FALSE, !.onHeap = d]
      BY <2>2, <3>1 DEF Finished, Shut
    <3>4. Finished(o) = [o EXCEPT !.closing = TRUE, !.connected = FALSE, !.opened = FALSE, !.onHeap = d]
      BY <2>2, <3>2 DEF Finished, Shut, Alike
    <3>5. Finished(x).onHeap = d
      BY <3>1, <3>3 DEF SocketSet
    <3>6. Finished(o).onHeap = d
      BY <3>1, <3>4 DEF SocketSet
    <3> QED BY <3>5, <3>6, Zenon
  <2>3. CASE ~(x.linger = "left" /\ x.connected /\ ~x.broken) /\ ~x.opened
    BY <2>3 DEF Finished, Shut, Alike
  <2> QED BY <2>1, <2>2, <2>3
<1> QED BY <1>1, Zenon DEF Deleted, Alike

\* The collector: the two loops, then removeSocket, first the queues and then the sockets.
LEMMA CollectKeeps == ASSUME SocketsInv, NEW unread \in SUBSET Patients, Collect(unread) PROVE SocketsInv'
<1>1. PICK ss : ss = Settled(ClosedBroken(unread))
  OBVIOUS
<1>2. PICK R : R = ToRemove(ss)
  OBVIOUS
<1>3. PICK Q : Q = UNION {ss[l].queue : l \in R}
  OBVIOUS
<1>4. /\ gc # "ended" /\ sockets' = Removed(ss, R) /\ muxes' = Released(ss, R)
      /\ UNCHANGED <<seed, workers, accepts, closes, gc>>
  BY <1>1, <1>2 DEF Collect, callVars
<1>5. Good(ss, muxes, seed, workers, accepts, closes, gc)
  <2>1. PICK s0 : s0 = ClosedBroken(unread)
    OBVIOUS
  <2>2. Good(s0, muxes, seed, workers, accepts, closes, gc)
    BY <1>4, <2>1, ClosedKeeps
  <2>3. ss = Settled(s0)
    BY <1>1, <2>1
  <2> QED BY ONLY <2>2, <2>3, SettledKeeps
<1>6. TypesAreRight(ss, muxes, seed, workers, accepts, closes, gc)
  BY <1>5 DEF Good
<1>7. R \in SUBSET Ids /\ \A j \in R : ss[j].place = "closed" /\ ss[j].old /\ ~ss[j].onList
  BY <1>2 DEF ToRemove
<1>8. \A j \in Q : j \notin R
  <2> SUFFICES ASSUME NEW j \in Q PROVE j \notin R
    OBVIOUS
  <2>1. PICK l \in R : j \in ss[l].queue
    BY <1>3
  <2>2. ss[j].place = "listed"
    BY <1>5, <1>7, <2>1 DEF Good, QueuesAreRight
  <2> QED BY <1>7, <2>2
<1>9. PICK st : st = [i \in Ids |-> IF i \in R THEN [ss[i] EXCEPT !.queue = {}]
                                    ELSE IF i \in Q THEN [Shut([ss[i] EXCEPT !.broken = TRUE])
                                                          EXCEPT !.status = "closed", !.place = "closed", !.old = FALSE]
                                    ELSE ss[i]]
  OBVIOUS
<1>10. ASSUME NEW j \in Ids
       PROVE  /\ st[j] \in SocketSet
              /\ st[j].mux = ss[j].mux /\ st[j].listener = ss[j].listener /\ st[j].peer = ss[j].peer /\ st[j].accepted = ss[j].accepted
              /\ st[j].onList = ss[j].onList
              /\ st[j].queue = (IF j \in R THEN {} ELSE ss[j].queue)
              /\ IF j \in Q
                 THEN /\ st[j].place = "closed" /\ st[j].status = "closed" /\ ~st[j].old /\ st[j].broken /\ st[j].linger = ss[j].linger
                      /\ \/ /\ st[j].opened = ss[j].opened /\ st[j].closing = ss[j].closing /\ st[j].connected = ss[j].connected
                            /\ st[j].onHeap = ss[j].onHeap
                         \/ ~st[j].opened /\ st[j].closing /\ ~st[j].connected /\ (st[j].onHeap => ss[j].onHeap /\ ~ss[j].connected)
                 ELSE /\ st[j].place = ss[j].place /\ st[j].status = ss[j].status /\ st[j].old = ss[j].old /\ st[j].broken = ss[j].broken
                      /\ st[j].linger = ss[j].linger /\ st[j].opened = ss[j].opened /\ st[j].closing = ss[j].closing
                      /\ st[j].connected = ss[j].connected /\ st[j].onHeap = ss[j].onHeap
  <2>1. PICK o \in SocketSet : o = ss[j]
    BY <1>6 DEF TypesAreRight
  <2>2. CASE j \in R
    <3>1. PICK x : x = [o EXCEPT !.queue = {}]
      OBVIOUS
    <3>2. x \in SocketSet /\ x.queue = {} /\ Alike(x, o) /\ x.accepted = o.accepted /\ x.status = o.status /\ x.old = o.old
      BY <3>1 DEF SocketSet, Alike
    <3>3. st[j] = x /\ j \notin Q
      BY <1>8, <1>9, <2>1, <2>2, <3>1
    <3> QED BY <2>1, <2>2, <3>2, <3>3 DEF Alike
  <2>3. CASE j \in Q
    <3>1. PICK x : x = [o EXCEPT !.broken = TRUE]
      OBVIOUS
    <3>2. PICK y : y = Shut(x)
      OBVIOUS
    <3>3. PICK z : z = [y EXCEPT !.status = "closed", !.place = "closed", !.old = FALSE]
      OBVIOUS
    <3>4. /\ x \in SocketSet /\ x.broken /\ x.mux = o.mux /\ x.listener = o.listener /\ x.peer = o.peer /\ x.accepted = o.accepted
          /\ x.onList = o.onList /\ x.queue = o.queue /\ x.linger = o.linger /\ x.opened = o.opened /\ x.closing = o.closing
          /\ x.connected = o.connected /\ x.onHeap = o.onHeap
      BY <3>1 DEF SocketSet
    <3>5. /\ y \in SocketSet /\ y.broken /\ y.mux = x.mux /\ y.listener = x.listener /\ y.peer = x.peer /\ y.accepted = x.accepted
          /\ y.onList = x.onList /\ y.queue = x.queue /\ y.linger = x.linger
          /\ \/ y.opened = x.opened /\ y.closing = x.closing /\ y.connected = x.connected /\ y.onHeap = x.onHeap
             \/ ~y.opened /\ y.closing /\ ~y.connected /\ (y.onHeap => x.onHeap /\ ~x.connected)
      <4>1. CASE x.opened
        <5>1. PICK d : d = (x.onHeap /\ ~x.connected)
          OBVIOUS
        <5>2. d \in BOOLEAN /\ (d => x.onHeap /\ ~x.connected)
          BY <5>1
        <5>3. y = [x EXCEPT !.closing = TRUE, !.connected = FALSE, !.opened = FALSE, !.onHeap = d]
          BY <3>2, <4>1, <5>1 DEF Shut
        <5>4. /\ y \in SocketSet /\ y.broken = x.broken /\ y.mux = x.mux /\ y.listener = x.listener /\ y.peer = x.peer /\ y.accepted = x.accepted
              /\ y.onList = x.onList /\ y.queue = x.queue /\ y.linger = x.linger
              /\ ~y.opened /\ y.closing /\ ~y.connected /\ y.onHeap = d
          BY <3>4, <5>2, <5>3, ZenonT(60) DEF SocketSet
        <5> QED BY <3>4, <5>2, <5>4, ZenonT(60)
      <4>2. CASE ~x.opened
        BY <3>2, <3>4, <4>2 DEF Shut
      <4> QED BY <4>1, <4>2
    <3>6. /\ z \in SocketSet /\ z.mux = y.mux /\ z.listener = y.listener /\ z.peer = y.peer /\ z.accepted = y.accepted
          /\ z.onList = y.onList /\ z.queue = y.queue /\ z.linger = y.linger /\ z.opened = y.opened /\ z.closing = y.closing
          /\ z.connected = y.connected /\ z.onHeap = y.onHeap /\ z.broken = y.broken /\ z.place = "closed" /\ z.status = "closed" /\ ~z.old
      BY <3>3, <3>5, ZenonT(60) DEF SocketSet
    <3>7. st[j] = z /\ j \notin R
      BY <1>8, <1>9, <2>1, <2>3, <3>1, <3>2, <3>3
    <3> QED BY <2>1, <2>3, <3>4, <3>5, <3>6, <3>7, ZenonT(60)
  <2>4. CASE j \notin R /\ j \notin Q
    BY <1>9, <2>1, <2>4
  <2> QED BY <2>2, <2>3, <2>4
<1>11. st \in [Ids -> SocketSet]
  <2>1. st = [j \in Ids |-> st[j]]
    BY <1>9
  <2> QED BY <1>10, <2>1
<1>12. Drains(ss, st, R)
  BY <1>3, <1>10 DEF Drains
<1>13. Good(st, muxes, seed, workers, accepts, closes, gc)
  BY ONLY <1>2, <1>4, <1>5, <1>11, <1>12, DrainKeeps
<1>14. Deletes(st, muxes, sockets', muxes', R)
  <2>1. \A j \in R : st[j].place = "closed" /\ st[j].old /\ ~st[j].onList /\ st[j].queue = {}
    <3> SUFFICES ASSUME NEW j \in R PROVE st[j].place = "closed" /\ st[j].old /\ ~st[j].onList /\ st[j].queue = {}
      OBVIOUS
    <3>1. j \in Ids /\ j \notin Q /\ ss[j].place = "closed" /\ ss[j].old /\ ~ss[j].onList
      BY <1>7, <1>8
    <3> QED BY <1>10, <3>1
  <2>2. sockets' = [j \in Ids |-> IF j \in R THEN Deleted(st[j]) ELSE st[j]]
    <3>1. sockets' = [i \in Ids |-> IF i \in R THEN Deleted(ss[i])
                                    ELSE IF i \in Q THEN [Shut([ss[i] EXCEPT !.broken = TRUE])
                                                          EXCEPT !.status = "closed", !.place = "closed", !.old = FALSE]
                                    ELSE ss[i]]
      BY <1>3, <1>4 DEF Removed
    <3>2. ASSUME NEW j \in R PROVE Deleted(ss[j]) = Deleted(st[j])
      <4>1. PICK o \in SocketSet : o = ss[j] /\ j \in Ids
        BY <1>6, <1>7 DEF TypesAreRight
      <4>2. PICK x : x = [o EXCEPT !.queue = {}]
        OBVIOUS
      <4>3. x \in SocketSet /\ Alike(x, o) /\ x.accepted = o.accepted
        BY <4>2 DEF SocketSet, Alike
      <4>4. st[j] = x
        BY <1>9, <4>1, <4>2
      <4> QED BY <4>1, <4>3, <4>4, AlikeAreDeleted
    <3> QED BY <1>9, <3>1, <3>2
  <2>3. muxes' = [m \in Ids |->
                    LET ref == muxes[m].ref - Cardinality({i \in R : st[i].mux = m})
                        r   == IF muxes[m].listener \in R THEN [muxes[m] EXCEPT !.listener = 0] ELSE muxes[m]
                    IN  IF ref = 0 THEN NoMux ELSE [r EXCEPT !.ref = ref]]
    <3>1. muxes' = [m \in Ids |-> LET ref == Silenced(R)[m].ref - Cardinality({i \in R : ss[i].mux = m})
                                  IN  IF ref = 0 THEN NoMux ELSE [Silenced(R)[m] EXCEPT !.ref = ref]]
      BY <1>4 DEF Released
    <3>2. ASSUME NEW m \in Ids
          PROVE  /\ Silenced(R)[m] = (IF muxes[m].listener \in R THEN [muxes[m] EXCEPT !.listener = 0] ELSE muxes[m])
                 /\ Silenced(R)[m].ref = muxes[m].ref /\ {i \in R : ss[i].mux = m} = {i \in R : st[i].mux = m}
      <4>1. muxes[m] \in MuxSet
        BY <1>6 DEF TypesAreRight
      <4>2. Silenced(R)[m] = (IF muxes[m].listener \in R THEN [muxes[m] EXCEPT !.listener = 0] ELSE muxes[m])
        BY DEF Silenced
      <4>3. Silenced(R)[m].ref = muxes[m].ref
        BY <4>1, <4>2 DEF MuxSet
      <4>4. {i \in R : ss[i].mux = m} = {i \in R : st[i].mux = m}
        BY <1>7, <1>10
      <4> QED BY <4>2, <4>3, <4>4
    <3> QED BY <3>1, <3>2
  <2> QED BY <1>7, <2>1, <2>2, <2>3 DEF Deletes
<1>15. PICK s2, m2 : s2 = sockets' /\ m2 = muxes'
  OBVIOUS
<1>16. Good(s2, m2, seed, workers, accepts, closes, gc)
  <2>1. Deletes(st, muxes, s2, m2, R)
    BY <1>14, <1>15
  <2> QED BY ONLY <1>4, <1>13, <2>1, DeleteKeeps
<1> QED BY <1>4, <1>15, <1>16 DEF SocketsInv

\* cleanup closes everything at once.
LEMMA CleanupKeeps == ASSUME SocketsInv, Cleanup PROVE SocketsInv'
<1>1. Good(sockets, muxes, seed, workers, accepts, closes, gc)
  BY DEF SocketsInv
<1>2. TypesAreRight(sockets, muxes, seed, workers, accepts, closes, gc)
  BY <1>1 DEF Good
<1>3. PICK all : all = {i \in Ids : Listed(i)}
  OBVIOUS
<1>4. PICK st : st = sockets'
  OBVIOUS
<1>5. /\ gc = "running" /\ closes = {} /\ gc' = "clearing" /\ muxes' = Silenced(all)
      /\ \A m \in Ids : workers[m].at = "idle"
      /\ UNCHANGED <<seed, workers, accepts, closes>>
  BY <1>3 DEF Cleanup
<1>6. st = [i \in Ids |->
              LET s == [sockets[i] EXCEPT !.queue = @ \ all, !.accepted = @ \ all]
              IN  IF Listed(i) THEN [Shut(s) EXCEPT !.broken = TRUE, !.status = "closed", !.place = "closed", !.old = TRUE]
                  ELSE [s EXCEPT !.old = TRUE]]
  BY <1>3, <1>4 DEF Cleanup
<1>7. ASSUME NEW j \in Ids
      PROVE  /\ st[j] \in SocketSet /\ Sane(st[j], FALSE) /\ st[j].place # "listed"
             /\ st[j].mux = sockets[j].mux /\ st[j].listener = sockets[j].listener /\ st[j].peer = sockets[j].peer
             /\ st[j].queue = {} /\ st[j].accepted \subseteq sockets[j].accepted
             /\ st[j].place = sockets[j].place \/ (sockets[j].place = "listed" /\ st[j].place = "closed")
             /\ st[j].status = sockets[j].status \/ st[j].status = "closed"
             /\ sockets[j].broken => st[j].broken
  <2>1. PICK o \in SocketSet : o = sockets[j] /\ Sane(o, FALSE)
    <3>1. j \notin closes
      BY <1>5
    <3>2. sockets[j] \in SocketSet /\ Sane(sockets[j], j \in closes)
      BY SocketFacts
    <3> QED BY <3>1, <3>2 DEF Sane
  <2>2. PICK s : s = [o EXCEPT !.queue = @ \ all, !.accepted = @ \ all]
    OBVIOUS
  <2>3. o.queue \ all = {} /\ o.accepted \ all \in SUBSET Ids
    <3>1. o.queue \in SUBSET Ids /\ o.accepted \in SUBSET Ids
      BY DEF SocketSet
    <3>2. \A q \in o.queue : sockets[q].place = "listed"
      BY <1>1, <2>1 DEF Good, QueuesAreRight
    <3> QED BY <1>3, <3>1, <3>2 DEF Listed
  <2>4. /\ s \in SocketSet /\ Alike(s, o) /\ s.queue = {} /\ s.accepted = o.accepted \ all /\ s.status = o.status
    <3>1. s = [o EXCEPT !.queue = {}, !.accepted = o.accepted \ all]
      BY <2>2, <2>3 DEF SocketSet
    <3> QED BY <2>3, <3>1 DEF SocketSet, Alike
  <2>5. CASE Listed(j)
    <3>1. PICK y : y = Shut(s)
      OBVIOUS
    <3>2. PICK z : z = [y EXCEPT !.broken = TRUE, !.status = "closed", !.place = "closed", !.old = TRUE]
      OBVIOUS
    <3>3. /\ y \in SocketSet /\ y.mux = s.mux /\ y.listener = s.listener /\ y.peer = s.peer /\ y.accepted = s.accepted
          /\ y.onList = s.onList /\ y.queue = s.queue /\ y.linger = s.linger
          /\ \/ y.opened = s.opened /\ y.closing = s.closing /\ y.connected = s.connected /\ y.onHeap = s.onHeap
             \/ ~y.opened /\ y.closing /\ ~y.connected /\ (y.onHeap => s.onHeap /\ ~s.connected)
      <4>1. CASE s.opened
        <5>1. PICK d : d = (s.onHeap /\ ~s.connected)
          OBVIOUS
        <5>2. d \in BOOLEAN /\ (d => s.onHeap /\ ~s.connected)
          BY <5>1
        <5>3. y = [s EXCEPT !.closing = TRUE, !.connected = FALSE, !.opened = FALSE, !.onHeap = d]
          BY <3>1, <4>1, <5>1 DEF Shut
        <5>4. /\ y \in SocketSet /\ y.mux = s.mux /\ y.listener = s.listener /\ y.peer = s.peer /\ y.accepted = s.accepted
              /\ y.onList = s.onList /\ y.queue = s.queue /\ y.linger = s.linger
              /\ ~y.opened /\ y.closing /\ ~y.connected /\ y.onHeap = d
          BY <2>4, <5>2, <5>3, ZenonT(60) DEF SocketSet
        <5> QED BY <5>2, <5>4, ZenonT(60)
      <4>2. CASE ~s.opened
        BY <2>4, <3>1, <4>2 DEF Shut
      <4> QED BY <4>1, <4>2
    <3>4. /\ z \in SocketSet /\ z.mux = y.mux /\ z.listener = y.listener /\ z.peer = y.peer /\ z.accepted = y.accepted
          /\ z.onList = y.onList /\ z.queue = y.queue /\ z.linger = y.linger /\ z.opened = y.opened /\ z.closing = y.closing
          /\ z.connected = y.connected /\ z.onHeap = y.onHeap /\ z.broken /\ z.place = "closed" /\ z.status = "closed" /\ z.old
      BY <3>2, <3>3 DEF SocketSet
    <3>5. st[j] = z
      BY <1>6, <2>1, <2>2, <2>5, <3>1, <3>2
    <3>6. o.place = "listed"
      BY <2>1, <2>5 DEF Listed
    <3>7. Sane(z, FALSE)
      <4>1. /\ z.mux = o.mux /\ z.listener = o.listener /\ z.peer = o.peer /\ z.onList = o.onList
            /\ \/ z.opened = o.opened /\ z.connected = o.connected /\ z.onHeap = o.onHeap
               \/ ~z.connected /\ (z.onHeap => o.onHeap /\ ~o.connected)
            /\ z.linger = o.linger /\ z.closing \in {o.closing, TRUE}
        BY <2>4, <3>3, <3>4 DEF Alike
      <4> QED BY <2>1, <3>4, <3>6, <4>1 DEF Sane
    <3> QED BY <2>1, <2>4, <3>3, <3>4, <3>5, <3>6, <3>7, ZenonT(60) DEF Alike
  <2>6. CASE ~Listed(j)
    <3>1. PICK z : z = [s EXCEPT !.old = TRUE]
      OBVIOUS
    <3>2. /\ z \in SocketSet /\ z.mux = s.mux /\ z.listener = s.listener /\ z.peer = s.peer /\ z.place = s.place
          /\ z.broken = s.broken /\ z.linger = s.linger /\ z.opened = s.opened /\ z.closing = s.closing
          /\ z.connected = s.connected /\ z.onList = s.onList /\ z.onHeap = s.onHeap
          /\ z.queue = {} /\ z.accepted = s.accepted /\ z.status = s.status
      BY <2>4, <3>1 DEF SocketSet
    <3>3. st[j] = z
      BY <1>6, <2>1, <2>2, <2>6, <3>1
    <3>4. o.place # "listed"
      BY <2>1, <2>6 DEF Listed
    <3>5. /\ z.mux = o.mux /\ z.listener = o.listener /\ z.peer = o.peer /\ z.place = o.place
          /\ z.broken = o.broken /\ z.linger = o.linger /\ z.opened = o.opened /\ z.closing = o.closing
          /\ z.connected = o.connected /\ z.onList = o.onList /\ z.onHeap = o.onHeap
      BY <2>4, <3>2 DEF Alike
    <3>6. Sane(z, FALSE)
      <4>1. z.accepted = o.accepted \ all /\ z.status = o.status
        BY <2>4, <3>2
      <4>2. o.place \in {"none", "made"} => z.accepted = {}
        BY <2>1, <4>1 DEF Sane
      <4> QED BY <2>1, <3>2, <3>4, <3>5, <4>1, <4>2 DEF Sane
    <3> QED BY <2>1, <2>4, <3>2, <3>3, <3>4, <3>5, <3>6
  <2> QED BY <2>5, <2>6
<1>8. st \in [Ids -> SocketSet]
  <2>1. st = [j \in Ids |-> st[j]]
    BY <1>6
  <2> QED BY <1>7, <2>1
<1>9. AllSane(st, {})
  <2> SUFFICES ASSUME NEW j \in Ids PROVE Sane(st[j], j \in {})
    BY DEF AllSane
  <2>1. Sane(st[j], FALSE)
    BY <1>7
  <2> QED BY <2>1 DEF Sane
<1>10. Fades(sockets, st)
  BY <1>7 DEF Fades
<1>11. FadesInOrder(sockets, st)
  BY <1>7 DEF FadesInOrder
<1>12. FadesBesideWorkers(sockets, st, workers, {})
  BY <1>5 DEF FadesBesideWorkers
<1>13. SleepersAreRight(st, workers, accepts, "clearing")
  BY <1>1 DEF Good, SleepersAreRight
<1>14. EndIsRight(st, workers, "clearing")
  BY <1>5, <1>7 DEF EndIsRight
<1>15. FadeIs(sockets, workers, closes, st, accepts, {}, "clearing")
  BY <1>2, <1>8, <1>9, <1>10, <1>11, <1>12, <1>13, <1>14 DEF FadeIs, TypesAreRight
<1>16. Good(st, muxes, seed, workers, accepts, {}, "clearing")
  BY ONLY <1>1, <1>15, FadeKeeps, Zenon
<1>17. PICK m2 : m2 = muxes'
  OBVIOUS
<1>18. \A m \in Ids : /\ m2[m] \in MuxSet /\ m2[m].ref = muxes[m].ref /\ m2[m].port = muxes[m].port
                      /\ m2[m].listener # 0 => m2[m].listener \in Users(st, m)
  <2> SUFFICES ASSUME NEW m \in Ids
               PROVE  /\ m2[m] \in MuxSet /\ m2[m].ref = muxes[m].ref /\ m2[m].port = muxes[m].port
                      /\ m2[m].listener # 0 => m2[m].listener \in Users(st, m)
    OBVIOUS
  <2>1. PICK o \in MuxSet : o = muxes[m]
    BY <1>2 DEF TypesAreRight
  <2>2. o.listener # 0 => o.listener \in Users(st, m)
    BY <1>16, <2>1 DEF Good, MuxesAreRight
  <2>3. m2[m] = IF o.listener \in all THEN [o EXCEPT !.listener = 0] ELSE o
    BY <1>5, <1>17, <2>1 DEF Silenced
  <2>4. m2[m] \in MuxSet /\ m2[m].ref = o.ref /\ m2[m].port = o.port /\ (m2[m].listener = 0 \/ m2[m].listener = o.listener)
    BY <2>3 DEF MuxSet, IdsOrNone
  <2> QED BY <2>1, <2>2, <2>4
<1>19. m2 \in [Ids -> MuxSet]
  <2>1. m2 = [m \in Ids |-> m2[m]]
    BY <1>5, <1>17 DEF Silenced
  <2> QED BY <1>18, <2>1
<1>20. Good(st, m2, seed, workers, accepts, {}, "clearing")
  BY ONLY <1>16, <1>18, <1>19, ListenersKeep
<1> QED BY <1>4, <1>5, <1>17, <1>20 DEF SocketsInv

\* Cookies are not part of the invariant.
LEMMA CookiesKeep == ASSUME SocketsInv, UNCHANGED <<sockets, muxes, seed, workers, accepts, closes, gc>> PROVE SocketsInv'
<1>1. Good(sockets, muxes, seed, workers, accepts, closes, gc)
  BY DEF SocketsInv
<1>2. /\ sockets' = sockets /\ muxes' = muxes /\ seed' = seed /\ workers' = workers /\ accepts' = accepts
      /\ closes' = closes /\ gc' = gc
  OBVIOUS
<1> QED BY <1>1, <1>2 DEF SocketsInv

\* Every step keeps the invariant.
LEMMA SocketsKeep == SocketsInv /\ [SocketsNext]_socketVars => SocketsInv'
<1> SUFFICES ASSUME SocketsInv, [SocketsNext]_socketVars PROVE SocketsInv'
  OBVIOUS
<1>1. CASE MinutePasses
  BY <1>1, CookiesKeep DEF MinutePasses
<1>2. CASE Cleanup
  BY <1>2, CleanupKeeps
<1>3. CASE ClearingEnds
  BY <1>3, ClearingEndsKeeps
<1>4. ASSUME NEW reuse \in BOOLEAN, NewSocket(reuse) PROVE SocketsInv'
  BY <1>4, NewSocketKeeps
<1>5. ASSUME NEW unread \in SUBSET Patients, Collect(unread) PROVE SocketsInv'
  BY <1>5, CollectKeeps
<1>6. ASSUME NEW t \in Acceptors, Accept(t) \/ AcceptReturns(t) PROVE SocketsInv'
  BY <1>6, AcceptKeeps, AcceptReturnsKeeps
<1>7. ASSUME NEW m \in Ids, DropBroken(m) \/ Enlist(m) \/ Enqueue(m) \/ Announce(m) PROVE SocketsInv'
  BY <1>7, DropBrokenKeeps, EnlistKeeps, EnqueueKeeps, AnnounceKeeps
<1>8. ASSUME NEW m \in Ids, NEW p \in Peers, GiveCookie(m, p) PROVE SocketsInv'
  BY <1>8, CookiesKeep DEF GiveCookie
<1>9. ASSUME NEW m \in Ids, NEW p \in Peers, ConnectRequest(m, p) \/ FindBroken(m, p) \/ Reconnect(m, p) PROVE SocketsInv'
  BY <1>9, ConnectRequestKeeps, FindBrokenKeeps, ReconnectKeeps
<1>10. ASSUME NEW i \in Ids, Listen(i) \/ CloseListener(i) \/ Close(i) \/ CloseReturns(i) PROVE SocketsInv'
  BY <1>10, ListenKeeps, CloseListenerKeeps, CloseKeeps, CloseReturnsKeeps
<1>11. ASSUME NEW i \in Ids, PeerGone(i) \/ LeaveReceiver(i) \/ Schedule(i) \/ Unschedule(i) \/ Ripen(i) PROVE SocketsInv'
  BY <1>11, PeerGoneKeeps, LeaveReceiverKeeps, ScheduleKeeps, UnscheduleKeeps, RipenKeeps
<1>15. ASSUME NEW i \in Ids, NEW how \in {"over", "expired"}, LingerEnds(i, how) PROVE SocketsInv'
  BY <1>15, LingerEndsKeeps
<1>12. ASSUME NEW i \in Ids, NEW p \in Ports \union {0}, Bind(i, p) PROVE SocketsInv'
  BY <1>12, BindKeeps
<1>13. ASSUME NEW i \in Ids, NEW up \in BOOLEAN, Connect(i, up) PROVE SocketsInv'
  BY <1>13, ConnectKeeps
<1>14. CASE UNCHANGED socketVars
  BY <1>14, CookiesKeep DEF socketVars
<1> QED BY <1>1, <1>2, <1>3, <1>4, <1>5, <1>6, <1>7, <1>8, <1>9, <1>10, <1>11, <1>12, <1>13, <1>14, <1>15 DEF SocketsNext

\* The invariant holds of every state of CUDTUnited.
THEOREM SocketsStayRight == SocketsSpec => []SocketsInv
<1>1. SocketsInit => SocketsInv
  BY SocketsStart
<1>2. SocketsInv /\ [SocketsNext]_socketVars => SocketsInv'
  BY SocketsKeep
<1> QED BY <1>1, <1>2, PTL DEF SocketsSpec

\* What waits for accept is there and outlives nobody, a peer has one connection, and
\* nobody oversleeps in accept (newConnection, accept, close, checkBrokenSockets).
THEOREM ConnectionsStayKept == SocketsSpec => []ConnectionsAreKept
<1>1. SocketsInv => ConnectionsAreKept
  BY SocketsImply
<1> QED BY <1>1, SocketsStayRight, PTL

\* Only the collector deletes.
Stays(i) == sockets'[i].place = "deleted" => sockets[i].place = "deleted"

\* Of a socket that was not used any more nothing is left on the sending heap, unless it
\* lingered in vain.
LEMMA FinishedLeavesTheHeap ==
  ASSUME NEW s \in SocketSet, s.onHeap => s.connected, s.connected => s.opened, Finished(s).onHeap
  PROVE  s.linger = "left" /\ ~s.broken
<1> SUFFICES ASSUME ~(s.linger = "left" /\ s.connected /\ ~s.broken) PROVE FALSE
  OBVIOUS
<1>1. Finished(s) = Shut(s)
  BY DEF Finished
<1>2. CASE s.opened
  <2>1. PICK d : d = (s.onHeap /\ ~s.connected)
    OBVIOUS
  <2>2. d = FALSE
    BY <2>1
  <2>3. Shut(s) = [s EXCEPT !.closing = TRUE, !.connected = FALSE, !.opened = FALSE, !.onHeap = d]
    BY <1>2, <2>1 DEF Shut
  <2>4. Shut(s).onHeap = d
    BY <2>2, <2>3 DEF SocketSet
  <2> QED BY <1>1, <2>2, <2>4
<1>3. CASE ~s.opened
  BY <1>1, <1>3 DEF Shut
<1> QED BY <1>2, <1>3

\* What a step that takes a socket from memory may rely on.
Unused(i) ==
  /\ ~sockets[i].onList
  /\ sockets[i].linger \in {"yes", "over", "expired"} => sockets[i].broken
  /\ sockets'[i].onHeap => sockets[i].linger = "left" /\ ~sockets[i].broken
  /\ Waiting(i) # {} => gc = "clearing"

\* What the collector deletes was due before it began, and so is on no list, has stopped
\* lingering, and is awaited by nobody before cleanup.
LEMMA CollectRemoves ==
  ASSUME SocketsInv, NEW unread \in SUBSET Patients, Collect(unread), NEW i \in Ids, Removes(i)
  PROVE  Unused(i)
<1>1. PICK s0 : s0 = ClosedBroken(unread)
  OBVIOUS
<1>2. PICK ss : ss = Settled(s0)
  OBVIOUS
<1>3. PICK R : R = ToRemove(ss)
  OBVIOUS
<1>4. sockets' = Removed(ss, R) /\ gc # "ended"
  BY <1>1, <1>2, <1>3 DEF Collect
<1>5. s0 \in [Ids -> SocketSet] /\ ClosesSome(sockets, s0, ToClose(unread))
  BY <1>1, ClosedBrokenIs
<1>7. PICK o \in SocketSet : o = s0[i]
  BY <1>5
<1>8. PICK x : x = [o EXCEPT !.linger = IF @ = "expired" THEN "left" ELSE "no", !.closing = TRUE, !.old = FALSE]
  OBVIOUS
<1>9. /\ ss[i] = (IF o.place = "closed" /\ o.linger \in {"over", "expired"} THEN x ELSE o)
      /\ x.place = o.place /\ x.old = FALSE /\ x \in SocketSet
  <2>1. PICK h \in {"no", "left"} : h = IF o.linger = "expired" THEN "left" ELSE "no"
    OBVIOUS
  <2>2. x = [o EXCEPT !.linger = h, !.closing = TRUE, !.old = FALSE]
    BY <1>8, <2>1
  <2>3. x.place = o.place /\ x.old = FALSE /\ x \in SocketSet
    BY <1>7, <2>1, <2>2 DEF SocketSet
  <2>4. ss[i] = (IF o.place = "closed" /\ o.linger \in {"over", "expired"} THEN x ELSE o)
    BY <1>2, <1>7, <1>8 DEF Settled
  <2> QED BY <2>3, <2>4
<1>10. PICK y \in SocketSet : y = ss[i] /\ y.place = o.place
  BY <1>9
<1>11. i \in R
  <2> SUFFICES ASSUME i \notin R PROVE FALSE
    OBVIOUS
  <2>1. PICK Q : Q = UNION {ss[l].queue : l \in R}
    OBVIOUS
  <2>2. PICK z : z = Shut([y EXCEPT !.broken = TRUE])
    OBVIOUS
  <2>3. sockets'[i] = IF i \in Q THEN [z EXCEPT !.status = "closed", !.place = "closed", !.old = FALSE] ELSE y
    BY <1>4, <1>10, <2>1, <2>2 DEF Removed
  <2>4. CASE i \in Q
    <3>1. PICK v \in SocketSet : v = [y EXCEPT !.broken = TRUE]
      BY DEF SocketSet
    <3>2. z \in SocketSet
      <4>1. PICK d \in BOOLEAN : d = (v.onHeap /\ ~v.connected)
        <5>1. (v.onHeap /\ ~v.connected) \in BOOLEAN
          OBVIOUS
        <5> QED BY <5>1
      <4>2. z = IF v.opened THEN [v EXCEPT !.closing = TRUE, !.connected = FALSE, !.opened = FALSE, !.onHeap = d] ELSE v
        BY <2>2, <3>1, <4>1 DEF Shut
      <4> QED BY <4>2, ZenonT(60) DEF SocketSet
    <3>3. sockets'[i].place = "closed"
      BY <2>3, <2>4, <3>2 DEF SocketSet
    <3> QED BY <3>3 DEF Removes
  <2>5. CASE i \notin Q
    <3>1. sockets'[i].place = o.place
      BY <1>10, <2>3, <2>5
    <3>2. o.place = "closed" \/ o.place = sockets[i].place
      BY <1>5, <1>7 DEF ClosesSome
    <3> QED BY <3>1, <3>2 DEF Removes
  <2> QED BY <2>4, <2>5
<1>12. y.place = "closed" /\ y.old /\ ~y.onList
  BY <1>3, <1>10, <1>11 DEF ToRemove
<1>13. y = o
  BY <1>9, <1>10, <1>12
<1>14. PICK s \in SocketSet : s = sockets[i] /\ Sane(s, i \in closes)
  BY SocketFacts
<1>15. /\ s.place = "closed" /\ s.old /\ o.onList = s.onList /\ o.linger = s.linger /\ o.broken = s.broken
       /\ o.opened = s.opened /\ o.connected = s.connected /\ o.onHeap = s.onHeap
  BY <1>5, <1>7, <1>12, <1>13, <1>14 DEF ClosesSome
<1>16. ~s.onList /\ (s.linger \in {"yes", "over", "expired"} => s.broken)
  BY <1>12, <1>13, <1>14, <1>15 DEF Sane
<1>17. sockets'[i].onHeap => s.linger = "left" /\ ~s.broken
  <2>1. sockets'[i] = Deleted(o)
    BY <1>4, <1>10, <1>11, <1>13 DEF Removed
  <2>2. PICK h : h = Finished(o).onHeap
    OBVIOUS
  <2>3. Deleted(o).onHeap = h
    BY <2>2 DEF Deleted, Fresh
  <2>4. (o.onHeap => o.connected) /\ (o.connected => o.opened)
    BY <1>14, <1>15 DEF Sane
  <2> QED BY <1>15, <2>1, <2>2, <2>3, <2>4, FinishedLeavesTheHeap
<1>18. Waiting(i) # {} => gc = "clearing"
  <2>1. SleepersAreRight(sockets, workers, accepts, gc) /\ gc \in {"running", "clearing", "ended"}
    BY DEF SocketsInv, Good, TypesAreRight
  <2>2. WaitingIn(accepts, i) = Waiting(i)
    BY DEF Waiting, WaitingIn
  <2>3. gc = "running" /\ Waiting(i) # {} => s.place = "listed"
    BY <1>14, <2>1, <2>2 DEF SleepersAreRight
  <2> QED BY <1>4, <1>15, <2>1, <2>3
<1> QED BY <1>14, <1>16, <1>17, <1>18 DEF Unused

\* Nothing else deletes a socket.
LEMMA OthersStay ==
  ASSUME SocketsInv, NEW i \in Ids,
         \/ MinutePasses \/ Cleanup \/ ClearingEnds \/ UNCHANGED socketVars
         \/ \E reuse \in BOOLEAN : NewSocket(reuse)
         \/ \E t \in Acceptors : Accept(t) \/ AcceptReturns(t)
         \/ \E m \in Ids : \/ DropBroken(m) \/ Enlist(m) \/ Enqueue(m) \/ Announce(m)
                           \/ \E p \in Peers : \/ GiveCookie(m, p) \/ ConnectRequest(m, p)
                                               \/ FindBroken(m, p) \/ Reconnect(m, p)
         \/ \E k \in Ids : \/ Listen(k) \/ CloseListener(k) \/ Close(k) \/ CloseReturns(k)
                           \/ PeerGone(k) \/ LeaveReceiver(k) \/ Schedule(k) \/ Unschedule(k) \/ Ripen(k)
                           \/ \E how \in {"over", "expired"} : LingerEnds(k, how)
                           \/ \E p \in Ports \union {0} : Bind(k, p)
                           \/ \E up \in BOOLEAN : Connect(k, up)
  PROVE  Stays(i)
<1>1. PICK o \in SocketSet : o = sockets[i]
  BY SocketFacts
<1>2. sockets \in [Ids -> SocketSet]
  BY SocketFacts
<1>3. CASE MinutePasses \/ ClearingEnds \/ UNCHANGED socketVars
  BY <1>3 DEF MinutePasses, ClearingEnds, socketVars, Stays
<1>4. CASE Cleanup
  <2>1. PICK s : s = [o EXCEPT !.queue = @ \ {k \in Ids : Listed(k)}, !.accepted = @ \ {k \in Ids : Listed(k)}]
    OBVIOUS
  <2>2. PICK y : y = Shut(s)
    BY ONLY ZenonT(60)
  <2>3. sockets'[i] = IF Listed(i) THEN [y EXCEPT !.broken = TRUE, !.status = "closed", !.place = "closed", !.old = TRUE]
                      ELSE [s EXCEPT !.old = TRUE]
    BY <1>1, <1>4, <2>1, <2>2 DEF Cleanup
  <2>4. o.queue \in SUBSET Ids /\ o.accepted \in SUBSET Ids
    BY DEF SocketSet
  <2>5. s \in SocketSet /\ s.place = o.place
    BY <2>1, <2>4 DEF SocketSet
  <2>6. y \in SocketSet
    <3>1. PICK d \in BOOLEAN : d = (s.onHeap /\ ~s.connected)
      <4>1. (s.onHeap /\ ~s.connected) \in BOOLEAN
        OBVIOUS
      <4> QED BY <4>1
    <3>2. y = IF s.opened THEN [s EXCEPT !.closing = TRUE, !.connected = FALSE, !.opened = FALSE, !.onHeap = d] ELSE s
      BY <2>2, <3>1 DEF Shut
    <3> QED BY <2>5, <3>2, ZenonT(60) DEF SocketSet
  <2>7. CASE Listed(i)
    <3>1. sockets'[i].place = "closed"
      BY <2>3, <2>6, <2>7 DEF SocketSet
    <3> QED BY <3>1 DEF Stays
  <2>8. CASE ~Listed(i)
    <3>1. sockets'[i].place = o.place
      BY <2>3, <2>5, <2>8 DEF SocketSet
    <3> QED BY <1>1, <3>1 DEF Stays
  <2> QED BY <2>7, <2>8
<1>5. ASSUME NEW reuse \in BOOLEAN, NewSocket(reuse) PROVE Stays(i)
  BY <1>1, <1>2, <1>5 DEF NewSocket, Stays, SocketSet
<1>6. ASSUME NEW t \in Acceptors, Accept(t) \/ AcceptReturns(t) PROVE Stays(i)
  <2>1. CASE AcceptReturns(t)
    BY <2>1 DEF AcceptReturns, Stays
  <2>2. ASSUME NEW l, AcceptTurn(t, l) PROVE Stays(i)
    BY <1>1, <1>2, <2>2 DEF AcceptTurn, Stays, SocketSet
  <2> QED BY <1>6, <2>1, <2>2 DEF Accept
<1>7. ASSUME NEW m \in Ids, Enlist(m) PROVE Stays(i)
  BY <1>1, <1>2, <1>7 DEF Enlist, Stays, SocketSet
<1>8. ASSUME NEW m \in Ids, Enqueue(m) PROVE Stays(i)
  BY <1>1, <1>2, <1>8 DEF Enqueue, Stays, SocketSet
<1>9. ASSUME NEW m \in Ids, NEW p \in Peers, GiveCookie(m, p) PROVE Stays(i)
  BY <1>9 DEF GiveCookie, Stays
<1>21. ASSUME NEW m \in Ids, Announce(m) PROVE Stays(i)
  BY <1>21 DEF Announce, Stays
<1>10. ASSUME NEW m, NEW l, NEW p, Make(m, l, p) PROVE Stays(i)
  <2>1. CASE sockets' = sockets
    BY <2>1 DEF Stays
  <2>2. PICK f : f = [Fresh EXCEPT !.place = "made", !.listener = l, !.peer = {p}]
    OBVIOUS
  <2>3. f.place = "made"
    BY <2>2 DEF Fresh
  <2>4. CASE sockets' = [sockets EXCEPT ![seed - 1] = f]
    BY <1>1, <1>2, <2>3, <2>4 DEF Stays
  <2> QED BY <1>10, <2>1, <2>2, <2>4 DEF Make
<1>17. ASSUME NEW m \in Ids, NEW p \in Peers, ConnectRequest(m, p) \/ Reconnect(m, p) PROVE Stays(i)
  BY <1>10, <1>17 DEF ConnectRequest, Reconnect
<1>18. ASSUME NEW m \in Ids, NEW p \in Peers, FindBroken(m, p) PROVE Stays(i)
  <2>1. PICK n : n = KnownSocket(p)
    OBVIOUS
  <2>2. sockets' = [sockets EXCEPT ![n].status = "closed", ![n].old = FALSE]
    BY <1>18, <2>1 DEF FindBroken
  <2> QED BY <1>1, <1>2, <2>2 DEF Stays, SocketSet
<1>19. ASSUME NEW m \in Ids, DropBroken(m) PROVE Stays(i)
  <2>1. PICK n, l : n = workers[m].ns /\ l = workers[m].ls
    OBVIOUS
  <2>2. sockets' = [sockets EXCEPT ![l].queue = @ \ {n}, ![l].accepted = @ \ {n}]
    BY <1>19, <2>1 DEF DropBroken
  <2> QED BY <1>1, <1>2, <2>2 DEF Stays, SocketSet
<1>11. ASSUME NEW k \in Ids, Listen(k) \/ CloseListener(k) PROVE Stays(i)
  BY <1>1, <1>2, <1>11 DEF Listen, CloseListener, Stays, SocketSet
<1>12. ASSUME NEW k \in Ids, Close(k) PROVE Stays(i)
  <2>1. PICK x \in SocketSet : x = sockets[k]
    BY SocketFacts
  <2>2. Shut(x).place = x.place
    <3>1. PICK d : d = (x.onHeap /\ ~x.connected)
      OBVIOUS
    <3>2. Shut(x) = IF x.opened THEN [x EXCEPT !.closing = TRUE, !.connected = FALSE, !.opened = FALSE, !.onHeap = d] ELSE x
      BY <3>1 DEF Shut
    <3> QED BY <3>2, ZenonT(60) DEF SocketSet
  <2>3. CASE sockets' = [sockets EXCEPT ![k] = Shut(@)]
    <3>1. sockets' = [sockets EXCEPT ![k] = Shut(x)]
      BY <2>1, <2>3
    <3> QED BY <1>1, <1>2, <2>1, <2>2, <3>1 DEF Stays
  <2>4. CASE sockets' = [sockets EXCEPT ![k].linger = "yes"]
    BY <1>1, <1>2, <2>4 DEF Stays, SocketSet
  <2> QED BY <1>12, <2>3, <2>4 DEF Close
<1>13. ASSUME NEW k \in Ids, CloseReturns(k) PROVE Stays(i)
  BY <1>1, <1>2, <1>13 DEF CloseReturns, Stays, SocketSet
<1>14. ASSUME NEW k \in Ids, PeerGone(k) \/ LeaveReceiver(k) \/ Schedule(k) \/ Unschedule(k) \/ Ripen(k) PROVE Stays(i)
  <2>1. CASE PeerGone(k)
    BY <1>1, <1>2, <2>1 DEF PeerGone, Stays, SocketSet
  <2>2. CASE LeaveReceiver(k)
    BY <1>1, <1>2, <2>2 DEF LeaveReceiver, Stays, SocketSet
  <2>3. CASE Schedule(k) \/ Unschedule(k)
    BY <1>1, <1>2, <2>3 DEF Schedule, Unschedule, Stays, SocketSet
  <2>4. CASE Ripen(k)
    BY <1>1, <1>2, <2>4 DEF Ripen, Stays, SocketSet
  <2> QED BY <1>14, <2>1, <2>2, <2>3, <2>4
<1>20. ASSUME NEW k \in Ids, NEW how, LingerEnds(k, how) PROVE Stays(i)
  BY <1>1, <1>2, <1>20 DEF LingerEnds, Stays, SocketSet
<1>15. ASSUME NEW k \in Ids, NEW p, Bind(k, p) PROVE Stays(i)
  <2>1. ASSUME NEW m, Join(k, m) PROVE Stays(i)
    BY <1>1, <1>2, <2>1 DEF Join, Stays, SocketSet
  <2>2. ASSUME NEW q, NEW st, NEW up, Found(k, q, st, up) PROVE Stays(i)
    BY <1>1, <1>2, <2>2 DEF Found, Stays, SocketSet
  <2>3. CASE sockets' = [sockets EXCEPT ![k].opened = TRUE]
    BY <1>1, <1>2, <2>3, SMTT(60) DEF Stays, SocketSet
  <2> QED BY <1>15, <2>1, <2>2, <2>3 DEF Bind
<1>16. ASSUME NEW k \in Ids, NEW up, Connect(k, up) PROVE Stays(i)
  <2>2. ASSUME NEW q, NEW st, Found(k, q, st, up) PROVE Stays(i)
    BY <1>1, <1>2, <2>2 DEF Found, Stays, SocketSet
  <2>3. CASE sockets' = [sockets EXCEPT ![k].status = "connected", ![k].connected = TRUE, ![k].onList = TRUE]
    BY <1>1, <1>2, <2>3 DEF Stays, SocketSet
  <2> QED BY <1>16, <2>2, <2>3 DEF Connect
<1> QED BY <1>3, <1>4, <1>5, <1>6, <1>7, <1>8, <1>9, <1>11, <1>12, <1>13, <1>14, <1>15, <1>16, <1>17, <1>18, <1>19, <1>20, <1>21, Zenon

\* So no step deletes a socket in use.
LEMMA RemovalStep == SocketsInv /\ [SocketsNext]_socketVars => \A i \in Ids : Removes(i) => Unused(i)
<1> SUFFICES ASSUME SocketsInv, [SocketsNext]_socketVars, NEW i \in Ids, Removes(i) PROVE Unused(i)
  OBVIOUS
<1>1. ASSUME NEW unread \in SUBSET Patients, Collect(unread) PROVE Unused(i)
  BY <1>1, CollectRemoves
<1>2. ~Stays(i)
  BY DEF Stays, Removes
<1> QED BY <1>1, <1>2, OthersStay, Zenon DEF SocketsNext

\* removeSocket takes no socket that a receiving list has, that lingers, that the sending heap
\* has unless it lingered in vain, or that an accept sleeps on unless cleanup was called; the
\* users of every multiplexer are counted right, and none is left after cleanup.
THEOREM RemovalStaysSafe == SocketsSpec => RemovalIsSafe
<1>1. SocketsInv /\ [SocketsNext]_socketVars => [\A i \in Ids : Removes(i) => Unused(i)]_socketVars
  BY RemovalStep
<1>2. SocketsSpec => [][\A i \in Ids : Removes(i) => Unused(i)]_socketVars
  BY <1>1, SocketsStayRight, PTL DEF SocketsSpec
<1>3. SocketsInv => MuxIsCounted /\ ClosedLeavesTheList /\ CleanupIsComplete
  BY SocketsImply
<1>4. (\A i \in Ids : Removes(i) => Unused(i)) =>
         \A i \in Ids : Removes(i) =>
           /\ ~sockets[i].onList
           /\ sockets[i].linger \in {"yes", "over", "expired"} => sockets[i].broken
           /\ sockets'[i].onHeap => sockets[i].linger = "left" /\ ~sockets[i].broken
           /\ Waiting(i) # {} => gc = "clearing"
  BY DEF Unused
<1>5. SocketsSpec => NotRemovedInUse
  BY <1>2, <1>4, PTL DEF NotRemovedInUse
<1> QED BY <1>3, <1>5, SocketsStayRight, PTL DEF RemovalIsSafe
=============================================================================
