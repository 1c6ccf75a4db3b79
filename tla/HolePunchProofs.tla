--------------------------- MODULE HolePunchProofs --------------------------
(***************************************************************************)
(* Theorems about RendezvousServer, for every set of addresses and         *)
(* numbers, and about HolePunch, for every set of clients: the server in   *)
(* the system behaves as the server alone, and what the clients are told   *)
(* and set up is traced back to the registrations the server has heard.    *)
(***************************************************************************)
EXTENDS HolePunch, SequenceTheorems, TLAPS

-----------------------------------------------------------------------------
(***************************************************************************)
(* RendezvousServer                                                        *)
(***************************************************************************)
(* The inductive invariant, in named parts.                                *)

\* thr_fn has seen both ports set.
Passed == tpc \notin {"none", "read1", "read2"}

HeardBy(s, addr) == <<s, addr>> \in heard

Phases == /\ (mpc = "create") => (tpc = "none" /\ heard = {} /\ ~BothSet)
          /\ tpc = "read2" => slot[1].port # Unset
          /\ Passed => BothSet
          /\ mpc \in {"recv", "storeB", "storePort"} => ~BothSet

\* While main files a registration, cliaddr is its source: thr_fn does not
\* write cliaddr before BothSet, that is before main's last store.
Filing == /\ mpc \in {"storeB", "storePort"} => HeardBy(SlotOf(num), cliaddr)
          /\ (mpc = "storeIp" /\ ~Passed) => HeardBy(SlotOf(num), cliaddr)
          /\ mpc = "storePort" => b[SlotOf(num)] = cliaddr

Slots == \A s \in Side :
  /\ slot[s].port # Unset => HeardBy(s, b[s])
  /\ (slot[s].port # Unset /\ ~(mpc = "storePort" /\ s = SlotOf(num)))
       => slot[s].port = b[s].port
  /\ (\E addr \in Addrs : HeardBy(s, addr))
       => \/ slot[s].port # Unset
          \/ mpc \in {"storeB", "storePort"} /\ s = SlotOf(num)

Wire == /\ tpc \in {"none", "read1", "read2", "ip1", "port1", "send1"} => Len(sent) = 0
        /\ tpc \in {"ip2", "port2", "send2"} => Len(sent) = 1
        /\ tpc = "done" => Len(sent) = 2
        /\ \A k \in 1..Len(sent) : /\ sent[k].to = b[k]
                                   /\ sent[k].body.port = slot[3 - k].port

IInv == TypeOK /\ Phases /\ Filing /\ Slots /\ Wire

-----------------------------------------------------------------------------
\* The slot a registration takes is one of the two.
LEMMA SlotOfType == \A n \in Nat : SlotOf(n) \in Side
  BY DEF SlotOf, Side

\* Swapping the bytes of an address gives an address.
LEMMA HtonlType == \A ip \in Ip : htonl(ip) \in Ip
  BY DEF htonl, Ip, Byte

\* What the zeroed slots hold is typed.
LEMMA ZeroType == Zero \in Addr
  BY DEF Zero, Addr, Ip, Byte, Port

\* The value that means an empty slot is a port.
LEMMA UnsetType == Unset \in Port
  BY DEF Unset, Port

\* The fields of an address are typed.
LEMMA AddrField == \A addr \in Addr : addr.ip \in Ip /\ addr.port \in Port
  BY DEF Addr

\* An address whose port is set anew is an address.
LEMMA WithPort ==
  ASSUME NEW addr \in Addr, NEW p \in Port
  PROVE  [addr EXCEPT !.port = p] \in Addr
  BY DEF Addr

\* An address whose ip is set anew is an address.
LEMMA WithIp ==
  ASSUME NEW addr \in Addr, NEW ip \in Ip
  PROVE  [addr EXCEPT !.ip = ip] \in Addr
  BY DEF Addr

\* The server starts typed.
LEMMA InitType == Init => TypeOK
<1> SUFFICES ASSUME Init PROVE TypeOK
    OBVIOUS
<1>1. [ip |-> Zero.ip, port |-> Unset] \in Addr
    BY ZeroType, UnsetType DEF Addr
<1> QED BY <1>1, ZeroType DEF Init, TypeOK, MainPc, ThreadPc

\* Every step of either thread keeps the types.
LEMMA StepType == TypeOK /\ [Next]_vars => TypeOK'
<1> SUFFICES ASSUME TypeOK, [Next]_vars PROVE TypeOK'
  OBVIOUS
<1> USE DEF TypeOK
<1>1. CASE CreateThread
  BY <1>1 DEF CreateThread, MainPc, ThreadPc
<1>2. CASE MainTest
  BY <1>2 DEF MainTest, MainPc
<1>3. CASE StoreB
  BY <1>3, SlotOfType DEF StoreB, MainPc
<1>4. CASE StorePort
  <2>1. [slot[SlotOf(num)] EXCEPT !.port = cliaddr.port] \in Addr
    BY SlotOfType, WithPort, AddrField
  <2> QED BY <1>4, <2>1, SlotOfType DEF StorePort, MainPc
<1>5. CASE StoreIp
  <2>1. [slot[SlotOf(num)] EXCEPT !.ip = cliaddr.ip] \in Addr
    BY SlotOfType, WithIp, AddrField
  <2> QED BY <1>5, <2>1, SlotOfType DEF StoreIp, MainPc
<1>6. ASSUME NEW addr \in Addrs, NEW n \in Nums, MainRecv(addr, n) PROVE TypeOK'
  BY <1>6, SlotOfType, AddrsAssumption, NumsAssumption DEF MainRecv, MainPc
<1>7. ASSUME NEW s \in Side, NEW here, NEW next \in ThreadPc,
             ThreadTest(s, here, next)
      PROVE  TypeOK'
  BY <1>7 DEF ThreadTest, ThreadKeeps, ThreadPc
<1>8. ASSUME NEW s \in Side, NEW here, NEW next \in ThreadPc,
             ThreadIp(s, here, next)
      PROVE  TypeOK'
  <2>1. [cliaddr EXCEPT !.ip = htonl(slot[s].ip)] \in Addr
    BY HtonlType, WithIp, AddrField
  <2> QED BY <1>8, <2>1 DEF ThreadIp, ThreadKeeps
<1>9. ASSUME NEW s \in Side, NEW here, NEW next \in ThreadPc,
             ThreadPort(s, here, next)
      PROVE  TypeOK'
  <2>1. [cliaddr EXCEPT !.port = slot[s].port] \in Addr
    BY WithPort, AddrField
  <2> QED BY <1>9, <2>1 DEF ThreadPort, ThreadKeeps
<1>10. ASSUME NEW s \in Side, NEW here, NEW next \in ThreadPc,
              ThreadSend(s, here, next)
       PROVE  TypeOK'
  <2>1. [to |-> b[s], body |-> slot[3 - s]] \in [to : Addr, body : Addr]
    BY DEF Side
  <2>2. sent' \in Seq([to : Addr, body : Addr])
    BY <1>10, <2>1 DEF ThreadSend
  <2> QED BY <1>10, <2>2 DEF ThreadSend, ThreadKeeps
<1>11. CASE Thread
  <2>1. 1 \in Side /\ 2 \in Side
    BY DEF Side
  <2>2. /\ "read2" \in ThreadPc /\ "ip1" \in ThreadPc /\ "port1" \in ThreadPc
        /\ "send1" \in ThreadPc /\ "ip2" \in ThreadPc /\ "port2" \in ThreadPc
        /\ "send2" \in ThreadPc /\ "done" \in ThreadPc
    BY DEF ThreadPc
  <2> HIDE DEF TypeOK
  <2> QED BY <1>7, <1>8, <1>9, <1>10, <1>11, <2>1, <2>2 DEF Thread
<1>12. CASE Exit
  BY <1>12 DEF Exit
<1>13. CASE UNCHANGED vars
  BY <1>13 DEF vars
<1> QED
  BY <1>1, <1>2, <1>3, <1>4, <1>5, <1>6, <1>11, <1>12, <1>13 DEF Next, MainLocal

\* Type correctness of server.c's state, whatever arrives.
THEOREM TypeCorrect == Spec => []TypeOK
  BY InitType, StepType, PTL DEF Spec


-----------------------------------------------------------------------------
\* Nothing has been sent as long as the worker is not past its test.
LEMMA StartOfWire ==
  ASSUME TypeOK, Wire, ~Passed PROVE sent = <<>>
  BY DEF TypeOK, Wire, Passed

\* What was sent is numbered by the two sides.
LEMMA WireSides ==
  ASSUME TypeOK, Wire, NEW k \in 1..Len(sent) PROVE k \in Side /\ 3 - k \in Side
  BY DEF TypeOK, Wire, ThreadPc, Side

\* The invariant of the two threads, when no registration comes from port 6666.
LEMMA Inductive == ASSUME SentinelFree PROVE Spec => []IInv
<1> USE DEF IInv
<1>1. Init => IInv
  <2> SUFFICES ASSUME Init, TypeOK PROVE Phases /\ Filing /\ Slots /\ Wire
    BY InitType
  <2>1. sent = <<>> /\ Len(sent) = 0
    BY DEF Init
  <2> QED BY <2>1 DEF Init, Phases, Filing, Slots, Wire, Passed, BothSet, HeardBy, Side
<1>2. IInv /\ [Next]_vars => IInv'
  <2> SUFFICES ASSUME IInv, TypeOK', [Next]_vars
               PROVE  Phases' /\ Filing' /\ Slots' /\ Wire'
    BY StepType
  <2> USE DEF TypeOK
  <2> DEFINE me == SlotOf(num)
  <2>0. me \in Side /\ Side = {1, 2}
    BY SlotOfType DEF Side
  <2>1. CASE CreateThread
    BY <2>1 DEF CreateThread, Phases, Filing, Slots, Wire, Passed, BothSet, HeardBy
  <2>2. CASE MainTest
    BY <2>2 DEF MainTest, Phases, Filing, Slots, Wire, Passed, BothSet, HeardBy
  <2>3. CASE StoreB
    <3>1. ~BothSet /\ ~Passed
      BY <2>3 DEF StoreB, Phases
    <3> QED BY <2>0, <2>3, <3>1 DEF StoreB, Phases, Filing, Slots, Wire, Passed, BothSet, HeardBy
  <2>4. CASE StorePort
    <3>1. me \in Side /\ mpc = "storePort" /\ ~BothSet /\ ~Passed
      BY <2>0, <2>4 DEF StorePort, Phases
    <3>2. slot'[me].port = cliaddr.port /\ cliaddr.port # Unset
      <4>1. cliaddr \in Addrs
        BY <3>1 DEF Filing, HeardBy
      <4> QED BY <2>4, <3>1, <4>1 DEF StorePort, SentinelFree
    <3>3. \A s \in Side : s # me => slot'[s] = slot[s]
      BY <2>4, <3>1 DEF StorePort
    <3>4. Phases' /\ Filing'
      BY <2>0, <2>4, <3>1, <3>2, <3>3 DEF StorePort, Phases, Filing, Passed, BothSet, HeardBy
    <3>5. Slots'
      <4> SUFFICES ASSUME NEW s \in Side
                   PROVE  /\ slot'[s].port # Unset => <<s, b[s]>> \in heard
                          /\ slot'[s].port # Unset => slot'[s].port = b[s].port
                          /\ (\E addr \in Addrs : <<s, addr>> \in heard)
                               => slot'[s].port # Unset
        BY <2>4 DEF StorePort, Slots, HeardBy
      <4>1. CASE s = me
        BY <3>1, <3>2, <4>1 DEF Filing, HeardBy
      <4>2. CASE s # me
        BY <3>1, <3>3, <4>2 DEF Slots, HeardBy
      <4> QED BY <4>1, <4>2
    <3>6. Wire'
      BY <2>4, <3>1, StartOfWire DEF StorePort, Wire, Passed
    <3> QED BY <3>4, <3>5, <3>6
  <2>5. CASE StoreIp
    <3>1. \A s \in Side : slot'[s].port = slot[s].port
      BY <2>0, <2>5 DEF StoreIp, Addr
    <3>2. BothSet' = BothSet
      BY <3>1 DEF BothSet
    <3>3. Phases' /\ Filing'
      BY <2>5, <3>1, <3>2, <2>0 DEF StoreIp, Phases, Filing, Passed
    <3>4. Slots'
      BY <2>5, <3>1 DEF StoreIp, Slots, HeardBy
    <3>5. Wire'
      BY <2>5, <3>1, WireSides DEF StoreIp, Wire
    <3> QED BY <3>3, <3>4, <3>5
  <2>6. ASSUME NEW addr \in Addrs, NEW n \in Nums, MainRecv(addr, n)
        PROVE  Phases' /\ Filing' /\ Slots' /\ Wire'
    BY <2>0, <2>6 DEF MainRecv, Phases, Filing, Slots, Wire, Passed, BothSet, HeardBy
  <2>7. CASE Thread
    <3> USE DEF ThreadKeeps, Filing, Slots, Passed, BothSet, HeardBy
    <3>1. CASE ThreadTest(1, "read1", "read2") \/ ThreadTest(2, "read2", "ip1")
      BY <2>0, <3>1 DEF ThreadTest, Phases, Wire
    <3>2. CASE ThreadIp(1, "ip1", "port1") \/ ThreadIp(2, "ip2", "port2")
      BY <2>0, <3>2 DEF ThreadIp, Phases, Wire
    <3>3. CASE ThreadPort(1, "port1", "send1") \/ ThreadPort(2, "port2", "send2")
      BY <2>0, <3>3 DEF ThreadPort, Phases, Wire
    <3>4. CASE ThreadSend(1, "send1", "ip2")
      BY <2>0, <3>4 DEF ThreadSend, Phases, Wire
    <3>5. CASE ThreadSend(2, "send2", "done")
      BY <2>0, <3>5, SMTT(60) DEF ThreadSend, Phases, Wire
    <3> QED BY <2>7, <3>1, <3>2, <3>3, <3>4, <3>5 DEF Thread
  <2>12. CASE Exit
    BY <2>12 DEF Exit, Phases, Filing, Slots, Wire, Passed, BothSet, HeardBy
  <2>13. CASE UNCHANGED vars
    BY <2>13 DEF vars, Phases, Filing, Slots, Wire, Passed, BothSet, HeardBy
  <2> QED
    BY <2>1, <2>2, <2>3, <2>4, <2>5, <2>6, <2>7, <2>12, <2>13 DEF Next, MainLocal
<1>3. QED BY <1>1, <1>2, PTL DEF Spec
-----------------------------------------------------------------------------
\* A notice only exists once the pair is complete, and there are at most two.
LEMMA WireAfterPair ==
  ASSUME IInv, NEW k \in 1..Len(sent)
  PROVE  BothSet /\ k \in Side /\ 3 - k \in Side
  BY StartOfWire, WireSides DEF IInv, Phases, Side

\* Nobody heard is forgotten once main is back at its test (lines 98-111).
THEOREM HeardStaysRegistered ==
  ASSUME SentinelFree PROVE Spec => []HeardIsRegistered
<1>1. IInv => HeardIsRegistered
  BY DEF IInv, Slots, HeardBy, HeardIsRegistered
<1> QED BY <1>1, Inductive, PTL

\* Both notices go to an address that registered for that side (lines 41, 49).
THEOREM NoticesReachRegistrants ==
  ASSUME SentinelFree PROVE Spec => []NoticeReachesRegistrant
<1>1. IInv => NoticeReachesRegistrant
  BY WireAfterPair, ZenonT(60) DEF IInv, TypeOK, Wire, Slots, HeardBy, BothSet, NoticeReachesRegistrant
<1> QED BY <1>1, Inductive, PTL

\* What a step may not do to a complete pair.
LEMMA FinalStep ==
  ASSUME IInv, [Next]_vars, BothSet
  PROVE  b' = b /\ \A s \in Side : slot'[s].port = slot[s].port
<1> USE DEF IInv
<1>1. CASE CreateThread \/ MainTest \/ Exit \/ UNCHANGED vars
  BY <1>1 DEF CreateThread, MainTest, Exit, vars
<1>2. CASE StoreB \/ StorePort
  BY <1>2 DEF StoreB, StorePort, Phases
<1>3. CASE StoreIp
  BY <1>3, SlotOfType DEF StoreIp, TypeOK, Addr
<1>4. CASE \E addr \in Addrs, n \in Nums : MainRecv(addr, n)
  BY <1>4 DEF MainRecv, Phases
<1>5. CASE Thread
  BY <1>5 DEF Thread, ThreadTest, ThreadIp, ThreadPort, ThreadSend, ThreadKeeps
<1> QED BY <1>1, <1>2, <1>3, <1>4, <1>5 DEF Next, MainLocal

\* A complete pair is final: the test of line 85 stops main for good.
THEOREM PairsAreFinal ==
  ASSUME SentinelFree PROVE Spec => PairIsFinal
<1>1. IInv /\ [Next]_vars
        => [BothSet => /\ b' = b
                       /\ \A s \in Side : slot'[s].port = slot[s].port]_vars
  BY FinalStep
<1> QED BY <1>1, Inductive, PTL DEF Spec, PairIsFinal
-----------------------------------------------------------------------------
(* Where the ip of a notice comes from.                                    *)

Plain(s, ip)  == ip = Zero.ip \/ \E addr \in Addrs : HeardBy(s, addr) /\ ip = addr.ip
Swapped(ip)   == \E s \in Side, addr \in Addrs : HeardBy(s, addr) /\ ip = htonl(addr.ip)
Origin(s, ip) == Plain(s, ip) \/ Swapped(ip)

\* thr_fn can spoil cliaddr only before main's very last store, so what a slot
\* holds until then is never swapped, and nothing is swapped twice.
Origins ==
  /\ \A s \in Side : Origin(s, slot[s].ip)
  /\ (mpc # "test" \/ ~BothSet) => \A s \in Side : Plain(s, slot[s].ip)
  /\ mpc = "storeIp" => Origin(SlotOf(num), cliaddr.ip)
  /\ \A k \in 1..Len(sent) : Origin(3 - k, sent[k].body.ip)

\* Swapping the bytes of the zero address changes nothing.
LEMMA HtonlZero == htonl(Zero.ip) = Zero.ip
  BY DEF htonl, Zero

\* Every step keeps what the addresses in the slots and on the wire come from.
LEMMA OriginsStep ==
  ASSUME IInv, Origins, [Next]_vars PROVE Origins'
<1> USE DEF IInv, HeardBy, Plain, Swapped, Origin
<1> DEFINE me == SlotOf(num)
<1>0. me \in Side /\ \A s \in Side : s \in 1..2
  BY SlotOfType DEF TypeOK, Side
<1>1. CASE CreateThread \/ MainTest \/ Exit \/ UNCHANGED vars
  <2>1. UNCHANGED <<num, cliaddr, slot, heard, sent>>
    BY <1>1 DEF CreateThread, MainTest, Exit, vars
  <2>2. mpc' # "test" => mpc # "test" \/ ~BothSet
    BY <1>1 DEF CreateThread, MainTest, Exit, vars
  <2>3. mpc' = "storeIp" => mpc = "storeIp"
    BY <1>1 DEF CreateThread, MainTest, Exit, vars
  <2>4. BothSet' = BothSet
    BY <2>1 DEF BothSet
  <2>5. /\ \A s \in Side : Origin(s, slot[s].ip)'
        /\ \A k \in 1..Len(sent') : Origin(3 - k, sent[k].body.ip)'
    BY <2>1 DEF Origins
  <2>6. (mpc # "test" \/ ~BothSet) => \A s \in Side : Plain(s, slot[s].ip)'
    BY <2>1 DEF Origins
  <2>7. (mpc = "storeIp") => Origin(SlotOf(num), cliaddr.ip)'
    BY <2>1 DEF Origins
  <2>8. (mpc # "test" \/ ~BothSet)' => (mpc # "test" \/ ~BothSet)
    BY <2>2, <2>4, <1>1, <2>1 DEF CreateThread, Phases
  <2> HIDE DEF Origin, Plain
  <2> QED BY <2>3, <2>5, <2>6, <2>7, <2>8 DEF Origins
<1>2. CASE StoreB
  BY <1>2 DEF StoreB, Origins, BothSet
<1>3. CASE StorePort
  <2>1. \A s \in Side : slot'[s].ip = slot[s].ip
    BY <1>0, <1>3 DEF StorePort, TypeOK, Addr
  <2>2. <<me, cliaddr>> \in heard /\ cliaddr \in Addrs
    BY <1>0, <1>3 DEF StorePort, Filing, TypeOK
  <2>3. UNCHANGED <<heard, sent, num, cliaddr>> /\ mpc = "storePort"
    BY <1>3 DEF StorePort
  <2> QED BY <1>0, <2>1, <2>2, <2>3, ZenonT(60) DEF Origins
<1>4. CASE StoreIp
  <2>1. slot'[me].ip = cliaddr.ip /\ \A s \in Side : s # me => slot'[s].ip = slot[s].ip
    BY <1>0, <1>4 DEF StoreIp, TypeOK, Addr
  <2>2. UNCHANGED <<heard, sent, num, cliaddr>> /\ mpc = "storeIp" /\ mpc' = "test"
    BY <1>4 DEF StoreIp
  <2>3. BothSet' = BothSet
    BY <1>0, <1>4 DEF StoreIp, BothSet, TypeOK, Addr
  <2>4. ~BothSet => <<me, cliaddr>> \in heard /\ cliaddr \in Addrs
    BY <1>0, <2>2 DEF Phases, Filing, TypeOK
  <2> QED BY <1>0, <2>1, <2>2, <2>3, <2>4, ZenonT(60) DEF Origins
<1>5. ASSUME NEW addr \in Addrs, NEW n \in Nums, MainRecv(addr, n) PROVE Origins'
  <2>1. UNCHANGED <<slot, sent>> /\ heard \subseteq heard'
    BY <1>5 DEF MainRecv
  <2>2. mpc = "recv" /\ mpc' = "storeB"
    BY <1>5 DEF MainRecv
  <2> QED BY <2>1, <2>2 DEF Origins
<1>6. ASSUME NEW s \in Side, NEW here, NEW next,
             ThreadTest(s, here, next) \/ ThreadPort(s, here, next)
      PROVE  Origins'
  <2>1. UNCHANGED <<mpc, num, slot, heard, sent>> /\ cliaddr'.ip = cliaddr.ip
    BY <1>6 DEF ThreadTest, ThreadPort, ThreadKeeps, TypeOK, Addr
  <2> QED BY <2>1 DEF Origins, BothSet
<1>7. ASSUME NEW s \in Side, NEW here, NEW next, ThreadIp(s, here, next)
      PROVE  Origins'
  <2>1. UNCHANGED <<mpc, num, slot, heard, sent>> /\ cliaddr'.ip = htonl(slot[s].ip)
    BY <1>7 DEF ThreadIp, ThreadKeeps, TypeOK, Addr
  <2>2. mpc = "storeIp" => Plain(s, slot[s].ip)
    BY DEF Origins
  <2>3. mpc = "storeIp" => Zero.ip = cliaddr'.ip \/ Swapped(cliaddr'.ip)
    BY <2>1, <2>2, HtonlZero
  <2> QED BY <2>1, <2>3, ZenonT(60) DEF Origins, BothSet
<1>8. ASSUME NEW s \in Side, NEW here, NEW next, ThreadSend(s, here, next),
             Len(sent) = s - 1
      PROVE  Origins'
  <2> DEFINE e == [to |-> b[s], body |-> slot[3 - s]]
  <2>1. UNCHANGED <<mpc, num, slot, heard, cliaddr>> /\ sent' = Append(sent, e)
    BY <1>8 DEF ThreadSend, ThreadKeeps
  <2>2. /\ Len(sent') = s /\ sent'[s].body.ip = slot[3 - s].ip
        /\ \A k \in 1..Len(sent) : sent'[k] = sent[k]
    BY <1>8, <2>1 DEF TypeOK, Side
  <2>3. ASSUME NEW k \in 1..Len(sent') PROVE Origin(3 - k, sent'[k].body.ip)
    <3>1. CASE k = s
      <4>1. PICK t \in Side : t = 3 - s
        BY DEF Side
      <4>2. Origin(t, slot[t].ip)
        BY DEF Origins
      <4> QED BY <2>2, <3>1, <4>1, <4>2
    <3>2. CASE k # s
      <4>1. k \in 1..Len(sent)
        BY <1>8, <2>2, <3>2 DEF Side
      <4>2. Origin(3 - k, sent[k].body.ip)
        BY <4>1 DEF Origins
      <4>3. sent'[k].body.ip = sent[k].body.ip
        BY <2>2, <4>1
      <4> QED BY <4>2, <4>3
    <3> QED BY <3>1, <3>2
  <2> QED BY <2>1, <2>3, ZenonT(60) DEF Origins, BothSet
<1>9. CASE Thread
  <2>1. 1 \in Side /\ 2 \in Side
    BY DEF Side
  <2>2. ThreadSend(1, "send1", "ip2") => Len(sent) = 1 - 1
    BY DEF ThreadSend, Wire
  <2>3. ThreadSend(2, "send2", "done") => Len(sent) = 2 - 1
    BY DEF ThreadSend, Wire
  <2> QED BY <1>6, <1>7, <1>8, <1>9, <2>1, <2>2, <2>3 DEF Thread
<1> QED BY <1>1, <1>2, <1>3, <1>4, <1>5, <1>9 DEF Next, MainLocal

\* The race of line 108 can spoil the ip of a notice, but only in the ways listed.
THEOREM NoticeIpsHaveAnOrigin ==
  ASSUME SentinelFree PROVE Spec => []NoticeIpOrigin
<1>1. Init => Origins
  BY DEF Init, Origins, Origin, Plain
<1>2. IInv /\ Origins /\ [Next]_vars => Origins'
  BY OriginsStep
<1>3. IInv /\ Origins => NoticeIpOrigin
  BY WireSides DEF IInv, Origins, Origin, Plain, Swapped, HeardBy, NoticeIpOrigin
<1> QED BY <1>1, <1>2, <1>3, Inductive, PTL DEF Spec

-----------------------------------------------------------------------------
(* server.c implements Matchmaker: initial states, then every step.        *)

PortOf == [s \in Side |-> slot[s].port]
Told   == [k \in 1..Len(sent) |-> [to |-> sent[k].to.port, about |-> sent[k].body.port]]

\* A function on 1..n is a sequence; appending to it extends it by one point.
LEMMA AppendToFunction ==
  ASSUME NEW n \in Nat, NEW f, f = [k \in 1..n |-> f[k]], NEW e
  PROVE  Append(f, e) = [k \in 1..(n + 1) |-> IF k = n + 1 THEN e ELSE f[k]]
<1> DEFINE S == {f[k] : k \in 1..n} \union {e}
<1>1. f \in [1..n -> S]
  OBVIOUS
<1>2. f \in Seq(S) /\ Len(f) = n
  BY <1>1
<1> QED BY <1>2

\* The matchmaker has a pair when both slots are set.
LEMMA PairedIsBothSet == Abstract!Paired <=> BothSet
  BY DEF Abstract!Paired, BothSet, Side

\* The initial states map to those of the matchmaker.
LEMMA MapInit == Init => Abstract!Init
<1> SUFFICES ASSUME Init PROVE Abstract!Init
  OBVIOUS
<1>1. PortOf = [s \in 1..2 |-> Unset]
  BY DEF Init, PortOf, Side
<1>2. Told = <<>>
  BY DEF Init, Told
<1> QED BY <1>1, <1>2 DEF Init, Abstract!Init, PortOf, Told

\* Every step is one of the matchmaker or changes nothing of it.
LEMMA MapStep ==
  ASSUME SentinelFree, IInv, [Next]_vars
  PROVE  [Abstract!Next]_(Abstract!vars)
<1> USE DEF IInv
<1> DEFINE me == SlotOf(num)
<1>1. CASE CreateThread \/ MainTest \/ StoreB \/ UNCHANGED vars
  <2>1. UNCHANGED <<slot, sent, running>>
    BY <1>1 DEF CreateThread, MainTest, StoreB, vars
  <2> QED BY <2>1 DEF Abstract!vars
<1>2. CASE StorePort
  <2>1. me \in Side /\ ~BothSet /\ running /\ UNCHANGED <<sent, running>>
    BY <1>2, SlotOfType DEF StorePort, Phases, TypeOK
  <2>2. cliaddr.port \in {addr.port : addr \in Addrs}
    BY <1>2 DEF StorePort, Filing, HeardBy, TypeOK
  <2>3. PortOf' = [PortOf EXCEPT ![me] = cliaddr.port]
    BY <1>2, <2>1 DEF StorePort, TypeOK, Addr, PortOf
  <2>4. Told' = Told
    BY <2>1 DEF Told
  <2>5. PICK s \in 1..2, q \in {addr.port : addr \in Addrs} : s = me /\ q = cliaddr.port
    BY <2>1, <2>2 DEF Side
  <2>6. Abstract!Register(s, q)
    BY <2>1, <2>3, <2>4, <2>5, PairedIsBothSet DEF Abstract!Register, PortOf, Told
  <2> QED BY <2>5, <2>6 DEF Abstract!Next
<1>3. CASE StoreIp
  <2>1. PortOf' = PortOf
    BY <1>3, SlotOfType DEF StoreIp, TypeOK, Addr, PortOf
  <2>2. UNCHANGED <<sent, running>>
    BY <1>3 DEF StoreIp
  <2> QED BY <2>1, <2>2 DEF Abstract!vars, PortOf
<1>4. CASE \E addr \in Addrs, n \in Nums : MainRecv(addr, n)
  <2>1. UNCHANGED <<slot, sent, running>>
    BY <1>4 DEF MainRecv
  <2> QED BY <2>1 DEF Abstract!vars
<1>5. ASSUME NEW s \in Side, NEW here, NEW next,
             \/ ThreadTest(s, here, next)
             \/ ThreadIp(s, here, next)
             \/ ThreadPort(s, here, next)
      PROVE  UNCHANGED Abstract!vars
  <2>1. UNCHANGED <<slot, sent, running>>
    BY <1>5 DEF ThreadTest, ThreadIp, ThreadPort, ThreadKeeps
  <2> QED BY <2>1 DEF Abstract!vars
<1>6. ASSUME NEW s \in Side, NEW here, NEW next, ThreadSend(s, here, next),
             Len(sent) = s - 1, BothSet
      PROVE  Abstract!Notify(s)
  <2> DEFINE e == [to |-> b[s], body |-> slot[3 - s]]
             n == [to |-> slot[s].port, about |-> slot[3 - s].port]
  <2>1. running /\ UNCHANGED <<slot, running>> /\ sent' = Append(sent, e)
    BY <1>6 DEF ThreadSend, ThreadKeeps
  <2>2. b[s].port = slot[s].port
    BY <1>6 DEF BothSet, Slots, Phases
  <2>3. Len(sent') = Len(sent) + 1 /\ sent'[Len(sent) + 1] = e
        /\ \A k \in 1..Len(sent) : sent'[k] = sent[k]
    BY <2>1 DEF TypeOK
  <2>4. Told' = Append(Told, n)
    <3>1. Len(sent) \in Nat
      BY DEF TypeOK
    <3>2. Append(Told, n) = [k \in 1..(Len(sent) + 1) |->
                               IF k = Len(sent) + 1 THEN n ELSE Told[k]]
      BY <3>1, AppendToFunction DEF Told
    <3>3. Told' = [k \in 1..(Len(sent) + 1) |->
                     [to |-> sent'[k].to.port, about |-> sent'[k].body.port]]
      BY <2>3 DEF Told
    <3>4. ASSUME NEW k \in 1..(Len(sent) + 1)
          PROVE  [to |-> sent'[k].to.port, about |-> sent'[k].body.port]
                   = IF k = Len(sent) + 1 THEN n ELSE Told[k]
      BY <2>2, <2>3 DEF Told, TypeOK
    <3> QED BY <3>2, <3>3, <3>4
  <2>5. s \in 1..2 /\ 3 - s \in Side
    BY DEF Side
  <2>6. Len(Told) = s - 1
    BY <1>6 DEF Told, TypeOK
  <2>7. n = [to |-> PortOf[s], about |-> PortOf[3 - s]] /\ PortOf' = PortOf
    BY <2>1, <2>5 DEF PortOf
  <2> QED
    BY <1>6, <2>1, <2>4, <2>6, <2>7, PairedIsBothSet DEF Abstract!Notify, PortOf, Told
<1>7. CASE Thread
  <2>1. CASE ThreadSend(1, "send1", "ip2") \/ ThreadSend(2, "send2", "done")
    <3>1. BothSet
      BY <2>1 DEF ThreadSend, Phases, Passed
    <3>2. CASE ThreadSend(1, "send1", "ip2")
      <4>1. Len(sent) = 1 - 1 /\ 1 \in Side
        BY <3>2 DEF ThreadSend, Wire, Side
      <4>2. Abstract!Notify(1)
        BY <1>6, <3>1, <3>2, <4>1
      <4> QED BY <4>2 DEF Abstract!Next
    <3>3. CASE ThreadSend(2, "send2", "done")
      <4>1. Len(sent) = 2 - 1 /\ 2 \in Side
        BY <3>3 DEF ThreadSend, Wire, Side
      <4>2. Abstract!Notify(2)
        BY <1>6, <3>1, <3>3, <4>1
      <4> QED BY <4>2 DEF Abstract!Next
    <3> QED BY <2>1, <3>2, <3>3
  <2>2. 1 \in Side /\ 2 \in Side
    BY DEF Side
  <2>3. CASE ~(ThreadSend(1, "send1", "ip2") \/ ThreadSend(2, "send2", "done"))
    BY <1>5, <1>7, <2>2, <2>3 DEF Thread
  <2> QED BY <2>1, <2>3
<1>8. CASE Exit
  <2>1. running /\ running' = FALSE /\ UNCHANGED <<slot, sent>>
    BY <1>8 DEF Exit
  <2>2. Abstract!Crash
    BY <2>1 DEF Abstract!Crash
  <2> QED BY <2>2 DEF Abstract!Next
<1> QED BY <1>1, <1>2, <1>3, <1>4, <1>7, <1>8 DEF Next, MainLocal

\* The two threads of server.c behave like the one-line-per-event Matchmaker:
\* its safety part, for every set of addresses (its liveness is TLC's).
THEOREM ServerImplementsMatchmaker ==
  ASSUME SentinelFree PROVE Spec => Abstract!Spec
<1>1. IInv /\ [Next]_vars => [Abstract!Next]_(Abstract!vars)
  BY MapStep
<1> QED BY <1>1, MapInit, Inductive, PTL DEF Spec, Abstract!Spec

-----------------------------------------------------------------------------
(***************************************************************************)
(* HolePunch                                                               *)
(***************************************************************************)
\* Past the wait for the notice: peer[c] is final.
Later == {"connecting", "talking", "exited"}

ClientsOK == /\ stage \in [Clients -> {"start", "waiting"} \union Later]
             /\ peer \in [Clients -> Addr]
             /\ punched \in [Clients -> BOOLEAN] /\ linked \in [Clients -> BOOLEAN]
             /\ req \in [Clients -> {0, -1}]

\* A datagram is a registration, a notice the server has sent, or the handshake of a client
\* that is past its wait.
Genuine(m) == \/ \E c \in Clients : m = Reg(c)
              \/ \E k \in 1..Len(sent) : m = Notice(sent[k])
              \/ \E c \in Clients, r \in {0, -1, -2} : /\ m = Handshake(c, peer[c], r)
                                                        /\ punched[c] /\ stage[c] \in Later

NetOK == \A m \in net : Genuine(m)

\* Who is past the wait was told its peer, or is open and took a handshake for the notice.
WasTold(c) == \E k \in 1..Len(sent) : sent[k].to = AddrOf[c] /\ sent[k].body = peer[c]
PeerOK(c)  == stage[c] \in Later => WasTold(c) \/ (c \in Open /\ peer[c] = Zero)
PeersOK    == \A c \in Clients : PeerOK(c)

\* The server has heard nobody but the clients, each for its own side.
HeardOK == \A h \in heard : \E c \in Clients : h = <<SlotOf(NumOf[c]), AddrOf[c]>>

\* Who is linked, and has sent a request itself, has had a handshake of one that had it for its peer.
Mutual(c, d) == /\ peer[c] = AddrOf[d] /\ peer[d] = AddrOf[c]
                /\ punched[d] /\ stage[d] \in Later
LinkOK(c) == linked[c] => stage[c] \in Later /\ punched[c] /\ \E d \in Clients : Mutual(c, d)
LinksOK   == \A c \in Clients : LinkOK(c)

SysInv == TypeOK /\ ClientsOK /\ NetOK /\ PeersOK /\ HeardOK /\ LinksOK

-----------------------------------------------------------------------------
\* What kind of datagram can have which origin.
LEMMA Kinds ==
  ASSUME NEW m, Genuine(m)
  PROVE  /\ m.kind = "reg" => \E c \in Clients : m = Reg(c)
         /\ m.kind = "notice" => \E k \in 1..Len(sent) : m = Notice(sent[k])
         /\ m.kind = "hs" => \E c \in Clients, r \in {0, -1, -2} : /\ m = Handshake(c, peer[c], r)
                                                                    /\ punched[c] /\ stage[c] \in Later
         /\ m.kind \in {"reg", "notice", "hs"}
BY DEF Genuine, Reg, Notice, Handshake

\* In the system the server takes its own steps: what it receives are registrations.
LEMMA ServerSteps ==
  ASSUME SysInv, [SysNext]_allVars
  PROVE  [Next]_vars
<1>1. CASE ServerReceive
  <2>1. PICK m \in net : MainRecv(m.src, m.num) /\ m.kind = "reg"
    BY <1>1 DEF ServerReceive
  <2>2. PICK c \in Clients : m = Reg(c)
    BY <2>1, Kinds DEF SysInv, NetOK
  <2>3. m.src \in Addrs /\ m.num \in Nums
    BY <2>2, ClientsAssumption DEF Reg
  <2> QED BY <2>1, <2>3 DEF Next
<1>2. CASE ServerLocal \/ ServerThread \/ ServerExit
  BY <1>2 DEF ServerLocal, ServerThread, ServerExit, Next
<1>3. CASE UNCHANGED vars
  BY <1>3
<1> QED
  BY <1>1, <1>2, <1>3
     DEF SysNext, allVars, ClientStep, Register, ReceiveNotice, MistakeHandshake, Believe,
         ReceiveHandshake, AsksOn, Links, Answers, ConnectReturns, CallFails, SendHandshake, EndOfInput, Drop, Lose

\* What was sent stays sent.
LEMMA SentGrows ==
  ASSUME TypeOK, [Next]_vars
  PROVE  /\ Len(sent) \in Nat /\ Len(sent') \in Nat /\ Len(sent) <= Len(sent')
         /\ \A k \in 1..Len(sent) : sent'[k] = sent[k]
<1>1. sent \in Seq([to : Addr, body : Addr]) /\ Len(sent) \in Nat
  BY DEF TypeOK
<1>2. CASE sent' = sent
  BY <1>1, <1>2
<1>3. ASSUME NEW s \in Side, NEW here, NEW next, ThreadSend(s, here, next)
      PROVE  /\ Len(sent') \in Nat /\ Len(sent) <= Len(sent')
             /\ \A k \in 1..Len(sent) : sent'[k] = sent[k]
  <2>1. [to |-> b[s], body |-> slot[3 - s]] \in [to : Addr, body : Addr]
    BY DEF TypeOK, Side
  <2> QED BY <1>1, <1>3, <2>1 DEF ThreadSend
<1>4. 1 \in Side /\ 2 \in Side
  BY DEF Side
<1>5. CASE Thread
  BY <1>1, <1>2, <1>3, <1>4, <1>5 DEF Thread, ThreadTest, ThreadIp, ThreadPort
<1> QED
  BY <1>1, <1>2, <1>5
     DEF Next, vars, MainLocal, CreateThread, MainTest, StoreB, StorePort, StoreIp, MainRecv, Exit

\* What a notice says is an address.
LEMMA SentType ==
  ASSUME TypeOK, NEW k \in 1..Len(sent)
  PROVE  sent[k].body \in Addr
<1> DEFINE S == [to : Addr, body : Addr]
<1>1. sent \in Seq(S)
  BY DEF TypeOK
<1> HIDE DEF S
<1>2. sent[k] \in S
  BY <1>1, ElementOfSeq
<1> QED BY <1>2 DEF S

\* The invariant at the start.
LEMMA SysInvInit == SysInit => SysInv
<1> SUFFICES ASSUME SysInit PROVE SysInv
  OBVIOUS
<1>1. TypeOK /\ heard = {}
  BY InitType DEF SysInit, Init
<1> QED
  BY <1>1, ZeroType
     DEF SysInit, SysInv, ClientsOK, NetOK, PeersOK, PeerOK, HeardOK, LinksOK, LinkOK, Later

\* What makes a datagram genuine lasts: clients past the wait stay so, with their peer.
Lasting(c) == stage[c] \in Later => /\ stage'[c] \in Later /\ peer'[c] = peer[c]
                                    /\ punched[c] => punched'[c]

\* No step takes a datagram's origin away.
LEMMA GenuineStays ==
  ASSUME TypeOK, [Next]_vars, \A c \in Clients : Lasting(c), NEW m, Genuine(m)
  PROVE  Genuine(m)'
<1>1. CASE \E c \in Clients : m = Reg(c)
  BY <1>1 DEF Genuine
<1>2. CASE \E k \in 1..Len(sent) : m = Notice(sent[k])
  BY <1>2, SentGrows DEF Genuine
<1>3. CASE \E c \in Clients, r \in {0, -1, -2} : /\ m = Handshake(c, peer[c], r)
                                                  /\ punched[c] /\ stage[c] \in Later
  BY <1>3 DEF Genuine, Lasting
<1> QED BY <1>1, <1>2, <1>3 DEF Genuine

\* What was concluded stays true of a client that does not move.
LEMMA ConclusionsStay ==
  ASSUME TypeOK, [Next]_vars, \A c \in Clients : Lasting(c), NEW c \in Clients,
         PeerOK(c), LinkOK(c), stage'[c] \in Later => stage[c] \in Later, linked'[c] => linked[c]
  PROVE  PeerOK(c)' /\ LinkOK(c)'
<1>1. Lasting(c)
  OBVIOUS
<1>2. PeerOK(c)'
  BY <1>1, SentGrows DEF PeerOK, WasTold, Lasting
<1>3. ASSUME NEW d \in Clients, Mutual(c, d), stage[c] \in Later PROVE Mutual(c, d)'
  BY <1>1, <1>3 DEF Mutual, Lasting
<1>4. LinkOK(c)'
  BY <1>1, <1>3 DEF LinkOK, Lasting
<1> QED BY <1>2, <1>4

\* The invariant after a step in which at most client c moves and the server does what it may.
LEMMA AfterStep ==
  ASSUME SysInv, [Next]_vars, ClientsOK', HeardOK', \A c \in Clients : Lasting(c),
         \A m \in net' : m \in net \/ Genuine(m)',
         \A c \in Clients : \/ PeerOK(c)' /\ LinkOK(c)'
                            \/ /\ stage'[c] \in Later => stage[c] \in Later
                               /\ linked'[c] => linked[c]
  PROVE  SysInv'
<1>1. TypeOK'
  BY StepType DEF SysInv
<1>2. NetOK'
  BY GenuineStays DEF SysInv, NetOK
<1>3. PeersOK' /\ LinksOK'
  BY ConclusionsStay DEF SysInv, PeersOK, LinksOK
<1> QED BY <1>1, <1>2, <1>3 DEF SysInv

\* A step that leaves the clients alone.
LEMMA ServerKeeps ==
  ASSUME SysInv, ServerReceive \/ ServerLocal \/ ServerThread \/ ServerExit
  PROVE  SysInv'
<1> USE DEF SysInv
<1>1. [Next]_vars
  BY ServerSteps DEF SysNext
<1>2. UNCHANGED clientVars
  BY DEF ServerReceive, ServerLocal, ServerThread, ServerExit
<1>3. ClientsOK' /\ \A c \in Clients : Lasting(c)
  BY <1>2 DEF ClientsOK, clientVars, Lasting
<1>4. HeardOK'
  <2>1. CASE ServerReceive
    <3>1. PICK m \in net : MainRecv(m.src, m.num) /\ m.kind = "reg"
      BY <2>1 DEF ServerReceive
    <3>2. PICK c \in Clients : m = Reg(c)
      BY <3>1, Kinds DEF NetOK
    <3>3. heard' = heard \union {<<SlotOf(NumOf[c]), AddrOf[c]>>}
      BY <3>1, <3>2 DEF MainRecv, Reg
    <3> QED BY <3>3 DEF HeardOK
  <2>2. CASE ServerLocal \/ ServerThread \/ ServerExit
    <3>1. heard' = heard
      BY <2>2 DEF ServerLocal, ServerThread, ServerExit, MainLocal, CreateThread, MainTest, StoreB,
                  StorePort, StoreIp, Thread, ThreadTest, ThreadIp, ThreadPort, ThreadSend,
                  ThreadKeeps, Exit
    <3> QED BY <3>1 DEF HeardOK
  <2> QED BY <2>1, <2>2
<1>5. ASSUME NEW m \in net', m \notin net PROVE Genuine(m)'
  <2>1. ServerThread
    BY <1>5 DEF ServerReceive, ServerLocal, ServerExit
  <2> QED BY <1>5, <2>1 DEF ServerThread, Genuine
<1> QED BY <1>1, <1>2, <1>3, <1>4, <1>5, AfterStep DEF clientVars

\* A step of one client.
LEMMA ClientKeeps ==
  ASSUME SysInv, NEW c \in Clients, ClientStep(c) \/ SendHandshake(c) \/ EndOfInput(c)
  PROVE  SysInv'
<1> USE DEF SysInv, ClientsOK, Later
<1>0. /\ \A d \in Clients \ {c} : /\ stage'[d] = stage[d] /\ peer'[d] = peer[d]
                                  /\ punched'[d] = punched[d] /\ linked'[d] = linked[d]
      /\ UNCHANGED vars
  BY DEF ClientStep, Register, ReceiveNotice, MistakeHandshake, Believe, ReceiveHandshake, AsksOn, Links,
         Answers, ConnectReturns, CallFails, SendHandshake, EndOfInput
<1>1. [Next]_vars /\ HeardOK' /\ sent' = sent
  BY <1>0 DEF HeardOK, vars
<1>2. ASSUME ClientsOK', Lasting(c), \A m \in net' : m \in net \/ Genuine(m)',
             \/ PeerOK(c)' /\ LinkOK(c)'
             \/ (stage'[c] \in Later => stage[c] \in Later) /\ (linked'[c] => linked[c])
      PROVE  SysInv'
  <2>1. \A d \in Clients : Lasting(d)
    BY <1>0, <1>2 DEF Lasting
  <2> HIDE DEF SysInv, ClientsOK, Later
  <2> QED BY <1>0, <1>1, <1>2, <2>1, AfterStep
<1>3. CASE Register(c)
  <2>1. ClientsOK' /\ Lasting(c) /\ ~(stage'[c] \in Later) /\ linked' = linked
    BY <1>3 DEF Register, Lasting
  <2>2. \A m \in net' : m \in net \/ Genuine(m)'
    BY <1>3 DEF Register, Genuine
  <2> QED BY <1>2, <2>1, <2>2
<1>4. ASSUME NEW m, NEW addr \in Addr, Believe(c, m, addr),
             \/ \E k \in 1..Len(sent) : sent[k].to = AddrOf[c] /\ sent[k].body = addr
             \/ c \in Open /\ addr = Zero
      PROVE  SysInv'
  <2>1. ClientsOK' /\ Lasting(c) /\ \A n \in net' : n \in net
    BY <1>4 DEF Believe, Lasting
  <2>2. peer'[c] = addr /\ linked' = linked /\ stage[c] = "waiting"
    BY <1>4 DEF Believe
  <2>3. PeerOK(c)'
    BY <1>1, <1>4, <2>2 DEF PeerOK, WasTold
  <2>4. LinkOK(c)'
    BY <2>2 DEF LinkOK, LinksOK
  <2> QED BY <1>2, <2>1, <2>3, <2>4
<1>5. CASE ReceiveNotice(c)
  <2>1. PICK m \in net : m.kind = "notice" /\ Believe(c, m, m.body)
    BY <1>5 DEF ReceiveNotice
  <2>2. PICK k \in 1..Len(sent) : m = Notice(sent[k])
    BY <2>1, Kinds DEF NetOK
  <2>3. sent[k].to = AddrOf[c] /\ sent[k].body = m.body
    BY <2>1, <2>2 DEF Notice, Believe
  <2>4. m.body \in Addr
    BY <2>2, <2>3, SentType
  <2> QED BY <1>4, <2>1, <2>3, <2>4
<1>6. CASE MistakeHandshake(c)
  BY <1>4, <1>6, ZeroType DEF MistakeHandshake
<1>7. CASE SendHandshake(c)
  <2>1. ClientsOK' /\ Lasting(c) /\ stage' = stage /\ linked' = linked
    BY <1>7 DEF SendHandshake, Lasting
  <2>2. punched'[c] /\ peer' = peer /\ stage'[c] \in Later
    BY <1>7 DEF SendHandshake
  <2>3. \A m \in net' : m \in net \/ Genuine(m)'
    BY <1>7, <2>2 DEF SendHandshake, Genuine
  <2> QED BY <1>2, <2>1, <2>3
<1>8. CASE ReceiveHandshake(c)
  <2>1. PICK m \in net : FromPeer(c, m) /\ (AsksOn(c, m) \/ Links(c, m) \/ Answers(c, m))
    BY <1>8 DEF ReceiveHandshake
  <2>2. stage[c] \in Later /\ stage' = stage /\ peer' = peer /\ punched' = punched
    BY <1>8, <2>1 DEF ReceiveHandshake, AsksOn, Links, Answers
  <2>3. ClientsOK' /\ Lasting(c)
    BY <2>1, <2>2 DEF Lasting, AsksOn, Links, Answers
  <2>4. CASE AsksOn(c, m)
    <3>1. linked' = linked /\ \A n \in net' : n \in net
      BY <2>4 DEF AsksOn
    <3> QED BY <1>2, <2>2, <2>3, <3>1
  <2>5. CASE Answers(c, m)
    <3>1. linked' = linked /\ linked[c]
      BY <2>5 DEF Answers
    <3>2. punched[c]
      BY <3>1 DEF LinksOK, LinkOK
    <3>3. \A n \in net' : n \in net \/ n = Handshake(c, peer[c], -2)
      BY <2>5 DEF Answers
    <3>4. Genuine(Handshake(c, peer[c], -2))'
      BY <2>2, <3>2 DEF Genuine
    <3> QED BY <1>2, <2>2, <2>3, <3>1, <3>3, <3>4
  <2>6. CASE Links(c, m)
    <3>1. punched[c] /\ \A n \in net' : n \in net
      BY <2>6 DEF Links
    <3>2. PICK d \in Clients, r \in {0, -1, -2} : m = Handshake(d, peer[d], r) /\ punched[d] /\ stage[d] \in Later
      BY <2>1, Kinds DEF NetOK, FromPeer
    <3>3. Mutual(c, d)'
      BY <2>1, <2>2, <3>2 DEF Mutual, Handshake, FromPeer
    <3>4. LinkOK(c)'
      BY <2>2, <3>1, <3>3 DEF LinkOK
    <3>5. PeerOK(c)'
      BY <1>1, <2>2 DEF PeerOK, WasTold, PeersOK
    <3> QED BY <1>2, <2>3, <3>1, <3>4, <3>5
  <2> QED BY <2>1, <2>4, <2>5, <2>6
<1>9. CASE ConnectReturns(c) \/ CallFails(c) \/ EndOfInput(c)
  <2>1. /\ stage[c] \in Later /\ net' = net /\ peer' = peer /\ linked' = linked
        /\ ClientsOK' /\ Lasting(c)
    BY <1>9 DEF ConnectReturns, CallFails, EndOfInput, Lasting
  <2> QED BY <1>2, <2>1
<1> QED BY <1>3, <1>5, <1>6, <1>7, <1>8, <1>9 DEF ClientStep

\* The invariant holds throughout.
LEMMA SysInductive == SysSpec => []SysInv
<1>1. SysInv /\ [SysNext]_allVars => SysInv'
  <2> SUFFICES ASSUME SysInv, [SysNext]_allVars PROVE SysInv'
    OBVIOUS
  <2>1. CASE Drop \/ Lose \/ UNCHANGED allVars
    <3>1. UNCHANGED <<vars, clientVars>> /\ net' \subseteq net
      BY <2>1 DEF Drop, Lose, allVars
    <3>2. ClientsOK' /\ HeardOK' /\ \A c \in Clients : Lasting(c)
      BY <3>1 DEF SysInv, ClientsOK, HeardOK, Lasting, clientVars, vars
    <3> QED BY <3>1, <3>2, AfterStep DEF clientVars
  <2> QED BY <2>1, ServerKeeps, ClientKeeps DEF SysNext
<1> QED BY <1>1, SysInvInit, PTL DEF SysSpec

-----------------------------------------------------------------------------
\* The server in the system is the server: all that is proved of it alone, holds here.
THEOREM ServerInTheSystem == SysSpec => Spec
<1>1. SysInv /\ [SysNext]_allVars => [Next]_vars
  BY ServerSteps
<1>2. SysInit => Init
  BY DEF SysInit
<1> QED BY <1>1, <1>2, SysInductive, PTL DEF SysSpec, Spec

\* Behind a NAT that filters by address, a client goes for an address that the server has
\* sent to it (client.cpp, line 76).
THEOREM StrangersAreKeptOut == SysSpec => []NatKeepsStrangersOut
<1>1. SysInv => NatKeepsStrangersOut
  BY DEF SysInv, PeersOK, PeerOK, WasTold, Later, NatKeepsStrangersOut
<1> QED BY <1>1, SysInductive, PTL

\* No two clients, and no client and the zero address, show the same port.
ApartPorts == /\ \A c, d \in Clients : c # d => AddrOf[c].port # AddrOf[d].port
              /\ \A c \in Clients : AddrOf[c] # Zero

\* Who is linked has told, or was told of, somebody of the other side: the notice carries
\* the port of the other side's registrant, which tells the clients apart.
LEMMA MutualAcross ==
  ASSUME ApartPorts, SysInv, IInv, NEW c \in Clients, NEW d \in Clients, Mutual(c, d),
         stage[c] \in Later
  PROVE  SlotOf(NumOf[c]) # SlotOf(NumOf[d])
<1>1. PICK k \in 1..Len(sent) : sent[k].to = AddrOf[c] /\ sent[k].body = peer[c]
  BY DEF SysInv, PeersOK, PeerOK, WasTold, Mutual, ApartPorts
<1>2. BothSet /\ k \in Side /\ 3 - k \in Side
  BY <1>1, WireAfterPair
<1>3. sent[k].to = b[k] /\ sent[k].body.port = slot[3 - k].port
  BY <1>1 DEF IInv, Wire
<1>4. /\ HeardBy(k, b[k]) /\ HeardBy(3 - k, b[3 - k])
      /\ slot[3 - k].port = b[3 - k].port
  BY <1>2 DEF IInv, Slots, Phases, BothSet
<1>5. PICK e \in Clients : <<k, b[k]>> = <<SlotOf(NumOf[e]), AddrOf[e]>>
  BY <1>4 DEF SysInv, HeardOK, HeardBy
<1>6. PICK f \in Clients : <<3 - k, b[3 - k]>> = <<SlotOf(NumOf[f]), AddrOf[f]>>
  BY <1>4 DEF SysInv, HeardOK, HeardBy
<1>7. AddrOf[e] = AddrOf[c] /\ AddrOf[f].port = AddrOf[d].port
  BY <1>1, <1>3, <1>4, <1>5, <1>6 DEF Mutual
<1>8. e = c /\ f = d
  BY <1>7 DEF ApartPorts
<1> QED BY <1>2, <1>5, <1>6, <1>8 DEF Side

\* A connection is only set up between the registrants of the two sides who went for each
\* other, whatever the race of server.c, line 108, did to a notice.
THEOREM LinksAreMutual ==
  ASSUME SentinelFree, ApartPorts PROVE SysSpec => []LinkIsMutual
<1>1. SysInv /\ IInv => LinkIsMutual
  <2> SUFFICES ASSUME SysInv, IInv, NEW c \in Clients, linked[c]
               PROVE  \E d \in Clients : /\ peer[c] = AddrOf[d] /\ peer[d] = AddrOf[c]
                                         /\ punched[d]
                                         /\ SlotOf(NumOf[c]) # SlotOf(NumOf[d])
    BY DEF LinkIsMutual
  <2>1. PICK d \in Clients : Mutual(c, d) /\ stage[c] \in Later
    BY DEF SysInv, LinksOK, LinkOK
  <2> QED BY <2>1, MutualAcross DEF Mutual
<1> QED BY <1>1, SysInductive, ServerInTheSystem, Inductive, PTL
=============================================================================
