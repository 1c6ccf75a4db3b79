------------------------- MODULE UdtRendezvousProofs -------------------------
(***************************************************************************)
(* Theorems about UdtRendezvous, for every pair of ends, every number of   *)
(* attempts and every set of ends that expire or close.                    *)
(*                                                                         *)
(* The inductive invariant IInv, at the end of the module, is made of      *)
(*   Progress       what each end may have said and concluded, by pc;      *)
(*   MailIsTrue     every packet, wherever it waits, says nothing or what  *)
(*                  its sender has said: handshakes name no attempt that   *)
(*                  has not begun, and only who has heard the other says   *)
(*                  more than a first request;                             *)
(*   PeersKnown     so what an end concludes from a packet is true;        *)
(*   QueuesHold     in a first attempt the rendezvous queue has one entry  *)
(*                  at most, and what is left of it has had its time;      *)
(*   ServiceIsOpen  who is on the receiving list was connected;            *)
(*   MailHasCome    what waits for an end came over the network to it;     *)
(*   ReasonsHold    why a first attempt left its loop.                     *)
(* A step belongs to one end.  OthersStay says that it leaves the other    *)
(* end's state alone, so each part is shown for the end that moves, and    *)
(* for the other one from what its peer can no longer unsay.               *)
(***************************************************************************)
EXTENDS UdtRendezvous, FiniteSetTheorems, SequenceTheorems, TLAPS

PCs == {"idle", "configure", "loop", "enlist", "complete", "check", "ended"}

\* There are two ends: each has the other.
LEMMA OtherEnd ==
  ASSUME NEW e \in Ends
  PROVE  Other(e) \in Ends /\ Other(e) # e /\ \A f \in Ends : f = e \/ f = Other(e)
<1>1. Ends \ {e} # {} /\ IsFiniteSet(Ends \ {e}) /\ Cardinality(Ends \ {e}) = 1
  BY EndsAssumption, FS_RemoveElement, FS_EmptySet
<1>2. PICK f : Ends \ {e} = {f}
  BY <1>1, FS_Singleton
<1>3. Other(e) \in Ends /\ Other(e) # e
  BY <1>2 DEF Other
<1> QED BY <1>2, <1>3

\* What a sequence of packets, or of attempts, loses and gains.
Entries(s) == {s[i] : i \in 1..Len(s)}

\* Taking the head of a sequence takes nothing else.
LEMMA EntriesOfTail ==
  ASSUME NEW S, NEW s \in Seq(S), s # <<>>
  PROVE  /\ Head(s) \in S /\ Tail(s) \in Seq(S) /\ Len(Tail(s)) = Len(s) - 1
         /\ Head(s) \in Entries(s) /\ Entries(Tail(s)) \subseteq Entries(s)
BY HeadTailProperties, EmptySeq DEF Entries

\* Appending adds one entry.
LEMMA EntriesOfAppend ==
  ASSUME NEW S, NEW s \in Seq(S), NEW x \in S
  PROVE  /\ Append(s, x) \in Seq(S) /\ Entries(Append(s, x)) = Entries(s) \union {x}
         /\ Len(Append(s, x)) = Len(s) + 1
<1>1. /\ Append(s, x) \in Seq(S) /\ Len(Append(s, x)) = Len(s) + 1 /\ Len(s) \in Nat
      /\ \A i \in 1..Len(s) : Append(s, x)[i] = s[i]
      /\ Append(s, x)[Len(s) + 1] = x
  BY AppendProperties, LenProperties
<1>2. 1..Len(Append(s, x)) = 1..Len(s) \union {Len(s) + 1}
  BY <1>1
<1> HIDE <1>2
<1> QED BY <1>1, <1>2 DEF Entries

\* What the code sends is a packet.
LEMMA PacketsSent ==
  ASSUME NEW e \in Ends
  PROVE  /\ \A id \in {0, 1}, hs \in Shake : Hs(e, id, hs) \in Packet
         /\ \A id \in {0, 1}, kind \in {"live", "shutdown"} : Ctrl(e, id, kind) \in Packet
<1>1. Blank \in Shake
  BY BoundsAssumption DEF Blank, Shake, Isn
<1> QED BY <1>1, OtherEnd DEF Hs, Ctrl, Packet

\* The answer to a request is a handshake.
LEMMA ShakeChanged == \A hs \in Shake : [hs EXCEPT !.req = -1] \in Shake
BY DEF Shake

\* Every step keeps the types.
LEMMA TypeStep == TypeOK /\ [Next]_vars => TypeOK'
<1> SUFFICES ASSUME TypeOK, [Next]_vars PROVE TypeOK'
  OBVIOUS
<1> USE BoundsAssumption DEF TypeOK, Isn, UsesCudt, appVars, socketVars, peerVars, queueVars
<1>1. CASE UNCHANGED vars
  BY <1>1 DEF vars
<1>2. ASSUME NEW e \in Ends, Connect(e) PROVE TypeOK'
  <2>1. rq' \in [Ends -> Seq(1..MaxAttempts)]
    BY <1>2, EntriesOfAppend DEF Connect
  <2> QED BY <1>2, <2>1 DEF Connect
<1>3. ASSUME NEW e \in Ends, ConnectRefused(e) PROVE TypeOK'
  BY <1>3 DEF ConnectRefused
<1>4. ASSUME NEW e \in Ends, Configure(e) PROVE TypeOK'
  <2>1. [req |-> 0, isn |-> attempt[e], sid |-> 1, typed |-> TRUE] \in Shake
    BY DEF Shake
  <2> QED BY <1>4, <2>1, PacketsSent DEF Configure
<1>5. ASSUME NEW e \in Ends PROVE Request(e) \in Packet
  <2>1. connRes[e].sid \in {0, 1} /\ connReq[e] \in Shake
    BY DEF Shake
  <2> QED BY <2>1, PacketsSent DEF Request
<1>6. ASSUME NEW e \in Ends, Resend(e) PROVE TypeOK'
  BY <1>5, <1>6 DEF Resend
<1>7. ASSUME NEW e \in Ends, TakeStored(e)
      PROVE  /\ Head(stored[e]) \in Packet /\ Tail(stored[e]) \in Seq(Packet)
             /\ Head(stored[e]).hs \in Shake /\ Recorded(e, Head(stored[e])) \in Shake
  <2>1. Head(stored[e]) \in Packet /\ Tail(stored[e]) \in Seq(Packet)
    BY <1>7, EntriesOfTail DEF TakeStored
  <2> QED BY <2>1 DEF Packet, Recorded
<1>8. ASSUME NEW e \in Ends, rq[e] # <<>> PROVE Tail(rq[e]) \in Seq(1..MaxAttempts)
  <2>1. rq[e] \in Seq(1..MaxAttempts)
    OBVIOUS
  <2> QED BY <1>8, <2>1, EntriesOfTail
<1>9. ASSUME NEW e \in Ends, TakeAndStop(e) PROVE TypeOK'
  BY <1>7, <1>9 DEF TakeAndStop
<1>10. ASSUME NEW e \in Ends, TakeAndGoOn(e) PROVE TypeOK'
  <2>1. connReq[e] \in Shake
    OBVIOUS
  <2>2. [connReq[e] EXCEPT !.req = -1] \in Shake
    BY <2>1, ShakeChanged
  <2> QED BY <1>7, <1>10, <2>2 DEF TakeAndGoOn
<1>11. ASSUME NEW e \in Ends, TakeAndConnect(e) PROVE TypeOK'
  <2> DEFINE res == Recorded(e, Head(stored[e]))
  <2>1. res \in Shake /\ res.isn \in Isn /\ res.sid \in {0, 1}
    BY <1>7, <1>11 DEF Shake, TakeAndConnect
  <2>2. rq' \in [Ends -> Seq(1..MaxAttempts)] /\ <<>> \in Seq(Packet)
    BY <1>11, <1>8, EmptySeq DEF TakeAndConnect
  <2> HIDE DEF res
  <2>3. /\ connRes' = [connRes EXCEPT ![e] = res]
        /\ peerIsn' = [peerIsn EXCEPT ![e] = res.isn]
        /\ peerSid' = [peerSid EXCEPT ![e] = res.sid]
    BY <1>11 DEF TakeAndConnect, res
  <2> QED BY <1>11, <2>1, <2>2, <2>3 DEF TakeAndConnect
<1>12. ASSUME NEW e \in Ends, ConnectTimeout(e) PROVE TypeOK'
  BY <1>12 DEF ConnectTimeout
<1>13. ASSUME NEW e \in Ends, ConnectReturns(e) PROVE TypeOK'
  BY <1>13 DEF ConnectReturns
<1>14. ASSUME NEW e \in Ends, Close(e) PROVE TypeOK'
  <2>1. rq' \in [Ends -> Seq(1..MaxAttempts)] /\ <<>> \in Seq(Packet)
    <3>1. rq' = IF connecting[e] /\ rq[e] # <<>> THEN [rq EXCEPT ![e] = Tail(@)] ELSE rq
      BY <1>14 DEF Close
    <3> QED BY <1>8, <3>1, EmptySeq
  <2> QED BY <1>14, <2>1, PacketsSent, ZenonT(60) DEF Close
<1>15. ASSUME NEW e \in Ends, CollectBroken(e) PROVE TypeOK'
  BY <1>15 DEF CollectBroken
<1>16. ASSUME NEW e \in Ends, Delete(e) PROVE TypeOK'
  BY <1>16 DEF Delete
<1>17. ASSUME NEW e \in Ends, Speak(e) PROVE TypeOK'
  <2>1. peerSid[e] \in {0, 1}
    OBVIOUS
  <2> QED BY <1>17, <2>1, PacketsSent DEF Speak
<1>18. ASSUME NEW e \in Ends, WorkerInsert(e) PROVE TypeOK'
  BY <1>18 DEF WorkerInsert
<1>19. ASSUME NEW e \in Ends, WorkerRemove(e) PROVE TypeOK'
  BY <1>19 DEF WorkerRemove
<1>20. ASSUME NEW e \in Ends, WorkerStore(e) PROVE TypeOK'
  <2>1. stored' \in [Ends -> Seq(Packet)]
    BY <1>20, EntriesOfAppend DEF WorkerStore
  <2> QED BY <1>20, <2>1 DEF WorkerStore
<1>21. ASSUME NEW e \in Ends, WorkerUpdate(e) PROVE TypeOK'
  BY <1>5, <1>21 DEF WorkerUpdate
<1>22. ASSUME NEW e \in Ends, NEW p \in net, WorkerReceives(e, p) PROVE TypeOK'
  <2>1. CASE WorkerHold(e, p)
    BY <2>1 DEF WorkerHold
  <2>2. CASE WorkerReply(e, p)
    <3>1. [req |-> -2, isn |-> connReq[e].isn, sid |-> 1, typed |-> FALSE] \in Shake
      BY DEF Shake
    <3> QED BY <2>2, <3>1, PacketsSent, ZenonT(60) DEF WorkerReply
  <2>3. CASE WorkerShutdown(e, p)
    BY <2>3 DEF WorkerShutdown
  <2> QED BY <1>22, <2>1, <2>2, <2>3 DEF WorkerReceives
<1>23. ASSUME NEW e \in Ends, TimePasses(e) PROVE TypeOK'
  BY <1>23 DEF TimePasses
<1>24. ASSUME NEW e \in Ends, Enlist(e) PROVE TypeOK'
  BY <1>24 DEF Enlist
<1>25. ASSUME NEW e \in Ends, Complete(e) PROVE TypeOK'
  BY <1>25 DEF Complete
<1> QED
  BY <1>1, <1>2, <1>3, <1>4, <1>6, <1>9, <1>10, <1>11, <1>12, <1>13, <1>14, <1>15, <1>16,
     <1>17, <1>18, <1>19, <1>20, <1>21, <1>22, <1>23, <1>24, <1>25 DEF Next, App

\* e has heard the other side: its request says so, or did in an attempt before.
HasHeard(e) == connReq[e].req = -1 \/ attempt[e] > 1

\* What a handshake of f may say: nothing, or the truth.
Honest(f, hs) == hs = Blank \/ (hs.isn \in 1..attempt[f] /\ hs.sid = 1)

\* A packet of f is honest, and only if f has heard the other it is more than a first request.
SaidBy(f, p) == /\ Honest(f, p.hs)
                /\ p.kind = "live" \/ p.hs.req # 0 => HasHeard(f)

\* How far each end has come.
ProgressOf(e) ==
  /\ attempt[e] = 0 => /\ pc[e] = "idle" /\ connReq[e] = Blank /\ rq[e] = <<>>
                       /\ ~connected[e] /\ ~broken[e] /\ result[e] = "none"
  /\ pc[e] = "configure" => connReq[e].req = 0 \/ attempt[e] > 1
  /\ pc[e] \in {"configure", "loop"} => ~connected[e]
  /\ pc[e] = "loop" => connReq[e] # Blank
  /\ connReq[e].req \in {0, -1} /\ Honest(e, connReq[e])
  /\ connRes[e].typed => HasHeard(e)
  /\ connected[e] => connReq[e] # Blank /\ HasHeard(e) /\ ~connecting[e]

Progress == \A e \in Ends : ProgressOf(e)

\* What belongs to one end.
Own(f) == <<pc[f], result[f], attempt[f], place[f], status[f], connecting[f], connected[f],
            closing[f], broken[f], connReq[f], connRes[f], peerIsn[f], peerSid[f], rq[f],
            expired[f], stored[f], onList[f], held[f]>>

\* The steps of one end.
Step(e) == \/ App(e) \/ Connect(e) \/ ConnectRefused(e) \/ Resend(e) \/ Close(e)
           \/ CollectBroken(e) \/ Delete(e) \/ Speak(e)
           \/ WorkerInsert(e) \/ WorkerRemove(e) \/ WorkerStore(e) \/ WorkerUpdate(e)
           \/ \E p \in net : WorkerReceives(e, p)
           \/ TimePasses(e)

\* A step of one end changes nothing of the other but what is on its way to it.
LEMMA OthersStay ==
  ASSUME TypeOK, NEW e \in Ends, Step(e), NEW f \in Ends, f # e
  PROVE  Own(f)' = Own(f)
<1> USE DEF Own, TypeOK, appVars, socketVars, peerVars, queueVars
<1>1. CASE Connect(e) BY <1>1 DEF Connect
<1>2. CASE ConnectRefused(e) BY <1>2 DEF ConnectRefused
<1>3. CASE Configure(e) BY <1>3 DEF Configure
<1>4. CASE Resend(e) BY <1>4 DEF Resend
<1>5. CASE TakeAndStop(e) BY <1>5 DEF TakeAndStop
<1>6. CASE TakeAndGoOn(e) BY <1>6 DEF TakeAndGoOn
<1>7. CASE TakeAndConnect(e) BY <1>7 DEF TakeAndConnect
<1>8. CASE ConnectTimeout(e) BY <1>8 DEF ConnectTimeout
<1>9. CASE ConnectReturns(e) BY <1>9 DEF ConnectReturns
<1>10. CASE Close(e) BY <1>10 DEF Close
<1>11. CASE CollectBroken(e) BY <1>11 DEF CollectBroken
<1>12. CASE Delete(e) BY <1>12 DEF Delete
<1>13. CASE Speak(e) BY <1>13 DEF Speak
<1>14. CASE WorkerInsert(e) BY <1>14 DEF WorkerInsert
<1>15. CASE WorkerRemove(e) BY <1>15 DEF WorkerRemove
<1>16. CASE WorkerStore(e) BY <1>16 DEF WorkerStore
<1>17. CASE WorkerUpdate(e) BY <1>17 DEF WorkerUpdate
<1>18. CASE TimePasses(e) BY <1>18 DEF TimePasses
<1>19. ASSUME NEW p \in net, WorkerHold(e, p) PROVE Own(f)' = Own(f)
  BY <1>19 DEF WorkerHold
<1>20. ASSUME NEW p \in net, WorkerReply(e, p) PROVE Own(f)' = Own(f)
  BY <1>20 DEF WorkerReply
<1>21. ASSUME NEW p \in net, WorkerShutdown(e, p) PROVE Own(f)' = Own(f)
  BY <1>21 DEF WorkerShutdown
<1>22. CASE Enlist(e) BY <1>22 DEF Enlist
<1>23. CASE Complete(e) BY <1>23 DEF Complete
<1> QED
  BY <1>1, <1>2, <1>3, <1>4, <1>5, <1>6, <1>7, <1>8, <1>9, <1>10, <1>11, <1>12, <1>13,
     <1>14, <1>15, <1>16, <1>17, <1>18, <1>19, <1>20, <1>21, <1>22, <1>23
     DEF Step, App, WorkerReceives

\* Nobody has said anything at the start.
LEMMA ProgressInit == Init => Progress
BY DEF Init, Progress, ProgressOf, Honest, Blank, HasHeard

\* Every step of an end keeps its own progress.
LEMMA OwnProgress ==
  ASSUME TypeOK, NEW e \in Ends, ProgressOf(e), Step(e)
  PROVE  ProgressOf(e)'
<1>1. /\ pc \in [Ends -> PCs]
      /\ attempt \in [Ends -> Nat] /\ rq \in [Ends -> Seq(1..MaxAttempts)]
      /\ connecting \in [Ends -> BOOLEAN] /\ connected \in [Ends -> BOOLEAN]
      /\ broken \in [Ends -> BOOLEAN]
      /\ connReq \in [Ends -> Shake] /\ connRes \in [Ends -> Shake]
  BY BoundsAssumption DEF TypeOK, Isn, PCs
<1> USE <1>1 DEF ProgressOf, Honest, HasHeard
<1>2. CASE UNCHANGED <<pc[e], result[e], attempt[e], connReq[e], connRes[e], connected[e],
                       connecting[e], rq[e], broken[e]>>
  BY <1>2
<1>3. CASE Connect(e)
  <2>1. connReq[e].req = 0 \/ attempt'[e] > 1
    BY <1>3 DEF Connect, Blank
  <2> QED BY <1>3, <2>1 DEF Connect, peerVars
<1>4. CASE ConnectRefused(e)
  BY <1>4 DEF ConnectRefused, socketVars, peerVars, queueVars
<1>5. CASE Configure(e)
  BY <1>5 DEF Configure, Blank, queueVars
<1>6. CASE TakeAndStop(e)
  BY <1>6 DEF TakeAndStop, socketVars, peerVars, TakeStored
<1>7. CASE TakeAndGoOn(e)
  <2>1. /\ connReq' = [connReq EXCEPT ![e].req = -1] /\ connReq[e] # Blank
        /\ connReq'[e].req = -1 /\ connReq'[e].isn = connReq[e].isn
        /\ connReq'[e].sid = connReq[e].sid
    BY <1>7 DEF TakeAndGoOn, TakeStored, Shake
  <2>2. /\ pc'[e] = "loop" /\ attempt'[e] = attempt[e] /\ rq'[e] = rq[e]
        /\ connected'[e] = connected[e] /\ broken'[e] = broken[e] /\ ~connected[e]
        /\ attempt[e] # 0
    BY <1>7 DEF TakeAndGoOn, TakeStored, appVars, socketVars
  <2> QED BY <2>1, <2>2 DEF Blank
<1>8. CASE TakeAndConnect(e)
  <2>1. Verdict(e, Head(stored[e])) = "connected" /\ pc[e] = "loop"
    BY <1>8 DEF TakeAndConnect, TakeStored
  <2>2. HasHeard(e)
    BY <2>1 DEF Verdict, PeerIsUp
  <2> QED BY <1>8, <2>1, <2>2 DEF TakeAndConnect
<1>9. CASE ConnectTimeout(e) \/ ConnectReturns(e) \/ Enlist(e) \/ Complete(e)
  BY <1>9 DEF ConnectTimeout, ConnectReturns, Enlist, Complete, socketVars, peerVars, queueVars
<1>10. CASE Close(e)
  BY <1>10 DEF Close, appVars, peerVars
<1>11. CASE Delete(e)
  BY <1>11 DEF Delete, appVars, peerVars, queueVars
<1>12. CASE WorkerUpdate(e)
  BY <1>12 DEF WorkerUpdate, appVars, peerVars, queueVars
<1>13. ASSUME NEW p \in net, WorkerShutdown(e, p) PROVE ProgressOf(e)'
  BY <1>13 DEF WorkerShutdown, Serving, appVars, peerVars, queueVars
<1>14. Resend(e) \/ CollectBroken(e) \/ Speak(e) \/ WorkerInsert(e) \/ WorkerRemove(e)
         \/ WorkerStore(e) \/ TimePasses(e)
         \/ (\E p \in net : WorkerHold(e, p) \/ WorkerReply(e, p)) => ProgressOf(e)'
  BY <1>2 DEF Resend, CollectBroken, Speak, WorkerInsert, WorkerRemove, WorkerStore,
     TimePasses, WorkerHold, WorkerReply, appVars, socketVars, peerVars, queueVars
<1> QED
  BY <1>3, <1>4, <1>5, <1>6, <1>7, <1>8, <1>9, <1>10, <1>11, <1>12, <1>13, <1>14
     DEF Step, App, WorkerReceives

\* Every step belongs to an end.
LEMMA StepsOfEnds == Next <=> \E e \in Ends : Step(e)
BY DEF Next, Step

\* Every step keeps the progress of both ends.
LEMMA ProgressStep == TypeOK /\ Progress /\ [Next]_vars => Progress'
<1> SUFFICES ASSUME TypeOK, Progress, [Next]_vars, NEW f \in Ends PROVE ProgressOf(f)'
  BY DEF Progress
<1>1. CASE Own(f)' = Own(f)
  BY <1>1 DEF Own, Progress, ProgressOf, Honest, HasHeard
<1>2. CASE UNCHANGED vars
  BY <1>1, <1>2 DEF vars, Own
<1>3. ASSUME NEW e \in Ends, Step(e) PROVE ProgressOf(f)'
  BY <1>1, <1>3, OwnProgress, OthersStay DEF Progress
<1> QED BY <1>2, <1>3, StepsOfEnds

\* Nothing that was true of an end when it spoke becomes false.
LEMMA NothingIsUnsaid ==
  ASSUME TypeOK, Progress, [Next]_vars, NEW f \in Ends
  PROVE  attempt[f] <= attempt'[f] /\ (HasHeard(f) => HasHeard(f)')
<1>1. attempt \in [Ends -> Nat] /\ connReq \in [Ends -> Shake]
  BY BoundsAssumption DEF TypeOK, Isn
<1>2. CASE Own(f)' = Own(f)
  BY <1>1, <1>2 DEF Own, HasHeard
<1>3. CASE UNCHANGED vars
  BY <1>2, <1>3 DEF vars, Own
<1>4. ASSUME Step(f) PROVE attempt[f] <= attempt'[f] /\ (HasHeard(f) => HasHeard(f)')
  <2> USE <1>1 DEF HasHeard
  <2>1. CASE attempt'[f] = attempt[f] /\ connReq'[f] = connReq[f]
    BY <2>1
  <2>2. CASE Connect(f) \/ ConnectRefused(f)
    BY <2>2 DEF Connect, ConnectRefused, peerVars
  <2>3. CASE Configure(f)
    BY <2>3 DEF Configure, Progress, ProgressOf
  <2>4. CASE TakeAndGoOn(f)
    <3>1. connReq'[f].req = -1 /\ attempt'[f] = attempt[f]
      BY <2>4 DEF TakeAndGoOn, appVars, Shake
    <3> QED BY <3>1
  <2> QED
    BY <1>4, <2>1, <2>2, <2>3, <2>4
       DEF Step, App, WorkerReceives, appVars, peerVars, Resend, CollectBroken, Speak,
           WorkerInsert, WorkerRemove, WorkerStore, WorkerHold, WorkerReply, TimePasses,
           TakeAndStop, TakeAndConnect, ConnectTimeout, ConnectReturns, Close, Delete,
           WorkerUpdate, WorkerShutdown, Enlist, Complete
<1> QED BY <1>2, <1>3, <1>4, OthersStay, StepsOfEnds

\* What is on its way to an end, what waits for it, and what it has concluded.
Waiting(e) == Entries(stored[e]) \union ({held[e]} \ {NoPacket})

MailIsTrue == /\ \A p \in net : SaidBy(Other(p.to), p)
              /\ \A e \in Ends : \A p \in Waiting(e) : SaidBy(Other(e), p)

KnowsPeer(e) ==
  /\ Honest(Other(e), connRes[e])
  /\ connected[e] => /\ HasHeard(Other(e))
                     /\ peerIsn[e] \in 1..attempt[Other(e)] /\ peerSid[e] = 1

PeersKnown == \A e \in Ends : KnowsPeer(e)

\* The other's other end is the end itself.
LEMMA OtherOfOther ==
  ASSUME NEW e \in Ends
  PROVE  Other(e) \in Ends /\ Other(Other(e)) = e
<1>1. Other(e) \in Ends /\ Other(e) # e
  BY OtherEnd
<1>2. Other(Other(e)) \in Ends /\ Other(Other(e)) # Other(e)
  BY <1>1, OtherEnd
<1> QED BY <1>1, <1>2, OtherEnd

\* No mail at the start, and no conclusions.
LEMMA MailInit == Init => MailIsTrue /\ PeersKnown
<1> SUFFICES ASSUME Init PROVE MailIsTrue /\ PeersKnown
  OBVIOUS
<1>1. ASSUME NEW e \in Ends PROVE Waiting(e) = {}
  <2>1. stored[e] = <<>> /\ held[e] = NoPacket
    BY DEF Init
  <2>2. Entries(<<>>) = {}
    BY DEF Entries
  <2> QED BY <2>1, <2>2 DEF Waiting
<1>2. net = {} /\ \A e \in Ends : connRes[e] = Blank /\ connected[e] = FALSE
  BY DEF Init
<1> QED BY <1>1, <1>2 DEF MailIsTrue, PeersKnown, KnowsPeer, Honest

\* What was said stays true.
LEMMA SaidStays ==
  ASSUME TypeOK, Progress, [Next]_vars, NEW f \in Ends, NEW p, SaidBy(f, p)
  PROVE  SaidBy(f, p)'
<1>1. attempt[f] <= attempt'[f] /\ (HasHeard(f) => HasHeard(f)')
  BY NothingIsUnsaid
<1>2. attempt[f] \in Nat /\ attempt'[f] \in Nat
  BY TypeStep, BoundsAssumption DEF TypeOK, Isn
<1> QED BY <1>1, <1>2 DEF SaidBy, Honest

\* An end says nothing but what is true.
LEMMA OnlyTruthIsSent ==
  ASSUME TypeOK, Progress, NEW e \in Ends, Step(e), NEW p \in net' \ net
  PROVE  p.to = Other(e) /\ SaidBy(e, p)'
<1>1. ProgressOf(e) /\ attempt[e] \in Nat /\ connReq[e] \in Shake
  BY BoundsAssumption DEF Progress, TypeOK, Isn
<1>2. CASE /\ \E id \in {0, 1} : p = Hs(e, id, connReq[e])
           /\ connReq'[e] = connReq[e] /\ attempt'[e] = attempt[e]
  BY <1>1, <1>2 DEF SaidBy, Honest, HasHeard, Hs, ProgressOf
<1>3. ASSUME NEW kind \in {"live", "shutdown"}, NEW id \in {0, 1},
             p = Ctrl(e, id, kind), connected[e],
             connReq'[e] = connReq[e], attempt'[e] = attempt[e]
      PROVE  p.to = Other(e) /\ SaidBy(e, p)'
  BY <1>1, <1>3 DEF SaidBy, Honest, HasHeard, Ctrl, ProgressOf, Blank
<1>4. connRes[e].sid \in {0, 1} /\ peerSid[e] \in {0, 1}
  BY DEF TypeOK, Shake
<1>5. CASE Configure(e)
  <2> DEFINE hs == [req |-> 0, isn |-> attempt[e], sid |-> 1, typed |-> TRUE]
  <2>1. p = Hs(e, 0, hs) /\ attempt'[e] = attempt[e] /\ attempt[e] # 0
    BY <1>1, <1>5 DEF Configure, ProgressOf
  <2> QED BY <1>1, <2>1 DEF SaidBy, Honest, Hs
<1>6. CASE Resend(e) \/ WorkerUpdate(e)
  <2>1. p = Request(e) /\ connReq'[e] = connReq[e] /\ attempt'[e] = attempt[e]
    BY <1>6 DEF Resend, WorkerUpdate, appVars, peerVars
  <2> QED BY <1>2, <1>4, <2>1 DEF Request
<1>7. CASE Close(e)
  <2>1. /\ p = Ctrl(e, peerSid[e], "shutdown") /\ connected[e]
        /\ connReq'[e] = connReq[e] /\ attempt'[e] = attempt[e]
    BY <1>7 DEF Close, appVars, peerVars
  <2> QED BY <1>3, <1>4, <2>1
<1>8. CASE Speak(e)
  <2>1. /\ p = Ctrl(e, peerSid[e], "live") /\ connected[e]
        /\ connReq'[e] = connReq[e] /\ attempt'[e] = attempt[e]
    BY <1>8 DEF Speak, Serving, appVars, peerVars
  <2> QED BY <1>3, <1>4, <2>1
<1>9. ASSUME NEW q \in net, WorkerReply(e, q) PROVE p.to = Other(e) /\ SaidBy(e, p)'
  <2> DEFINE hs == [req |-> -2, isn |-> connReq[e].isn, sid |-> 1, typed |-> FALSE]
  <2>1. /\ p = Hs(e, peerSid[e], hs) /\ connected[e]
        /\ connReq'[e] = connReq[e] /\ attempt'[e] = attempt[e]
    BY <1>9 DEF WorkerReply, Serving, appVars, peerVars
  <2>2. connReq[e].isn \in 1..attempt[e] /\ HasHeard(e)
    BY <1>1, <2>1 DEF ProgressOf, Honest
  <2>3. p.to = Other(e) /\ p.hs = hs /\ p.kind = "hs"
    BY <2>1 DEF Hs
  <2> QED BY <2>1, <2>2, <2>3 DEF SaidBy, Honest, HasHeard
<1> QED
  BY <1>5, <1>6, <1>7, <1>8, <1>9
     DEF Step, App, WorkerReceives, queueVars, ConnectRefused, Connect, TakeAndStop,
         TakeAndGoOn, TakeAndConnect, ConnectTimeout, ConnectReturns, CollectBroken, Delete,
         WorkerInsert, WorkerRemove, WorkerStore, WorkerHold, WorkerShutdown, TimePasses,
         Enlist, Complete

\* What waits for an end was there, or has just been sent by the other.
LEMMA OnlyMailWaits ==
  ASSUME TypeOK, NEW e \in Ends, Step(e), NEW p \in Waiting(e)', p \notin Waiting(e)
  PROVE  p \in net /\ p.to = e
<1>1. stored[e] \in Seq(Packet) /\ held \in [Ends -> Packet \union {NoPacket}]
      /\ stored \in [Ends -> Seq(Packet)]
  BY DEF TypeOK
<1>2. CASE UNCHANGED <<stored, held>>
  BY <1>2 DEF Waiting
<1>3. CASE /\ held' = held
           /\ stored[e] # <<>> /\ stored' = [stored EXCEPT ![e] = Tail(@)]
  BY <1>1, <1>3, EntriesOfTail DEF Waiting
<1>4. CASE held' = held /\ stored' = [stored EXCEPT ![e] = <<>>]
  <2>1. Entries(<<>>) = {}
    BY DEF Entries
  <2> QED BY <1>1, <1>4, <2>1 DEF Waiting
<1>5. ASSUME NEW q \in net, WorkerHold(e, q) PROVE p \in net /\ p.to = e
  BY <1>1, <1>5 DEF WorkerHold, Arrives, Waiting
<1>6. CASE WorkerStore(e)
  <2>1. held[e] \in Packet /\ held[e] # NoPacket /\ held'[e] = NoPacket
    BY <1>1, <1>6 DEF WorkerStore
  <2>2. Entries(stored'[e]) \subseteq Entries(stored[e]) \union {held[e]}
    BY <1>1, <1>6, <2>1, EntriesOfAppend DEF WorkerStore
  <2> QED BY <2>1, <2>2 DEF Waiting
<1> QED
  BY <1>2, <1>3, <1>4, <1>5, <1>6
     DEF Step, App, WorkerReceives, queueVars, ConnectRefused, Connect, TakeAndStop, TakeStored,
         TakeAndGoOn, TakeAndConnect, ConnectTimeout, ConnectReturns, CollectBroken, Delete,
         WorkerInsert, WorkerRemove, WorkerShutdown, TimePasses, Configure, Resend, Close, Speak,
         WorkerUpdate, WorkerReply, Enlist, Complete

\* Every step keeps the mail true: what is new was just said, what is old stays said.
LEMMA MailStep ==
  ASSUME TypeOK, Progress, MailIsTrue, [Next]_vars
  PROVE  MailIsTrue'
<1>1. ASSUME NEW p \in net' PROVE SaidBy(Other(p.to), p)'
  <2>1. CASE p \in net
    <3>1. SaidBy(Other(p.to), p) /\ Other(p.to) \in Ends
      BY <2>1, OtherOfOther DEF MailIsTrue, TypeOK, Packet
    <3> QED BY <3>1, SaidStays
  <2>2. CASE p \notin net
    <3>1. PICK e \in Ends : Step(e)
      BY <2>2, StepsOfEnds DEF vars
    <3>2. p.to = Other(e) /\ SaidBy(e, p)'
      BY <1>1, <2>2, <3>1, OnlyTruthIsSent
    <3> QED BY <3>2, OtherOfOther
  <2> QED BY <2>1, <2>2
<1>2. ASSUME NEW f \in Ends, NEW p \in Waiting(f)' PROVE SaidBy(Other(f), p)'
  <2>1. CASE p \in Waiting(f)
    <3>1. SaidBy(Other(f), p) /\ Other(f) \in Ends
      BY <2>1, OtherOfOther DEF MailIsTrue
    <3> QED BY <3>1, SaidStays
  <2>2. CASE p \notin Waiting(f)
    <3>1. Own(f)' # Own(f)
      BY <1>2, <2>2 DEF Own, Waiting
    <3>2. Step(f)
      BY <3>1, StepsOfEnds, OthersStay DEF vars, Own
    <3>3. p \in net /\ p.to = f
      BY <1>2, <2>2, <3>2, OnlyMailWaits
    <3>4. SaidBy(Other(f), p) /\ Other(f) \in Ends
      BY <3>3, OtherOfOther DEF MailIsTrue
    <3> QED BY <3>4, SaidStays
  <2> QED BY <2>1, <2>2
<1> QED BY <1>1, <1>2 DEF MailIsTrue

\* What an end concludes from a packet of the other is true.
LEMMA OwnConclusion ==
  ASSUME TypeOK, Progress, MailIsTrue, NEW e \in Ends, KnowsPeer(e), Step(e),
         attempt'[Other(e)] = attempt[Other(e)], connReq'[Other(e)] = connReq[Other(e)]
  PROVE  KnowsPeer(e)'
<1>1. /\ connected \in [Ends -> BOOLEAN] /\ connRes \in [Ends -> Shake]
      /\ peerIsn \in [Ends -> Isn] /\ peerSid \in [Ends -> {0, 1}]
      /\ attempt[Other(e)] \in Nat
  BY BoundsAssumption, OtherOfOther DEF TypeOK, Isn
<1> USE <1>1 DEF KnowsPeer, Honest, HasHeard
<1>2. CASE /\ UNCHANGED <<connRes[e], peerIsn[e], peerSid[e]>>
           /\ connected'[e] => connected[e]
  BY <1>2
<1>3. ASSUME TakeStored(e) PROVE SaidBy(Other(e), Head(stored[e]))
  <2>1. stored[e] \in Seq(Packet)
    BY DEF TypeOK
  <2> QED BY <1>3, <2>1, EntriesOfTail DEF TakeStored, MailIsTrue, Waiting
<1>4. CASE TakeAndGoOn(e)
  BY <1>3, <1>4 DEF TakeAndGoOn, SaidBy, appVars, socketVars
<1>5. CASE TakeAndConnect(e)
  <2> DEFINE p   == Head(stored[e])
             res == Recorded(e, p)
  <2>1. /\ SaidBy(Other(e), p) /\ Verdict(e, p) = "connected"
        /\ connRes'[e] = res /\ peerIsn'[e] = res.isn /\ peerSid'[e] = res.sid
    BY <1>3, <1>5 DEF TakeAndConnect
  <2>2. CASE PeerIsUp(e, p)
    <3>1. p.kind = "live" /\ res = connRes[e] /\ res # Blank
      BY <2>2 DEF PeerIsUp, Recorded, Blank
    <3> QED BY <2>1, <3>1 DEF SaidBy
  <2>3. CASE ~PeerIsUp(e, p)
    <3>1. p.kind = "hs" /\ res = p.hs /\ p.hs.req # 0
      BY <2>1, <2>3 DEF Verdict, Recorded
    <3>2. res # Blank
      BY <3>1 DEF Blank
    <3> QED BY <2>1, <3>1, <3>2 DEF SaidBy
  <2> QED BY <2>2, <2>3
<1> QED
  BY <1>2, <1>4, <1>5
     DEF Step, App, WorkerReceives, queueVars, appVars, peerVars, socketVars, ConnectRefused,
         Connect, TakeAndStop, ConnectTimeout, ConnectReturns, CollectBroken, Delete,
         WorkerInsert, WorkerRemove, WorkerStore, WorkerHold, WorkerShutdown, TimePasses,
         Configure, Resend, Close, Speak, WorkerUpdate, WorkerReply, Enlist, Complete

\* Conclusions stay true.
LEMMA PeersKnownStep ==
  ASSUME TypeOK, Progress, MailIsTrue, PeersKnown, [Next]_vars
  PROVE  PeersKnown'
<1> SUFFICES ASSUME NEW f \in Ends PROVE KnowsPeer(f)'
  BY DEF PeersKnown
<1>1. KnowsPeer(f) /\ Other(f) \in Ends /\ Other(f) # f
  BY OtherEnd DEF PeersKnown
<1>2. CASE Own(f)' = Own(f)
  <2>1. /\ attempt[Other(f)] <= attempt'[Other(f)]
        /\ HasHeard(Other(f)) => HasHeard(Other(f))'
    BY <1>1, NothingIsUnsaid
  <2>2. attempt[Other(f)] \in Nat /\ attempt'[Other(f)] \in Nat
    <3>1. TypeOK /\ TypeOK'
      BY TypeStep
    <3> QED BY <1>1, <3>1, BoundsAssumption DEF TypeOK, Isn
  <2>3. UNCHANGED <<connRes[f], connected[f], peerIsn[f], peerSid[f]>>
    BY <1>2 DEF Own
  <2> QED BY <1>1, <2>1, <2>2, <2>3 DEF KnowsPeer, Honest
<1>3. CASE Own(f)' # Own(f)
  <2>1. Step(f)
    BY <1>3, StepsOfEnds, OthersStay DEF vars, Own
  <2>2. Own(Other(f))' = Own(Other(f))
    BY <1>1, <2>1, OthersStay
  <2>3. attempt'[Other(f)] = attempt[Other(f)] /\ connReq'[Other(f)] = connReq[Other(f)]
    BY <2>2 DEF Own
  <2> QED BY <1>1, <2>1, <2>3, OwnConclusion
<1> QED BY <1>2, <1>3

\* The queue entries of an end: in its first attempt there is one at most, and what is left
\* of it when the attempt is over has had its time.
AllExpired(e) == \A t \in Entries(rq[e]) : t <= expired[e]

QueueOf(e) ==
  /\ Entries(rq[e]) \subseteq 1..attempt[e]
  /\ attempt[e] <= 1 => Len(rq[e]) <= 1
  /\ pc[e] \in {"configure", "loop"} => rq[e] # <<>>
  /\ attempt[e] = 1 =>
       /\ broken[e] => ~connecting[e] /\ pc[e] # "configure"
       /\ ~connecting[e] /\ pc[e] # "configure" => AllExpired(e)
       /\ place[e] # "live" => AllExpired(e)

QueuesHold == \A e \in Ends : QueueOf(e)

\* The queues are empty at the start.
LEMMA QueuesInit == Init => QueuesHold
<1>1. Entries(<<>>) = {} /\ Len(<<>>) = 0
  BY DEF Entries
<1> QED BY <1>1 DEF Init, QueuesHold, QueueOf, AllExpired

\* Every step of an end keeps its own queue entries as they may be.
LEMMA OwnQueue ==
  ASSUME TypeOK, NEW e \in Ends, ProgressOf(e), QueueOf(e), Step(e)
  PROVE  QueueOf(e)'
<1>1. /\ pc \in [Ends -> PCs]
      /\ attempt \in [Ends -> Nat] /\ expired \in [Ends -> Nat]
      /\ place \in [Ends -> {"live", "closed", "deleted"}]
      /\ connecting \in [Ends -> BOOLEAN] /\ broken \in [Ends -> BOOLEAN]
      /\ rq \in [Ends -> Seq(1..MaxAttempts)]
  BY BoundsAssumption DEF TypeOK, Isn, PCs
<1>2. /\ Len(rq[e]) \in Nat
      /\ \A t \in Entries(rq[e]) : t \in 1..MaxAttempts
      /\ rq[e] # <<>> => /\ Len(Tail(rq[e])) = Len(rq[e]) - 1
                         /\ Entries(Tail(rq[e])) \subseteq Entries(rq[e])
                         /\ Len(rq[e]) <= 1 => Entries(Tail(rq[e])) = {}
  <2>1. rq[e] \in Seq(1..MaxAttempts)
    BY <1>1
  <2>2. Len(rq[e]) \in Nat /\ \A t \in Entries(rq[e]) : t \in 1..MaxAttempts
    <3>1. Len(rq[e]) \in Nat /\ rq[e] \in [1..Len(rq[e]) -> 1..MaxAttempts]
      BY <2>1, LenProperties
    <3> QED BY <3>1 DEF Entries
  <2>3. ASSUME rq[e] # <<>>
        PROVE  /\ Len(Tail(rq[e])) = Len(rq[e]) - 1
               /\ Entries(Tail(rq[e])) \subseteq Entries(rq[e])
    BY <2>1, <2>3, EntriesOfTail
  <2>4. ASSUME rq[e] # <<>>, Len(rq[e]) <= 1 PROVE Entries(Tail(rq[e])) = {}
    BY <2>1, <2>2, <2>3, <2>4 DEF Entries
  <2> QED BY <2>2, <2>3, <2>4
<1> USE <1>1 DEF QueueOf, AllExpired
<1>3. CASE UNCHANGED <<rq[e], attempt[e], broken[e], connecting[e], pc[e], place[e], expired[e]>>
  BY <1>3
<1>4. CASE Connect(e)
  <2>1. Entries(rq'[e]) = Entries(rq[e]) \union {attempt'[e]} /\ Len(rq'[e]) = Len(rq[e]) + 1
    <3>1. rq[e] \in Seq(1..MaxAttempts) /\ attempt[e] + 1 \in 1..MaxAttempts
      BY <1>1, <1>4, BoundsAssumption DEF Connect
    <3>2. rq'[e] = Append(rq[e], attempt[e] + 1) /\ attempt'[e] = attempt[e] + 1
      BY <1>4 DEF Connect
    <3>3. \A S : \A s \in Seq(S), x \in S :
             Entries(Append(s, x)) = Entries(s) \union {x} /\ Len(Append(s, x)) = Len(s) + 1
      BY EntriesOfAppend
    <3>4. /\ Entries(Append(rq[e], attempt[e] + 1)) = Entries(rq[e]) \union {attempt[e] + 1}
          /\ Len(Append(rq[e], attempt[e] + 1)) = Len(rq[e]) + 1
      BY <3>1, <3>3
    <3> QED BY <3>2, <3>4
  <2>2. attempt[e] = 0 => rq[e] = <<>> /\ ~broken[e]
    BY DEF ProgressOf
  <2>3. Len(<<>>) = 0
    BY EmptySeq
  <2>4. /\ attempt'[e] = attempt[e] + 1 /\ pc'[e] = "configure" /\ place'[e] = "live"
        /\ broken'[e] = broken[e]
    BY <1>4 DEF Connect
  <2>5. /\ attempt[e] \in Nat /\ Entries(rq[e]) \subseteq 1..attempt[e]
        /\ Len(rq[e]) \in Nat
    BY <1>2
  <2>9. rq'[e] # <<>>
    BY <2>1, <2>3, <2>5
  <2> HIDE <1>1 DEF QueueOf, AllExpired
  <2>6. Entries(rq[e])' \subseteq 1..attempt'[e]
    BY <2>1, <2>4, <2>5
  <2>7. attempt'[e] <= 1 => Len(rq'[e]) <= 1
    BY <2>1, <2>2, <2>3, <2>4, <2>5
  <2>8. attempt'[e] = 1 => ~broken'[e]
    BY <2>2, <2>4, <2>5
  <2> QED BY <2>4, <2>6, <2>7, <2>8, <2>9 DEF QueueOf
<1>5. CASE ConnectRefused(e)
  BY <1>2, <1>5 DEF ConnectRefused, socketVars, queueVars
<1>6. CASE Configure(e)
  BY <1>6 DEF Configure, queueVars
<1>7. CASE TakeAndConnect(e)
  <2>1. CASE rq[e] = <<>>
    <3>1. Entries(rq'[e]) = {} /\ Len(rq'[e]) = 0
      BY <1>7, <2>1 DEF TakeAndConnect, Entries
    <3> QED BY <1>7, <3>1 DEF TakeAndConnect
  <2>2. CASE rq[e] # <<>>
    <3>1. rq'[e] = Tail(rq[e])
      BY <1>7, <2>2 DEF TakeAndConnect
    <3>2. UNCHANGED <<attempt[e], broken[e], place[e], expired[e]>>
      BY <1>7 DEF TakeAndConnect
    <3>3. connecting'[e] = FALSE /\ pc'[e] = "enlist"
      BY <1>7 DEF TakeAndConnect
    <3> QED BY <1>2, <2>2, <3>1, <3>2, <3>3
  <2> QED BY <2>1, <2>2
<1>8. CASE \/ TakeAndStop(e) \/ TakeAndGoOn(e) \/ ConnectTimeout(e) \/ ConnectReturns(e)
           \/ Enlist(e) \/ Complete(e)
  BY <1>8 DEF TakeAndStop, TakeAndGoOn, ConnectTimeout, ConnectReturns, Enlist, Complete, TakeStored,
     appVars, socketVars, peerVars, queueVars
<1>9. CASE Close(e)
  <2>1. /\ UNCHANGED <<pc[e], attempt[e], connecting[e], broken[e], expired[e]>>
        /\ pc[e] = "idle"
    BY <1>9 DEF Close, appVars
  <2>2. CASE connecting[e] /\ rq[e] # <<>>
    <3>1. rq'[e] = Tail(rq[e])
      BY <1>9, <2>2 DEF Close
    <3> QED BY <1>2, <2>1, <2>2, <3>1
  <2>3. CASE ~(connecting[e] /\ rq[e] # <<>>)
    <3>1. rq'[e] = rq[e]
      BY <1>9, <2>3 DEF Close
    <3>2. rq[e] = <<>> => AllExpired(e)
      BY DEF Entries
    <3> QED BY <2>1, <2>3, <3>1, <3>2
  <2> QED BY <2>2, <2>3
<1>10. CASE CollectBroken(e) \/ Delete(e)
  BY <1>10 DEF CollectBroken, Delete, appVars, peerVars, queueVars
<1>11. CASE WorkerUpdate(e)
  <2>1. UNCHANGED <<rq[e], attempt[e], broken[e], pc[e], place[e], expired[e]>>
    BY <1>11 DEF WorkerUpdate, appVars, queueVars
  <2>2. CASE connecting'[e] = connecting[e]
    BY <2>1, <2>2
  <2>3. CASE connecting'[e] # connecting[e]
    <3>1. connecting'[e] = FALSE /\ \E t \in Entries(rq[e]) : t <= expired[e]
      BY <1>11, <2>3 DEF WorkerUpdate, Entries
    <3>2. attempt[e] = 1 => AllExpired(e)
      BY <1>2, <3>1
    <3> QED BY <2>1, <3>1, <3>2
  <2> QED BY <2>2, <2>3
<1>12. ASSUME NEW p \in net, WorkerShutdown(e, p) PROVE QueueOf(e)'
  <2>1. ~connecting[e] /\ pc[e] # "configure"
    BY <1>12 DEF WorkerShutdown, Serving, ProgressOf
  <2>2. UNCHANGED <<rq[e], attempt[e], connecting[e], pc[e], place[e], expired[e]>>
    BY <1>12 DEF WorkerShutdown, appVars, queueVars
  <2> QED BY <2>1, <2>2
<1>13. CASE TimePasses(e)
  <2>1. UNCHANGED <<rq[e], attempt[e], connecting[e], pc[e], place[e], broken[e]>>
        /\ expired'[e] = attempt[e]
    BY <1>13 DEF TimePasses, appVars, socketVars
  <2> QED BY <1>2, <2>1
<1> QED
  BY <1>3, <1>4, <1>5, <1>6, <1>7, <1>8, <1>9, <1>10, <1>11, <1>12, <1>13
     DEF Step, App, WorkerReceives, queueVars, appVars, peerVars, socketVars,
         WorkerInsert, WorkerRemove, WorkerStore, WorkerHold, Resend, Speak, WorkerReply

\* Every step keeps the queue entries of both ends.
LEMMA QueuesStep ==
  ASSUME TypeOK, Progress, QueuesHold, [Next]_vars
  PROVE  QueuesHold'
<1> SUFFICES ASSUME NEW f \in Ends PROVE QueueOf(f)'
  BY DEF QueuesHold
<1>1. CASE Own(f)' = Own(f)
  BY <1>1 DEF Own, QueuesHold, QueueOf, AllExpired
<1>2. CASE Own(f)' # Own(f)
  <2>1. Step(f)
    BY <1>2, StepsOfEnds, OthersStay DEF vars, Own
  <2> QED BY <2>1, OwnQueue DEF QueuesHold, Progress
<1> QED BY <1>1, <1>2

\* A socket that serves and is at rest, or about to be, says so.
ServesOpenly(e) ==
  Serving(e) /\ place[e] = "live" =>
    \/ pc[e] \in {"enlist", "complete"}
    \/ status[e] = "connected" /\ (pc[e] = "check" \/ (pc[e] = "idle" /\ result[e] = "ok"))

ServiceIsOpen == \A e \in Ends : ServesOpenly(e)

\* Nobody is served who was not connected.
LEMMA ServiceStep ==
  ASSUME TypeOK, Progress, ServiceIsOpen, [Next]_vars
  PROVE  ServiceIsOpen'
<1> SUFFICES ASSUME NEW f \in Ends PROVE ServesOpenly(f)'
  BY DEF ServiceIsOpen
<1>1. CASE Own(f)' = Own(f)
  BY <1>1 DEF Own, ServiceIsOpen, ServesOpenly, Serving
<1>2. CASE Own(f)' # Own(f)
  <2>1. Step(f)
    BY <1>2, StepsOfEnds, OthersStay DEF vars, Own
  <2>2. ServesOpenly(f) /\ ProgressOf(f)
    BY DEF ServiceIsOpen, Progress
  <2>3. /\ pc \in [Ends -> PCs]
        /\ place \in [Ends -> {"live", "closed", "deleted"}]
        /\ status \in [Ends -> {"opened", "connecting", "connected", "closed"}]
        /\ result \in [Ends -> {"none", "ok", "error"}]
        /\ connected \in [Ends -> BOOLEAN] /\ broken \in [Ends -> BOOLEAN]
        /\ closing \in [Ends -> BOOLEAN]
    BY DEF TypeOK, PCs
  <2> USE <2>2, <2>3 DEF ServesOpenly, Serving
  <2>4. CASE UNCHANGED <<pc[f], place[f], status[f], result[f], connected[f], broken[f], closing[f]>>
    BY <2>4
  <2>5. CASE Connect(f) \/ ConnectRefused(f) \/ Configure(f)
    BY <2>5 DEF Connect, ConnectRefused, Configure, socketVars, ProgressOf
  <2>6. CASE TakeAndStop(f) \/ TakeAndConnect(f) \/ Enlist(f) \/ Complete(f)
    BY <2>6 DEF TakeAndStop, TakeAndConnect, TakeStored, Enlist, Complete, socketVars, ProgressOf
  <2>7. CASE ConnectTimeout(f) \/ ConnectReturns(f)
    BY <2>7 DEF ConnectTimeout, ConnectReturns, ProgressOf
  <2>8. CASE Close(f) \/ CollectBroken(f) \/ Delete(f)
    BY <2>8 DEF Close, CollectBroken, Delete, appVars
  <2>9. ASSUME NEW p \in net, WorkerShutdown(f, p) PROVE ServesOpenly(f)'
    BY <2>9 DEF WorkerShutdown, appVars
  <2> QED
    BY <2>1, <2>4, <2>5, <2>6, <2>7, <2>8, <2>9
       DEF Step, App, WorkerReceives, queueVars, appVars, peerVars, socketVars, TakeAndGoOn,
           WorkerInsert, WorkerRemove, WorkerStore, WorkerHold, Resend, Speak, WorkerReply,
           WorkerUpdate, TimePasses
<1> QED BY <1>1, <1>2

\* What waits for an end has come over the network to it.
MailOf(e)  == \A p \in Waiting(e) : p \in net /\ p.to = e
MailHasCome == \A e \in Ends : MailOf(e)

\* No step conjures mail up.
LEMMA MailComes ==
  ASSUME TypeOK, MailHasCome, [Next]_vars
  PROVE  MailHasCome' /\ net \subseteq net'
<1>1. net \subseteq net'
  <2>1. ASSUME NEW e \in Ends, Step(e) PROVE net \subseteq net'
    BY <2>1
       DEF Step, App, WorkerReceives, queueVars, ConnectRefused, Connect, TakeAndStop,
         TakeAndGoOn, TakeAndConnect, ConnectTimeout, ConnectReturns, CollectBroken, Delete,
         WorkerInsert, WorkerRemove, WorkerStore, WorkerHold, WorkerShutdown, TimePasses,
         Enlist, Complete, Configure, Resend, Close, Speak, WorkerUpdate, WorkerReply
  <2> QED BY <2>1, StepsOfEnds DEF vars
<1>2. ASSUME NEW f \in Ends, NEW p \in Waiting(f)' PROVE p \in net' /\ p.to = f
  <2>1. CASE p \in Waiting(f)
    BY <1>1, <2>1 DEF MailHasCome, MailOf
  <2>2. CASE p \notin Waiting(f)
    <3>1. Own(f)' # Own(f)
      BY <1>2, <2>2 DEF Own, Waiting
    <3>2. Step(f)
      BY <3>1, StepsOfEnds, OthersStay DEF vars, Own
    <3> QED BY <1>1, <1>2, <2>2, <3>2, OnlyMailWaits
  <2> QED BY <2>1, <2>2
<1> QED BY <1>1, <1>2 DEF MailHasCome, MailOf

\* Why the first connect of an end has left its loop, and then returned success, without a
\* connection.
HasReason(e) ==
  place[e] = "live" /\ attempt[e] = 1 =>
    /\ pc[e] = "check" => status[e] = "connected" \/ TimeOrPeerIsReason(e)
    /\ result[e] = "ok" => status[e] = "connected" \/ TimeOrPeerIsReason(e)

ReasonsHold == \A e \in Ends : HasReason(e)

\* A reason stays one.
LEMMA ReasonsStay ==
  ASSUME TypeOK, MailHasCome, [Next]_vars, NEW f \in Ends, attempt'[f] = attempt[f],
         TimeOrPeerIsReason(f)
  PROVE  TimeOrPeerIsReason(f)'
<1>1. net \subseteq net'
  BY MailComes
<1>2. expired[f] <= expired'[f] \/ expired'[f] = attempt[f]
  <2>1. expired[f] \in Nat
    BY BoundsAssumption DEF TypeOK, Isn
  <2>2. expired'[f] = expired[f] \/ expired'[f] = attempt[f]
    <3>1. CASE Own(f)' = Own(f)
      BY <3>1 DEF Own
    <3>2. CASE Own(f)' # Own(f)
      <4>1. Step(f)
        BY <3>2, StepsOfEnds, OthersStay DEF vars, Own
      <4>2. CASE TimePasses(f)
        BY <4>2 DEF TimePasses, TypeOK
      <4> QED
        BY <4>1, <4>2
           DEF Step, App, WorkerReceives, queueVars, ConnectRefused, Connect, TakeAndStop,
             TakeAndGoOn, TakeAndConnect, ConnectTimeout, ConnectReturns, CollectBroken, Delete,
             WorkerInsert, WorkerRemove, WorkerStore, WorkerHold, WorkerShutdown,
             Enlist, Complete, Configure, Resend, Close, Speak, WorkerUpdate, WorkerReply
    <3> QED BY <3>1, <3>2
  <2> QED BY <2>1, <2>2
<1>3. attempt[f] \in Nat /\ expired[f] \in Nat /\ expired'[f] \in Nat
  BY TypeStep, BoundsAssumption DEF TypeOK, Isn
<1> QED BY <1>1, <1>2, <1>3 DEF TimeOrPeerIsReason

\* A first attempt stops for a reason only.
LEMMA OwnReason ==
  ASSUME TypeOK, MailHasCome, NEW e \in Ends, ProgressOf(e), QueueOf(e), HasReason(e), Step(e),
         TimeOrPeerIsReason(e) /\ attempt'[e] = attempt[e] => TimeOrPeerIsReason(e)'
  PROVE  HasReason(e)'
<1>1. /\ pc \in [Ends -> PCs] /\ place \in [Ends -> {"live", "closed", "deleted"}]
      /\ status \in [Ends -> {"opened", "connecting", "connected", "closed"}]
      /\ result \in [Ends -> {"none", "ok", "error"}] /\ attempt \in [Ends -> Nat]
      /\ expired \in [Ends -> Nat] /\ closing \in [Ends -> BOOLEAN]
      /\ connecting \in [Ends -> BOOLEAN]
  BY BoundsAssumption DEF TypeOK, Isn, PCs
<1> USE <1>1 DEF HasReason
<1>2. CASE UNCHANGED <<pc[e], result[e], attempt[e], place[e], status[e]>>
  BY <1>2
<1>3. CASE Connect(e) \/ ConnectRefused(e)
  BY <1>3 DEF Connect, ConnectRefused, socketVars, ProgressOf
<1>4. CASE Configure(e) \/ TakeAndConnect(e) \/ Enlist(e)
  BY <1>4 DEF Configure, TakeAndConnect, TakeStored, Enlist, socketVars
<1>5. CASE TakeAndStop(e)
  <2> SUFFICES ASSUME attempt[e] = 1 PROVE TimeOrPeerIsReason(e)
    BY <1>5 DEF TakeAndStop, socketVars
  <2> DEFINE p == Head(stored[e])
  <2>1. pc[e] = "loop" /\ stored[e] # <<>> /\ Verdict(e, p) = "stop"
    BY <1>5 DEF TakeAndStop, TakeStored
  <2>2. CASE ~connecting[e]
    <3>1. AllExpired(e) /\ rq[e] # <<>> /\ Entries(rq[e]) \subseteq 1..1
      BY <2>1, <2>2 DEF QueueOf
    <3>2. rq[e] \in Seq(1..MaxAttempts)
      BY DEF TypeOK
    <3>3. Head(rq[e]) \in Entries(rq[e])
      BY <3>1, <3>2, EntriesOfTail
    <3>4. 1 <= expired[e]
      BY <3>1, <3>3 DEF AllExpired
    <3> QED BY <3>4 DEF TimeOrPeerIsReason
  <2>3. CASE connecting[e]
    <3>1. p.kind # "hs"
      BY <2>1, <2>3 DEF Verdict
    <3>2. stored[e] \in Seq(Packet)
      BY DEF TypeOK
    <3>3. p \in Waiting(e)
      BY <2>1, <3>2, EntriesOfTail DEF Waiting
    <3> QED BY <3>1, <3>3 DEF MailHasCome, MailOf, TimeOrPeerIsReason
  <2> QED BY <2>2, <2>3
<1>6. CASE Complete(e)
  BY <1>6 DEF Complete
<1>7. CASE ConnectTimeout(e)
  BY <1>7 DEF ConnectTimeout
<1>8. CASE ConnectReturns(e)
  BY <1>8 DEF ConnectReturns
<1>9. CASE Close(e) \/ CollectBroken(e) \/ Delete(e)
  BY <1>9 DEF Close, CollectBroken, Delete
<1> QED
  BY <1>2, <1>3, <1>4, <1>5, <1>6, <1>7, <1>8, <1>9
     DEF Step, App, WorkerReceives, queueVars, appVars, socketVars,
         TakeAndGoOn, WorkerInsert, WorkerRemove, WorkerStore, WorkerHold, WorkerShutdown,
         TimePasses, Resend, Speak, WorkerUpdate, WorkerReply

\* Every step keeps the reasons of both ends.
LEMMA ReasonsStep ==
  ASSUME TypeOK, Progress, QueuesHold, MailHasCome, ReasonsHold, [Next]_vars
  PROVE  ReasonsHold'
<1> SUFFICES ASSUME NEW f \in Ends PROVE HasReason(f)'
  BY DEF ReasonsHold
<1>1. TimeOrPeerIsReason(f) /\ attempt'[f] = attempt[f] => TimeOrPeerIsReason(f)'
  BY ReasonsStay
<1>2. HasReason(f)
  BY DEF ReasonsHold
<1>3. CASE Own(f)' = Own(f)
  BY <1>1, <1>2, <1>3 DEF Own, HasReason
<1>4. CASE Own(f)' # Own(f)
  <2>1. Step(f)
    BY <1>4, StepsOfEnds, OthersStay DEF vars, Own
  <2> QED BY <1>1, <1>2, <2>1, OwnReason DEF QueuesHold, Progress
<1> QED BY <1>3, <1>4

(***************************************************************************)
(* The theorems                                                            *)
(***************************************************************************)
IInv == /\ TypeOK /\ Progress /\ MailIsTrue /\ PeersKnown /\ QueuesHold /\ ServiceIsOpen
        /\ MailHasCome /\ ReasonsHold

\* The types at the start.
LEMMA TypeInit == Init => TypeOK
<1> SUFFICES ASSUME Init PROVE TypeOK
  OBVIOUS
<1>1. Blank \in Shake
  BY BoundsAssumption DEF Blank, Shake, Isn
<1>2. <<>> \in Seq(Packet) /\ <<>> \in Seq(1..MaxAttempts)
  BY EmptySeq
<1> QED BY <1>1, <1>2, BoundsAssumption DEF Init, TypeOK, Isn

\* The inductive invariant holds throughout.
LEMMA Invariance == Spec => []IInv
<1>1. Init => IInv
  <2>1. Init => MailHasCome
    <3>1. Entries(<<>>) = {}
      BY DEF Entries
    <3> QED BY <3>1 DEF Init, MailHasCome, MailOf, Waiting
  <2>2. Init => ReasonsHold
    BY DEF Init, ReasonsHold, HasReason
  <2>3. Init => ServiceIsOpen
    BY DEF Init, ServiceIsOpen, ServesOpenly, Serving
  <2> QED BY <2>1, <2>2, <2>3, TypeInit, ProgressInit, MailInit, QueuesInit DEF IInv
<1>2. IInv /\ [Next]_vars => IInv'
  BY TypeStep, ProgressStep, MailStep, PeersKnownStep, QueuesStep, ServiceStep, MailComes,
     ReasonsStep DEF IInv
<1> QED BY <1>1, <1>2, PTL DEF Spec

\* Types of the variables, for any two ends, any number of attempts and any bound on what
\* is stored, whoever's time may run out and whoever may close.
THEOREM TypeCorrect == Spec => []TypeOK
BY Invariance, PTL DEF IInv

\* Who is connected knows the peer's real sequence number and socket, and never those of a
\* handshake that nobody had filled in.
THEOREM PeersAreKnown == Spec => []PeerIsKnown
<1>1. IInv => PeerIsKnown
  BY DEF IInv, PeersKnown, KnowsPeer, PeerIsKnown
<1> QED BY <1>1, Invariance, PTL

\* Three-way: nobody is connected before the other side has heard from it.
THEOREM PeersHaveHeard == Spec => []PeerHasHeard
<1>1. IInv => PeerHasHeard
  BY DEF IInv, PeersKnown, KnowsPeer, PeerHasHeard, HasHeard
<1> QED BY <1>1, Invariance, PTL

\* What a deleted socket leaves in the rendezvous queue has had its time.
THEOREM LeftoversExpire == Spec => []LeftoversAreExpired
<1>1. IInv => LeftoversAreExpired
  <2> SUFFICES ASSUME IInv, NEW e \in Ends, place[e] = "deleted", attempt[e] = 1,
                      NEW i \in 1..Len(rq[e])
               PROVE  rq[e][i] <= expired[e]
    BY DEF LeftoversAreExpired
  <2>1. AllExpired(e)
    BY DEF IInv, QueuesHold, QueueOf
  <2> QED BY <2>1 DEF AllExpired, Entries
<1> QED BY <1>1, Invariance, PTL

\* A live socket at rest that serves a connection has the status CONNECTED, and its connect
\* has returned 0.
THEOREM ServingIsOpen == Spec => []ServingIsConnected
<1>1. IInv => ServingIsConnected
  BY DEF IInv, ServiceIsOpen, ServesOpenly, ServingIsConnected
<1> QED BY <1>1, Invariance, PTL

\* The first connect of a socket returns success without a connection only if its time was
\* over or the other side had connected and said so.
THEOREM SuccessHasReason == Spec => []SuccessOrReason
<1>1. IInv => SuccessOrReason
  BY DEF IInv, ReasonsHold, HasReason, SuccessOrReason
<1> QED BY <1>1, Invariance, PTL
=============================================================================
