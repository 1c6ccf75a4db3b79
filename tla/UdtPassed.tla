------------------------------ MODULE UdtPassed ------------------------------
(***************************************************************************)
(* The handshakes that the receiving thread of a multiplexer passes to     *)
(* connect calls: m_mBuffer with storePkt, recvfrom and the second half of *)
(* removeConnector.  Every call waits on the one m_PassCond of the queue.  *)
(* A call here ends with removeConnector; one whose time is over leaves    *)
(* entry and packets behind, which is modelled in UdtRendezvous.           *)
(***************************************************************************)
EXTENDS Integers, FiniteSets

CONSTANTS
  Calls,      \* sockets with a connect call on this multiplexer
  KeepLimit   \* "avoid storing too many packets": 16

ASSUME PassedAssumption == KeepLimit \in Nat

VARIABLES
  passed,    \* number of packets in m_mBuffer for a socket
  calling,   \* where a connect is: no, yes (entered), waiting or woken (in recvfrom), left (entry taken out)
  held,      \* sockets for which the worker has found the entry and not yet stored the packet
  wokeOther, \* history: the signal for the packet went to another call, or to nobody
  lateStore  \* history: the worker stored a packet for an entry that was taken out meanwhile

passedVars == <<passed, calling, held, wokeOther, lateStore>>

PassedInit ==
  /\ passed = [c \in Calls |-> 0] /\ calling = [c \in Calls |-> "no"] /\ held = {}
  /\ wokeOther = {} /\ lateStore = {}

\* registerConnector.
RegisterConnector(c) ==
  /\ calling[c] = "no" /\ calling' = [calling EXCEPT ![c] = "yes"]
  /\ UNCHANGED <<passed, held, wokeOther, lateStore>>

\* The worker finds the entry of a socket in the rendezvous queue.
RetrieveConnector(c) ==
  /\ held = {} /\ calling[c] \in {"yes", "waiting", "woken"} /\ held' = {c}
  /\ UNCHANGED <<passed, calling, wokeOther, lateStore>>

Waiters == {c \in Calls : calling[c] = "waiting"}

\* storePkt: the number of packets after it.
Stored(n) == IF n > KeepLimit THEN n ELSE n + 1

\* Mutant: no signal.
SignalledNot(c) == {}

\* The calls one of which pthread_cond_signal wakes.
Signalled(c) == IF passed[c] = 0 THEN Waiters ELSE {}

StorePkt(c) ==
  /\ held = {c} /\ held' = {}
  /\ passed' = [passed EXCEPT ![c] = Stored(@)]
  /\ \/ /\ Signalled(c) = {} /\ calling' = calling /\ wokeOther' = wokeOther
     \/ \E w \in Signalled(c) :
          /\ calling' = [calling EXCEPT ![w] = "woken"]
          /\ wokeOther' = IF w # c THEN wokeOther \union {c} ELSE wokeOther
  /\ lateStore' = IF calling[c] \in {"left", "no"} THEN lateStore \union {c} ELSE lateStore

\* recvfrom with a packet there.
TakePassed(c) ==
  /\ calling[c] = "yes" /\ passed[c] > 0 /\ passed' = [passed EXCEPT ![c] = @ - 1]
  /\ UNCHANGED <<calling, held, wokeOther, lateStore>>

WaitForPassed(c) ==
  /\ calling[c] = "yes" /\ passed[c] = 0 /\ calling' = [calling EXCEPT ![c] = "waiting"]
  /\ UNCHANGED <<passed, held, wokeOther, lateStore>>

\* recvfrom after the signal, or after the second it waits at most.
WakeUp(c) ==
  /\ calling[c] \in {"waiting", "woken"}
  /\ passed' = [passed EXCEPT ![c] = IF @ = 0 THEN 0 ELSE @ - 1]
  /\ calling' = [calling EXCEPT ![c] = "yes"]
  /\ wokeOther' = wokeOther \ {c}
  /\ UNCHANGED <<held, lateStore>>

\* removeConnector: the entry under m_RIDVectorLock, then the packets under m_PassLock.
RemoveEntry(c) ==
  /\ calling[c] = "yes" /\ calling' = [calling EXCEPT ![c] = "left"]
  /\ UNCHANGED <<passed, held, wokeOther, lateStore>>

RemovePassed(c) ==
  /\ calling[c] = "left" /\ calling' = [calling EXCEPT ![c] = "no"]
  /\ passed' = [passed EXCEPT ![c] = 0]
  /\ wokeOther' = wokeOther \ {c} /\ lateStore' = lateStore \ {c}
  /\ UNCHANGED held

PassedNext ==
  \E c \in Calls :
    \/ RegisterConnector(c) \/ RetrieveConnector(c) \/ StorePkt(c) \/ TakePassed(c)
    \/ WaitForPassed(c) \/ WakeUp(c) \/ RemoveEntry(c) \/ RemovePassed(c)

PassedSpec == PassedInit /\ [][PassedNext]_passedVars

-----------------------------------------------------------------------------
\* A connect does not sleep on its own packet, unless the signal woke the connect of another
\* socket on the port: there is one condition for all, and one waiter is woken.
SleepsOnlyIfStolen == \A c \in Calls : calling[c] = "waiting" /\ passed[c] > 0 => c \in wokeOther

\* Packets of a connect that is over remain only when the worker had found its entry before
\* it was taken out; they then wait for the next connect of the socket, or for ~CRcvQueue.
LeftoversAreLate == \A c \in Calls : calling[c] = "no" /\ passed[c] > 0 => c \in lateStore

\* The limit is tested before the packet is put in: one more than the limit, and never two.
PassedIsBounded == \A c \in Calls : passed[c] <= KeepLimit + 1

\* Packets passed to connect calls wake them, stay within the limit, and go with the call.
PassedReachCalls == SleepsOnlyIfStolen /\ LeftoversAreLate /\ PassedIsBounded
=============================================================================
