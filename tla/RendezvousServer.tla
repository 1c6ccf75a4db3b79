-------------------------- MODULE RendezvousServer --------------------------
(***************************************************************************)
(* src/src/server.c, statement by statement: the main thread that receives *)
(* registrations, the thread that sends the two notices, and the globals   *)
(* they share without a lock (a1, a2, b1, b2, cliaddr).                    *)
(*                                                                         *)
(* a1 and a2 are slot[1] and slot[2]; b1 and b2 are b[1] and b[2].  The    *)
(* program is built without optimisation (Makefile, CXXFLAGS), so the      *)
(* stores happen in source order; each aligned word is stored at once.     *)
(* An address is a record of its four bytes as they lie in sin_addr and of *)
(* the number sin_port denotes (what ntohs computes).  "sin_family" is     *)
(* AF_INET everywhere and is left out, as is all the printing.             *)
(***************************************************************************)
EXTENDS Integers, Sequences

CONSTANTS Addrs,   \* source addresses registrations can come from
          Nums     \* values clients send in b.num (argv[1] of client.cpp)

Byte == 0..255
Ip   == [1..4 -> Byte]
Port == 0..65535
Addr == [ip : Ip, port : Port]
Zero == [ip |-> [i \in 1..4 |-> 0], port |-> 0]   \* memset / .bss

ASSUME AddrsAssumption == Addrs \subseteq Addr
ASSUME NumsAssumption  == Nums \subseteq Nat

Unset == 6666    \* the value a1.port and a2.port hold while not registered
Side  == 1..2

\* Byte order reversal on the little-endian build.
htonl(ip) == [i \in 1..4 |-> ip[5 - i]]

\* if (a.num == 1) ... else ...: every number but 1 is slot 2.
SlotOf(num) == IF num = 1 THEN 1 ELSE 2

VARIABLES
  mpc,      \* where main is
  tpc,      \* where thr_fn is
  running,  \* FALSE once exit() has been called
  num,      \* a.num: the registration main has just received
  cliaddr,  \* shared by both threads
  b,        \* where the notices go
  slot,     \* what the notices say
  sent,     \* every datagram given to sendto, in order
  heard     \* history: <<slot, address>> of every registration received

vars == <<mpc, tpc, running, num, cliaddr, b, slot, sent, heard>>

MainPc   == {"create", "test", "recv", "storeB", "storePort", "storeIp"}
ThreadPc == {"none", "read1", "read2", "ip1", "port1", "send1",
             "ip2", "port2", "send2", "done"}

Init == /\ mpc = "create" /\ tpc = "none" /\ running = TRUE
        /\ num = 0
        /\ cliaddr = Zero
        /\ b = [s \in Side |-> Zero]
        /\ slot = [s \in Side |-> [ip |-> Zero.ip, port |-> Unset]]
        /\ sent = <<>>
        /\ heard = {}

BothSet == \A s \in Side : slot[s].port # Unset

(***************************************************************************)
(* main                                                                    *)
(***************************************************************************)
\* pthread_create succeeds: thr_fn starts and main enters its loop.
CreateThread ==
  /\ running /\ mpc = "create"
  /\ mpc' = "test" /\ tpc' = "read1"
  /\ UNCHANGED <<running, num, cliaddr, b, slot, sent, heard>>

\* Mutant: main goes on receiving once the pair is complete.
MainTestAlwaysReceives ==
  /\ running /\ mpc = "test"
  /\ mpc' = "recv"
  /\ UNCHANGED <<tpc, running, num, cliaddr, b, slot, sent, heard>>

\* if (both ports set) continue;  --  from then on main only spins.
MainTest ==
  /\ running /\ mpc = "test"
  /\ mpc' = IF BothSet THEN "test" ELSE "recv"
  /\ UNCHANGED <<tpc, running, num, cliaddr, b, slot, sent, heard>>

\* recvfrom(sockfd, &a, ..., &cliaddr): a registration from addr with number n.
\* A wrong a.port is only reported on stdout.
MainRecv(addr, n) ==
  /\ running /\ mpc = "recv"
  /\ mpc' = "storeB"
  /\ num' = n
  /\ cliaddr' = addr
  /\ heard' = heard \union {<<SlotOf(n), addr>>}
  /\ UNCHANGED <<tpc, running, b, slot, sent>>

\* memcpy(&b1, &cliaddr, cliaddr_len);
StoreB ==
  /\ running /\ mpc = "storeB"
  /\ mpc' = "storePort"
  /\ b' = [b EXCEPT ![SlotOf(num)] = cliaddr]
  /\ UNCHANGED <<tpc, running, num, cliaddr, slot, sent, heard>>

\* Mutant: ntohs is forgotten.
StorePortSwapped ==
  /\ running /\ mpc = "storePort"
  /\ mpc' = "storeIp"
  /\ slot' = [slot EXCEPT ![SlotOf(num)].port =
                 (cliaddr.port % 256) * 256 + cliaddr.port \div 256]
  /\ UNCHANGED <<tpc, running, num, cliaddr, b, sent, heard>>

\* a1.port = ntohs(cliaddr.sin_port);
StorePort ==
  /\ running /\ mpc = "storePort"
  /\ mpc' = "storeIp"
  /\ slot' = [slot EXCEPT ![SlotOf(num)].port = cliaddr.port]
  /\ UNCHANGED <<tpc, running, num, cliaddr, b, sent, heard>>

\* Mutant: line 111 resets the slot instead of the received struct.
StoreIpResetsSlot ==
  /\ running /\ mpc = "storeIp"
  /\ mpc' = "test"
  /\ slot' = [slot EXCEPT ![SlotOf(num)] = [ip |-> cliaddr.ip, port |-> Unset]]
  /\ UNCHANGED <<tpc, running, num, cliaddr, b, sent, heard>>

\* memcpy(&a1.ip, &cliaddr.sin_addr, 4);  then a.port = 6666, never read again.
StoreIp ==
  /\ running /\ mpc = "storeIp"
  /\ mpc' = "test"
  /\ slot' = [slot EXCEPT ![SlotOf(num)].ip = cliaddr.ip]
  /\ UNCHANGED <<tpc, running, num, cliaddr, b, sent, heard>>

(***************************************************************************)
(* thr_fn                                                                  *)
(***************************************************************************)
ThreadKeeps == UNCHANGED <<mpc, running, num, b, slot, heard>>

\* Mutant: the thread tests once instead of looping.
ThreadTestOnce(s, here, next) ==
  /\ running /\ tpc = here
  /\ tpc' = IF slot[s].port = Unset THEN "done" ELSE next
  /\ UNCHANGED <<cliaddr, sent>> /\ ThreadKeeps

\* After sleep(1): the test reads a1.port, and a2.port only if the first held.
ThreadTest(s, here, next) ==
  /\ running /\ tpc = here
  /\ tpc' = IF slot[s].port = Unset THEN "read1" ELSE next
  /\ UNCHANGED <<cliaddr, sent>> /\ ThreadKeeps

\* cliaddr.sin_addr.s_addr = htonl(a1.ip);
ThreadIp(s, here, next) ==
  /\ running /\ tpc = here
  /\ tpc' = next
  /\ cliaddr' = [cliaddr EXCEPT !.ip = htonl(slot[s].ip)]
  /\ UNCHANGED sent /\ ThreadKeeps

\* cliaddr.sin_port = htons(a1.port);
ThreadPort(s, here, next) ==
  /\ running /\ tpc = here
  /\ tpc' = next
  /\ cliaddr' = [cliaddr EXCEPT !.port = slot[s].port]
  /\ UNCHANGED sent /\ ThreadKeeps

\* Mutant: the two destinations are swapped.
ThreadSendToOther(s, here, next) ==
  /\ running /\ tpc = here
  /\ tpc' = next
  /\ sent' = Append(sent, [to |-> b[3 - s], body |-> slot[3 - s]])
  /\ UNCHANGED cliaddr /\ ThreadKeeps

\* Mutant: each side is told its own address.
ThreadSendOwn(s, here, next) ==
  /\ running /\ tpc = here
  /\ tpc' = next
  /\ sent' = Append(sent, [to |-> b[s], body |-> slot[s]])
  /\ UNCHANGED cliaddr /\ ThreadKeeps

\* sendto(sockfd, &a2, sizeof(struct b), 0, &b1, ...): side s hears of the other.
ThreadSend(s, here, next) ==
  /\ running /\ tpc = here
  /\ tpc' = next
  /\ sent' = Append(sent, [to |-> b[s], body |-> slot[3 - s]])
  /\ UNCHANGED cliaddr /\ ThreadKeeps

\* perr_exit: pthread_create, recvfrom or a sendto failed, the process is gone.
Exit ==
  /\ running
  /\ mpc \in {"create", "recv"} \/ tpc \in {"send1", "send2"}
  /\ running' = FALSE
  /\ UNCHANGED <<mpc, tpc, num, cliaddr, b, slot, sent, heard>>

\* The steps of main that need nothing from the outside.
MainLocal == CreateThread \/ MainTest \/ StoreB \/ StorePort \/ StoreIp

Thread ==
  \/ ThreadTest(1, "read1", "read2") \/ ThreadTest(2, "read2", "ip1")
  \/ ThreadIp(1, "ip1", "port1")     \/ ThreadPort(1, "port1", "send1")
  \/ ThreadSend(1, "send1", "ip2")
  \/ ThreadIp(2, "ip2", "port2")     \/ ThreadPort(2, "port2", "send2")
  \/ ThreadSend(2, "send2", "done")

Next == \/ MainLocal
        \/ \E addr \in Addrs, n \in Nums : MainRecv(addr, n)
        \/ Thread
        \/ Exit

\* Each thread is scheduled; nothing is assumed about registrations arriving.
Fairness == WF_vars(MainLocal) /\ WF_vars(Thread)

Spec     == Init /\ [][Next]_vars
FairSpec == Spec /\ Fairness

-----------------------------------------------------------------------------
(***************************************************************************)
(* Properties.  Those below hold when no registration comes from port      *)
(* 6666, which the code cannot tell from an empty slot; the instances and  *)
(* the theorems say so explicitly (SentinelFree).                          *)
(***************************************************************************)
SentinelFree == \A addr \in Addrs : addr.port # Unset

\* Every variable stays within its type (server.c, lines 13-25).
TypeOK ==
  /\ mpc \in MainPc /\ tpc \in ThreadPc /\ running \in BOOLEAN
  /\ num \in Nat
  /\ cliaddr \in Addr
  /\ b \in [Side -> Addr]
  /\ slot \in [Side -> Addr]
  /\ sent \in Seq([to : Addr, body : Addr])
  /\ heard \in SUBSET (Side \X Addrs)

\* A registration is never lost once main is back at its test: the slot of
\* everyone heard is taken (lines 98-111), whatever the notifying thread does.
HeardIsRegistered ==
  mpc \in {"test", "recv"} =>
    \A s \in Side : (\E addr \in Addrs : <<s, addr>> \in heard)
                      => slot[s].port # Unset

\* Each notice goes to an address that registered for its side (lines 41, 49),
\* although the sockaddr main copies it from is also written by thr_fn.
NoticeReachesRegistrant ==
  \A k \in 1..Len(sent) : k \in Side /\ <<k, sent[k].to>> \in heard

\* The ip of a notice may be wrong -- thr_fn can run between line 107 and line
\* 108, and can overwrite cliaddr there -- but it is never made up: it is the zero
\* of the start, the ip of a registrant of the other side, or the byte-swapped ip
\* of some registrant.
NoticeIpOrigin ==
  \A k \in 1..Len(sent) :
    LET ip == sent[k].body.ip
    IN  \/ ip = Zero.ip
        \/ \E s \in Side, addr \in Addrs :
             /\ <<s, addr>> \in heard
             /\ ip = htonl(addr.ip) \/ (s = 3 - k /\ ip = addr.ip)

\* Once both ports are set the pair is final: no later registration, and no
\* step of either thread, changes who is paired or where the notices go.
PairIsFinal ==
  [][BothSet => /\ b' = b
                /\ \A s \in Side : slot'[s].port = slot[s].port]_vars

\* Ports and order of the notices: server.c implements Matchmaker.
Abstract == INSTANCE Matchmaker WITH
  Ports   <- {addr.port : addr \in Addrs},
  port    <- [s \in Side |-> slot[s].port],
  notices <- [k \in 1..Len(sent) |->
                [to |-> sent[k].to.port, about |-> sent[k].body.port]],
  up      <- running

ImplementsMatchmaker == Abstract!FairSpec

\* What client.cpp expects of a notice (lines 81-84, "change the target's ip and
\* port"): it carries the ip and the port of the other side's registrant.
NoticeNamesThePeer ==
  \A k \in 1..Len(sent) : sent[k].body = b[3 - k]
=============================================================================
