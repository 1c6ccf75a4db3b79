----------------------------- MODULE Matchmaker -----------------------------
(***************************************************************************)
(* What the rendezvous server promises, without its two threads, its       *)
(* shared sockaddr or its struct copies: it keeps the port of the latest   *)
(* registrant of each of two slots, and once both slots are taken the pair *)
(* is final and each side is told the other's port, slot 1 first, once.    *)
(*                                                                         *)
(* RendezvousServer.tla (server.c) is shown to implement this module.      *)
(***************************************************************************)
EXTENDS Naturals, Sequences

CONSTANTS Ports,    \* source ports a registration can arrive from
          Unset     \* what an empty slot holds

VARIABLES port,     \* port[s]: the registrant of slot s, or Unset
          notices,  \* what has been told to whom, in order
          up        \* FALSE once the server process has exited

vars == <<port, notices, up>>

Init == /\ port = [s \in 1..2 |-> Unset]
        /\ notices = <<>>
        /\ up = TRUE

Paired == \A s \in 1..2 : port[s] # Unset

\* A registration replaces whoever held the slot, until the pair is complete.
Register(s, p) == /\ up
                  /\ ~Paired
                  /\ port' = [port EXCEPT ![s] = p]
                  /\ UNCHANGED <<notices, up>>

\* Slot s is told the port of the other slot.
Notify(s) == /\ up
             /\ Paired
             /\ Len(notices) = s - 1
             /\ notices' = Append(notices, [to |-> port[s], about |-> port[3 - s]])
             /\ UNCHANGED <<port, up>>

\* Any failing system call ends the process.
Crash == up /\ up' = FALSE /\ UNCHANGED <<port, notices>>

Next == \/ \E s \in 1..2 : \/ \E p \in Ports : Register(s, p)
                           \/ Notify(s)
        \/ Crash

Fairness == WF_vars(\E s \in 1..2 : Notify(s))

Spec == Init /\ [][Next]_vars
FairSpec == Spec /\ Fairness
=============================================================================
