---------------------------- MODULE ReliableStream ----------------------------
(***************************************************************************)
(* What a connected UDT socket of type SOCK_STREAM promises: payloads are  *)
(* read in the order in which they were sent, each once, and no more than  *)
(* the buffers of the two sides hold is ever between them.  Payloads are   *)
(* numbered as they are sent.                                              *)
(***************************************************************************)
EXTENDS Naturals, Sequences

VARIABLES capacity,   \* how many payloads the two buffers hold
          sent,       \* how many payloads were handed over
          got         \* what was read, in order

vars == <<capacity, sent, got>>

Init == capacity \in Nat \ {0} /\ sent = 0 /\ got = <<>>

Send == /\ sent - Len(got) < capacity
        /\ sent' = sent + 1 /\ UNCHANGED <<capacity, got>>

Read(k) == /\ Len(got) + k <= sent
           /\ got' = got \o [i \in 1..k |-> Len(got) + i]
           /\ UNCHANGED <<capacity, sent>>

Next == Send \/ \E k \in 1..capacity : Read(k)

Spec == Init /\ [][Next]_vars
=============================================================================
