---------------------------- MODULE MCUdtSockets ----------------------------
\* An instance of UdtSockets for TLC: one port, a client, a listener and what it accepts.
EXTENDS UdtSockets, TLC

MCPortOf == [x \in Peers |-> CHOOSE port \in Ports : TRUE]

\* Bound: one close at a time and one peer with a cookie, and none while a closed socket
\* lingers, a socket is on a sending heap, or a broken one is kept for what nobody has read.
OneAtATime ==
  /\ Cardinality(closes') <= 1 /\ Cardinality(cookies') <= 1
  /\ cookies' = {} \/ \A i \in Ids : /\ sockets'[i].linger = "no" /\ ~sockets'[i].onHeap
                                    /\ i \notin Patients'

\* Peers are alike: there is one port.
PeerSymmetry == Permutations(Peers)
=============================================================================
