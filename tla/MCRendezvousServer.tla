------------------------- MODULE MCRendezvousServer -------------------------
\* Instances of RendezvousServer for TLC.
EXTENDS RendezvousServer, TLC

Host(x) == <<10, 0, 0, x>>
McIp(x) == [i \in 1..4 |-> Host(x)[i]]

\* Two hosts, one of them seen from two ports: re-registration from another
\* address and from another port both happen.
McAddrs == { [ip |-> McIp(1), port |-> 4001],
             [ip |-> McIp(2), port |-> 4002],
             [ip |-> McIp(2), port |-> 4003] }

\* 1, 2, and a number that the code files under slot 2.
McNums == {1, 2, 7}
=============================================================================
