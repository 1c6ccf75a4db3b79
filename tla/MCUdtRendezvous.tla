--------------------------- MODULE MCUdtRendezvous ---------------------------
\* Instances of UdtRendezvous for TLC.
EXTENDS UdtRendezvous, TLC

CONSTANTS A, B

\* Bound: there may be a second attempt, in which the packets, the queue entries and the
\* stored packets of the first are still about, as long as no socket was closed, by its
\* application or by the collector, no handshake that nobody has filled in was sent, and the
\* worker of B is not about to store a packet.
Undisturbed ==
  /\ held'[B] = NoPacket
  /\ \A e \in Ends : place'[e] = "live"
  /\ \A e \in Ends : Hs(e, 0, Blank) \notin net'

Bound == (\A e \in Ends : attempt'[e] <= 1) \/ Undisturbed
=============================================================================
