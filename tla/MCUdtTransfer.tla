---------------------------- MODULE MCUdtTransfer ----------------------------
\* Instances of UdtTransfer for TLC: packet numbers of 4 bits, wrapping on the way.
EXTENDS UdtTransfer

\* Room for three packets, whose losses are ranges that wrap; numbers that start at 0,
\* so that the current one starts outside the ring; a receiver with room for one.
Roomy  == [isn |-> 15, snd |-> 3, rcv |-> 4]
AtZero == [isn |-> 0, snd |-> 2, rcv |-> 3]
Tight  == [isn |-> 14, snd |-> 3, rcv |-> 2]

AllSetups   == {Roomy, AtZero, Tight}
TightSetup  == {[isn |-> 14, snd |-> 2, rcv |-> 2]}
=============================================================================
