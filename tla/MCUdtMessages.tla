---------------------------- MODULE MCUdtMessages ----------------------------
\* Instances of UdtMessages for TLC: packet numbers of 5 bits.
EXTENDS UdtMessages

Msg(first, last, order, ttl) ==
  [first |-> first, last |-> last, order |-> order, ttl |-> ttl]
Conn(isn, snd, rcv, timed, msgs) ==
  [isn |-> isn, snd |-> snd, rcv |-> rcv, timed |-> timed, msgs |-> msgs]

\* The client's mode: two messages of two packets each, across the wrap.
Client  == Conn(30, 3, 4, FALSE, <<Msg(1, 2, FALSE, FALSE), Msg(3, 4, FALSE, FALSE)>>)
\* One that may not overtake, between two that may, from 0.
InOrder == Conn(0, 2, 3, FALSE,
             <<Msg(1, 1, FALSE, FALSE), Msg(2, 2, TRUE, FALSE), Msg(3, 3, FALSE, FALSE)>>)
\* recvmsg with a timeout.
Timed   == Conn(30, 2, 3, TRUE, <<Msg(1, 1, FALSE, FALSE), Msg(2, 3, FALSE, FALSE)>>)
\* One whose time to live may run out, before one that has none.
Limited == Conn(30, 2, 4, FALSE, <<Msg(1, 1, FALSE, TRUE), Msg(2, 2, FALSE, FALSE)>>)
\* One with a middle, which is all that a drop request can find.
Three   == Conn(31, 3, 5, FALSE, <<Msg(1, 3, FALSE, TRUE)>>)

\* Bound: requests to drop a message that differ.
OneDrop == Cardinality({p \in net' : p.kind = "drop"}) <= 1

AllSetups   == {Client, InOrder, Timed, Limited, Three}
OnlyLimited == {Limited}
=============================================================================
