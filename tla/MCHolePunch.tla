----------------------------- MODULE MCHolePunch -----------------------------
\* Instances of HolePunch for TLC.
EXTENDS HolePunch, TLC

CONSTANTS c1, c2, c3

Host(x) == LET h == <<10, 0, 0, x>> IN [i \in 1..4 |-> h[i]]
At(x)   == [ip |-> Host(x), port |-> 4000 + x]

McAddrs  == {AddrOf[c] : c \in Clients}
McNums   == 1..3
McNumOf  == [c \in Clients |-> CASE c = c1 -> 1 [] c = c2 -> 2 [] OTHER -> 3]
McAddrOf == [c \in Clients |-> CASE c = c1 -> At(1) [] c = c2 -> At(2) [] OTHER -> At(3)]
=============================================================================
