CONSTANTS
  c1 = c1
  c2 = c2
  c3 = c3
  Clients = {c1, c2, c3}
  Addrs <- McAddrs
  Nums <- McNums
  NumOf <- McNumOf
  AddrOf <- McAddrOf
  Open = {c3}
  MaxLoss = 1
SPECIFICATION FairSysSpec
CHECK_DEADLOCK FALSE
INVARIANTS LinkIsMutual NatKeepsStrangersOut
PROPERTIES WaitingEnds PunchingSucceeds
