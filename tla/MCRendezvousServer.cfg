CONSTANTS
  Addrs <- McAddrs
  Nums <- McNums
SPECIFICATION FairSpec
CHECK_DEADLOCK FALSE
INVARIANTS HeardIsRegistered NoticeReachesRegistrant NoticeIpOrigin
PROPERTIES PairIsFinal ImplementsMatchmaker
