CONSTANTS
  Addrs <- McAddrs
  Nums <- McNums
SPECIFICATION Spec
INVARIANT NoticeNamesThePeer
CHECK_DEADLOCK FALSE
