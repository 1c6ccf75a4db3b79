CONSTANTS
  A = A
  B = B
  Ends = {A, B}
  MaxAttempts = 1
  StoreLimit = 0
  StaleClock = {}
  Expiring = {}
  Closers = {}
SPECIFICATION FairSpec
PROPERTY BothConnect
CHECK_DEADLOCK FALSE
