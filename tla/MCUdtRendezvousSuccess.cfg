CONSTANTS
  A = A
  B = B
  Ends = {A, B}
  MaxAttempts = 1
  StoreLimit = 0
  StaleClock = {}
  Expiring = {A}
  Closers = {B}
SPECIFICATION Spec
INVARIANT SuccessIsConnection
CHECK_DEADLOCK FALSE
