CONSTANTS
  A = A
  B = B
  Ends = {A, B}
  MaxAttempts = 2
  StoreLimit = 0
  StaleClock = {B}
  Expiring = {A}
  Closers = {A}
SPECIFICATION Spec
ACTION_CONSTRAINT Bound
CHECK_DEADLOCK FALSE
INVARIANTS PeerIsKnown PeerHasHeard LeftoversAreExpired ServingIsConnected
           SuccessOrReason
