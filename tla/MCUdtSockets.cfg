CONSTANTS
  MaxSockets = 3
  Ports = {7}
  Exclusive = {2}
  Peers = {p, q}
  PortOf <- MCPortOf
  BackLog = 1
  Acceptors = {a}
  AsyncSending = {2}
  BrokenRounds = 1
  Unread = {1}
  Clients = {2}
  Listeners = {3}
SYMMETRY PeerSymmetry
SPECIFICATION SocketsSpec
ACTION_CONSTRAINT OneAtATime
CHECK_DEADLOCK FALSE
INVARIANTS ConnectionsAreKept
PROPERTIES RemovalIsSafe
