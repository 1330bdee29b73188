SPECIFICATION Spec
CONSTANTS
  Nodes = {n1, n2}
  Conns = {c1, c2, c3}
  NoConn = NoConn
  Requests = {r1}
  StaleAfter = 2
  ControlCapacity = 8
INVARIANTS
  OnlineHasLiveSession
  ControlReachesActive
PROPERTIES
  OfflineForAReason
  ImplementsOwnership
SYMMETRY ConnSymmetry
CHECK_DEADLOCK FALSE
