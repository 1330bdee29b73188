SPECIFICATION Spec
CONSTANTS
  Nodes = {n1}
  Conns = {c1, c2}
  NoConn = NoConn
  Requests = {r1, r2}
  StaleAfter = 2
  ControlCapacity = 8
PROPERTY
  RefreshThroughCurrentSession
CHECK_DEADLOCK FALSE
