SPECIFICATION Spec
CONSTANTS
  Nodes = {n1}
  Sessions = {s1}
  Installers = {i1}
  Issuers = {k1}
  Poller = poller
  MaxWriteRetries = 2
  MaxVersion = 3
  MaxRevision = 4
INVARIANT
  HotPathSeesRotation
CHECK_DEADLOCK FALSE
