\* HTTP requests, browser sessions and the web page on changing rows.
SPECIFICATION FairSpec
CONSTANTS
  Nodes = {n1, n2}
  FewNodes = {n1}
  PageChanges = 1
  MaxChanges = 2
  Readers = {r1, r2}
  CachedKinds = {"nodes", "metrics"}
  MaxFlips = 1
  None = None
  Browsers = {b1}
  ChannelCapacity = 1
INVARIANTS
  PageTypeOK
  BodiesAreCurrent
  StaleMeansNotified
PROPERTIES
  BrowserConverges
  PageFollows
CHECK_DEADLOCK FALSE
