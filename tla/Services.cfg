\* Admission, install, login, settings, agent, collector, reports and delivery.
SPECIFICATION Spec
CONSTANTS
  Clients = {1, 2, 3}
  FailWindow = 1
  MaxAttempts = 2
  BlockTime = 2
  SoftLimit = 1
  HardLimit = 2
  Sockets = {s1, s2}
  Proxies = {9}
  MaxTotalSockets = 2
  MaxPerClient = 2
  MaxAdmissionTime = 3
  Requesters = {r1, r2}
  Tokens = {1}
  MaxInstallTime = 3
  Tabs = {t1, t2}
  PendingLife = 2
  SessionLife = 3
  ReplayRetention = 2
  MaxWrongCodes = 2
  MaxSetback = 1
  MaxClock = 2
  MaxRequests = 4
  Editors = {1, 2}
  MaxEdits = 2
  BufferCapacity = 3
  BatchSize = 2
  ShortRetries = 1
  MaxBackoff = 1
  MaxTokens = 1
  MaxConnects = 3
  Interfaces = {1, 2}
  Width = 2
  MaxBytes = 3
  MaxChanges = 2
  MaxDisks = 2
  AnomalyLimit = 2
  AnomalyWindow = 1
  MaxMounts = 3
  MaxReportTime = 2
  Recipients = 2
  MaxDeliveryAttempts = 3
INVARIANTS
  TypeOK
  TokenReachesAgent
  LinesHandedOverOnce
  RuntimeFollowsFile
  RatesAreReal
  SuccessReachesEverybody
  RowsCanBeTrusted
PROPERTIES
  BlocksLast
  SpentStepsAreRefused
CHECK_DEADLOCK FALSE
