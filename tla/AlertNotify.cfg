SPECIFICATION FairSpec
CONSTANTS
  Alerts = {a1}
  SendResolved = {a1}
  Cooldown = 2
  RetryDelay = 1
  InspectionRetry = 1
  QueueCapacity = 1
  MaxDay = 1
  MaxInFlight = 1
  MaxAlarms = 2
  MaxSummaries = 1
INVARIANTS
  TypeOK
  AllClearsNeedAlarms
PROPERTY
  FiringKeepsNotifying
CHECK_DEADLOCK FALSE
