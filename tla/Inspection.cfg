SPECIFICATION Spec
CONSTANTS
  Alerts = {}
  SendResolved = {}
  Cooldown = 1
  RetryDelay = 1
  InspectionRetry = 1
  QueueCapacity = 1
  MaxDay = 3
  MaxInFlight = 2
  MaxAlarms = 0
  MaxSummaries = 2
INVARIANTS
  PendingHasJob
  SummaryOncePerDate
CHECK_DEADLOCK FALSE
