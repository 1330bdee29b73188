\* History, audit log, snapshot file and agent logs.
SPECIFICATION FairSpec
CONSTANTS
  Recorders = {s1, s2}
  WriteInterval = 2
  HistoryCapacity = 1
  HistoryBatchMax = 2
  Retention = 3
  PruneInterval = 2
  MaxTime = 4
  MaxForgets = 1
  Askers = {q1, q2}
  AuditCapacity = 2
  AuditBatchMax = 2
  MaxEvents = 3
  MaxVersion = 3
  MaxInodes = 3
  DiskMayStall = FALSE
  Shards = 2
  Shippers = {s1, s2}
  MaxBatch = 1
  MaxPerNode = 2
  MaxTotal = 1
  MaxSequence = 3
INVARIANTS
  TypeOK
  SamplesAreSpaced
  QueryShowsEverything
  DrainLosesNothing
  QuerySeesRecorded
  CheckpointOnDisk
  SnapshotIsWhole
  LogBudgetHolds
PROPERTY
  SamplesReachTheStore
CHECK_DEADLOCK FALSE
