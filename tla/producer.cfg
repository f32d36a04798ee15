SPECIFICATION FairSpec
CONSTANTS
  MaxPending = 2
  StagingMax = 2
  ErrOutSize = 1
  MaxRecords = 3
  MaxDepth = 2
  Budgets <- Disturbed
INVARIANTS TypeOK ReportedOnce HandedInOrder
PROPERTIES EverythingReported
CHECK_DEADLOCK FALSE
