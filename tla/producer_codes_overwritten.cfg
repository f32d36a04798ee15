SPECIFICATION Spec
CONSTANTS
  MaxPending = 3
  StagingMax = 2
  ErrOutSize = 1
  MaxRecords = 4
  MaxDepth = 2
  Budgets <- BatchInBatch
INVARIANT CodesAreOfTheBatch
CHECK_DEADLOCK FALSE
