SPECIFICATION Spec
CONSTANTS
  Partitions = {p1}
  Workers = {w1}
  None = None
  LogEnd = 4
  FetchChunk = 1
  MaxQueued = 2
  MaxBuffered = 1
  MaxBatch = 2
  Handlers = {"eachMessage"}
  AutoCommit = TRUE
  MaxAttempts = 1
  Budgets <- OneFailure
INVARIANTS AtLeastOnce
CHECK_DEADLOCK FALSE
