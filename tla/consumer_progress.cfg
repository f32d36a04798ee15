SPECIFICATION RunningSpec
CONSTANTS
  Partitions = {p1}
  Workers = {w1, w2}
  None = None
  LogEnd = 2
  FetchChunk = 1
  MaxQueued = 2
  MaxBuffered = 1
  MaxBatch = 2
  Handlers = {"eachMessage", "eachBatchAutoResolve"}
  AutoCommit = TRUE
  MaxAttempts = 1
  Budgets <- Failing
PROPERTIES RunsAndStops
CHECK_DEADLOCK FALSE
