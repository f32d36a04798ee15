SPECIFICATION Spec
CONSTANTS
  Partitions = {p1}
  Workers = {w1, w2}
  None = None
  LogEnd = 2
  FetchChunk = 1
  MaxQueued = 2
  MaxBuffered = 1
  MaxBatch = 2
  Handlers = {"eachMessage", "eachBatch"}
  AutoCommit = TRUE
  MaxAttempts = 1
  Budgets <- Disturbed
INVARIANTS TypeOK QueueConsistent WorkersConsistent ProcessedInOrder
CHECK_DEADLOCK FALSE
