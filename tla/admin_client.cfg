SPECIFICATION FairSpec
CONSTANTS
  n1 = n1
  n2 = n2
  Names = {n1, n2}
  Partitions <- MCPartitions
  Methods <- MCMethods
  Arguments <- MCArguments
  MaxCalls = 1
  MaxHandles = 2
INVARIANTS TypeOK NothingLeft ResultsTrue
PROPERTIES Settles
CHECK_DEADLOCK FALSE
