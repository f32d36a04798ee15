SPECIFICATION FairSpec
CONSTANTS
  Messages = 4
  Tombstones <- MCTombstones
  FetchSize = 2
  HighWater = 2
  MaxPending = 1
  MaxTrouble = 2
INVARIANTS TypeOK HandedInOrder EndsClean
PROPERTIES Flows
CHECK_DEADLOCK FALSE
