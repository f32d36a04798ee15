SPECIFICATION FairSpec
CONSTANTS
  Batches <- OnePair
  MaxSends = 1
  MaxOps = 5
  MaxTrouble = 1
INVARIANTS TypeOK FlagAgrees OwnTransaction CommittedWhole SendResultsTrue
PROPERTIES Settles
CHECK_DEADLOCK FALSE
