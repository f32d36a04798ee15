SPECIFICATION FairSpec
CONSTANTS
  None = None
  IdleMin = 1
  IdleMax = 5
  ColdInterval = 7
  MacrotaskEvery = 3
  HasImmediate = TRUE
  MayBeCold = TRUE
  MaxNested = 1
  MaxEpoch = 4
INVARIANTS TypeOK HeartbeatKept DeferralBounded
PROPERTIES PollsAgain
CHECK_DEADLOCK FALSE
