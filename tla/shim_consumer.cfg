SPECIFICATION FairSpec
CONSTANTS
  Scripts <- AllScripts
  PrefetchModes <- Modes
  BufferBytes = 4
  BufInitial = 2
  BufMin = 1
  EventBytes = 2
  NFrames = 2
  MaxMsgs = 2
  MaxEvents = 2
  MaxRevokes = 1
INVARIANTS TypeOK RingExclusive RetryFits
PROPERTIES OnceInOrder Drained
CHECK_DEADLOCK FALSE
