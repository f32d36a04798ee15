SPECIFICATION FairSpec
CONSTANTS
  Blank = Blank
  CompactAt = 1
  MaxBuffered = 2
  BatchMax = 2
  Sizes = {2}
  Kinds = {"msg", "eof"}
  MaxRecords = 3
  MaxRequests = 2
  MaxSessions = 2
  MaxFrames = 1
INVARIANTS TypeOK DeliveredOnce AnsweredOnce 
 
CHECK_DEADLOCK FALSE
