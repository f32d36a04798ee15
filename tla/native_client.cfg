SPECIFICATION Spec
CONSTANTS
  orders = orders
  bills = bills
  Topics = {orders, bills}
  Partitions = {0}
  NameSize <- MCNameSize
  MaxMetadata = 2
  WriterInitial = 8
  ScratchInitial = 4
  NameInitial = 2
  EventInitial = 4
  ConsumeInitial = 4
  ConsumeMin = 5
  ConsumeLimit = 8
  MaxMsgs = 2
  Lists <- MCLists
  Subscriptions <- MCSubscriptions
  Traffic <- MCTraffic
  MaxHeld = 1
  None = None
INVARIANTS TypeOK CallsAgree HandedOutIntact
CHECK_DEADLOCK FALSE
