CONSTANTS
  c1 = c1
  c2 = c2
  Consumers <- MCConsumers
  MaxPushes = 3
SPECIFICATION QueueSpec
INVARIANTS
  QueueTypeOK
  InOrder
  NoSleepOnItems
  UntilFirstWanted
PROPERTIES
  TimesOutOnEmpty
  QueueCallsReturn
CHECK_DEADLOCK FALSE
