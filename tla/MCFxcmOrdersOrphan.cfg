CONSTANTS
  Amounts <- MCAmounts
  MaxIds = 2
SPECIFICATION OrdersSpec
INVARIANTS
  FailedBuyIsNotLive
CHECK_DEADLOCK FALSE
