CONSTANTS
  Amounts <- MCAmounts
  MaxIds = 2
SPECIFICATION OrdersSpec
INVARIANTS
  OrdersTypeOK
  PositionAgrees
  TrackerCatchesUp
  ClosesWholeTrade
  TradeIsOwnOrder
  CancelledIsGone
PROPERTIES
  KnowledgeMonotone
  OrderCallsReturn
CHECK_DEADLOCK FALSE
