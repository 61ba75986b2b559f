CONSTANTS
  simulator = simulator
  trader = trader
  Owners <- MCOwners
  Prices <- MCPrices
  Quantities <- MCQuantities
  MaxOrders = 4
SPECIFICATION FairSpec
INVARIANTS
  TypeOK
  PriceTimePriority
  BookUncrossed
  RestingOrdersOpen
  ThrowOnlyWhenFilled
  ReportsAddUp
  VwapBounded
PROPERTIES
  OnlyFrontTrades
  CallsReturn
  ImplementsExchange
CHECK_DEADLOCK FALSE
