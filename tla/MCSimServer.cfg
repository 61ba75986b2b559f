CONSTANTS
  simulator = simulator
  trader = trader
  Simulator <- simulator
  Trader <- trader
  Owners <- MCOwners
  Prices <- MCPrices
  Quantities <- MCQuantities
  MaxOrders = 5
  Tops <- MCTops
  QuoteVolume = 1
SPECIFICATION ServerSpec
INVARIANTS
  ServerTypeOK
  OneQuotePerSide
  NetPositionAgrees
  QuotesFollowTop
  KnownClosedIsGone
  RestingOrderKnown
PROPERTIES
  MarketKeepsSampling
CHECK_DEADLOCK FALSE
