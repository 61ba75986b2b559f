SPECIFICATION BarsSpec
CONSTANTS
  Prices <- TwoPrices
  Period = 4
  SamplePeriod = 3
  Origin = 22
  Age = 6
  Steps <- AnyStep
  Froms <- TwoFroms
  MaxTime = 29
INVARIANTS
  MarketBarsAgree
CHECK_DEADLOCK FALSE
