SPECIFICATION LiveSpec
CONSTANTS
  Minutes <- FewMinutes
  TickPrices <- FewPrices
  Length = 1
  MaxTicks = 2
INVARIANTS
  AllCollectedProcessed
CHECK_DEADLOCK FALSE
