SPECIFICATION LiveSpec
CONSTANTS
  Minutes <- FewMinutes
  TickPrices <- FewPrices
  Length = 1
  MaxTicks = 4
INVARIANTS
  LiveTypeOK
  BarsAgree
CHECK_DEADLOCK FALSE
