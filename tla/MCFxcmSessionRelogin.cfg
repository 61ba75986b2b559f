SPECIFICATION SessionSpec
CONSTANTS
  trading = trading
  marketdata = marketdata
  acc1 = acc1
  acc2 = acc2
  p1 = p1
  p2 = p2
  Sessions <- TwoSessions
  Trading = trading
  Accounts <- TwoAccounts
  Positions <- TwoPositions
  MaxLogins = 2
  MaxDrops = 1
  MaxMoves = 0
  MaxQueries = 0
SYMMETRY SessionSymmetry
INVARIANTS
  LoginReturnsSafely
CHECK_DEADLOCK FALSE
