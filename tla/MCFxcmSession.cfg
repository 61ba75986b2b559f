SPECIFICATION SessionSpec
CONSTANTS
  trading = trading
  marketdata = marketdata
  acc1 = acc1
  acc2 = acc2
  p1 = p1
  p2 = p2
  Sessions <- TwoSessions
  Trading = trading
  Accounts <- TwoAccounts
  Positions <- TwoPositions
  MaxLogins = 2
  MaxDrops = 1
  MaxMoves = 2
  MaxQueries = 1
SYMMETRY SessionSymmetry
INVARIANTS
  SessionTypeOK
  PositionsAgree
  LoginAnswered
CHECK_DEADLOCK FALSE
