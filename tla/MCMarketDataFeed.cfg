CONSTANTS
  c1 = c1
  c2 = c2
  EURUSD = EURUSD
  Nobody = Nobody
  NoTop = NoTop
  NoBook = NoBook
  Clients <- TwoClients
  Symbols <- OneSymbol
  Tops <- TwoTops
  Scale <- Truncating
  Kinds <- AllKinds
  MaxMoves = 3
  MaxRequests = 2
  MaxDrops = 1
SPECIFICATION FeedSpec
INVARIANTS
  FeedTypeOK
  IntactBookAgrees
  LoggedOutNotSubscribed
SYMMETRY ClientSymmetry
CHECK_DEADLOCK FALSE
