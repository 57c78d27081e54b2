SPECIFICATION MarketSpec
CONSTANTS
  Components = {"fenced", "prices", "gap", "orders"}
  Conditions = {{}, {"quiet", "young", "failure", "flap"}}
  None = None
  Session = {"a", "b"}
  MaxPos = 2
  MaxWrites = 3
  PriceSubs = {"s1", "s2"}
  Below = {"s1"}
  Price = {1, 3}
  Threshold = 2
  MaxTrades = 3
  MaxDrops = 2
  MaxSessions = 2
  MaxMs = 2
  MaxNs = 1
  Exchange = {1, 2}
  GapPrice = {1, 2, 3}
  GapThreshold = 2
  MaxGapTrades = 3
  NoTrade = None
  OrderSubs = {"s1", "s2", "s3"}
  Orders = {"o1", "o2"}
  OrderOf <- SharedOrder
  Index <- Listing
  BatchSize = 2
  SessionTicks = 3
  MaxCrashes = 1
  Churn = FALSE
INVARIANTS
  Types
  IInv
  CleanEndPersists
  WakesAreTrue
  ReplayIsUninterrupted
  CoveredWhileSteady
PROPERTIES
  NeverRegresses
CHECK_DEADLOCK FALSE
