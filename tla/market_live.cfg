SPECIFICATION MarketFairSpec
CONSTANTS
  Components = {"fenced", "prices", "orders"}
  Conditions = {{}}
  None = None
  Session = {"a"}
  MaxPos = 3
  MaxWrites = 4
  PriceSubs = {"s1"}
  Below = {"s1"}
  Price = {1, 3}
  Threshold = 2
  MaxTrades = 3
  MaxDrops = 1
  MaxSessions = 2
  MaxMs = 2
  MaxNs = 1
  Exchange = {1, 2}
  GapPrice = {1, 2, 3}
  GapThreshold = 2
  MaxGapTrades = 3
  NoTrade = None
  OrderSubs = {"s1", "s2"}
  Orders = {"o1", "o2"}
  OrderOf <- OrderEach
  Index <- ShortListing
  BatchSize = 1
  SessionTicks = 2
  MaxCrashes = 1
  Churn = FALSE
PROPERTIES
  SessionsComplete
CHECK_DEADLOCK FALSE
