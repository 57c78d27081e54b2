SPECIFICATION FairSpec
CONSTANTS
  Components = {"clock", "edgar", "orders", "conversation"}
  Conditions = {{}}
  Target = 3
  MaxTimeout = 2
  NodeLimit = 2
  RetryDelay = 1
  Attempt = {"c1", "c2"}
  NoState = None
  NoTimer = None
  MaxClockNow = 6
  MaxClockFaults = 2
  Sub = {"a", "b"}
  Filing = {"f"}
  Wants <- EveryFiling
  Poll = {"p"}
  None = None
  MaxWatch = 2
  MaxSecNow = 1
  MaxFetchFaults = 1
  LossyTransition = FALSE
  PriceSubs = {"s1"}
  Below = {}
  Price = {1, 3}
  Threshold = 2
  MaxTrades = 1
  MaxPriceDrops = 0
  OrderSubs = {"s1", "s2"}
  Orders = {"o1"}
  OrderOf <- OneOrder
  MaxRejections = 1
  MaxOrderDrops = 0
  Reauth = FALSE
  Request = {"r1"}
  Limit = 1
  MaxDay = 1
  MaxCount = 1
  Chats = {"c1"}
  MaxTurns = 2
  MaxReloads = 1
  MaxChatFaults = 1
  MaxQueue = 1
PROPERTIES
  WatchersWake
  ConversationHeals
CHECK_DEADLOCK FALSE
