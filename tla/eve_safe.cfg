SPECIFICATION Spec
CONSTANTS
  Components = {"clock", "edgar", "prices", "orders", "cap", "conversation"}
  Conditions = {{}, {"race"}, {"race", "ahead"}, {"race", "behind"}}
  Target = 3
  MaxTimeout = 2
  NodeLimit = 2
  RetryDelay = 1
  Attempt = {"c1", "c2"}
  NoState = None
  NoTimer = None
  MaxClockNow = 6
  MaxClockFaults = 2
  Sub = {"a", "b", "c"}
  Filing = {"f"}
  Wants <- EveryFiling
  Poll = {"p"}
  None = None
  MaxWatch = 3
  MaxSecNow = 0
  MaxFetchFaults = 1
  LossyTransition = TRUE
  PriceSubs = {"s1", "s2"}
  Below = {"s1"}
  Price = {1, 3}
  Threshold = 2
  MaxTrades = 4
  MaxPriceDrops = 1
  OrderSubs = {"s1", "s2", "s3"}
  Orders = {"o1", "o2"}
  OrderOf <- TwoOrders
  MaxRejections = 2
  MaxOrderDrops = 1
  Reauth = FALSE
  Request = {"r1", "r2", "r3"}
  Limit = 2
  MaxDay = 2
  MaxCount = 3
  Chats = {"c1", "c2"}
  MaxTurns = 3
  MaxReloads = 2
  MaxChatFaults = 0
  MaxQueue = 2
INVARIANTS
  Types
  TimersMatchRecords
  WatchesMatchClaims
  WakesAreTrue
  CapHolds
  KeySelfExpires
  ConversationIsReached
PROPERTIES
  ChunksAreLong
CHECK_DEADLOCK FALSE
