SPECIFICATION FairSpec
CONSTANTS
  None = None
  NoEntry = NoEntry
  Null = Null
  Writers = {"eve", "connector"}
  PageSize = 3
  HistoryMax = 4
  MaxRows = 5
  MaxRetries = 1
  MaxReloads = 1
  MaxFailed = 1
  Viewers = {"v1", "v2"}
  TTL = 2
  FetchTime = 1
  MaxVersion = 2
  MaxFailures = 1
  FirstRetry = 2
  MaxRetry = 7
  MaxAttempts = 3
  MaxEvents = 2
INVARIANTS
  Types
  FeedIsHistory
  StalenessBounded
  LoopMatchesPage
PROPERTIES
  PagesCatchUp
CHECK_DEADLOCK FALSE
