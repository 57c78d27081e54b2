SPECIFICATION FairSpec
CONSTANTS
  Run = {"r1", "r2", "r3"}
  Cron = {"s1"}
  Stale = 4
  MaxStep = 3
  StepsPerRun = 2
  HeartbeatAfter = TRUE
  MaxChainFaults = 2
  MaxManual = 0
  Sub = {"a", "b"}
  Expires = {"a", "b"}
  Poison = {"b"}
  Deadline <- SoonDue
  MaxTimeout = 1
  MaxExpiryNow = 1
  MaxCrashes = 1
  None = None
  EdgarSub = {"a", "b", "u"}
  Filing = {"f"}
  Cik = {"c", "d"}
  CikOf <- TwoCompanies
  Wants <- EveryFiling
  BadCik = {"d"}
  EdgarTick = {"t1"}
  MaxSecNow = 1
  MaxEdgarFaults = 1
  Unknown = {"u"}
  WarmProcess = FALSE
  NoRow = NoRow
  ClockSub = {"a", "m", "g"}
  Malformed = {"m"}
  Ghost = {"g"}
  At <- AllDue
  ClockTick = {"t1", "t2"}
  MaxClockNow = 0
  MaxClockFaults = 1
PROPERTIES
  ChainKeepsComingBack
  SweepsSettle
CHECK_DEADLOCK FALSE
