SPECIFICATION Spec
CONSTANTS
  Run = {"r1", "r2", "r3"}
  Cron = {"s1", "s2"}
  Stale = 4
  MaxStep = 3
  StepsPerRun = 2
  HeartbeatAfter = FALSE
  MaxChainFaults = 2
  MaxManual = 1
  Sub = {"a", "b"}
  Expires = {"a", "b"}
  Poison = {}
  Deadline <- Deadlines
  MaxTimeout = 2
  MaxExpiryNow = 3
  MaxCrashes = 1
  None = None
  EdgarSub = {"a", "b"}
  Filing = {"f", "g"}
  Cik = {"c"}
  CikOf <- OneCompany
  Wants <- EveryFiling
  BadCik = {}
  EdgarTick = {"t1", "t2"}
  MaxSecNow = 2
  MaxEdgarFaults = 1
  Unknown = {}
  WarmProcess = TRUE
  NoRow = NoRow
  ClockSub = {"a", "m", "g"}
  Malformed = {"m"}
  Ghost = {"g"}
  At <- Hours
  ClockTick = {"t1", "t2"}
  MaxClockNow = 2
  MaxClockFaults = 1
INVARIANTS
  Types
  ChainsDoNotMultiply
  NothingEarly
  NothingSwallowed
PROPERTIES
  LiveRowsStayIndexed
CHECK_DEADLOCK FALSE
