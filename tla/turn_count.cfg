SPECIFICATION CapSpec
CONSTANTS
  Request = {"r1", "r2"}
  Limit = 1
  MaxDay = 1
  MaxCount = 2
PROPERTIES
  RejectedTurnIsNotCounted
CHECK_DEADLOCK FALSE
