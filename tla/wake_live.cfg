SPECIFICATION FairSpec
CONSTANTS
  None = None
  MaxFaults = 1
PROPERTIES
  DeliveryCompletes
CHECK_DEADLOCK FALSE
