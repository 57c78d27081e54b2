SPECIFICATION ArmingSpec
CONSTANTS
  e1 = e1
  k1 = k1
  t1 = t1
  t2 = t2
  None = None
  EveCall <- OneEve
  ConnectorCall <- NoCall
  Turn <- OneTurn
  MaxFaults = 1
PROPERTIES
  ArmFailureLeavesDeliveryAlone
CHECK_DEADLOCK FALSE
