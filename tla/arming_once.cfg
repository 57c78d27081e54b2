SPECIFICATION ArmingSpec
CONSTANTS
  e1 = e1
  k1 = k1
  t1 = t1
  t2 = t2
  None = None
  EveCall <- OneEve
  ConnectorCall <- OneConnector
  Turn <- TwoTurn
  MaxFaults = 2
INVARIANTS
  ArmingTypeOK
  ArmedOnce
PROPERTIES
  NeverRearmed
CHECK_DEADLOCK FALSE
