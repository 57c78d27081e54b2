SPECIFICATION Spec
CONSTANTS
  e1 = e1
  e2 = e2
  k1 = k1
  None = None
  EveCall <- TwoEve
  ConnectorCall <- OneConnector
  MaxFaults = 1
SYMMETRY CallSymmetry
INVARIANTS
  RecordMatchesAgent
  AtMostOneWake
  MissedCasIsSettled
  IInv
PROPERTIES
  TerminalIsFinal
  ImplementsOneShotWake
CHECK_DEADLOCK FALSE
