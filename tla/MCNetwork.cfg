SPECIFICATION Spec
CONSTANTS
  Unit = 4
  UtilityMax = 100
  N = 2
  M = 1
  K = 2
  NodesMaxSize = 5
  TopNodes = 10
  Clients = {1, 2}
  Origin <- MCOrigin
  Skew <- MCSkew
  Places <- MCMoving
  NodeMaxAge = 2
  ProtoTimeout = 1
  MaxPeriod = 2
  MaxDelay = 0
  MaxPackets = 2
  MaxUpsets = 1
INVARIANT TypeOK
PROPERTIES PublishedAlive PublishedCurrent
