SPECIFICATION FairSpec
CONSTANTS
  Unit = 4
  UtilityMax = 100
  N = 1
  M = 1
  K = 2
  NodesMaxSize = 5
  TopNodes = 10
  Clients = {1, 2}
  Origin <- MCOrigin
  Skew <- MCNoSkew
  Places <- MCTogether
  NodeMaxAge = 2
  ProtoTimeout = 1
  MaxPeriod = 2
  MaxDelay = 0
  MaxPackets = 2
  MaxUpsets = 0
PROPERTY FindEachOther
