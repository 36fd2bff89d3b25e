SPECIFICATION Spec
CONSTANTS
  Unit = 100
  UtilityMax = 100000
  N = 2
  M = 1
  K = 2
  NodesMaxSize = 5
  TopNodes = 2
  Self = 4
  OwnAddr = 4
  Origin = 5
  NodeMaxAge = 1
  ProtoTimeout = 0
  MaxTime = 2
  Messages <- MCMessages
  Places <- MCNear
  Subscribers = {}
  MaxSubs = 1
  Peers = {1, 2, 3}
  Types = {"RND_REQ", "RND_NOREQ"}
  Stamps = {0, 1}
  MaxLength = 2
INVARIANTS Headroom DistinctPeers PayloadsFit RequestsFresh
PROPERTIES NewestKept RandomPromoted KeepsTable
CHECK_DEADLOCK FALSE
