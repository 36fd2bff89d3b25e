SPECIFICATION Spec
CONSTANTS
  Unit = 100
  UtilityMax = 100000
  N = 1
  M = 1
  K = 1
  NodesMaxSize = 3
  TopNodes = 2
  Self = 4
  OwnAddr = 4
  Origin = 5
  NodeMaxAge = 1
  ProtoTimeout = 0
  MaxTime = 2
  Messages <- MCMessages
  Places <- MCPlaces
  Subscribers = {s1, s2}
  MaxSubs = 1
  Peers = {1, 2, 3}
  Types = {"IMP_REQ", "IMP_NOREQ"}
  Stamps = {0, 1}
  MaxLength = 2
INVARIANTS TypeOK Headroom ImportantSorted PayloadsFit PublicationSound
PROPERTIES MostUsefulKept RepliesUseful
CHECK_DEADLOCK FALSE
