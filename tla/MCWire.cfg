SPECIFICATION Spec
CONSTANTS
  ByteBits = 3
  ExpBits = 3
  SizeRange = 150
  PeerBuffer = 100
  LocalBuffer = 20
  UserBuffer = 130
  AddrMaxLength = 6
  MaxNumSubs = 1
  Collections <- MCCollections
  Positions <- MCPositions
  Ranges = {0, 63}
  Paths <- MCPaths
INVARIANTS TypeOK PlaceAsAsked SubscribedAsAccepted
PROPERTIES PeersUnderstood UserInformed
CHECK_DEADLOCK FALSE
