SPECIFICATION Spec
CONSTANTS
  Unit = 1
  UtilityMax = 1
  Idents = {1, 2}
  Stamps = {0, 1}
  Positions = {0, 1}
  MaxLength = 3
  Inputs <- MCInputs
INVARIANTS TypeOK LeavesOnePerID NothingLost
PROPERTY Returns
CHECK_DEADLOCK FALSE
