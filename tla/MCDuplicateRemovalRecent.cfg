SPECIFICATION Spec
CONSTANTS
  Unit = 1
  UtilityMax = 1
  Idents = {1, 2}
  Stamps = {0, 1}
  Positions = {0}
  MaxLength = 2
  Inputs <- MCInputs
INVARIANT KeepsMostRecent
CHECK_DEADLOCK FALSE
