SPECIFICATION Spec
CONSTANTS
  Missing = 2
  SizeChoices <- MCSizeChoices
INVARIANTS TypeOK WellConfigured CapacitiesAsAssumed
CHECK_DEADLOCK FALSE
