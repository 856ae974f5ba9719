SPECIFICATION Spec
CONSTANTS
  Texts <- MCTexts
  CostModels <- MCCostModels
  MaxMatch = 6
  LongDistance = 4
  LargeCost = 1000
INVARIANTS Reproduces Optimal
CHECK_DEADLOCK FALSE
