SPECIFICATION Spec
CONSTANTS
  ByteBase = 8
  kTopValue = 32
  kBitModelTotal = 16
  MoveDiv = 4
  TopPerModel = 2
  Contexts = {c1}
  MaxInput = 6
INVARIANTS TypeOK ProbInBand RangeNormalised
PROPERTIES BitKeepsInterval DirectBitKeepsInterval
