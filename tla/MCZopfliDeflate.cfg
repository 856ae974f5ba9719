SPECIFICATION Spec
CONSTANTS
  Plans <- MCPlans
  Texts <- MCTexts
  Options <- MCOptions
  MasterBlockSize = 7
  MaxStored = 4
  FewTokens = 7
  FewestToSplit = 3
  A32_BASE = 13
  A32_NMAX = 4
  sums_overflow = 3
  WordSize = 256
  EndSymbol = 16
  LengthStep = 1
  LengthCodes = 4
  LL = 22
  DD = 8
  DistCodes = 6
  MaxMatch = 6
  MaxBits = 5
  CLBits = 4
  LongZeroBits = 1
  FixedBits = 4
  FixedDistBits = 3
  FixedLow = 2
  FixedHigh = 17
  order <- MCOrder
INVARIANTS PoolSuffices LengthsOptimal Inflates ChoiceNearlyBest SplitsInside
CHECK_DEADLOCK FALSE
