SPECIFICATION Spec
CONSTANTS
  Byte = {0, 1}
  Texts <- MCTexts
  Starts = {0, 10}
  Passes = 2
  Hash <- MCHash
  SameHash <- MCSameHash
  Keys = {0, 1, 2, 3}
  WindowSize = 8
  MaxMatch = 5
  MaxSame = 6
  ChainHits = 8
  CacheLength = 2
INVARIANTS AnswerExact ChainIsWindow SameIsExact
CHECK_DEADLOCK FALSE
