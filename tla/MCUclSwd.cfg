SPECIFICATION Spec
CONSTANTS
  Byte = {0, 1}
  Hash <- MCHash
  Keys = {0, 1}
  n = 5
  f = 4
  NiceLengths = {3, 4}
  MaxChains = {0, 1}
  Texts <- MCTexts
  MaxAccept = 2
INVARIANTS RingHoldsWindow ChainsExact MatchIsReal LongestFound
CHECK_DEADLOCK FALSE
