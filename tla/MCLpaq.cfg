SPECIFICATION Spec
CONSTANTS
  ByteBits = 4
  Nibble = 2
  Orders = {1, 2}
  Slots = 4
  ContextBytes = 2
  SlotOf <- MCSlotOf
  CheckOf <- MCCheckOf
  nex <- MCnex
  RingSize = 8
  HashSize = 4
  Factor1 = 3
  Factor2 = 4
  MAXLEN = 4
  ByteBase = 4
  Top = 64
  Scale = 16
  Prediction <- Ends
  Checks = {0, 1, 2, 3, 4, 5, 6}
  Files <- MCFiles
  FreeBits <- MCFreeBits
INVARIANTS BothBitsFit Lossless StatePerPath ReplacementSound MatchAgrees
CHECK_DEADLOCK FALSE
