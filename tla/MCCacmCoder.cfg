SPECIFICATION Spec
CONSTANTS
  No_of_chars = 2
  Max_frequency = 7
  Code_value_bits = 5
  First_qtr = 8
  ByteBits = 3
  MaxChars = 8
  MaxLost = 2
INVARIANTS ModelConsistent EverySymbolFits Lossless
PROPERTY DecoderStops
CHECK_DEADLOCK FALSE
