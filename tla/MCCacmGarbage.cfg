SPECIFICATION Spec
CONSTANTS
  No_of_chars = 2
  Max_frequency = 7
  Code_value_bits = 5
  First_qtr = 8
  ByteBits = 3
  MaxChars = 3
  MaxLost = 2
INVARIANT GarbageIsCountedInBits
CHECK_DEADLOCK FALSE
