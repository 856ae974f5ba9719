SPECIFICATION Spec
CONSTANTS
  Byte = {0, 1}
  Length = {2, 3}
  DictionarySize = 3
  MaxCall = 3
  MaxText = 6
  PosMod = 8
  Garbage = garbage
INVARIANTS TypeOK RingIsTail ShortAnswerMeansEnd
PROPERTIES CallReturns TextSpec
