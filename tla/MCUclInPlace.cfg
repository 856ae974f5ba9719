SPECIFICATION Spec
CONSTANTS
  BitsPerByte = 8
  M2_MAX_OFFSET = 3328
  EofPrefix = 16777216
  Runs = {1, 131072}
  Lengths = {39000}
  Offsets = {1}
  Series <- MCSeries
  MaxIn = 262144
  Slack = 256
  block_size = 262144
INVARIANT FitsInPlace
CHECK_DEADLOCK FALSE
