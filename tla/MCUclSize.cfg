SPECIFICATION Spec
CONSTANTS
  BitsPerByte = 8
  M2_MAX_OFFSET = 3328
  EofPrefix = 16777216
  Runs = {1048576}
  Lengths = {3}
  Offsets = {1000000, 1000001}
  MaxIn = 1052000
  Slack = 256
  Series = {}
  block_size = 8388608
INVARIANT BlockFits
CHECK_DEADLOCK FALSE
