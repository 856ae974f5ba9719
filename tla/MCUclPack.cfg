SPECIFICATION Spec
CONSTANTS
  BitsPerByte = 2
  M2_MAX_OFFSET = 1
  EofPrefix = 4
  MaxDamaged = 6
  Texts <- MCTexts
  Files <- MCFiles
  DamagedFiles <- MCDamagedFiles
  magic <- MCMagic
  MethodByte = 2
  LevelByte = 1
  block_size = 12
  try_lazy = 2
  max_lazy = 6
  Slack = 4
  MinBlockSize = 4
  MaxBlockSize = 48
  BASE = 13
  NMAX = 9
INVARIANTS Accounted Lossless StaysInBounds Restores ChecksumExact DamageIsFound
