SPECIFICATION Spec
CONSTANTS
  BLOCK_SIZE = 2
  BLOCK_1K_SIZE = 3
  MAX_ERRORS = 4
  CRC_RETRIES = 2
  File <- MCFile
  Bases <- MCBases
  Noise <- MCNoise
  MaxLost = 2
  MaxFaults = 1
  MaxReplies = 1
INVARIANTS
  TypeOK
  SavedIsFile
  CrcOfStored
PROPERTIES
  TransferEnds
CHECK_DEADLOCK FALSE
