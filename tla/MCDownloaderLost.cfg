CONSTANTS
  Reads = {r1}
  NoChunk = NoChunk
  Offsets = {0}
  Sizes = {1}
  FileSize = 1
  ServerSize = 1
  MaxBuf = 1
  UINT_MOD = 4096
SPECIFICATION FairSpec
CHECK_DEADLOCK FALSE
PROPERTY EveryReadAnswered
