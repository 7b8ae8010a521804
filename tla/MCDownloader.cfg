CONSTANTS
  Reads = {r1, r2, r3}
  NoChunk = NoChunk
  Offsets = {0, 1, 3, 4}
  Sizes = {1, 4}
  FileSize = 3
  ServerSize = 3
  MaxBuf = 2
  UINT_MOD = 5
SPECIFICATION FairSpec
CHECK_DEADLOCK FALSE
INVARIANTS TypeOK ReadIntegrity OneOwner NoLostWakeup InHandAsserts NoneStranded
INVARIANT ReleasedEndsCleanly
PROPERTIES AnswersFinal AnsweredUnlessStalled TidiesUpUnlessHung
