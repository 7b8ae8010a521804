CONSTANTS
  Readers = {r1, r2}
  Writers = {w1}
  NoThread = NoThread
  NoAdvert = NoAdvert
  Ids = {a}
  Versions <- MCVersions
  TIMEOUT = 1
  MaxTime = 1
  MaxNodes = 1
SPECIFICATION IndexnodesSpec
SYMMETRY IndexnodesSymmetry
CHECK_DEADLOCK FALSE
INVARIANT OnlyLiveGivenOut
