CONSTANTS
  Readers = {r1}
  Writers = {w1}
  NoThread = NoThread
  NoAdvert = NoAdvert
  Ids = {a}
  Versions <- MCVersions
  TIMEOUT = 2
  MaxTime = 1
  MaxNodes = 1
SPECIFICATION IndexnodesSpec
CHECK_DEADLOCK FALSE
INVARIANT NoFreedListUsed
