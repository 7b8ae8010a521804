CONSTANTS
  Readers = {r1, r2}
  Writers = {w1, w2}
  NoThread = NoThread
  NoAdvert = NoAdvert
  Ids = {a}
  Versions <- MCVersions
  TIMEOUT = 1
  MaxTime = 1
  MaxNodes = 2
SPECIFICATION IndexnodesSpec
SYMMETRY IndexnodesSymmetry
CHECK_DEADLOCK FALSE
INVARIANTS
  TypeOK WriterCounted NoForgottenWaiter HeldBySomebody ExclusiveUntilSkipped
  RefsExact LiveUntilSkipped FreshStaysUntilSkipped OnePerWriter
