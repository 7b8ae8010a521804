CONSTANTS
  Threads = {t1, t2}
  MaxLookups = 1
  MaxOpens = 1
  MaxReads = 2
  MaxGetattrs = 1
SPECIFICATION Spec
SYMMETRY ThreadSymmetry
INVARIANTS RefsAccounted OnlyOverdraftsFree
CHECK_DEADLOCK FALSE
