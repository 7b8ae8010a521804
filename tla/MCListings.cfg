CONSTANTS
  Pages = {"two", "three", "same", "mixed", "none", "odd"}
  Document <- MCDocument
  Peers = {"p1", "p2", "p3"}
SPECIFICATION Spec
INVARIANTS  BestIsPermitted HeldOnceTooOften
CHECK_DEADLOCK FALSE
