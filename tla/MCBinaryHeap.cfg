CONSTANTS
  Keys = {1, 2, 3}
  Values = {c1, c2, c3, c4, c5}
  NoKvp = NoKvp
SPECIFICATION Spec
SYMMETRY ValueSymmetry
INVARIANTS TypeOK StaleSlotIsTarget RootIsLeast
PROPERTY ImplementsPriorityQueue
