SPECIFICATION HeapSpec
CONSTANTS
  Values = {v1, v2, v3, v4, v5, v6, v7}
  Capacity = 6
  Second = 2
  MaxTime = 7
SYMMETRY ValueSymmetry
INVARIANTS HeapTypeOK HeapOrdered
PROPERTY ImplementsQueue
