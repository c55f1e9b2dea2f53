SPECIFICATION Spec
CONSTANTS
  Column <- MCColumn
  Duals <- MCDuals
  Partition <- MCPartition
  Capacity = 2
  Tol = 1
  Identity = "OrderedSequence"
  KeepEvicted = TRUE
INVARIANTS
  ProtectedStay
  IndexExact
  RepriceSelectsBest
  ProtectedStayCheap
PROPERTIES
  NothingForgotten
  EvictsWorst
