SPECIFICATION Spec
CONSTANTS
  Column <- MCColumn
  Duals <- MCDuals
  Customer = {1, 2, 3}
  Local <- MCLocal
  Refinement <- MCRefinement
  Capacity = 2
  Tol = 1
  Identity = "OrderedSequence"
  KeepEvicted = TRUE
  Protect = TRUE
  RepriceAfterLp = TRUE
  RecordPolicy = TRUE
CHECK_DEADLOCK FALSE
INVARIANTS
  RecordRepresentable
PROPERTIES
  PoolSpec
  RoundsEnd
