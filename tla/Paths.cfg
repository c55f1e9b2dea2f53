CONSTANTS
  Cases <- MCCases
  Tasks = {"subset", "single", "virtual", "random", "final", "hints"}
  Tolerance = 1
  Infinity = 1000
  Nets <- MCNets
  Tolerances = {0, 1}
SPECIFICATION PathsSpec
CHECK_DEADLOCK FALSE
INVARIANTS
  ScanExhaustive
  EndsRepaired
  NothingLost
  ImplicitAgrees
