SPECIFICATION Spec
CONSTANTS
  MaxIterations = 14
  SpFrequency = 7
  BackupFrequency = 2
  Adaptive = TRUE
  Stall = 2
  MinInterval = 2
CHECK_DEADLOCK FALSE
INVARIANTS
  CadenceKept
PROPERTIES
  AdaptiveOnlyWhenStalled
