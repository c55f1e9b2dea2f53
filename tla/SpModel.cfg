SPECIFICATION Spec
CONSTANTS
  Objective = {3, 4, 6, 9}
  Options <- MCOptions
  Tol = 1
  Gap = 0
  Bucket = 4
  Guard = 1
  MaxTime = 4
  None = None
CHECK_DEADLOCK FALSE
INVARIANTS
  AnswerSound
  SearchWithinDeadline
