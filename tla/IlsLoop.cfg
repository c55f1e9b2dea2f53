SPECIFICATION Spec
CONSTANTS
  Solution <- MCSolution
  None = None
  Policies <- MCPolicies
  HasDeadline = TRUE
  PenaltyWindow = 2
  PenaltyFactor = 2
  LambdaMin = 2
  LambdaInitial = 8
  LambdaMax = 12
  MaxIterations = 4
  SpFrequency = 3
  Tol = 1
INVARIANTS
  AnchorSound
  RecordCoversOffered
  AnswerNeverWorse
  StopReasonTrue
CHECK_DEADLOCK FALSE
