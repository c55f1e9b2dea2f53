SPECIFICATION EvaluationSpec
CONSTANTS
  Depot = "d"
  Customers = {"a", "b", "c", "e"}
  Stations = {"s", "t"}
  Dist <- ScorerDist
  Service <- ScorerService
  Consumption = 1
  Capacity = 8
  MaxDuration = 36
  Curve <- ScorerCurve
  FirstRoutes <- EditRoutes
  MaxVisits = 7
  Solutions <- JoinSolutions
  Orders <- JoinOrders
  NoLimits = NoLimits
INVARIANTS
  ScoresKeepTheirPromise
  KernelsAgree
  RejectsOnlyLosers
  FragmentsScoredTrue
CHECK_DEADLOCK FALSE
