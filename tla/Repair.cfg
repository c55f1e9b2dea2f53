CONSTANTS
  Depot = 0
  Customers = {1, 2, 3}
  Stations = {8, 9}
  Dist <- MCDist
  Service <- MCService
  Consumption = 1
  Capacity = 8
  MaxDuration = 20
  Curve <- MCCurve
  RouteCost <- MCRouteCost
  Preserve = TRUE
  RandomSubset = TRUE
  Originals <- MCOriginals
  Kappas = {1, 2, 3}
  Infinity = 1000
  Boards <- ChoiceBoards
  Tolerance = 1
  Safety = 1
  Unrivalled = 1000
SPECIFICATION RepairSpec
CHECK_DEADLOCK FALSE
INVARIANTS
  RanksAreFresh
  VisitsConserved
  ChoiceIsExhaustive
