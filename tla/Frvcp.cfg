CONSTANTS
  Depot = 0
  Customers = {1, 2, 3}
  Stations = {7, 8, 9}
  Dist <- MCDist
  Service <- MCService
  Consumption = 1
  Capacity = 8
  MaxDuration = 34
  Curve <- MCCurve
  Offered <- MCOffered
  Limit = 5
  Guard = 1
  Deadline = 14
  CallTimes = {0, 1, 3, 5}
  Overrun = 2
  Target = 0
  MaxRounds = 2
SPECIFICATION Spec
CHECK_DEADLOCK FALSE
INVARIANTS
  ExactIsTrue
  MemoIsFinal
  OverdrawnOnce
  BoundsLoseNothing
