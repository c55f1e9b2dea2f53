SPECIFICATION MCSpec
CONSTANTS
  Graphs <- MCGraphs
  Profiles = {"cooperative", "fixed", "adaptive"}
  Kappas = {0, 1, 2}
  Depot = 0
  Customers = {1, 2, 3, 4}
  Stations = {8}
  Dist <- MCDist
  Service <- MCService
  Consumption = 1
  Capacity = 12
  MaxDuration = 12
  Curve <- MCCurve
  Score <- MCScore
  Starts <- MCStarts
  Lambdas = {1, 2}
  Gamma = 2
  Paths <- MCPaths
  Tolerance = 0
  Infinity = 1000
  MaxKeyVisits = 4
  MaxVersion = 6
  MaxCalls = 2
  MaxPasses = 3
  Cuts = {2}
INVARIANTS
  ReserveBacked
  EndsExhausted
  MemoryNeverMisleads
PROPERTIES
  Terminates
CHECK_DEADLOCK FALSE
