SPECIFICATION CertificateSpec
CONSTANTS
  Cover <- MCCover
  Rows <- MCRows
  CostValue = {3, 5, 16, 24, 56}
  DualValue <- MCDualValue
  AbsGap = 20
  Tol = 16
  Mantissa = 8
  Spacings = {1, 2, 4, 8, 16, 32}
INVARIANTS
  CertifiedOptimal
  FixingKeepsGoodPartitions
CHECK_DEADLOCK FALSE
