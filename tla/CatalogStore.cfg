SPECIFICATION StoreSpec
CONSTANTS
  ab = ab
  ba = ba
  ac = ac
  Nothing = Nothing
  Corrupt = Corrupt
  Key <- MCKey
  Bytes <- MCBytes
  Block <- MCBlock
  Budget = 6
  DiskLimit = 10
  PageBudget = 4
  Signature = {"double", "extended"}
CHECK_DEADLOCK FALSE
INVARIANTS
  ReadsTrue
PROPERTIES
  CacheSpec
