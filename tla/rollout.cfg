SPECIFICATION Spec
CONSTANTS
  a1 = a1
  a2 = a2
  c1 = c1
  c2 = c2
  Foreign = Foreign
  Foreground = FALSE
  Name = "test-smf"
  Providers <- OnlySDCore
  Addrs <- TwoAddrs
  Config <- ConfigOf2
  Contested <- NoObjects
  Healths <- UpAndDown
  MaxEdits = 2
  MaxMoves = 0
  MaxFaults = 1
  MaxLag = 1
  Confined <- WellBehaved
INVARIANTS
  TypeOK
  SurvivorConverges
  PairConverges
PROPERTIES
  PairReportsCurrentSpec
CHECK_DEADLOCK FALSE
