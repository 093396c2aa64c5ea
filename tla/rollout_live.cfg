SPECIFICATION Spec
CONSTANTS
  a1 = a1
  a2 = a2
  c1 = c1
  c2 = c2
  Foreign = Foreign
  Foreground = FALSE
  Name = "test-smf"
  Providers <- Either
  Addrs <- OneAddr
  Config <- ConfigOf1
  Contested <- SomeWatched
  Healths <- UpAndDown
  MaxEdits = 1
  MaxMoves = 1
  MaxFaults = 0
  MaxLag = 1
  Confined <- WellBehaved
INVARIANTS
  PairConverges
PROPERTIES
  PairEventuallyConverges
  PairComesToRest
CHECK_DEADLOCK FALSE
