SPECIFICATION PromiseSpec
CONSTANTS
  a1 = a1
  a2 = a2
  c1 = c1
  c2 = c2
  Foreign = Foreign
  Foreground = FALSE
  Name = "test-smf"
  Providers <- OnlySDCore
  Addrs <- TwoAddrs
  Config <- ConfigOf2
  Contested <- SMFWatched
  Healths <- UpAndDown
  MaxEdits = 2
  MaxMoves = 1
  MaxFaults = 0
  MaxLag = 1
INVARIANTS
  SettledMeansConverged
PROPERTIES
  EventuallyConverged
  KeepsPromise
CHECK_DEADLOCK FALSE
