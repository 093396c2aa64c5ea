SPECIFICATION PromiseSpec
CONSTANTS
  a1 = a1
  a2 = a2
  c1 = c1
  c2 = c2
  Foreign = Foreign
  Foreground = FALSE
  Name = "test-amf"
  Providers <- Switching
  Addrs <- OneAddr
  Config <- ConfigOf1
  Contested <- NoObjects
  Healths <- UpAndDown
  MaxEdits = 2
  MaxMoves = 0
  MaxFaults = 1
  MaxLag = 1
INVARIANTS
  SettledMeansConverged
  SettledMeansRepaired
PROPERTIES
  KeepsPromise
CHECK_DEADLOCK FALSE
