SPECIFICATION Spec
CONSTANTS
  a1 = a1
  a2 = a2
  c1 = c1
  c2 = c2
  Foreign = Foreign
  Foreground = FALSE
  Name = "test-upf"
  Providers <- OnlyUPF
  Addrs <- OneAddr
  Config <- ConfigOf1
  Contested <- UnlikeEach
  Healths <- UpAndDown
  MaxEdits = 1
  MaxMoves = 3
  MaxFaults = 0
  MaxLag = 2
  Confined <- WellBehaved
INVARIANTS
  SurvivorConverges
  PairConverges
PROPERTIES
  PairRespectsForeign
CHECK_DEADLOCK FALSE
