SPECIFICATION Spec
CONSTANTS
  a1 = a1
  a2 = a2
  c1 = c1
  c2 = c2
  Foreign = Foreign
  Foreground = FALSE
  Name = "test-smf"
  Providers <- OnlySDCore
  Addrs <- OneAddr
  Config <- ConfigOf1
  Contested <- NoObjects
  Healths <- UpAndDown
  MaxEdits = 3
  MaxMoves = 0
  MaxFaults = 0
  MaxLag = 1
INVARIANTS
  ServicesMaintained
CHECK_DEADLOCK FALSE
