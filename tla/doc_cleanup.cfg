SPECIFICATION Spec
CONSTANTS
  a1 = a1
  a2 = a2
  c1 = c1
  c2 = c2
  Foreign = Foreign
  Foreground = TRUE
  Name = "test-upf"
  Providers <- OnlyUPF
  Addrs <- OneAddr
  Config <- ConfigOf1
  Contested <- NoObjects
  Healths <- UpAndDown
  MaxEdits = 2
  MaxMoves = 0
  MaxFaults = 0
  MaxLag = 1
PROPERTIES
  CleanedUp
CHECK_DEADLOCK FALSE
