SPECIFICATION Spec
CONSTANTS
  a1 = a1
  a2 = a2
  c1 = c1
  c2 = c2
  Foreign = Foreign
  Foreground = FALSE
  Name = "test-upf"
  Providers <- OnlyUPF
  Addrs <- OneAddr
  Config <- ConfigOf1
  Contested <- UPFObjects
  Healths <- AllHealths
  MaxEdits = 1
  MaxMoves = 3
  MaxFaults = 0
  MaxLag = 2
INVARIANTS
  SettledMeansRepaired
PROPERTIES
  ForeignUntouched
CHECK_DEADLOCK FALSE
