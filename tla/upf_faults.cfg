SPECIFICATION PromiseSpec
CONSTANTS
  a1 = a1
  a2 = a2
  c1 = c1
  c2 = c2
  Foreign = Foreign
  Foreground = FALSE
  Name = "test-upf"
  Providers <- OnlyUPF
  Addrs <- TwoAddrs
  Config <- ConfigOf2
  Contested <- NoObjects
  Healths <- UpAndDown
  MaxEdits = 3
  MaxMoves = 0
  MaxFaults = 1
  MaxLag = 1
INVARIANTS
  SettledMeansRepaired
  UPFServiceKept
  SettledLeavesNoUPF
PROPERTIES
  EventuallyIdle
  ActsAsPromised
CHECK_DEADLOCK FALSE
