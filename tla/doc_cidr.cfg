SPECIFICATION Spec
CONSTANTS
  Characters <- AnyCharacters
  Hosts <- TwoHosts
  Lengths <- SomeLengths
  InterfaceNames <- SomeNames
  MaxInterfaces = 3
INVARIANTS
  WithoutCIDR
CHECK_DEADLOCK FALSE
