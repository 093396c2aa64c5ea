SPECIFICATION Spec
CONSTANTS
  Characters <- AnyCharacters
  Hosts <- TwoHosts
  Lengths <- SomeLengths
  InterfaceNames <- SomeNames
  MaxInterfaces = 3
INVARIANTS
  TypeOK
  TwoDigitsStripped
PROPERTIES
  OthersDoNotMatter
CHECK_DEADLOCK FALSE
