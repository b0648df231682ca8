SPECIFICATION Spec
CONSTANTS
  w1 = w1
  w2 = w2
  w3 = w3
  Old = Old
  Writers <- MCWriters
  Size = 2
INVARIANTS
  TypeOK
  DestinationWhole
  FailureLeavesNothing
PROPERTIES
  Replaced
SYMMETRY Symmetry
CHECK_DEADLOCK FALSE
