SPECIFICATION Spec
CONSTANTS
  Images <- OneNumber
  Paths <- PathA
INVARIANTS
  MissingKeyReturnsZero
CHECK_DEADLOCK FALSE
