SPECIFICATION Spec
CONSTANTS
  Images <- AllImages
  Paths <- AllPaths
INVARIANTS
  TypeOK
  OnTrack
  FaultOnlyAfterFailedOpen
  LookupAnswer
  ErrorNotMissed
PROPERTIES
  ForwardOnly
CHECK_DEADLOCK FALSE
