SPECIFICATION FairSpec
CONSTANTS
  Images <- AllFiles
  MaxOut = 40
INVARIANTS
  StaysOnTrack
  OutputIsText
PROPERTIES
  Terminates
CHECK_DEADLOCK FALSE
