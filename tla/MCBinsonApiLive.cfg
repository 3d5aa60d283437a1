SPECIFICATION FairSpec
CONSTANTS
  Images <- ShapeImages
  Paths <- AllPaths
PROPERTIES
  ImplementsFairPathSearch
CHECK_DEADLOCK FALSE
