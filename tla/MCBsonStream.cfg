SPECIFICATION Spec
CONSTANTS
  InitialLen = 4
  CanFail = TRUE
  Tools <- AllTools
  Args <- AllArgs
  Valid <- IsDocument
  FirstBuffer = 8
  Initial <- AllInitial
  Reallocs = {TRUE, FALSE}
  Appended <- AllAppended
  Limit = 20
INVARIANTS
  BuffersInOrder
  NullIsEndOrError
  ToolsTellTheStream
PROPERTIES
  ReadsTheStream
  FinishedStay
  Ends
CHECK_DEADLOCK FALSE
