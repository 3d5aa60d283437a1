SPECIFICATION Spec
CONSTANTS
  INT64_MAX = 32767
  INT32_MAX = 127
  STACK_MAX = 3
  HugeDoubles <- Huge
  DateOf <- AllDates
  BSON_JSON_DEFAULT_BUF_SIZE = 3
  BufSizes = {2, 40}
  CanFail = TRUE
  Tools <- AllTools
  Args <- AllArgs
INVARIANTS
  InStep
  ReadsWhatIsWritten
  EndsAreToldApart
PROPERTIES
  Ends
CHECK_DEADLOCK FALSE
