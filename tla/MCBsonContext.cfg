SPECIFICATION Spec
CONSTANTS
  Parent = 1
  Threads <- TwoThreads
  Children <- OneChild
  Owners <- TwoThreads
  Plans <- AllPlans
  Starts = {0}
  Digits = 2
  MaxClock = 1
  MaxOids <- OidsOf
  MaxPending = 2
INVARIANTS
  ContextsInOrder
  UniqueInContext
  Sequential
  NumbersApart
PROPERTIES
  Returns
CHECK_DEADLOCK FALSE
