SPECIFICATION Spec
CONSTANTS
  BCON_STACK_MAX = 3
  Tasks <- AllTasks
INVARIANTS
  WritesAsListed
  AbortsOnMisuse
  ExtractsAsListed
CHECK_DEADLOCK FALSE
