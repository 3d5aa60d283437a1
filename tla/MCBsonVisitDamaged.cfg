SPECIFICATION Spec
CONSTANTS
  Tasks <- DamagedTasks
  MaxRecursion = 2
INVARIANT AcceptsOnlyDocuments
CHECK_DEADLOCK FALSE
