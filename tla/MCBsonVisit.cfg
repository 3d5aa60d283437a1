SPECIFICATION Spec
CONSTANTS
  Tasks <- AllTasks
  MaxRecursion = 2
INVARIANTS
  WalksInOrder
  ValidatesExactly
  DamageIsFound
  JsonOfDocument
  FindsByTheGrammar
PROPERTIES
  RejectionStands
CHECK_DEADLOCK FALSE
