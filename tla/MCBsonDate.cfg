SPECIFICATION DateSpec
CONSTANTS
  TimeMin <- MCTimeMin
  TimeMax <- MCTimeMax
  Texts <- MCTexts
INVARIANTS
  SearchInOrder
  DatesAreReadRight
PROPERTIES
  Answers
CHECK_DEADLOCK FALSE
