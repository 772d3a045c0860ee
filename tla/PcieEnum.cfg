CONSTANTS
  Depth = 3
SPECIFICATION Spec
INVARIANTS
  TypeOK
  AnswersItsQuestion
  EnumerationRight
PROPERTIES
  ReadOnlyKept
  Ends
CHECK_DEADLOCK FALSE
