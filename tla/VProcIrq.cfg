CONSTANTS
  MAXINTERRUPTS = 2
  MaxNest = 3
SPECIFICATION Spec
INVARIANTS
  TypeOK
  NestedByPriority
PROPERTIES
  Answered
