CONSTANTS
  Depth = 4
  Data = {0, 1}
SPECIFICATION Spec
INVARIANTS
  TypeOK
  CountLegal
PROPERTY
  Implements
