CONSTANTS
  a = a
  b = b
  Node <- MCNode
  Programs <- MCPrograms
  Skews = {0, 1, 2, 3}
  Lats = {1, 3}
  TsTime = 4
  QuietTo = 4
  PollTx = 16
  RestTime = 40
  HideTime = 50
SPECIFICATION Spec
INVARIANTS
  TypeOK
  LinkAgreed
  FtsLearned
  InStep
PROPERTY
  Trains
CHECK_DEADLOCK FALSE
