CONSTANTS
  ByteRadix = 2
  WordBytes = 2
  AddrBytes = 1
  TimeoutTicks = 1
SPECIFICATION Spec
INVARIANTS
  TypeOK
  QuietWhileWaiting
  CpuHeldWhileProgramming
  SessionHoldsBus
  WritesAsSent
  RepliesMatch
PROPERTY
  CommandEnds
