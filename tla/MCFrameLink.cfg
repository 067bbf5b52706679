SPECIFICATION Spec
CONSTANTS
  BufferLen = 1
  MaxInner = 8000
  MaxOps = 5
  Mishaps = 1
  Cuts = 1
  Lates = 1
  Bads = 1
INVARIANTS
  TypeOK
  ResultsTrue
  InStep
  FailsForCause
CHECK_DEADLOCK FALSE
