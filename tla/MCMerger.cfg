\* A ring that is no multiple of the period, so that periods wrap around its end.
SPECIFICATION Spec
CONSTANTS
  Capacity = 5
  BufferLen = 2
  Sample = {0, 1}
  Silence = 0
  MaxSkew = 2
  Period <- MCPeriod
INVARIANTS
  TypeOK
  UnderrunsStop
PROPERTIES
  QueuesSpec
  LossIsShown
