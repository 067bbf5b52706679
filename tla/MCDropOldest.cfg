\* One connection in which the device is slow.
SPECIFICATION Spec
CONSTANTS
  RingDepth = 1
  AdaptiveDepth = 2
  Pipeline = 2
  Periods = 5
PROPERTY DropsOldest
