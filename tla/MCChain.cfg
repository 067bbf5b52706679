SPECIFICATION Spec
CONSTANTS
  Value = {0, 1}
  Silence = 0
  Layouts <- MCLayouts
  RingDepth = 2
  AdaptiveDepth = 3
INVARIANTS
  TypeOK
  HardwareLag
PROPERTY WiringSpec
