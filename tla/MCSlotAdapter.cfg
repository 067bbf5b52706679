SPECIFICATION FairSpec
CONSTANTS
  RingDepth = 1
  AdaptiveDepth = 2
  Pipeline = 2
  Periods = 5
INVARIANTS
  TypeOK
  CountExact
  NoHostGap
PROPERTIES
  PlayedInOrder
  NoWedge
