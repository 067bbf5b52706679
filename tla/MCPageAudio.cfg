SPECIFICATION Spec
CONSTANTS
  Keys <- MCKeys
  MaxUnits = 2
  Clicks = 4
  Fails = 1
INVARIANTS
  TypeOK
  EngineWhole
  ShownAsRunning
  SlotsFollow
  SoleUnit
CHECK_DEADLOCK FALSE
