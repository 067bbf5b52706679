SPECIFICATION FairSpec
CONSTANTS
  SeqMod = 3
  MaxPot = 0
  Readings = {0}
  MaxRx = 2
  MaxTx = 1
  MaxLog = 2
  Offered <- MCOffered
INVARIANTS
  TypeOK
  RepliesMatch
  AcceptedInSequence
  AudioOwnership
  ControlSource
PROPERTIES
  AppliedIffOk
  GapNeedsBaseline
  ExitRestoresI2S
