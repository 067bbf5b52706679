\* The operator holds the pot at 2 while a hardware session runs.
SPECIFICATION FairSpec
CONSTANTS
  SeqMod = 2
  MaxPot = 2
  Readings = {2}
  MaxRx = 1
  MaxTx = 1
  MaxLog = 1
  Offered <- MCOffered
PROPERTY PotsApproachKnob
