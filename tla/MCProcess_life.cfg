SPECIFICATION FairSpec

CONSTANTS
  NMods = 3
  Dog = 2
  MaxMiss = 2
  MaxSlow = 1
  MaxErrors = 1
  MaxStarts = 2
  MaxSaves = 1

INVARIANTS
  NoFalseAlarm
  DestroyedAlone
  ConfigWhole

PROPERTIES
  SlowIsNoticed
  FatalRestarts

CHECK_DEADLOCK FALSE
