SPECIFICATION FairSpec
CONSTANTS
  MaxSamples = 2
  MaxMdat = 5
  MaxFiles = 2
  MaxChanges = 1
  MaxCrashes = 1
INVARIANTS
  KeptFilesPlay
  AnnouncedOpen
  RateTaken
PROPERTIES
  NeverOverwritten
  StopTakesEffect
CHECK_DEADLOCK FALSE
