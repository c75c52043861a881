SPECIFICATION Spec
CONSTANTS
  MaxSamples = 2
  MaxMdat = 5
  MaxFiles = 2
  MaxChanges = 1
  MaxCrashes = 0
PROPERTIES
  GivesUpOnSilence
CHECK_DEADLOCK FALSE
