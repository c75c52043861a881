SPECIFICATION FairSpec
CONSTANTS
  Workers = {w1, w2}
  Cap = 2
  ResultCap = 1
  MaxJobs = 4
  MaxStops = 1
PROPERTIES
  StopAlwaysEnds
CHECK_DEADLOCK FALSE
