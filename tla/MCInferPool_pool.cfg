SPECIFICATION FairSpec
CONSTANTS
  Workers = {w1, w2}
  Cap = 2
  ResultCap = 1
  MaxJobs = 4
  MaxStops = 1
INVARIANTS
  JobsOnce
PROPERTIES
  StopEnds
  ClaimsDropped
CHECK_DEADLOCK FALSE
