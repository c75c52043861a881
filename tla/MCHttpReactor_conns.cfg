SPECIFICATION FairSpec
CONSTANTS
  Clients = {c1, c2}
  Stalled = {c2}
  MaxConn = 2
  NFds = 4
  Pieces = 2
INVARIANTS
  CountExact
  DescriptorsOwn
CHECK_DEADLOCK FALSE
PROPERTIES
  Reclaimed
  Settled
