SPECIFICATION Spec
CONSTANTS
  Clients = {c1}
  RingN = 2
  MaxFrames = 4
  MaxSessions = 2
  MaxJoins = 1
INVARIANTS
  OneSession
CHECK_DEADLOCK FALSE
