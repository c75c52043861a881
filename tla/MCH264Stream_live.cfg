SPECIFICATION FairSpec
CONSTANTS
  Clients = {c1}
  RingN = 2
  MaxFrames = 5
  MaxSessions = 2
  MaxJoins = 1
INVARIANTS
  TypeOK
  RingOfSession
  Playable
PROPERTIES
  StreamsEnd
CHECK_DEADLOCK FALSE
