SPECIFICATION MCSpec

CONSTANTS
  Conns = {c1, c2}
  Ports = {p1, p2}
  MaxClients = 2
  NFds = 3
  MaxRelistens = 2
  Asked <- MCAsked
  MaxPosts = 1

INVARIANTS
  SlotsOwnClients
  ListenerHeard

PROPERTIES
  Served
  AcceptedKept

CHECK_DEADLOCK FALSE
