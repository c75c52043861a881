SPECIFICATION PipeSpec
CONSTANTS
  N = 2
  VBufs = {v1, v2}
  Bufs = {b1}
  Sizes = {small}
  NoBuf = NoBuf
  Workers = {w1}
  QueueCap = 1
  ResultCap = 1
  MaxSeq = 2
  MaxSessions = 2
  MaxReloads = 2
  MaxSegments = 1
SYMMETRY Symmetric

CONSTRAINT FewRestarts
INVARIANTS
  NoneForgotten
PROPERTIES
  OnlySlipsLose
  ImplementsContract
CHECK_DEADLOCK FALSE
