SPECIFICATION Spec
CONSTANTS
  N = 2
  VBufs = {v1, v2}
  Bufs = {b1}
  Sizes = {small}
  NoBuf = NoBuf
  MaxSeq = 4
  MaxClaims = 2
SYMMETRY Symmetric
INVARIANTS
  TypeOK
  SlotWindow
  ZeroCopy
  Ownership
  ReleasesExact
PROPERTIES
  FramesMoveOn
  InUse
