SPECIFICATION MCSpec

CONSTANTS
  Cap = 2
  NIfaces = 2
  NInit = 1
  Fds <- MCFds
  MaxFrames = 2
  MaxConfigs = 1
  MaxErrors = 1
  ByteBits = 2
  WordBits = 4
  MaxBytes = 3
  Numbers = {0, 1}
  Signals <- MCSignals
  MaxMessages = 2
  MaxSignals = 2
  MaxLines = 4

INVARIANTS
  FramesKept
  Armed
  SocketsHeard
  

PROPERTIES
  Drains

CHECK_DEADLOCK FALSE
