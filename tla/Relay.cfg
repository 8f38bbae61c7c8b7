SPECIFICATION FairSpec
CONSTANTS
  Frames = {f1, f2}
  Closer = closer
  Stopper = stopper
  CloseFrame = bye
  Free = free
  MaxBackend = 1
INVARIANTS
  TypeOK
  FramesAreSettled
PROPERTIES
  FifoImplemented
  RelayEnds
