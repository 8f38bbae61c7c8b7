SPECIFICATION DrainedSpec
CONSTANTS
  MaxConns = 2
  PeerMayStall = TRUE
INVARIANTS
  TypeOK
  SocketsAreWatched
  ClosedIsQuiet
PROPERTIES
  SlotImplemented
  LossIsReported
  CloseReturns
