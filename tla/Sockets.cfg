SPECIFICATION FairSpec
CONSTANTS
  Ids = {a, b}
  Closers = {c1}
  Stopper = stop
  NoId = noId
  MaxConns = 2
INVARIANTS
  TypeOK
  MapMatchesLoops
  CancelSilences
PROPERTIES
  CloseAllReturns
  StopReleasesDials
