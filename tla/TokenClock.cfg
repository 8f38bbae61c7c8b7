SPECIFICATION Spec
CONSTANTS
  Second = 2
  Lifetime = 4
  MaxSkew = 1
  Immediately = 1
  RetryDelay = 1
  ReplyTimeout = 1
  StoreTime = 1
  JitterAbove = 3
  JitterPart = 4
  ShiftAt = 11
  PutForward = 3
  PutBack = 6
  MaxFails = 2
  MaxTime = 12
INVARIANTS TypeOK BootsNewestLive DiagnosisAgrees RefreshedInTime
