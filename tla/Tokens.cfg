SPECIFICATION FairSpec
CONSTANTS
  MaxTokens = 3
  SaveTries = 2
  CanForget = TRUE
  CanExpire = TRUE
INVARIANTS
  TypeOK
  TokenIsKept
PROPERTIES
  Reconnects
  StopReturns
