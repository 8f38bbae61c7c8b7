SPECIFICATION FairSpec
CONSTANTS
  MaxInt = 7
  InitialBackoff = 3
  MaxBackoff = 6
  MaxRetries = 2
  MaxAttempts = 3
  MaxAge = 4
PROPERTY
  SilenceIsNoticed
