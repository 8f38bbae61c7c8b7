SPECIFICATION ChecksFairSpec
CONSTANTS
  Requests = {r1, r2}
  Checks = {c1}
INVARIANTS
  ChecksTypeOK
  CountIsExact
  AwaitedAreFinished
PROPERTY
  HandlersEnd
