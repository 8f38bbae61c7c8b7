SPECIFICATION Spec
CONSTANT
  Requests = {r1, r2}
INVARIANT
  WaitReturns
