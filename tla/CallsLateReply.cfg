SPECIFICATION Spec
CONSTANTS
  Callers = {join}
  Readers = {reader}
  MaxRef = 1
  MaxReplies = 1
INVARIANT
  NeverPanics
