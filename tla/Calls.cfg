SPECIFICATION FairSpec
CONSTANTS
  Callers = {join, refresh}
  Readers = {oldReader, newReader}
  MaxRef = 2
  MaxReplies = 2
INVARIANTS
  TypeOK
  EntriesAreCalls
PROPERTIES
  OutcomeImplemented
  CallReturns
