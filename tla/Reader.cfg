SPECIFICATION ReaderSpec
CONSTANTS
  ChunkSize = 2
  MaxResponseSize = 4
  MaxBody = 8
INVARIANTS
  ReaderTypeOK
  ResponseIsFaithful
  MemoryIsBounded
