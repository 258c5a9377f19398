SPECIFICATION FairSpec
CONSTANTS
  MaxBuffer = 3
  MaxChunk = 2
  NoLength = NoLength
  MaxBody = 7
INVARIANTS
  TypeOK
  ClientInSync
  NothingMissing
  FinishedMeansComplete
  MemoryBounded
PROPERTY CallsReturn
CHECK_DEADLOCK FALSE
