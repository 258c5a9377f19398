SPECIFICATION Spec
CONSTANTS
  MaxBuffer = 3
  MaxChunk = 2
  NoLength = NoLength
  MaxBody = 7
INVARIANT MethodLoaded
CHECK_DEADLOCK FALSE
