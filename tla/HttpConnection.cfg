SPECIFICATION FairSpec
CONSTANTS
  Directories <- MCDirectories
  Files <- MCFiles
  Extension <- MCExtension
  NotPortable = {".."}
  Requests <- MCRequests
  MaxRequests = 2
  BufferSize = 2
  KeepAliveEnabled = TRUE
  NoLength = NoLength
INVARIANTS
  TypeOK
  FramingKept
  ReadsOwnBody
  AnsweredBeforeNext
  BrokenAnswerIsLast
  
PROPERTY RequestEnds
CHECK_DEADLOCK FALSE
