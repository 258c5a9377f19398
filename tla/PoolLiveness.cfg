SPECIFICATION FairSpec
CONSTANTS
  Worker = {w1, w2}
  Fd = {f1, f2}
  NoSock = NoSock
  MaxWorkers = 2
  EnablePooling = TRUE
  WaitAllWorkers = FALSE
  SpuriousWakeups = FALSE
  MaxThreadFailures = 1
PROPERTIES
  StopEndsWorkers
  
  
CHECK_DEADLOCK FALSE
