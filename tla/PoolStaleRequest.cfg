SPECIFICATION Spec
CONSTANTS
  Worker = {w1, w2}
  Fd = {f1, f2}
  NoSock = NoSock
  MaxWorkers = 2
  EnablePooling = TRUE
  WaitAllWorkers = TRUE
  SpuriousWakeups = FALSE
  MaxThreadFailures = 0
INVARIANT WorkersServeOpenSockets
CHECK_DEADLOCK FALSE
