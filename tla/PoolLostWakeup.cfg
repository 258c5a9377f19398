SPECIFICATION Spec
CONSTANTS
  Worker = {w1, w2}
  Fd = {f1, f2}
  NoSock = NoSock
  MaxWorkers = 1
  EnablePooling = TRUE
  WaitAllWorkers = FALSE
  SpuriousWakeups = FALSE
  MaxThreadFailures = 0
INVARIANT AcceptorWaitsForWorker
CHECK_DEADLOCK FALSE
