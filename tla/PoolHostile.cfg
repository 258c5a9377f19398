SPECIFICATION Spec
CONSTANTS
  Worker = {w1, w2}
  Fd = {f1, f2}
  NoSock = NoSock
  MaxWorkers = 2
  EnablePooling = TRUE
  WaitAllWorkers = TRUE
  SpuriousWakeups = TRUE
  MaxThreadFailures = 1
SYMMETRY Symmetry
INVARIANTS
  CountersMatch
  NothingForgotten
CHECK_DEADLOCK FALSE
