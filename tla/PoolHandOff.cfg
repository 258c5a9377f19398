SPECIFICATION Spec
CONSTANTS
  Worker = {w1, w2, w3, w4}
  Fd = {f1, f2, f3, f4}
  NoSock = NoSock
  MaxWorkers = 3
  EnablePooling = TRUE
  WaitAllWorkers = FALSE
  SpuriousWakeups = FALSE
  MaxThreadFailures = 1
SYMMETRY Symmetry
INVARIANTS
  TypeOK
  CountersMatch
  WithinLimit
  EveryNoticeHasRequest
  SingleOwner
  NothingForgotten
PROPERTY ImplementsHandOff
CHECK_DEADLOCK FALSE
