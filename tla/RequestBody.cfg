SPECIFICATION FairPythonSpec
CONSTANTS
  Contexts <- MCContexts
  BufferSize = 12
  MaxPrints = 1
INVARIANTS
  TypeOK
  MultipartLoaded
  
  FormLoaded
  QueryLoaded
  BodyConsumed
  OwnOutput
  UploadsDeleted
PROPERTY LoadingEnds
CHECK_DEADLOCK FALSE
