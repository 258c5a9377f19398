SPECIFICATION PythonSpec
CONSTANTS
  Contexts <- MCContexts
  BufferSize = 12
  MaxPrints = 1
PROPERTY UploadNamesFree
CHECK_DEADLOCK FALSE
