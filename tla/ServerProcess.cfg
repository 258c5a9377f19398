SPECIFICATION ProcessSpec
CONSTANTS
  None = None
  NoFile = NoFile
  Folders <- MCFolders
  LocalTexts <- MCLocalTexts
  Libraries <- MCLibraries
  Initializes <- MCInitializes
  Thread = {t1, t2}
  MaxMessages = 1
  MaxFileSize = 1
  TimeStamps = {1}
  OldFiles <- MCOldFiles
  Command = {c1, c2}
  SettingsTexts <- MCTexts
  InitialSettings <- Defaults
  HandlersFail <- InitHandlersFails
  Parsed <- SettingsOf
  Loaded <- Load
  Configured <- AsConfigured
  Written <- MCWritten
  WrittenLocals <- MCWrittenLocals
  Enforced = {TRUE, FALSE}
  MaxHttpWorkers = 1
  MaxAcceptors = 2
  MaxCommands = 2
INVARIANTS TypeOK  LoadsAsWritten ServesConfigured 
 
CHECK_DEADLOCK FALSE
