\* One module no handler is for.
SPECIFICATION RamdiskSpec
CONSTANTS
  Paths <- MCPaths
  Data <- MCData
  MaxDirs = 9
  MaxFiles = 8
  SUCCEED = SUCCEED
  NO_SUCH_FILE = NO_SUCH_FILE
  OUT_OF_MEMORY = OUT_OF_MEMORY
  Missing = Missing
  Unset = Unset
  BlockSize = 2
  ModuleLists <- WithUnknown
  BufferSize = 2
PROPERTY
  UnknownModulesAreReported
CHECK_DEADLOCK FALSE
