\* Archives of up to three entries; MaxDirs and MaxFiles are more than they create.
SPECIFICATION FilesSpec
CONSTANTS
  Paths <- MCPaths
  Data <- MCData
  MaxDirs = 9
  MaxFiles = 8
  SUCCEED = SUCCEED
  NO_SUCH_FILE = NO_SUCH_FILE
  OUT_OF_MEMORY = OUT_OF_MEMORY
  Missing = Missing
  Unset = Unset
  BlockSize = 2
  ModuleLists <- Ramdisks
  BufferSize = 2
INVARIANTS
  EveryFileIsLoaded
  TreeIsWellFormed
PROPERTIES
  BootEnds
  ImplementsFileStore
CHECK_DEADLOCK FALSE
