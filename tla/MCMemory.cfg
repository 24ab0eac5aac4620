SPECIFICATION MemorySpec
CONSTANTS
  PAGES = 10
  Available <- UsableFrames
  TOTAL_MEMORY = 9
  E = 2
  KERNEL_TABLES = 3
  HEAP_BASE = 3
  BootRanges <- BootImage
  Devices <- DeviceRanges
  MaxRequest = 3
INVARIANTS
  FramesArePrivate
  PageTablesAreReachable
  BootLayoutIsKept
  NoFrameLeaks
PROPERTIES
  OwnedMappingsAreStable
  UsesPhysicalAllocator
  CallsReturn
CHECK_DEADLOCK FALSE
