\* Up to three entries of a memory map, of which the third does not fit the
\* array; and every sequence of calls of the allocator.
SPECIFICATION MachinesSpec
CONSTANTS
  PAGES = 10
  Available <- UsableFrames
  TOTAL_MEMORY = 9
  PageSize = 4
  Limit = 16
  Addresses <- NearBoundaries
  Lengths <- ShortLengths
  ModuleRanges <- ModulePlaces
  MaxEntries = 3
  MaxModules = 2
  MEMORY_MAP_SIZE = 2
  MODULES_SIZE = 1
INVARIANTS
  NoFreePageBelowBestBet
  ReservedStaysUsed
  UsedMemoryIsExact
  KeepsPhysicalAssumption
PROPERTIES
  ImplementsFrameAllocator
CHECK_DEADLOCK FALSE
