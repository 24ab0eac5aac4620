SPECIFICATION HeapSpec
CONSTANTS
  MAJOR = 3
  MINOR = 3
  ALIGNMENT = 2
  ALIGN_INFO = 2
  PAGE_SIZE = 16
  PAGE_COUNT = 6
  HeapPages = 18
  Requests <- SmallAndLarge
INVARIANTS
  BlocksAreDisjoint
  CountersAreExact
PROPERTIES
  GrowsOnlyWhenFull
CHECK_DEADLOCK FALSE
