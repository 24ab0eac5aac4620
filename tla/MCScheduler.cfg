SPECIFICATION SchedulerSpec
CONSTANTS
  Kernel = Kernel
  Idle = Idle
  a = a
  b = b
  NONE = NONE
  Users <- TwoUsers
  MaxSleep = 2
INVARIANTS
  ThreadsAreOnTheirLists
  ExecutingThreadIsRunning
  BlockEndsWhenDue
PROPERTIES
  DueThreadsRun
CHECK_DEADLOCK FALSE
