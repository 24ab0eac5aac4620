SPECIFICATION InterruptsSpec
CONSTANTS
  Lines <- Connected
  TickModulus = 2
  MaxRequests <- Times
  MaxNmis = 1
  MaxYields = 1
  MaxFrames = 5
INVARIANT
  InServiceIsUnacknowledged
PROPERTIES
  TicksAreCounted
  RequestsAreServed
CHECK_DEADLOCK FALSE
