\* All calls of up to two directives; an unsigned long has eight bits.
SPECIFICATION PrintfSpec
CONSTANTS
  Formats <- Calls
  Helds <- Contents
  Capacities <- Sizes
  Letters <- AllLetters
  WordBits = 8
  Null = Null
  Nul = Nul
  Running = Running
INVARIANTS
  OutputStaysInTheBuffer
  OutputIsFormatted
PROPERTY
  PrintfReturns
CHECK_DEADLOCK FALSE
