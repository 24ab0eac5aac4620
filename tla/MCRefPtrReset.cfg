SPECIFICATION RefPtrSpec
CONSTANTS
  a = a
  b = b
  inA = inA
  inB = inB
  p1 = p1
  p2 = p2
  p3 = p3
  NULL = NULL
  Objects <- TwoObjects
  Pointers <- FivePointers
  Owner <- MemberOf
  ResetsHolding = TRUE
INVARIANTS
  DerefAssertHolds
CHECK_DEADLOCK FALSE
