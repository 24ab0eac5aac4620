\* Four nodes: two inside the list, its ends, and reuse of deleted nodes.
SPECIFICATION LibsystemSpec
CONSTANTS
  Values <- TwoValues
  Nodes = {n1, n2, n3, n4}
  Null = Null
  a = a
  b = b
  c = c
  inA = inA
  inB = inB
  p1 = p1
  p2 = p2
  p3 = p3
  Nullptr = Nullptr
  Targets <- ThreeObjects
  OwnPtrs <- FivePointers
  MemberOf <- MemberOfOwner
  NULL = NULL
  Objects <- TwoObjects
  Pointers <- FivePointers
  Owner <- MemberOfCounted
  ResetsHolding = FALSE
  Codepoints <- Edges
SYMMETRY Addresses
INVARIANTS
  ForeachVisitsEach
  OwnersAreExclusive
  CountsAreExact
  DecodesWhatWasEncoded
  ResynchronizesAfterOne
PROPERTY
  ImplementsSequence
CHECK_DEADLOCK FALSE
