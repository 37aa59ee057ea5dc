CONSTANTS
  P = 43
  B = 7
  N = 31
  Bits = 6
  Bases <- OneBase
  Windows <- FewWindows
  Pending = Pending
  Rejected = Rejected
  Extensions <- SomeExtensions
SPECIFICATION Spec
CHECK_DEADLOCK FALSE
INVARIANTS
  RecodingExact
  NonAdjacent
  DigitsBounded
PROPERTY
  IsScalarMult
