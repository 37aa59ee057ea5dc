CONSTANTS
  N = 31
  Bits = 7
  Weight <- TwoToThe
  Points <- Doubled
  Infinity <- DoubledInfinity
  Base <- DoubledBase
  Log <- DoubledLog
  Add <- DoubledAdd
  Double <- DoubledDouble
  Pending = Pending
  Rejected = Rejected
SPECIFICATION Spec
INVARIANTS
  RegistersDifferByBase
PROPERTY
  IsScalarMult
CHECK_DEADLOCK FALSE
