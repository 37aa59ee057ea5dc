CONSTANTS
  P = 13
  B = 2
  N = 19
  Bits = 6
  Weight <- TwoToThe
  Unset = Unset
  Pending = Pending
  Rejected = Rejected
SPECIFICATION Spec
INVARIANT
  AliasingIsHarmless
PROPERTIES
  TakesRubySteps
  IsScalarMult
CHECK_DEADLOCK FALSE
