CONSTANTS
  P = 7
  B = 3
  N = 13
  MaxInt = 9
  Scalars <- SomeScalars
  Nil = Nil
  NotInteger = NotInteger
  Arguments <- SomeArguments
  Refused = Refused
  Extensions <- SomeExtensions
SPECIFICATION Spec
CONSTRAINTS
  RawWithoutPermission
  MulWithOneOperand
  RefusalWithOneOperand
INVARIANTS
  NativeMeansAll
  LadderIsGuarded
  DecodesExactly
  PointsAreTheGroup
  RubyIsGroupLaw
  NativeIsGroupLaw
  SameTriples
