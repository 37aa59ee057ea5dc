CONSTANTS
  Word = 4
  P = 251
  N = 239
  Bits = 8
  Numbers <- AroundWord
  WideNumbers <- AroundTwoWords
  NotInteger = NotInteger
  Nil = Nil
  TypeError = TypeError
  ArgumentError = ArgumentError
  Pending = Pending
SPECIFICATION Spec
CHECK_DEADLOCK FALSE
INVARIANTS
  MatchesRuby
  InverseOrRefusal
  RootOrNil
