CONSTANTS
  R = 256
  C = 15
  Folds = 2
  Inputs <- TwoWords
SPECIFICATION Spec
CHECK_DEADLOCK FALSE
INVARIANTS
  Congruent
  Narrows
  Reduced
