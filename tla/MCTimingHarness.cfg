CONSTANTS
  Word = 4
  FRED_C = 3
  C_N = 22
  SmallMask = 1
  ByteMask = 1
  Durations = {1, 2, 9}
  Measurements = 5
  CurveP = 7
  CurveB = 3
  CurveN = 13
SPECIFICATION HarnessSpec
CHECK_DEADLOCK FALSE
INVARIANTS
  ClassesContrast
  ExitIsEarned
 
