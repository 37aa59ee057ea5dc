CONSTANTS
  Word = 4
  FRED_C = 3
  CN_LO = 1
  CN_MID = 1
  Factors <- FourLimbs
  Numbers <- EightLimbs
SPECIFICATION Spec
CHECK_DEADLOCK FALSE
INVARIANTS
  CarriesDie
  DroppedLimbsEmpty
  IsReduction
PROPERTY
  FoldsNumbers
