SPECIFICATION Spec
CONSTANTS
  mul_ct = mul_ct
  jp_add = jp_add
  fadd = fadd
  renamed = renamed
  Compilers <- TwoCompilers
  Runs = 2
  Strict = {mul_ct}
  Artefact = {jp_add}
  Lenient = {fadd}
  Unknown = {renamed}
  Readings <- SomeReadings
  OverPct = 50
  ArtefactMean = 35
  LenientMean = 15
  LenientMax = 100
  Sinks = {"stick", "readonly", "filling", "unmountable", "absent"}
  None = None
INVARIANTS PassIsEarned FailIsEarned SweepSumsUp RowsAreDurable 
CHECK_DEADLOCK FALSE
