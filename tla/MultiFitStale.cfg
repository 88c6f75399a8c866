SPECIFICATION Spec
CONSTANTS
  NGroups = 2
  NResos = 1
  Temps = {t1, t2}
  Fits = {v1, v2}
  Shared = TRUE
  Recycle = TRUE
  MayFail = FALSE
  MaxChi2 = 2
INVARIANTS MeasuredConditions
CHECK_DEADLOCK FALSE
