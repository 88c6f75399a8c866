SPECIFICATION Spec
CONSTANTS
  NGroups = 2
  NResos = 2
  Temps = {t1, t2}
  Fits = {v1, v2}
  Shared = FALSE
  Recycle = TRUE
  MayFail = TRUE
  MaxChi2 = 2
INVARIANTS OwnInstrument
CHECK_DEADLOCK FALSE
