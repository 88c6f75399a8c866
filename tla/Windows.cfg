SPECIFICATION MCSpec
CONSTANTS
  Keys = {"stt", "a", "b"}
  Parameters = {"tt", "pair"}
  Sources <- MCSources
  MaxVal = 1
  MaxConn = 2
  MaxQueue = 2
  CrystalData = {c1, c2}
  BadPlane = bad
  Peaks = {g1, g2}
  Lists = {"empty", "some"}
  Empty = "empty"
  Files = {"a"}
  MaxSession = 4
  Dirs = {"scans", "more"}
  ScanFiles = {"f", "g"}
  NRows = 3
  MaxTrim = 1
  MaxActs = 4
SYMMETRY Symmetry
INVARIANTS
  RowsTrue SceneFollows
  GotoReaches CrystalCurrent RoundTrip
  PlotTrue ListTrue
CHECK_DEADLOCK FALSE
