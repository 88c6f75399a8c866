SPECIFICATION MCSpec
CONSTANTS
  NJobs = 5
  Threads = {t1}
  d1 = d1
  d2 = d2
  Dirs = {d1, d2, start}
  StartDir = start
  Nowhere = nowhere
  DirOf <- TwoDirs
  Relative = FALSE
  JobsMayFail = TRUE
  NGroups = 3
  NResos = 3
  Temps = {q1, q2}
  Fits = {v1, v2}
  Shared = FALSE
  Recycle = TRUE
  MayFail = TRUE
  MaxChi2 = 2
  Models = {m1, m2}
  Trees = {k1, k2, k3}
  Values = {"a", "b"}
  Default = "a"
  Missing = "missing"
  MaxCalls = 4
  Idents = {"a", "b"}
  Plugin = "plugin"
  Folders = {"s1", "s2"}
  Nothing = nothing
  Names = {"", "abs", "bad", "rel"}
  Found <- SessionFiles
  FarName = "rel"
  Bad = {"bad"}
  Places = {"u"}
  Defaults <- NewVars
  Changed <- UserVars
  MaxDone = 4
  MaxSteps = 3
  NBranches = 2
  NCurves = 1
  MaxCalcs = 2
  Singular = {"q2"}
  NoReso = noreso
  Algos = {"cn", "pop", "eck", "viol", "simple"}
  Places4 = {"q1", "q2"}
  Open = "open"
  ReflCurves <- CurveFiles
  StartHere = "a"
  Edits <- UserEdits
  Start0 <- FirstFields
  MaxActs = 3
  GroupNames <- FourGroups
  SystemOf <- FourSystems
  Matching <- FilterP
  Extinct <- NoOdd
  Orders = {2, 5}
  Wavelengths = {1, 5}
  Reach = 5
  MaxCurves = 2
  AtomNames = {"H", "O"}
  Stored <- OtherFile
  Before <- EarlierFiles
  MaxMoves = 3
  Numbers <- SmallNumbers
  Positions <- TwoPositions
  Crystals <- TwoCrystals
  HighestE = 5
  MaxTurns = 3
INVARIANTS
  OwnDirectory
  MeasuredConditions OwnInputs Reproducible
  ModelsTrue DialogTrue Reloaded
  ResultsTrue SameResolution EllipsesTrue
  DrawnExists ResultShown NoRelock
  OneSample FieldsAgree
