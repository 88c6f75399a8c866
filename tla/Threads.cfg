SPECIFICATION MCSpec
CONSTANTS
  NSteps = 4
  StartWith = {"start", "menu"}
  MaxQueue = 2
  MaxConn = 3
  NObjs = 3
  MaxPicture = 2
  MaxSize = 2
  NJobs = 4
  Threads = {t1, t2}
  Dirs = {"start", "d1", "d2"}
  StartDir = "start"
  Nowhere = "nowhere"
  DirOf <- ThereAndBack
  Relative = TRUE
  JobsMayFail = FALSE
INVARIANTS
  NoFreeze LockedAndFreed
  PictureComplete ResizeKept
  OwnLog
PROPERTIES
  EveryRunEnds
  CrystalKept DisconnectEnds
  RenderServes PictureShown
CHECK_DEADLOCK FALSE
