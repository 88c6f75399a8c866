SPECIFICATION JobsSpec
CONSTANTS
  NJobs = 2
  Threads = {t1, t2}
  d1 = d1
  d2 = d2
  Dirs = {d1, d2, start}
  StartDir = start
  Nowhere = nowhere
  DirOf <- TwoDirs
  Relative = FALSE
  JobsMayFail = FALSE
INVARIANTS OwnDirectory
