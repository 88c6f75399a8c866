SPECIFICATION FairSpec
CONSTANTS
  NPars = 2
  Default = d
  Vals = {d, bad, sep}
  BadVals = {bad}
  SepVals = {sep}
  BufCap = 1
  Queries = {q1, q2}
  BigDisp = {q2}
  Clients = {o, c1}
  Owner = o
  NoClient = none
  QueueSize = 1
  ChildMayDie = FALSE
PROPERTIES ImplementsSqwModel MutexReleased ChildQuits
