SPECIFICATION Spec
CONSTANTS
  NPars = 1
  Default = d
  Vals = {d, x}
  BadVals = {}
  SepVals = {}
  BufCap = 1
  Queries = {q}
  BigDisp = {}
  Clients = {o, c1, c2}
  Owner = o
  NoClient = none
  QueueSize = 1
  ChildMayDie = TRUE
SYMMETRY Copies
INVARIANTS AnswerMatchesRequest CleanedUp
CHECK_DEADLOCK FALSE
