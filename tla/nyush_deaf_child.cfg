SPECIFICATION Spec
CONSTANTS
  Pids = {p1, p2, p3}
  p1 = p1
  p2 = p2
  p3 = p3
  Commands = {c1}
  c1 = c1
  LongCommands = {c1}
  MaxStages = 1
  MAX_JOBS = 2
  NULL = NULL
PROPERTY CtrlCReachesChildren
