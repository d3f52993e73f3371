SPECIFICATION FairSpec
CONSTANTS
  Pids = {p1, p2, p3}
  p1 = p1
  p2 = p2
  p3 = p3
  Commands = {c1, c2}
  c1 = c1
  c2 = c2
  LongCommands = {c2}
  MaxStages = 2
  MAX_JOBS = 2
  NULL = NULL
INVARIANTS
  TypeOK
  JobsAreUnreaped
  NoLostChild
  JobKeepsCommand
PROPERTIES
  JobsInStopOrder
  CommandReturns
  ImplementsJobControl
