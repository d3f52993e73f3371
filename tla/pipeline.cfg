SPECIFICATION FairSpec
CONSTANTS
  Lines <- MCLines
  MAX_ARGS = 11
  MaxStages = 3
  MaxFds = 9
  Capacity = 1
  Units = 2
  MaxLines = 2
CHECK_DEADLOCK FALSE
INVARIANTS
  TypeOK
  OnlyOwnEnds
  NoEarlyEof
  NoEarlyBrokenPipe
  StagesAreTheLine
  ArrayBounds
PROPERTY PipelineEnds
