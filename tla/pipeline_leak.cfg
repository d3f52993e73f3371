SPECIFICATION Spec
CONSTANTS
  Lines <- MCLines
  MAX_ARGS = 11
  MaxStages = 3
  MaxFds = 9
  Capacity = 1
  Units = 2
  MaxLines = 1
CHECK_DEADLOCK FALSE
PROPERTY AllClosedAtPrompt
