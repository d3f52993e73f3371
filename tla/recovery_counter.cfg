SPECIFICATION Spec
CONSTANTS
  Firsts = {f1, f2}
  f1 = f1
  f2 = f2
  Bytes = {b1, b2}
  b1 = b1
  b2 = b2
  ClusterSize = 2
  UIntMod = 4
  NumFATs = 2
  Slots = {1, 2}
  LastCluster = 3
  Names <- MCNames
  Blocks <- MCBlocks
  Blank <- MCBlank
  MaxSize = 3
  MaxCreates = 1
  MaxKills = 0
  MaxPowerFailures = 0
  NULL = NULL
SYMMETRY Symmetry
CHECK_DEADLOCK FALSE
INVARIANT CounterIsEnough
