SPECIFICATION Spec
CONSTANTS
  Firsts = {f1, f2}
  f1 = f1
  f2 = f2
  Bytes = {b1, b2}
  b1 = b1
  b2 = b2
  ClusterSize = 1
  UIntMod = 16
  NumFATs = 2
  Slots = {1, 2}
  LastCluster = 3
  Names <- MCNames
  Blocks <- MCBlocks
  Blank <- MCBlank
  MaxSize = 2
  MaxCreates = 2
  MaxKills = 1
  MaxPowerFailures = 1
  NULL = NULL
SYMMETRY Symmetry
CHECK_DEADLOCK FALSE
INVARIANTS
  RecoveredIsIntact
  NoCrossLinks
  KilledRLeavesNoHalfFile
PROPERTY FilesStay
