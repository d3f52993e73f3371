SPECIFICATION Spec
CONSTANTS
  ClusterSize = 2
  UIntMod = 16
  Clusters <- MCClusters
  ScanLimit = 5
  MaxClusters = 3
  Datas <- MCDatas
  EntryLists <- MCEntryLists
  Wants <- MCWants
  NULL = NULL
CHECK_DEADLOCK FALSE
INVARIANTS
  TypeOK
  MarksAreUndone
  FoundIsAnArrangement
  NoMatchMissed
PROPERTY SearchEnds
