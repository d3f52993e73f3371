SPECIFICATION Spec
CONSTANTS
  NameLen = 3
  ExtLen = 1
  Legal = {"A", "B"}
  EntrySize = 2
  FatEntrySize = 1
  UIntMod = 42
  ShortMod = 4
  EndMark = 20
  Window = 8
  MaxClusters = 2
  MaxCandidates = 2
  Foreign <- MCForeign
  CommandLines <- MCCommandLines
  Images <- MCImages
  NULL = NULL
INVARIANTS
  ListingIsTheRoot
  CrashOnlyWithoutDigest
PROPERTIES
  RecoversOnlyTheDeleted
  CommandEnds
