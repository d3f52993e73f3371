SPECIFICATION ChunkSpec
CONSTANTS
  MAX_CHAR_LEN = 2
  NegativeChars = {2}
  ChunkSize = 4
  Streams <- MCStreams
INVARIANTS
  MergeIsCanonical
  SameAsSequential
CHECK_DEADLOCK FALSE
