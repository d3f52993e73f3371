SPECIFICATION ChunkSpec
CONSTANTS
  MAX_CHAR_LEN = 2
  NegativeChars = {1, 2}
  ChunkSize = 4
  Streams <- MCStreams
INVARIANT TempBufferSuffices
CHECK_DEADLOCK FALSE
