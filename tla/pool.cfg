SPECIFICATION FairSpec
CONSTANTS
  Workers = {w1, w2, w3}
  w1 = w1
  w2 = w2
  w3 = w3
  Inputs <- PoolInputs
  CHUNK_SIZE = 2
  MAX_TASK_NUM = 4
  UINT_MAX = 99
  MAX_CHAR_LEN = 3
  NegativeChars = {}
  NULL = NULL
  Main = Main
  Free = Free
INVARIANTS
  TypeOK
  NoNullDereference
  OneWorkerPerTask
  ReadyResultIsComplete
  WriterStopsAtPill
  NoLostWakeup
  OverflowOnlyWhenTooLarge
PROPERTIES
  PublishedResultsStay
  ImplementsStreamEncoder
