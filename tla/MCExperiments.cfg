SPECIFICATION Spec
CONSTANTS
  Size = 3
  Lookups = 4
  Keys = {0, 1, 4}
  Repeat = 2
  MaxStreams = 4
  N = 4
  Values = {0, 1, 2, 4}
  Queries <- MCQueries
  BucketCount = 2
  LookAhead = 2
  DbSize = 3
  RowsPerTx = 3
  RowSize = 2
  WriteSize = 1
  ByteMod = 2
  BatchSize = 2
  NumWorkers = 3
  ReadCnt = 5
  BatchSz = 2
  BufSz = 2
  TerminationCount = 13
  PrintEvery = 2
INVARIANTS
  SumIsRight
  RingIsFaithful
  FramesBounded
  BinarySearchIsRight
  InStep
  NoBatchLeft
PROPERTIES
  IsASet
  ProfilesYcsb
  NanotestTerminates
  AllJoined
