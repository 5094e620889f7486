SPECIFICATION DpSpec
CONSTANTS
  Count = 5
  MaxBatch = 3
  RpcLogSize = 9
  WordMod = 9
  Workers = {w1, w2, w3}
  AnnounceSize = 2
  BatchSizes = {1, 2}
  NumTxns = 7
  InitRegistered = {FALSE}
  InitExecSum = {0}
  SampleRate = 3
  TxCounterLogSize = 5
  BufSize = 3
INVARIANTS
  FdPrepared
  SumOnQuietMap
  SumWasRight
  NeverReallocated
  LoggedArePrinted
  LossIsOneBuffer
PROPERTIES
  FdTerminates
