SPECIFICATION FairSpec
CONSTANTS
  Count = 7
  MaxBatch = 3
  ChannelSizeIdxPref = 1
  ChannelSize = 1
  RpcLogSize = 10
  WordMod = 16
INVARIANTS
  TypeOK
  StampedBeforeDispatch
  BatchesConserved
  EntryInLog
  PreparedBeforeDispatch
  CursorsMeet
PROPERTIES
  EveryRequestDispatched
