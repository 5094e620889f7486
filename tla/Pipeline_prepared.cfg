SPECIFICATION Spec
CONSTANTS
  Count = 6
  MaxBatch = 4
  ChannelSizeIdxPref = 1
  ChannelSize = 1
  RpcLogSize = 9
  WordMod = 16
INVARIANTS
  AlwaysPrepared
