SPECIFICATION FairSpec
CONSTANTS
  Count = 4
  MaxBatch = 2
  ChannelSizeIdxPref = 1
  ChannelSize = 1
  RpcLogSize = 4
  WordMod = 7
  Workers = {w1, w2}
  Base = 1024
  NumResrc = 2
  NumAccounts = 4
  MaxWrites = 2
  TxnTypes = {"Mixed", "Nft", "P2p", "Dex"}
  Log <- MCLog
INVARIANTS
  NamesItsRows
  ConflictsAreRows
  RequestOrder
  ExecutedAreCounted
PROPERTIES
  EveryRequestExecuted
