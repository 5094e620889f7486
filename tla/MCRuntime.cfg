SPECIFICATION RtFairSpec
CONSTANTS
  a = a
  b = b
  c = c
  Cowns = {a, b, c}
  Workers = {w1, w2}
  NumTxns = 4
  Whens <- MCWhens
INVARIANTS
  Isolation
  SpawnOrder
PROPERTIES
  EveryTxnFinishes
