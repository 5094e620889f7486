SPECIFICATION Spec
CONSTANTS
  r1 = r1
  r2 = r2
  r3 = r3
  Rows = {r1, r2, r3}
  Workers = {w1, w2}
  Log <- MCLog
  RowSize = 2
  WriteSize = 1
  ByteMod = 3
PROPERTIES
  Deterministic
