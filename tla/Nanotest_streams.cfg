SPECIFICATION NtSpec
CONSTANTS
  Size = 3
  Lookups = 3
  Keys = {0, 1, 4}
  Repeat = 2
  MaxStreams = 2
  N = 2
INVARIANT
  SumForAnyStreams
