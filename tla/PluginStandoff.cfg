SPECIFICATION PipeSpec
CONSTANTS
  InputLen = 5
  OutputLen = 4
  ParseableAt = {0, 2, 4}
  Capacity = 2
  ReadSize = 3
  ClosedAtStart = {2}
INVARIANT NoStandoff
