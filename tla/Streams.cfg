SPECIFICATION MCSpec
CONSTANTS
  Inputs <- MCInputs
  IntMax = 5
  DefaultTotal = 4
  kMaxVarintBytes = 2
  MaxFlat = 4
  MaxChunk = 3
  MaxDepth = 2
  FileLen = 5
  Before = 1
  Limits = {0, 2, 3, 6}
  BlockSize = 3
  ArrayLen = 3
  ArrayBlock = 2
  MaxSkip = 6
INVARIANTS
  PositionTrue
  LimitsHold
  ReadsExact
  NothingMissed
  LimiterGivesBack
  BackUpGranted
PROPERTY ImplementsSource
\* a stream that is destroyed stays so
CHECK_DEADLOCK FALSE
