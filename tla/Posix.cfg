SPECIFICATION PosixSpec
CONSTANTS
  \* the Env
  Thread = {t1, t2}
  User = {t1, t2}
  BG = bgthread
  Free = Free
  NoItem = NoItem
  MaxCalls = 2
  \* frames and their sizes
  Size <- MCSize
  Room = 3
  IntMax = 3
  MaxSize = 9
  Borders = {0, 6, 7, 13, 14, 30, 31, 32, 62, 63}
  MaxBytes = 40
INVARIANTS
  NoLostWakeup
  MutexGuards
  OneEnv
  RoundTrip
  AcceptedIsDefined
  WholeIfItFits
  BytesInOrder
PROPERTIES
  ImplementsWorkQueue
  ItemsRun
  DefaultReturns
  ImplementsChannel
  FramesArrive
\* no caller has to come; all frames are sent, or both ends wait after a
\* failure; numbers and byte strings end at their bounds
CHECK_DEADLOCK FALSE
