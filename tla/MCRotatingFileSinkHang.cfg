CONSTANTS
  Rotators = {r1}
  Policy = "size_time"
  MaxSize = 3
  Size <- MCSize
  Limits = {2, 3}
  Appending = TRUE
  MaxLines = 5
  MaxManual = 1
  MaxCrashes = 1
  NoThread = NoThread
CHECK_DEADLOCK FALSE
SPECIFICATION Spec
INVARIANT LoggingNeverHangs
