CONSTANTS
  Rotators = {r1}
  Policy = "size_time"
  \* Files of three bytes and four lines, of which one is longer than a file.
  MaxSize = 3
  Size <- MCSize
  Limits = {2, 3}
  Appending = TRUE
  MaxLines = 4
  MaxManual = 1
  MaxCrashes = 1
  NoThread = NoThread
  \* A queue of two messages between two threads and the manager.
  Clients = {c1, c2}
  Requests = {q1}
  NoRequest = NoRequest
  MaxQueueSize = 2
  MaxBegun = 3
  MaxToggles = 1
  MaxStarts = 1
  \* A client with one caller and two connections.
  Callers = {a}
  MaxRetries = 1
  MaxSockets = 2
  MaxMessages = 1
  \* Three events of two threads to a sink that tries twice.
  Loggers = {t1, t2}
  BatchSize = 1
  RetryAttempts = 2
  MaxEvents = 3
  MaxFlushes = 1
SYMMETRY MCSymmetry
CHECK_DEADLOCK FALSE
SPECIFICATION MCSpec
INVARIANT TypeOK
INVARIANT OldestFirst
INVARIANT OnlyOldestLost
INVARIANT SizesBounded
INVARIANT MessagesHold
INVARIANT SinkHolds
PROPERTY StepsHold
