CONSTANTS
  d1 = d1
  d2 = d2
  d3 = d3
  a = a
  b = b
  Drivers = {d1, d2, d3}
  Ids = {a, b}
  IdOf <- MCIdOf
  Callers = {c1, c2}
  MaxCalls = 3
  NoThread = NoThread
  \* One setting that is a range of the chip and one that is none.
  Kinds = {"imu", "gps", "pressure", "temperature", "humidity"}
  Ranges = {1, 4}
  MaxLost = 2
  MaxLines = 2
  \* The collection loop and a caller of readSensor().
  Readers = {"loop", "caller"}
  MaxReads = 4
  MaxFailures = 2
CHECK_DEADLOCK FALSE
SPECIFICATION MCFairSpec
INVARIANT TypeOK
INVARIANT LoopsVisitLiveDrivers
INVARIANT RunningHasThreads
INVARIANT StoppedIsQuiet
PROPERTY StopReturns
INVARIANT DriversHold
PROPERTY AcceptedIsServed
PROPERTY StopNowReturns
