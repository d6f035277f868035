CONSTANTS
  d1 = d1
  d2 = d2
  d3 = d3
  a = a
  b = b
  Drivers = {d1, d2, d3}
  Ids = {a, b}
  IdOf <- MCIdOf
  Callers = {c1, c2}
  MaxCalls = 3
  NoThread = NoThread
CHECK_DEADLOCK FALSE
SPECIFICATION Spec
INVARIANT LoopsSurviveReading
