SPECIFICATION FairSpec
CONSTANTS
  a1 = a1
  a2 = a2
  w1 = w1
  w2 = w2
  x = x
  None = None
  App = {a1}
  Worker = {w1, w2}
  Exec = x
  UseExecutor = FALSE
  Calls <- HookCloses
  Positions <- AnyPosition
  FromNow <- LongMin
  IntModulus = 16
  Interruptible = {}
  MaxId = 1
  MaxCalls = 2
  MaxFaults = 0
PROPERTIES
  CloseReturns
CHECK_DEADLOCK FALSE
