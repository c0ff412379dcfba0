SPECIFICATION FairSpec
CONSTANTS
  a1 = a1
  a2 = a2
  w1 = w1
  w2 = w2
  x = x
  None = None
  App = {a1}
  Worker = {w1, w2}
  Exec = x
  UseExecutor = TRUE
  Calls <- ExecStops
  Positions <- FromStart
  FromNow <- LongMin
  IntModulus = 16
  Interruptible = {w1}
  MaxId = 1
  MaxCalls = 3
  MaxFaults = 1
INVARIANTS
  NoSilentEnd
PROPERTIES
  StopEndsWorker
  CloseReturns
  EventArrives
CHECK_DEADLOCK FALSE
