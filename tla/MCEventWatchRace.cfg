SPECIFICATION Spec
CONSTANTS
  a1 = a1
  a2 = a2
  w1 = w1
  w2 = w2
  x = x
  None = None
  App = {a1, a2}
  Worker = {w1, w2}
  Exec = x
  UseExecutor = FALSE
  Calls <- FreeCalls
  Positions <- FromTail
  FromNow <- LongMin
  IntModulus = 16
  Interruptible = {a1, a2}
  MaxId = 0
  MaxCalls = 4
  MaxFaults = 2
SYMMETRY ThreadsAlike
INVARIANTS
  TypeOK
  NoUseAfterFree
  WatchGoesWithWorker
  OneWorker
  LifecycleInv
  StopCutsPoll
PROPERTIES
  CloseLeavesNothing
CHECK_DEADLOCK FALSE
