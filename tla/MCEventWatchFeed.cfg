SPECIFICATION Spec
CONSTANTS
  a1 = a1
  a2 = a2
  w1 = w1
  w2 = w2
  x = x
  None = None
  App = {a1}
  Worker = {w1, w2}
  Exec = x
  UseExecutor = FALSE
  Calls <- HookedCalls
  Positions <- AnyPosition
  FromNow <- LongMin
  IntModulus = 16
  Interruptible = {}
  MaxId = 3
  MaxCalls = 3
  MaxFaults = 1
SYMMETRY WorkersAlike
INVARIANTS
  FeedExact
  AbortNotReported
PROPERTIES
  ImplementsFeed
CHECK_DEADLOCK FALSE
