SPECIFICATION Spec
CONSTANTS
  a1 = a1
  a2 = a2
  wv = wv
  wi = wi
  None = None
  App = {a1, a2}
  Watcher = {wv}
  OnVault = {wv}
  Calls <- WithFlow
  Interruptible = {}
  MaxCalls = 3
  MaxEvents = 1
INVARIANTS
  OneCallAtATime
CHECK_DEADLOCK FALSE
