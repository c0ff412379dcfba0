SPECIFICATION FairSpec
CONSTANTS
  a1 = a1
  a2 = a2
  wv = wv
  wi = wi
  None = None
  App = {a1, a2}
  Watcher = {wv, wi}
  OnVault = {wv, wi}
  Calls <- WithFlow
  Interruptible = {a1}
  MaxCalls = 5
  MaxEvents = 2
INVARIANTS
  TypeOK
  OneLockedCall
  NoCallOnFreed
  WatchWithinContext
  LockInv
PROPERTIES
  CloseReturns
CHECK_DEADLOCK FALSE
