SPECIFICATION Spec
CONSTANTS
  a = a  b = b
  l = l  c = c  f = f  k = k
  None = None
  Thread = {a, b}
  Locker = {l}  Cipher = {c}  Flow = {f}  Key = {k}
  Calls <- Shared
  MaxCalls = 5
INVARIANTS
  TypeOK
  UsedWhileLive
  FreedOnce
  NothingLost
  KeyWholeOrGone
CHECK_DEADLOCK FALSE
