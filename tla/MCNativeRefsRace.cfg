SPECIFICATION Spec
CONSTANTS
  root = root
  c2 = c2
  c3 = c3
  c4 = c4
  c5 = c5
  k1 = k1
  k2 = k2
  k3 = k3
  k4 = k4
  None = None
  Ctx = {root, c2, c3, c4}
  Root = root
  Key = {k1, k2, k3, k4}
  Listed = {}
  Programs <- Sharing
SYMMETRY Sym
INVARIANTS
  NoDangling
CHECK_DEADLOCK FALSE
