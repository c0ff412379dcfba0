SPECIFICATION Spec
CONSTANTS
  None = None
  Anon = {a1, a2}
  Primary = {p1, p2}
  Child = {c1}
  Key = {k1, k2, k3}
SYMMETRY Symmetry
INVARIANTS TypeOK ReturnedOpens SlotPosted SessionFollowsSlot AppRecoverable
CHECK_DEADLOCK TRUE
