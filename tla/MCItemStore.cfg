SPECIFICATION Spec
CONSTANTS
  a = a  b = b  va = va  vb = vb  vc = vc
  Client = {a, b}
  Recipient = {va, vb, vc}
  Of <- TheirVaults
  Listed <- TheLists
  Java <- TheObjects
  Maps <- TheMaps
  MaxCalls = 4
INVARIANTS
  TypeOK
  ReadersAgree
  MetaKept
  MetaReadBack
  CiphersOpen
PROPERTIES
  NamedToGetIn
CHECK_DEADLOCK FALSE
