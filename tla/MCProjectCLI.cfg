CONSTANTS
  Creators = {c1, c2}
  User = user
  None = None
  Absent = Absent
  Torn = Torn
  invoice1 = invoice1
  invoice2 = invoice2
  payment1 = payment1
  Services = {invoice1, invoice2, payment1}
  Package <- MCPackage
  Entity <- MCEntity
SPECIFICATION Spec
CHECK_DEADLOCK FALSE
INVARIANTS CreateWhole WiredBacked GenComplete
PROPERTY NotClobbered
