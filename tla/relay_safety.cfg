SPECIFICATION Spec
CONSTANTS
  a = a
  b = b
  m1 = m1
  m2 = m2
  c1 = c1
  x1 = x1
  Account = {a, b}
  Chat = {m1, m2}
  Control = {}
  Bad = {}
  Owner <- OwnerOfTwo
  Budget <- SafetyBudget
  MaxEvents = 5
INVARIANT TypeOK
INVARIANT HandedOnce
INVARIANT LinkIsOwn
INVARIANT SavedInOwnDatabase
INVARIANT PrunedIsKept
PROPERTY DeliversAsPromised
SYMMETRY Alike
CHECK_DEADLOCK FALSE
