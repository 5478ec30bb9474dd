SPECIFICATION Spec
CONSTANTS
  a = a
  b = b
  m1 = m1
  m2 = m2
  c1 = c1
  x1 = x1
  Account = {a, b}
  Chat = {m1}
  Control = {}
  Bad = {x1}
  Owner <- OwnerOfOne
  Budget <- LogoutBudget
  MaxEvents = 2
INVARIANT AccountsAreIsolated
CHECK_DEADLOCK FALSE
