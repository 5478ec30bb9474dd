SPECIFICATION FairSpec
CONSTANTS
  a = a
  b = b
  m1 = m1
  m2 = m2
  c1 = c1
  x1 = x1
  Account = {a, b}
  Chat = {}
  Control = {c1}
  Bad = {x1}
  Owner <- OwnerOfEach
  Budget <- LivenessBudget
  MaxEvents = 4
PROPERTY InboxDrains
CHECK_DEADLOCK FALSE
