SPECIFICATION Spec
CONSTANTS
  Text = {t1}
  Media = {p1}
  Request = {r1}
  Saved = {}
  Budget <- ReceiptBudget
  MaxEvents = 1
  MaxMessages = 2
PROPERTY SeenStays
CHECK_DEADLOCK FALSE
