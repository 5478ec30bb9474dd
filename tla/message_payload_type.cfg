SPECIFICATION Spec
CONSTANTS
  Text = {t1}
  Media = {p1}
  Request = {r1}
  Saved = {}
  Budget <- OfferBudget
  MaxEvents = 1
  MaxMessages = 2
INVARIANT PayloadKeepsType
CHECK_DEADLOCK FALSE
