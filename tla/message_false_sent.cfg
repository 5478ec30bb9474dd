SPECIFICATION Spec
CONSTANTS
  Text = {t1}
  Media = {p1}
  Request = {}
  Saved = {}
  Budget <- RetryBudget
  MaxEvents = 1
  MaxMessages = 1
INVARIANT SentAtRestIsRelayed
CHECK_DEADLOCK FALSE
