SPECIFICATION FairSpec
CONSTANTS
  Text = {t1}
  Media = {p1}
  Request = {r1}
  Saved = {}
  Budget <- LivenessBudget
  MaxEvents = 2
  MaxMessages = 2
PROPERTY SendingEnds
PROPERTY PayloadIsHandedOver
CHECK_DEADLOCK FALSE
