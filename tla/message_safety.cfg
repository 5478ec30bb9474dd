SPECIFICATION Spec
CONSTANTS
  Text = {t1, n1}
  Media = {p1}
  Request = {r1}
  Saved = {n1}
  Budget <- SafetyBudget
  MaxEvents = 2
  MaxMessages = 2
INVARIANT TypeOK
INVARIANT SentOnlyAfterRelay
INVARIANT DurableBeforeRelayed
INVARIANT CacheAgreesWithStore
INVARIANT PayloadOnce
CHECK_DEADLOCK FALSE
