SPECIFICATION MCSpec
CONSTANTS
  ann = ann
  bob = bob
  Accounts = {ann, bob}
  Nobody = Nobody
  Chains = {c1, c2}
  Attempts = 2
  Limit = 1
  Retries = 1
  Worlds <- MCWorlds
  MaxLogins = 2
  MaxFaults = 2
  Users = {p, q}
  NoName = Nobody
  MaxTime = 2
  MaxAsked = 1
SYMMETRY MCChains
INVARIANTS TokensAgree DatabaseFollowsAccount DeviceIsRegistered ConversationsSaved
CHECK_DEADLOCK FALSE
