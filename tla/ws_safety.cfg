SPECIFICATION MCSpec
CONSTANTS
  MaxOpens = 2
  MaxFaults = 6
  Base = 2
  Short = 1
  Two = 2
  Eight = 3
  KeyLen = 2
  Xor <- MCXor
  OwnMask <- MCOwnMask
  Frames <- MCFrames
  MaxFrames = 2
  Friends = {p}
  Queries = {1, 2}
  MaxChanges = 5
  MaxFailures = 1
INVARIANTS TypeOK OnlineIsConnected FreshStream ClosedStaysQuiet LostIsScheduled BackoffCountsLosses TextsArriveWhole PingsAreAnswered ReportedStatusKept
PROPERTY LostIsRecovered PresenceConverges
CHECK_DEADLOCK FALSE
