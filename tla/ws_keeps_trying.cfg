SPECIFICATION FairSpec
CONSTANTS
  MaxOpens = 1
  MaxFaults = 1
PROPERTY KeepsTrying
CHECK_DEADLOCK FALSE
