SPECIFICATION FairSpec
CONSTANTS
  MaxRuns = 2
  UniqueBoots = TRUE
  MaxStarts = 1
  MaxRequests = 1
  MaxPings = 1
  MaxControls = 1
  MaxCalls = 1
  MaxRetries = 1
  MaxFaults = 2
  Hellos = 3
PROPERTIES
  TransactionEnds
  LinkFollowsPeer
CHECK_DEADLOCK FALSE
