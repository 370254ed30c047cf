SPECIFICATION Spec
CONSTANTS
  MaxRuns = 2
  UniqueBoots = FALSE
  MaxStarts = 2
  MaxRequests = 2
  MaxPings = 0
  MaxControls = 0
  MaxCalls = 2
  MaxRetries = 1
  MaxFaults = 2
  Hellos = 3
INVARIANTS
  BusyMeansWork
  SessionToldTruly
PROPERTY
  RequestSpec
CHECK_DEADLOCK FALSE
