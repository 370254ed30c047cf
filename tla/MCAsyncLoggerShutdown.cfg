SPECIFICATION LoggerFairSpec
CONSTANTS
    Producers = {p0}
    LogCapacity <- MCCapacity
    MaxCalls = 1
    p0 = p0
CHECK_DEADLOCK FALSE
PROPERTY
    ShutdownReturns
