SPECIFICATION RuntimeSpec
CONSTANTS
    OptionSets <- MCOptionSets
    MaxFailures = 1
CHECK_DEADLOCK FALSE
INVARIANT
    DrainOrderKept
