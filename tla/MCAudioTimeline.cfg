SPECIFICATION TimelineSpec
CONSTANTS
    FrameSize = 1024
    NsNum = 62500
    NsDen = 3
    PeriodFrames = {1024, 512}
    Anchors = {0, 31250}
    Drifts <- MCDrifts
    MaxReads = 4
CHECK_DEADLOCK FALSE
INVARIANT
    OverrunsAccountedFor
