INIT PartsInit
NEXT PartsNext
CONSTANTS
    MaxRuns = 1
    UniqueBoots = TRUE
    MaxStarts = 1
    MaxRequests = 1
    MaxPings = 1
    MaxControls = 3
    MaxCalls = 5
    MaxRetries = 1
    MaxFaults = 0
    Hellos = 1
    FrameSize = 1024
    NsNum = 62500
    NsDen = 3
    PeriodFrames = {1024, 512}
    Anchors = {0, 31250}
    Drifts <- MCDrifts
    MaxReads = 4
    OptionSets <- MCOptionSets
    MaxFailures = 2
    MaxRevision = 3
    MaxExchanges = 3
    AcquireHits = 2
    LostMisses = 2
    MaxResultAge = 1
    ControlMaxAge = 1
    MaxFrames = 5
    MaxAge = 2
    MaxResults = 2
    MaxUpdates = 3
    MaxSends = 3
    Bodies <- MCBodies
    MaxRaw = 3
    SeqModulus = 8
    FirstSeqs = {0, 5}
    MaxDamage = 2
    Widths = {2, 4}
    Heights = {2, 4}
    Strides = {2, 4, 6}
    Sizes = {6, 9, 12, 18, 24, 36}
    Offsets = {0, 6}
    VerticalStrides = {0, 4}
    Sources <- MCSources
    Model <- MCModel
    CellStrides <- MCCellStrides
    Levels = {0, 1, 2}
    Threshold = 1
    MinimumArea = 4
    Boxes <- MCBoxes
    InSlots = {1, 2}
    OutSlots = {1, 2}
    Tensors = 2
    CameraBuffers = {1, 2}
    DmaHeap = TRUE
    MaxPictures = 3
    MaxDeviceFailures = 2
    Formats <- MCFormats
    Rates = {30, 60, 25}
    Blankings = {46, 400}
    ExposureTimes = {100, 9000}
    HdrExposures <- MCHdr
    MaxSensorFailures = 1
    MaxSensorCalls = 4
    SetupBuffers = 2
    SetupPlanes = 2
    GuardLists <- MCGuard
    MaxSetupFailures = 2
    MaxOpens = 3
CHECK_DEADLOCK FALSE
INVARIANTS
    ControlsBalance
    AudioTimelineKept
    RuntimeAppKept
    IssuesKept
    TargetControlKept
    TelemetryKept
    FramingKept
    FrameLayoutKept
    PerceptionKept
    DeviceBuffersKept
    SetupKept
    SensorKept
    HdrFramesKept
