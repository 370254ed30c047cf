SPECIFICATION PipelineSpec
CONSTANTS
    Buffers = {b0, b1}
    Consumers = {"inference", "video"}
    Threads = {"main", "capture", "preprocess", "npu", "postprocess", "video", "encoded"}
    MaxFrames = 2
    QbufMayFail = TRUE
    EnableVideo = FALSE
    Split = TRUE
    Capacity <- MCCapacity
    Faults = {"start", "spawn", "poll", "view", "preprocess", "preprocessThrows", "run", "runThrows", "post"}
    MaxFaults = 1
    b0 = b0
    b1 = b1
SYMMETRY Symmetric
INVARIANTS
    WakeNotLost
    ResourcesAccounted
    ResultsInOrder
    StopLeavesNothing
PROPERTY
    BrokerSpec
