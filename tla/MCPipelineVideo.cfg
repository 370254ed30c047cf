SPECIFICATION PipelineSpec
CONSTANTS
    Buffers = {b0}
    Consumers = {"inference", "video"}
    Threads = {"main", "capture", "preprocess", "npu", "postprocess", "video", "encoded"}
    MaxFrames = 2
    QbufMayFail = TRUE
    EnableVideo = TRUE
    Split = FALSE
    Capacity <- MCCapacity
    Faults = {"encode"}
    MaxFaults = 1
    b0 = b0
INVARIANTS
    EncodedMediaDrained
    VideoFailureIsolated
