SPECIFICATION FairPipelineSpec
CONSTANTS
    Buffers = {b0}
    Consumers = {"inference", "video"}
    Threads = {"main", "capture", "preprocess", "npu", "postprocess", "video", "encoded"}
    MaxFrames = 1
    QbufMayFail = TRUE
    EnableVideo = TRUE
    Split = FALSE
    Capacity <- MCCapacity
    Faults = {"write"}
    MaxFaults = 1
    b0 = b0
CHECK_DEADLOCK FALSE
PROPERTY
    BuffersComeBack
