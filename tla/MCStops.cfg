SPECIFICATION StopsSpec
CONSTANTS
    Buffers = {b0}
    Consumers = {"inference", "video"}
    Threads = {"main", "capture", "preprocess", "npu", "postprocess", "video", "encoded"}
    MaxFrames = 1
    QbufMayFail = TRUE
    EnableVideo = FALSE
    Split = TRUE
    Capacity <- MCCapacity
    Faults = {"start", "spawn", "qbuf", "preprocessThrows", "runThrows"}
    MaxFaults = 1
    b0 = b0
    Producers = {p0, p1}
    LogCapacity <- MCLogCapacity
    MaxCalls = 4
    p0 = p0
    p1 = p1
CHECK_DEADLOCK FALSE
PROPERTIES
    ThreadsReturn
    QueueEmptied
INVARIANTS
    RecordsAccounted
    AcceptedIsWritten
