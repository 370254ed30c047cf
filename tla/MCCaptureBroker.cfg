SPECIFICATION BrokerSpec
CONSTANTS
    Buffers = {b0, b1}
    Consumers = {inference, video}
    Threads = {t0, t1}
    MaxFrames = 3
    QbufMayFail = TRUE
    b0 = b0
    b1 = b1
    inference = inference
    video = video
    t0 = t0
    t1 = t1
SYMMETRY Symmetric
INVARIANTS
    LeasedFrameIntact
    NeverDefends
    LedgersAgree
    NoBufferForgotten
PROPERTY
    OwnershipKept
