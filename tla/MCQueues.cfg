SPECIFICATION QueuesSpec
CONSTANTS
    Threads = {t0, t1, t2}
    Items = {x, y}
    NoItem = none
    Capacity = 2
    MaxPushed = 4
    PcmCapacity = 1
    AacCapacity = 1
    NetCapacity = 2
    MaxChunks = 3
    Fragments <- MCFragments
    Faults = {"capture", "encode", "mp4", "net", "file"}
    MaxMediaFaults = 2
    t0 = t0
    t1 = t1
    t2 = t2
    x = x
    y = y
    none = none
CHECK_DEADLOCK FALSE
INVARIANTS
    WaitersAnnounced
    MediaKept
PROPERTIES
    ActsAsLatestQueue
    StopReleases
    MediaStops
