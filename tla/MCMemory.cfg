SPECIFICATION HistorySpec
CONSTANTS
    Frame = {4, 5, 6, 7, 8, 9, 10, 11, 13, 14}
    NDirs = 2
    NPages = 3
    TableSize = 3
    MmapStart = 1
    ImagePages = 1
    StackBegin = 2
    StackPages = 1
    Shm = {a}
    MaxShmPages = 2
    MaxMappings = 2
    MaxKernelPages = 0
    MaxLost = 0
    MaxRequest = 1
    MaxSbrk = 0
    AcquireFrames <- ByNeed
    None = None
INVARIANTS
    OneOwner
    Isolated
    UnlinkedHasMapper
CHECK_DEADLOCK FALSE
