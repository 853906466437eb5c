SPECIFICATION HistorySpec
CONSTANTS
    Frame = {1, 2, 3, 4, 5, 6}
    NDirs = 1
    NPages = 4
    TableSize = 2
    MmapStart = 2
    ImagePages = 1
    StackBegin = 1
    StackPages = 1
    Shm = {a}
    MaxShmPages = 2
    MaxMappings = 2
    MaxKernelPages = 0
    MaxLost = 0
    MaxRequest = 1
    MaxSbrk = 0
    AcquireFrames <- FirstFit
    None = None
INVARIANTS
    EmptyTablesAreRemoved
CHECK_DEADLOCK FALSE
