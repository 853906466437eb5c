SPECIFICATION MCSpec
CONSTANTS
    TtySize = 2
    LineSize = 3
    TypedChunks <- MCTypedChunks
    PrintedChunks <- MCPrintedChunks
    ReadSizes = {1}
    Terms <- MCTerms
    SlaveReaders = {r1}
    MasterReaders = {m1}
    SlaveWriters = {w1}
    idle = idle
    UserThreads = {a, b}
    IdleThread = IdleThread
    Lines = {1, 12}
    Values = {0, 1}
    MaxTicks = 3
    nothing = nothing
    Frame = {1, 2, 3, 4, 5, 6}
    NDirs = 1
    NPages = 4
    TableSize = 2
    MmapStart = 2
    ImagePages = 1
    StackBegin = 1
    StackPages = 1
    Shm = {}
    MaxShmPages = 0
    MaxMappings = 0
    MaxKernelPages = 3
    MaxLost = 1
    MaxRequest = 2
    MaxSbrk = 2
    AcquireFrames <- FirstFit
    None = None
INVARIANTS
    
    ContextKept
    PageTablesAgree
PROPERTIES
    InputWakesReader
CHECK_DEADLOCK FALSE
