SPECIFICATION MCSpec
CONSTANTS
    f1 = f1
    f2 = f2
    Fifos <- MCFifos
    Capacity <- MCCapacity
    Byte = {0, 1}
    Chunks <- MCChunks
    Sizes = {0, 1, 2, 4}
    Zero = 0
    PageSize = 8
    HeapEnd = 24
    HeaderSize = 1
    MinSize = 4
    Request = {1, 4, 9}
    BrkPageSize = 8
    Limit = 64
    MaxBytes = 40
    Lists = {l1, l2}
    ListNodes = {n1, n2, n3}
    ListData = {a, b}
    nil = nil
    TableCapacity = 2
    HashKeys = {0, 1, 3}
    HashValues = {7, 8}
    WordRange = 256
    MemorySize = 5
    MemoryBytes = {0, 32, 200}
    Lengths = {0, 1, 2, 3}
    Numbers <- MCNumbers
    Formats <- MCFormats
    WordBytes = 2
    FramePage = 128
    USER_OFFSET = 128
    USER_STACK = 1024
    MEMORY_END = 2048
    StackPages = 3
    AUX_CNT = 20
    Programs <- MCPrograms
    StringLists <- MCLists
    Fills = {0, 255}
    FatDrives = {0, 1}
    Disks = {rd1}
    RamDiskSizes = {9, 12}
    RAMDISK_BLOCKSIZE = 4
    ByteRange = 256
    DiskSectors = {0, 1, 2, 3, 61}
    DiskCounts = {1, 2}
    BlockValues = {u, v}
    noDisk = noDisk
    FdSlots = 1
    FileKinds <- MCKinds
    IoSizes = {0, 2, 4, 8}
    Vectors <- MCVectors
    Seeks <- MCSeeks
    FatRoom = 10
    SeekRange = 32
    ReportSize = 5
    ScreenBytes = 12
INVARIANTS
    
    BreakIsBacked
    HashIsMap
    
    
    BlocksKept
    PositionsFollow
PROPERTIES
    ImplementsQueue
    
    ImplementsDeque
CHECK_DEADLOCK FALSE
