SPECIFICATION MCSpec
CONSTANTS
    Process = {"1", "2"}
    FirstProcess = "1"
    MaxFiles = 2
    PathLimit = 3
    VolumeNames <- MCVolumeNames
    Images <- MCImages
    BootDevices <- MCBootDevices
    DeviceType <- MCDeviceType
    Dotted = {".x", "."}
    DoubleDotted = {".."}
    CallPaths <- MCCallPaths
    MkdirPaths <- MCMkdirPaths
    MountPairs <- MCMountPairs
    FileLimit = 2
    ListRoom = 4
    ClusterCount = 4
    SectorSize = 2
    csize = 1
    n_fats = 2
    n_rootdir = 2
    Volumes <- MCVolumes
    Handles = {"h1", "h2"}
    Paths <- MCPaths
    Modes <- MCModes
    Counts = {1, 3}
    Writes <- MCWrites
    Offsets = {0, 3}
    Renames <- MCRenames
    MaxCalls = 4
    none = none
    c1 = c1
    c2 = c2
    c3 = c3
    blank = blank
    deleted = deleted
    directory = directory
    Drives = {"d"}
    DiskSizes <- MCDiskSizes
    Boots <- MCBoots
    sz_blk = 512
    MkfsOptions <- MCMkfsOptions
    Units = {0, 1, 2, 4, 8, 64, 128, 256}
    unset = unset
    Names <- MCNames
    NamePairs <- MCNamePairs
    FoundDirs <- MCFoundDirs
INVARIANTS
    
    NamesReachNodes
    ChainsSound
    LayoutsSound
    MadeVolumesMount
    DirectoryIsMap
PROPERTIES
    ImplementsFileStore
CHECK_DEADLOCK FALSE
