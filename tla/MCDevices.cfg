INIT MCInit
NEXT MCNext
CONSTANTS
    TtySize = 10
    LineSize = 12
    TypedChunks <- MCTypedChunks
    PrintedChunks <- MCPrintedChunks
    ReadSizes = {10}
    Terms <- MCTerms
    MaxOffered = 4
    KeyReaders = {k1}
    MouseReaders = {m1}
    SerialReaders = {s1}
    KeyBufferSize = 2
    MouseFifoSize = 6
    SerialFifoSize = 1
    MouseReadSizes = {3}
    Budgets <- MCBudgets
    nobody = nobody
    Terminals <- MCTerminals
    t1 = t1
    t2 = t2
    Rows = 3
    Columns = 2
    Texts <- MCTexts
    KeyEvents <- MCKeyEvents
    Modes <- MCModes
    PagePixels = 4
    FontWidth = 2
    FontHeight = 2
    Glyphs <- MCGlyphs
    Characters = {0, 1, 9}
    WriteSizes = {9}
    MapSizes = {5}
    Stores = {7}
INVARIANTS
    EchoShowsInput
    InputInOrder
    
    PixelsShowCells
CHECK_DEADLOCK FALSE
