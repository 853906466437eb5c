INIT MCInit
NEXT MCNext
CONSTANTS
    Thread = {t1, t2, t3}
    Idle = Idle
    Capacity = 2
    MaxPending = 1
    SockThreads = {u1, u2}
    Sockets = {1, 2, 3}
    SockNames = {n1}
    SockData = {d}
    SockBufferSize = 1
    MaxDescriptors = 2
    none = none
    MessageSize = 2
    QueueLength = 2
    MaxMessages = 5
    Waiters = {w1}
    SelSets <- MCSelSets
    Timeouts <- MCTimeouts
    Naps = {0, 2}
    Wrap = 4
    TIMER_FREQ = 3
    Dates = {0, 1, 2}
    LastTick = 6
INVARIANTS
    FirstPassMissesNoWakeup
    SocketsPaired
    
    MessagesWhole
    SelectAnswers
    
SYMMETRY Symmetry
