SPECIFICATION FairSpec
CONSTANTS
    Slot = {s1, s2}
    Idle = Idle
    NULL = NULL
    BootCount = 1
    Sent = {"TERM", "OTHER"}
    SIGNAL_QUEUE_SIZE = 2
    MaxSleep = 2
    PipeSharing = FALSE
PROPERTIES
    RunnableGetsProcessor
    
    SleepEnds
