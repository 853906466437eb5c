SPECIFICATION Spec
CONSTANTS
    Slot = {s1, s2}
    Idle = Idle
    NULL = NULL
    BootCount = 1
    Sent = {"TERM", "STOP", "CONT", "OTHER"}
    SIGNAL_QUEUE_SIZE = 2
    MaxSleep = 2
    PipeSharing = TRUE
INVARIANTS
    ListIntact
    WaiterHasChild
PROPERTIES
    SwitchesToRunnable
