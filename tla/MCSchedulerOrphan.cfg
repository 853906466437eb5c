SPECIFICATION HSpec
CONSTANTS
    Slot = {s1, s2, s3}
    Idle = Idle
    NULL = NULL
    BootCount = 1
    Sent = {"TERM"}
    SIGNAL_QUEUE_SIZE = 1
    MaxSleep = 0
    PipeSharing = FALSE
INVARIANTS
    WaiterHasOwnChild
