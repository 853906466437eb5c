SPECIFICATION SignalSpec
CONSTANTS
    Thread = {t1, t2}
    Idle = Idle
    Capacity = 1
    MaxPending = 1
INVARIANTS
    SignalEndsTheCall
