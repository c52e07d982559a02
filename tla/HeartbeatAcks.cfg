SPECIFICATION Spec
CONSTANTS
    a1 = a1
    a2 = a2
    None = None
    Addrs <- MCOneAddr
    SeqMod = 8
    max_missed = 2
    Lifetime = 3
    MaxTicks = 18
INVARIANTS
    TypeOK
    AckedIsLatest
    SilenceNoticed
CHECK_DEADLOCK FALSE
