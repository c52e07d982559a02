SPECIFICATION Spec
CONSTANTS
    a1 = a1
    None = None
    FullPercent = 30
    TileSize = 2
    Addrs <- MCOneAddr
    Screens <- MCScreens
    FRAME_CHANNEL_CAP = 1
    KEYFRAME_INTERVAL = 3
    SeqMod = 8
    MaxSeq = 3
    CompressMayFail = TRUE
    CaptureMayFail = TRUE
INVARIANTS
    TypeOK
    PipelineOrder
PROPERTIES
    WireOrder
    DeltaBase
    ImplementsFeed
CHECK_DEADLOCK FALSE
