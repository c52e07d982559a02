SPECIFICATION FairSpec
CONSTANTS
    a1 = a1
    None = None
    FullPercent = 30
    TileSize = 2
    Addrs <- MCOneAddr
    Screens <- MCTwoScreens
    FRAME_CHANNEL_CAP = 1
    KEYFRAME_INTERVAL = 2
    SeqMod = 3
    MaxSeq = 3
    CompressMayFail = FALSE
    CaptureMayFail = FALSE
PROPERTIES
    Shutdown
    RequestServed
CHECK_DEADLOCK FALSE
