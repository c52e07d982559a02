SPECIFICATION FairSpec
CONSTANTS
    Client = Client
    None = None
    FullPercent = 30
    TileSize = 2
    compress <- MCcompress
    decompress <- MCdecompress
    Addrs <- MCAddrs
    Screens <- MCTwoScreens
    QueueCap = 1
    KEYFRAME_INTERVAL = 3
    SeqMod = 7
    MaxSeq = 7
    NetCap = 2
    MaxLoss = 1
PROPERTIES
    GapRequested
CHECK_DEADLOCK FALSE
