SPECIFICATION LiveDesktopSpec
CONSTANTS
    Client = Client
    None = None
    FullPercent = 30
    TileSize = 2
    compress <- MCcompress
    decompress <- MCdecompress
    Addrs <- MCAddrs
    Screens <- MCScreens
    QueueCap = 1
    KEYFRAME_INTERVAL = 2
    SeqMod = 5
    MaxSeq = 5
    NetCap = 1
    MaxLoss = 2
INVARIANTS
    TypeOK
    Coherent
    RecoveryBound
PROPERTIES
    Recovers
