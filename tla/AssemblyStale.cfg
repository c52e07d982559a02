SPECIFICATION FairSpec
CONSTANTS
    SCREEN_FRAME_CHUNK_DATA_SIZE = 3
    MAX_PACKET_SIZE = 60
    NoData = NoData
    NoDims = NoDims
    Absent = Absent
    small = small
    large = large
    Dims <- MCDims
    MaxFrame = 3
    ChunkCount <- MCChunkCount
    FrameDims <- MCFrameDims
    MaxSendRetries = 2
    Reorder = FALSE
    MaxDuplicates = 0
    Lossy = TRUE
PROPERTIES
    StaleCleaned
