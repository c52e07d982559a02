SPECIFICATION FairSpec
CONSTANTS
    SCREEN_FRAME_CHUNK_DATA_SIZE = 3
    MAX_PACKET_SIZE = 60
    NoData = NoData
    NoDims = NoDims
    Absent = Absent
    small = small
    large = large
    Dims <- MCDims
    MaxFrame = 2
    ChunkCount <- MCChunkCountLong
    FrameDims <- MCFrameDimsLong
    MaxSendRetries = 2
    Reorder = TRUE
    MaxDuplicates = 3
    Lossy = TRUE
INVARIANTS
    TypeOK
    AssemblyProgress
    CompletedExact
    RepeatsAreDuplicates
PROPERTIES
    AllComplete
