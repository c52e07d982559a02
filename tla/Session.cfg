SPECIFICATION FairSpec
CONSTANTS
    h1 = h1
    h2 = h2
    p1 = p1
    p2 = p2
    None = None
    Hosts <- MCOneHost
    Ports <- MCPorts
    MaxSessions = 3
    MaxFaults = 1
    Lossy = TRUE
INVARIANTS
    TypeOK
    OneHandshake
    ClientSocket
    PendingOrActive
    KnownToHost
PROPERTIES
    ConnectingEnds
