SPECIFICATION Spec
CONSTANTS
    h1 = h1
    h2 = h2
    p1 = p1
    p2 = p2
    None = None
    Hosts <- MCHosts
    Ports <- MCPorts
    MaxSessions = 2
    MaxFaults = 0
    Lossy = FALSE
INVARIANTS
    OwnPicture
