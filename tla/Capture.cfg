SPECIFICATION Spec
CONSTANTS
    None = None
    Screens <- MCScreens
    Size <- MCSize
INVARIANTS
    TypeOK
    StagingFits
    NothingForgotten
PROPERTIES
    ImplementsDevice
