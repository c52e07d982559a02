SPECIFICATION Spec
CONSTANTS
    Shift = Shift
    Ctrl = Ctrl
    a = a
    left = left
    x1 = x1
    cross = cross
    spot = spot
    None = None
    Modifiers <- MCModifiers
    Keys <- MCKeys
    Renamed <- MCKeys
    Shortcuts <- MCShortcuts
    Points <- MCPoints
    Buttons <- MCButtons
    Primary = left
    Unmapped <- MCUnmapped
    Scrolls <- MCScrolls
    Cross = cross
    MaxInputs = 4
    MaxSessions = 2
INVARIANTS
    TypeOK
    InSync
    ClickAfterMove
    OrderOfKey
CHECK_DEADLOCK FALSE
