SPECIFICATION Spec
CONSTANTS
    Sides <- MCSides
    Menu <- MCMenu
    MaxProperties = 2
    WireBits = 4
    Values <- MCValues
    Keys <- MCKeys
    MaxHandlers = 2
    BodySizes <- MCBodySizes
    SizeBits = 2
INVARIANTS HandlerSeesRequest
CHECK_DEADLOCK FALSE
