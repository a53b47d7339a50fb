CONSTANTS
    Clients = {c1, c2}
    Shapes <- CallShapes
    Services <- ServerServices
    NoName = "none"
    MaxCalls = 2
SPECIFICATION FairSpec
CHECK_DEADLOCK FALSE
INVARIANTS OneCallback NoStrayTimeout CallbackTellsTruth
PROPERTIES TimedCallEnds PackedCallEnds
