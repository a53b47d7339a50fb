SPECIFICATION Spec
CONSTANTS
    s1 = s1
    s2 = s2
    Sessions <- MCSessions
    NoSession = NoSession
    Retry = TRUE
    MaxResolves = 2
    MaxSends = 1
    MaxFaults = 2
INVARIANTS NeverStranded LetGoMeansClosed
CHECK_DEADLOCK FALSE
PROPERTIES Reconnects SessionEnds
