SPECIFICATION StreamSpec
CONSTANTS
    Sessions = {}
    NoSession = NoSession
    Retry = FALSE
    MaxResolves = 1
    MaxSends = 0
    MaxFaults = 0
    Receivers <- MCReceivers
    MaxSent = 3
    MaxWriting = 2
INVARIANTS HandledAsSent
PROPERTIES EveryMessageHandled
CHECK_DEADLOCK FALSE
