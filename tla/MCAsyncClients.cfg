SPECIFICATION ClientsSpec
CONSTANTS
    set1 = set1 del1 = del1 get1 = get1
    Commands <- MCCommands
    Op <- MCOp
    Timed <- MCTimed
    TimedCallback <- MCTimedCallback
    Contexts <- MCContexts
    MaxFaults = 2
    N = 6
    Kind <- MCKind
    parent <- MCparent
    TimedRpcs <- MCTimedRpcs
    MaxThrows = 1
    MaxLost = 1
INVARIANTS ContextIsAlive SeesOwnWrites OutcomeIsFinal
PROPERTIES EmittedEnds TimedRpcEnds
CHECK_DEADLOCK FALSE
