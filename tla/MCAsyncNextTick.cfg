CONSTANTS
    Tasks <- PairTasks
    NoTask = 0
    Kind <- PairParallel
    parent_ <- PairParent
    Root <- PairRoot
    Rank <- PairRank
    Created <- PairCreated
    Emitter <- PairEmitter
    Timed <- PairTimed
    Lossy = TRUE
    Cancellable <- NoTasks
SPECIFICATION FairSpec
CHECK_DEADLOCK FALSE
PROPERTIES ParentTimesOut
