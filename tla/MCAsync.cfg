CONSTANTS
    Tasks <- ForestTasks
    NoTask = 0
    Kind <- ForestKind
    parent_ <- ForestParent
    Root <- ForestRoot
    Rank <- ForestRank
    Created <- ForestCreated
    Emitter <- ForestEmitter
    Timed <- ForestTimed
    Lossy = TRUE
    Cancellable <- ForestCancel
SPECIFICATION FairSpec
CHECK_DEADLOCK FALSE
INVARIANTS AtMostOnce PartsInOrder NotifiedParentWaits
PROPERTIES LateReplyDropped EveryTreeEnds TimedTasksEnd
