CONSTANTS
    t1 = t1  t2 = t2
    c1 = c1  c2 = c2  c3 = c3
    Threads <- TwoThreads
    Conns <- Three
    Creators <- First
    conns_max_ = 2
    GrabWaitTimes <- AnyWait
    MayFail = TRUE
    MayRemove = TRUE
    Tries = 1
    MaxTime = 1
    M = 4
    ShardNums = {2, 3}
    UrlLists <- MCUrlLists
SPECIFICATION PoolsSpec
CHECK_DEADLOCK FALSE
INVARIANTS HeldIsSafe CounterBounds PoolBounded PlacesAreKept
PROPERTIES LeaseSpec PlacesAreTaken KeyServed
