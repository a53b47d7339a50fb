CONSTANTS
    w1 = w1 w2 = w2
    Workers <- TwoWorkers
    Clients = {c1}
    Named = {c1}
    k1 = k1  k2 = k2  v1 = v1
    Keys <- TwoKeys
    Values = {v1}
    Tables = {"kvs_0", "kvs_1"}
    TableOf <- OwnTable
    Commands <- SetOnly
    None = ""
    CacheOnly = {TRUE, FALSE}
    Startable <- SomeStart
    MayInterrupt = TRUE
    REQUEST_RETRIES = 2
    MaxFailures = 0
    MaxCalls = 2
SPECIFICATION FairSpec
CHECK_DEADLOCK FALSE
PROPERTIES EveryCallReturns ShutdownEnds
