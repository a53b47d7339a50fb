CONSTANTS
    w1 = w1 w2 = w2
    Workers <- TwoWorkers
    Clients = {c1}
    Named = {}
    k1 = k1  k2 = k2  v1 = v1
    Keys <- TwoKeys
    Values = {v1}
    Tables = {"kvs_0", "kvs_1"}
    TableOf <- OwnTable
    Commands <- FewCommands
    None = ""
    CacheOnly = {FALSE}
    Startable <- AllStart
    MayInterrupt = FALSE
    REQUEST_RETRIES = 2
    MaxFailures = 1
    MaxCalls = 2
SPECIFICATION Spec
CHECK_DEADLOCK FALSE
INVARIANTS ReplyAnswersCall TrueMeansStored CoherentUnlessRaced
