CONSTANTS
    w1 = w1  w2 = w2  c1 = c1  c2 = c2  j1 = j1  j2 = j2
    NoOne = NoOne
    Workers <- TwoWorkers
    Clients = {}
    Jobs = {}
    PoolSize = 2
    MaxGrow = 0
    WaitModes = {0}
SPECIFICATION FairSpec
PROPERTIES DestroyReturns
CHECK_DEADLOCK FALSE
