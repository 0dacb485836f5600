CONSTANTS
    w1 = w1  w2 = w2  c1 = c1  c2 = c2  j1 = j1  j2 = j2
    NoOne = NoOne
    Workers <- TwoWorkers
    Clients <- TwoClients
    Jobs <- TwoJobs
    PoolSize = 1
    MaxGrow = 2
    WaitModes = {0, 1}
SPECIFICATION FairSpec
INVARIANTS TypeOK CountMatches NoSleeperMissesWork OneOwnerPerJob
           NoSleeperCancelled NoThreadOutlivesPool WaitCompletesJobs
PROPERTIES ImplementsJobService DestroyReturnsUnlessOrphaned AcceptedJobsFinish
CHECK_DEADLOCK FALSE
