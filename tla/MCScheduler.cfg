SPECIFICATION FairSpec
CONSTANTS
    r1 = r1
    w1 = w1
    w2 = w2
    Runs = {r1}
    Workers <- TwoWorkers
    QueueCapacity = 2
    MaxGen = 3
    MaxJobs = 3
    MaxSessions = 1
INVARIANTS
    CancelReachesWork
PROPERTIES
    CancelledInQueueNeverRuns
    SchedulerSettles
