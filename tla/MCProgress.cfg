SPECIFICATION MCSpec
CONSTANTS
    ReadTasks = {"r1", "r2", "r3"}
    WriteTasks = {"w1", "w2"}
    MaxCancels = 2
    Jobs = {"j1", "j2", "j3"}
    Workers = 2
    MaxTools = 1
    Ops = {"o1", "o2"}
    Kinds <- OpKinds
CHECK_DEADLOCK FALSE
INVARIANTS
    LockSafe
    JobsAreAccounted
    ReleaseNeedsProof
PROPERTIES
    EveryWaiterServed
    CloseEnds
    CloseReturns
