SPECIFICATION FairSpec
CONSTANTS
    r1 = r1
    r2 = r2
    c1 = c1
    c2 = c2
    h1 = h1
    h2 = h2
    Runs <- OneRun
    Cancellers <- OneCanceller
    Resumers <- TwoResumers
    Approvals = TRUE
    MaxGen = 2
    MaxRestarts = 1
CHECK_DEADLOCK FALSE
INVARIANTS
    ApprovalConsumedOnce
PROPERTIES
    AcknowledgedCancelStopsRuntime
    TurnEnds
