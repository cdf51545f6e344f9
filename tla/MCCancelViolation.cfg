SPECIFICATION FairSpec
CONSTANTS
    r1 = r1
    r2 = r2
    c1 = c1
    c2 = c2
    h1 = h1
    h2 = h2
    Runs <- OneRun
    Cancellers <- OneCanceller
    Resumers <- None
    Approvals = TRUE
    MaxGen = 1
    MaxRestarts = 0
CHECK_DEADLOCK FALSE
PROPERTIES
    CancelTakesEffect
