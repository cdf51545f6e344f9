SPECIFICATION FairSpec
CONSTANTS
    r1 = r1
    r2 = r2
    c1 = c1
    c2 = c2
    h1 = h1
    h2 = h2
    Runs <- TwoRuns
    Cancellers <- TwoCancellers
    Resumers <- None
    Approvals = FALSE
    MaxGen = 1
    MaxRestarts = 1
CHECK_DEADLOCK FALSE
INVARIANTS
    TurnsApart
PROPERTIES
    OutcomesHold
