SPECIFICATION Spec
CONSTANTS
    r1 = r1
    r2 = r2
    c1 = c1
    c2 = c2
    h1 = h1
    h2 = h2
    Runs <- OneRun
    Cancellers <- OneCanceller
    Resumers <- OneResumer
    Approvals = TRUE
    MaxGen = 2
    MaxRestarts = 0
CHECK_DEADLOCK FALSE
INVARIANTS
    RuntimeHoldsTurn
