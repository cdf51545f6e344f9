SPECIFICATION FairSpec
CONSTANTS
    t1 = t1
    t2 = t2
    Tasks = {t1, t2}
    Plans <- SmallPlans
    MaxAttempts = 2
    MaxEvents = 2
CHECK_DEADLOCK FALSE
INVARIANTS
    AbandonedNeverRuns
PROPERTIES
    OrderComesToRest
    RunsPlanSerially
