SPECIFICATION MCSpec
CONSTANTS
    Cursors = {"u1", "u2", "u3"}
    MaxCancels = 2
    NFiles = 2
    MaxUserWrites = 2
    InverseIds = {"r1", "r2"}
    MaxPending = 2
    InverseEdits = 2
    InverseCrashes = 1
    VerificationIds = {"r1"}
    Cancels = {"c1", "c2"}
    NCommands = 2
    Capacity = 1
    VerificationCrashes = 1
    Plans <- ToolPlans
    MaxSteps = 3
    ToolEdits = 2
    Uses = {"c1", "c2"}
    Stores = {"tasks", "settings"}
    StoreFiles = {"settings"}
    Queries = {"q1"}
    MaxWrites = 2
    Procs = {"p1", "p2"}
    Ops = {"o1", "o2"}
    Readers = {"q1"}
    ProviderCalls = {"c1", "c2"}
    MaxAttempts = 2
    RunRetries = 1
    Threshold = 1
    MaxFailures = 2
    Projects = {"A", "B"}
    Kernels = {"k1", "k2", "k3"}
    HomeProject = "A"
    Conversations = {"c1"}
    MaxTurns = 3
    MaxGroups = 3
    TurnCrashes = 1
    Dests = {"d1", "d2"}
    Models = {"m1"}
    Probes = {"p1"}
    Runs = {"r1", "r2"}
    Requests = {"id", "form"}
    MaxRevisions = 2
    ProfileEdits = 1
    LedgerKeys = {"k1", "k2"}
    Ledgers = {"l1", "l2"}
    Callers = {"c1", "c2"}
    Inputs = {"i1", "i2"}
    LedgerCrashes = 1
CHECK_DEADLOCK FALSE
INVARIANTS
    LeaseEndsClean
    PatchSound
    InverseVerdicts
    EvidenceIsReal
    ReviewDecides
    StoresTruthful
    InspectionSound
    OwnershipHolds
    ReceiptsDecide
    DesktopOwnsOne
    TurnsContinueWhole
    ProfileSound
    EffectAtMostOnce
    ResultsTrue
PROPERTIES
    CancelSettles
    BreakerHolds
    NoEffectPastUnknown
