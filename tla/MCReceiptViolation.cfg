SPECIFICATION Spec
CONSTANTS
    Dests = {"d1"}
    Models = {"m1","m2"}
    Probes = {"p1"}
    Runs = {}
    Requests = {"id"}
    MaxRevisions = 1
    MaxEdits = 0
INVARIANT ReceiptsProbed
CHECK_DEADLOCK FALSE
