SPECIFICATION SumSpec
CONSTANTS
    Callers = {"c1", "c2", "c3"}
    SinkFails = TRUE
    MaxGen = 3
    MaxRestarts = 1
    Runs = {"a"}
    Streams = {"s1"}
    MaxEvents = 2
    Page = 1
    MaxSelects = 2
    MaxLosses = 1
    Calls = {"c1", "c2"}
    ToolCalls = {"c1"}
    Slots = 1
    MaxOpens = 3
CHECK_DEADLOCK FALSE
INVARIANTS
    
    ViewIsPrefix
    ConnectionsOwned
PROPERTIES
    
    EveryEventShown
    ToolEntersOnce
