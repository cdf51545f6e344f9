SPECIFICATION Spec
CONSTANTS
    c1 = c1
    c2 = c2
    c3 = c3
    Callers <- ThreeCallers
    SinkFails = TRUE
    MaxGen = 2
    MaxRestarts = 0
CHECK_DEADLOCK FALSE
PROPERTIES
    CompletedStaysContinuable
