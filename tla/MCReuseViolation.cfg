SPECIFICATION Spec
CONSTANTS
    c1 = c1
    c2 = c2
    c3 = c3
    Callers <- ThreeCallers
    SinkFails = FALSE
    MaxGen = 3
    MaxRestarts = 0
CHECK_DEADLOCK FALSE
INVARIANTS
    OneGenerationLives
