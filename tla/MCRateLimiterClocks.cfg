SPECIFICATION Spec
CONSTANTS
    p1 = p1
    p2 = p2
    c1 = c1
    c2 = c2
    c3 = c3
    Processes <- TwoProcesses
    Callers <- TwoCallers
    At <- OnePerProcess
    Skew <- Apart
    MaxSkew = 1
    MaxDelay = 1
    TokenUnits = 2
    Refill = 1
    Capacity = 2
    BucketTTL = 4
    Faults <- NoFaults
    FailThreshold = 1
    ResetTimeout = 1
    MaxChecks = 8
    MaxTime = 2
INVARIANT GloballyEnforced
CHECK_DEADLOCK FALSE
