SPECIFICATION Spec
CONSTANTS
    p1 = p1
    p2 = p2
    c1 = c1
    c2 = c2
    c3 = c3
    Processes <- TwoProcesses
    Callers <- ThreeCallers
    At <- Placement
    Skew <- Apart
    MaxSkew = 1
    MaxDelay = 1
    TokenUnits = 3
    Refill = 2
    Capacity = 3
    BucketTTL = 4
    Faults <- AllFaults
    FailThreshold = 1
    ResetTimeout = 1
    MaxChecks = 4
    MaxTime = 4
SYMMETRY CallerSymmetry
INVARIANTS
    TypeOK
    SharedBucketBound
    FallbackBound
    TrialsComeBack
PROPERTY RetryAfterSuffices
CHECK_DEADLOCK FALSE
