SPECIFICATION Spec
CONSTANTS
    a1 = a1
    a2 = a2
    a3 = a3
    f1 = f1
    f2 = f2
    NoAttempt = NoAttempt
    Attempts <- ThreeAttempts
    Fingerprints <- TwoBodies
    InflightTTL = 3
    CompletedTTL = 3
    OpBudget = 1
    StreamBudget = 1
    ReserveTries = 2
    Faults <- AllFaults
SYMMETRY AttemptSymmetry
INVARIANTS
    TypeOK
    ExclusiveOwner
    RerunsExplained
    ReplayIsFaithful
PROPERTY SettledIsStable
CHECK_DEADLOCK FALSE
