SPECIFICATION Spec
CONSTANTS
    a1 = a1
    a2 = a2
    a3 = a3
    f1 = f1
    f2 = f2
    NoAttempt = NoAttempt
    Attempts <- TwoAttempts
    Fingerprints <- OneBody
    InflightTTL = 3
    CompletedTTL = 4
    OpBudget = 1
    StreamBudget = 3
    ReserveTries = 2
    Faults <- NoFaults
INVARIANT AtMostOnce
CHECK_DEADLOCK FALSE
