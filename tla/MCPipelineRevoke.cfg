SPECIFICATION PipelineSpec
CONSTANTS
    a1 = a1
    a2 = a2
    f1 = f1
    f2 = f2
    NoAttempt = NoAttempt
    Attempts <- OneAttempt
    Fingerprints <- OneBody
    InflightTTL = 2
    CompletedTTL = 2
    OpBudget = 1
    StreamBudget = 0
    ReserveTries = 1
    Faults <- NoFaults
    PoolSize = 2
    CommitsFail = FALSE
PROPERTY RevokedIsRefused
CHECK_DEADLOCK FALSE
