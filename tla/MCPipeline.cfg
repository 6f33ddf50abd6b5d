SPECIFICATION PipelineFairSpec
CONSTANTS
    a1 = a1
    a2 = a2
    f1 = f1
    f2 = f2
    NoAttempt = NoAttempt
    Attempts <- TwoAttempts
    Fingerprints <- OneBody
    InflightTTL = 2
    CompletedTTL = 2
    OpBudget = 1
    StreamBudget = 0
    ReserveTries = 1
    Faults <- AllFaults
    PoolSize = 2
    CommitsFail = TRUE
INVARIANTS
    PipelineTypeOK
    ResponsesAreBilled
    KeyBilledOnce
    UnpaidIsUnknown
PROPERTIES
    ClaimsEnd
    EveryRequestCloses
CHECK_DEADLOCK FALSE
