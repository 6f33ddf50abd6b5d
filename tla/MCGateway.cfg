SPECIFICATION FairSpec
CONSTANTS
    r1 = r1
    r2 = r2
    openai = openai
    anthropic = anthropic
    absent = absent
    mini = mini
    haiku = haiku
    other = other
    Requests <- MCRequests
    Providers <- MCProviders
    Registered <- MCRegistered
    Tiers <- MCTiers
    Catalog <- MCCatalog
    Registry <- MCRegistry
    Strategy <- MCStrategy
    Priority <- MCPriority
    Faults <- AllFaults
    FailThreshold = 1
    ResetTimeout = 1
    MaxFaults = 2
INVARIANTS
    TypeOK
    AtMostOneExecution
    UnavailableNeverRan
    BilledOnce
    TrialsAreHeld
PROPERTIES
    BestFirst
    CommitIsFinal
    EveryRequestEnds
CHECK_DEADLOCK FALSE
