SPECIFICATION Spec
CONSTANTS
    r1 = r1
    r2 = r2
    openai = openai
    anthropic = anthropic
    absent = absent
    mini = mini
    haiku = haiku
    other = other
    Requests <- MCRequests
    Providers <- MCProviders
    Registered <- MCRegistered
    Tiers <- RecordTiers
    Catalog <- RecordCatalog
    Registry <- MCRegistry
    Strategy <- MCStrategy
    Priority <- MCPriority
    Faults <- RecordFaults
    FailThreshold = 1
    ResetTimeout = 1
    MaxFaults = 1
PROPERTY StreamFailsOnlyInterrupted
CHECK_DEADLOCK FALSE
