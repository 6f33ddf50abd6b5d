SPECIFICATION FairSpec
CONSTANTS
    c1 = c1
    c2 = c2
    Callers <- TwoCallers
    Drainers <- OneDrainer
    FailThreshold = 2
    ResetTimeout = 2
    MaxFaults = 4
    MaxAborts = 1
INVARIANTS
    TypeOK
    AtMostOneTrial
    NoLeakedSlot
    TripsAreEarned
    EmittedIsFinal
PROPERTIES
    OpenRunsItsCooldown
    ImplementsGate
    Heals
