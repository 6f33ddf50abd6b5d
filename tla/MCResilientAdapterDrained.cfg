SPECIFICATION FairSpec
CONSTANTS
    c1 = c1
    c2 = c2
    Callers <- TwoCallers
    Drainers <- TwoCallers
    FailThreshold = 2
    ResetTimeout = 1
    MaxFaults = 2
    MaxAborts = 0
PROPERTY Heals
