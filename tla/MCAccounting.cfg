SPECIFICATION Spec
CONSTANTS
    p1 = p1
    p2 = p2
    q1 = q1
    q2 = q2
    q3 = q3
    openai = openai
    anthropic = anthropic
    gpt = gpt
    Processes <- TwoProcesses
    Skew <- Apart
    MaxSkew = 1
    Requests <- ThreeRequests
    Rates <- MCRates
    Models <- MCModels
    Tokens <- MCTokens
    Cent = 4
    PageSize = 1
    MaxTime = 1
SYMMETRY RequestSymmetry
INVARIANTS
    TypeOK
    ChargedInEffect
    TotalsWithinRounding
    PagesMissNothing
CHECK_DEADLOCK FALSE
