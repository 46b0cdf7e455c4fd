CONSTANTS
    None = None
    d1 = d1
    d2 = d2
    d3 = d3
    x = x
    y = y
    v1 = v1
    v2 = v2
    NProviders = 3
    Configured = {1, 2}
    Docs = {d1, d2, d3}
    Source <- MCSource
    Identity <- MCDistinct
    Builds = {v1}
    Total = 2
    PerProvider = 2
    Minimum = 1
    Concurrency = 2
    MaxAttempts = 2
    MaxPages = 1
SPECIFICATION Spec
INVARIANTS
    CapsHoldAcrossAttempts
    LedgerIsBacked
    NothingIsRepeated
CHECK_DEADLOCK FALSE
