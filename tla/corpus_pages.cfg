CONSTANTS
    None = None
    d1 = d1
    d2 = d2
    d3 = d3
    x = x
    y = y
    v1 = v1
    v2 = v2
    NProviders = 2
    Configured = {1, 2}
    Docs = {d1, d2, d3}
    Source <- MCSource
    Identity <- MCIdentity
    Builds = {v1, v2}
    Total = 2
    PerProvider = 2
    Minimum = 1
    Concurrency = 1
    MaxAttempts = 2
    MaxPages = 2
    n1 = n1
    n2 = n2
    wiki = wiki
    note = note
    Documents = {wiki, note}
    Invalid = Invalid
    Lines <- MCLines
    Wiki = {wiki}
    Fragments <- MCFragments
    Ingests = {n1, n2}
    Options <- MCOptions
SPECIFICATION DocumentsSpec
INVARIANTS
    TypeOK
    FirstSampleIsReserved
    DoneIsComplete
    ReportMatchesLedger
    MetricsMatchCheckpoints
    CursorIsCovered
    IngestedIsWhole
CHECK_DEADLOCK FALSE
