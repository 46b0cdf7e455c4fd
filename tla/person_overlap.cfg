CONSTANTS
    None = None
    b1 = b1
    b2 = b2
    m1 = m1
    m2 = m2
    paris = paris
    wikidata = wikidata
    page = page
    w1 = w1
    w2 = w2
    Items = {b1, b2, m1, m2}
    Extracts <- MCExtracts
    Kind <- MCKind
    Occurrence <- MCOccurrence
    Title <- MCTitle
    Place <- MCPlace
    Given <- MCGiven
    Document <- MCDocument
    Fingerprint <- MCFingerprint
    Attribution <- MCAttributed
    Verdicts <- MCVerdicts
    Followed = {page}
    Executions = {w1, w2}
    MaxEvents = 2
SYMMETRY MCSymmetry
SPECIFICATION Spec
INVARIANTS
    TypeOK
    AssembledIsBacked
    TallyIsBacked
    DuplicatesNeedARace
    RefusalNeedsARace
CHECK_DEADLOCK FALSE
