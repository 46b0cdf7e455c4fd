CONSTANTS
    None = None
    b1 = b1
    b2 = b2
    m1 = m1
    m2 = m2
    paris = paris
    wikidata = wikidata
    page = page
    w1 = w1
    w2 = w2
    Items = {b1, b2}
    Extracts <- MCBirths
    Kind <- MCKind
    Occurrence <- MCOccurrence
    Title <- MCTitle
    Place <- MCPlace
    Given <- MCGiven
    Document <- MCDocument
    Fingerprint <- MCFingerprint
    Attribution <- MCCoreference
    Verdicts <- MCVerdicts
    Followed = {page}
    Executions = {w1}
    MaxEvents = 2
SPECIFICATION Spec
INVARIANTS
    UnattributedStaysOffTheMap
CHECK_DEADLOCK FALSE
