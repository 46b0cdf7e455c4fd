CONSTANTS
    None = None
    i1 = i1
    i2 = i2
    r1 = r1
    r2 = r2
    c1 = c1
    c2 = c2
    JobIds = {1}
    Tokens = {1, 2, 3, 4}
    Identities = {i1, i2}
    Corpus = {i2}
    Replicas = {r1, r2}
    Crashing = {r1, r2}
    Requests = {c1}
    Workers = 2
    MaxAttempts = 3
SYMMETRY MCReplicas
SPECIFICATION Spec
INVARIANTS
    LeaseContract
    NoFourthReplay
    OutcomeFromLatestClaim
    PermitsRespected
PROPERTIES
    LeaseProtectsOwner
    ConcludedIsFinal
