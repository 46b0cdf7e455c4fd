CONSTANTS
    None = None
    i1 = i1
    i2 = i2
    r1 = r1
    r2 = r2
    c1 = c1
    c2 = c2
    JobIds = {1, 2}
    Tokens = {1, 2, 3, 4}
    Identities = {i1, i2}
    Corpus = {i1, i2}
    Replicas = {r1}
    Crashing = {r1}
    Requests = {c1, c2}
    Workers = 1
    MaxAttempts = 2
SPECIFICATION FairSpec
INVARIANTS
    OneActivePerIdentity
    AdmissionContract
PROPERTIES
    ImplementsPromise
