CONSTANTS
    None = None
    i1 = i1
    i2 = i2
    r1 = r1
    r2 = r2
    c1 = c1
    c2 = c2
    JobIds = {1}
    Tokens = {1, 2}
    Identities = {i1}
    Corpus = {}
    Replicas = {r1}
    Crashing = {}
    Requests = {c1}
    Workers = 2
    MaxAttempts = 2
SPECIFICATION Spec
INVARIANTS
    OwnerKeepsItsEntry
CHECK_DEADLOCK FALSE
