CONSTANTS
    f1 = f1
    f2 = f2
    vote = vote
    atom = atom
    alice = alice
    bob = bob
    claim = claim
    tx = tx
    self = self
    house = house
    wars = wars
    palace = palace
    d1 = d1
    b1 = b1
    b2 = b2
    fix = fix
    helena = helena
    paris = paris
    Facts = {f1, f2}
    Terms = {vote, atom}
    Plan <- MCPlan
    Vote <- MCVote
    Collections <- MCCollections
    Runs = {r1, r2}
    NoTerm = NoTerm
    Users = {alice, bob}
    Claims = {claim}
    Posts = {p1, p2, p3}
    Txs = {tx}
    Deposit <- MCDeposit
    NoId = NoId
    Wallets = {alice, bob}
    Challenges = {x1, x2}
    Logins = {p1, p2, p3}
    Nobody = Nobody
    Titles = {self, house, wars, palace}
    Tier <- MCTier
    Followable = {house, wars, palace}
    Overviews = {wars}
    Languages = 2
    FollowCap = 3
    LinkLists <- MCLinks
    EventLists <- MCEvents
    SeedLists <- MCSeeds
    Candidates = {d1, b1, b2, fix}
    Correction = fix
    Deaths = {d1, fix}
    Stem <- MCStem
    PlaceOf <- MCPlaceOf
    Inputs <- MCInputs
    QualityRuns = {r1, r2}
    MaxQualityEvents = 2
    NoPlace = NoPlace
SPECIFICATION Spec
INVARIANTS
    PlatformTypeOK
    PublishedIsOnChain
    ReportIsBacked
    DepositsAreTrue
    ErrorNeedsARace
    OneUserPerWallet
    ChallengeOpensOneSession
    FollowsTheBest
    RetriesNeverRecount
PROPERTIES
    PublishedIsFinal
    StanceNeverLost
    OwnEventNeverRejects
SYMMETRY MCPermutations
CHECK_DEADLOCK FALSE
