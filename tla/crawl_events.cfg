CONSTANTS
    self = self
    house = house
    wars = wars
    palace = palace
    Titles = {self, house, wars, palace}
    Tier <- MCTier
    Followable = {house, wars, palace}
    Overviews = {wars}
    Languages = 2
    FollowCap = 3
    LinkLists <- MCLinks
    EventLists <- MCEvents
    SeedLists <- MCSeeds
SPECIFICATION CrawlSpec
INVARIANT EventsAreHigh
CHECK_DEADLOCK FALSE
