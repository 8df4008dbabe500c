SPECIFICATION Spec
CONSTANTS
    LastDay = 3
    FirstFinal = 2
    TTL = 1
    Listing = 1
    Tails = {1, 2}
    MaxTime = 4
    MaxRequests = 2
CHECK_DEADLOCK FALSE
INVARIANTS
    NothingMissed
    TailKnown
    RefreshKnown
PROPERTIES
    PlanExact
    NoNeedlessListing
