\* One worker, as max_workers=1 or a source limit of 1 gives, and a list of two pairs.
SPECIFICATION Spec
CONSTANTS
    Step = 2
    UtcDay = 8
    Scenarios <- TwoPairs
    Markets <- MCMarkets
    Archives <- MCArchives
    Contents <- MCContents
    LastDay = 2
    ConfiguredDay = 1
    MaxWorkers = 1
    IngestWorkers = 2
INVARIANT ListAnswered
CHECK_DEADLOCK FALSE
