\* Three days of four two-tick candles, two workers, one failure and one damaged file.
SPECIFICATION Spec
CONSTANTS
    Step = 2
    UtcDay = 8
    Scenarios <- MCScenarios
    Markets <- MCMarkets
    Archives <- MCArchives
    Contents <- MCContents
    LastDay = 2
    ConfiguredDay = 1
    MaxWorkers = 2
    IngestWorkers = 2
INVARIANTS OneWriter ConnectionsKept
PROPERTIES OwnResults AnswersExact
