CONSTANTS
    NItems = 4
    Size <- RefusedSize
    Capacity = 2
    Downloaders = {d1, d2}
    Processors = {p1}
    Sentinel = Sentinel
    CleanupMayRaise = FALSE
SPECIFICATION FairSpec
INVARIANTS
    QuiescentAtEnd
    ProcessedOrCleaned
    Located
PROPERTIES
    BatchSpec
    AlwaysEnds
