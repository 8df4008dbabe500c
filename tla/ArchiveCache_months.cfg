CONSTANTS
    Days <- TwoDays
    Archives <- MonthAndDays
    Monthly = {"m"}
    Span <- MonthSpan
    Modes = {"sidecar"}
    Revisions = 1
    Ranges <- TwoRanges
SPECIFICATION Spec
INVARIANTS
    TypeOK
    OneCopy
    DisjointAnswer
    Accounted
PROPERTIES
    KeepsGoodFiles
