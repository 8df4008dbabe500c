CONSTANTS
    Days <- OneDay
    Archives <- OneMonthOneDay
    Monthly = {"m"}
    Span <- MonthOfOne
    Modes = {"sidecar", "response_header", "archive_only"}
    Revisions = 2
    Ranges <- OneRange
SPECIFICATION FairSpec
INVARIANTS
    CatalogTruth
    FreshAnswer
    ListedDigest
PROPERTIES
    RequestReturns
