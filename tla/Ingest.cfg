SPECIFICATION Spec
CONSTANTS
    Subjects = {"A", "B"}
    Grace = 1
    Formats <- MCFormats
    NameRank <- MCRank
    MaxChunk = 2
    LastRevision = 2
    Retries = 1
INVARIANTS
    Faithful
    Readable
    ReportTrue
    WholeOrOld
CHECK_DEADLOCK FALSE
