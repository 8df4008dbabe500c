CONSTANTS
    Asks <- MCAsks
    Archives <- MCArchives
    Start <- MCStart
    Rows <- MCRows
    Folders <- MCFolders
    Portals = {"sound", "short", "empty", "stuck", "endless"}
    Window = 2
    Scan = 3
    MaxKeys = 4
    Month = 2
    MaxPages = 3
    Late = 1

SPECIFICATION Spec

INVARIANT
    ListingExact

PROPERTY
    EveryListingEnds
