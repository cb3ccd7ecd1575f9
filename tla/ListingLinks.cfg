SPECIFICATION ListingSpec
CONSTANTS
    Rows <- MCRows
    SortKey <- MCSortKey
    PageLimit = 2
    OwnLimit = 1
    MaxChanges = 2
    MaxPages = 4
    MaxOff = 1
    Walks <- MCBareWalks
INVARIANTS
    NextReturnsResults
