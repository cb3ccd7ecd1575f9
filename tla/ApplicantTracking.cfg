SPECIFICATION Spec
CONSTANTS
    Calls = {1, 2}
    MaxTrouble = 1
    None = None
INVARIANTS
    TrailComplete
    TrailLinks
    ErrorMeansNoChange
    OpeningHasOnePosting
CHECK_DEADLOCK FALSE
