SPECIFICATION DocSpec
CONSTANTS
    Uploads = {1, 2}
    Calls = {1, 2}
    MaxRows = 4
    MaxTrouble = 1
    None = None
INVARIANTS
    PointsToObject
    UploadedOnce
    ShowsLatest
CHECK_DEADLOCK FALSE
