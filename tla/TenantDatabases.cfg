SPECIFICATION Spec
CONSTANTS
    Tenants = {t1, t2}
    Instances = {1, 2}
    Creations = {c1, c2}
    Patches = {p1}
    MaxDatabases = 1
    MaxBatch = 2
    MaxCreations = 2
    MaxPatches = 2
    MaxFailures = 1
    None = None
INVARIANTS
    ServedIsComplete
    DoubledOnlyIfBlind
    WithinLimit
PROPERTIES
    DropIsDue
    ExpiredIsDropped
CHECK_DEADLOCK FALSE
