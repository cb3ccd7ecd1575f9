SPECIFICATION Spec
CONSTANTS
    Kinds = {"employee", "compensation", "alternateRate"}
    Employees = {e1}
    RateNumbers = {2}
    MaxDate = 2
    MaxRows = 2
    Concurrencies = {1, 2}
    Faults = {"refused", "lost", "missed", "died"}
    MaxFailures = 1
INVARIANTS
    StatusTellsTruth
    LinkedMeansInEvo
    
    EntriesFollow
PROPERTIES
    FinalStatusWritten
CHECK_DEADLOCK FALSE
