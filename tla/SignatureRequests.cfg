SPECIFICATION Spec
CONSTANTS
    Employees = {e1, e2}
    Hire = e1
    TaskList = {"helloSign", "simple"}
    MaxRequests = 2
    Calls = {1, 2, 3}
    MaxTrouble = 1
    None = None
INVARIANTS
    ObjectsKept
    NothingTwice
    BilledIfAtHelloSign
    CompletedIsRecorded
CHECK_DEADLOCK FALSE
