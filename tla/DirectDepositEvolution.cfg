SPECIFICATION Spec
CONSTANTS
    Requests = {r1, r2}
    Ops = {"create", "update", "remove"}
    Employees = {e1}
    Accounts = {b1}
    Amounts = {10}
    TruncatedAmount <- MCTruncatedAmount
    MaxRows = 1
    None = None
SYMMETRY Interchangeable
INVARIANTS
    EndDateInEvoFirst
    NoOrphanEd
PROPERTIES
    UpdateInEvoFirst
