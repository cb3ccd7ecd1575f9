SPECIFICATION Spec
CONSTANTS
    Requests = {r1, r2}
    Ops = {"create", "update"}
    Employees = {e1}
    Accounts = {b1, b2}
    Amounts = {}
    TruncatedAmount <- MCTruncatedAmount
    MaxRows = 2
    None = None
SYMMETRY Interchangeable
INVARIANTS
    DepositsUnique
