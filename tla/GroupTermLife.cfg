SPECIFICATION GtlSpec
CONSTANTS
    Requests = {r1, r2}
    Employees = {e1}
    Bodies <- MCBodies
    Numbers = {0, 4, 1000}
    StoredNumber <- MCStoredNumber
    StoredHours <- MCStoredHours
    None = None
    OmittedKept = FALSE
SYMMETRY Interchangeable
INVARIANTS
    OneRecord
    CoverageExclusive
PROPERTIES
    PayrollIsFirst
