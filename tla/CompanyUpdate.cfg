SPECIFICATION UpdateSpec
CONSTANTS
    Files = {1, 2, 3}
    Keys = {1, 2, 3, 4, 5, 6}
    Layouts <- MCLayouts
    None = 0
    Faults = {"refused", "lost", "missed"}
    MaxFailures = 3
    MaxAttempts = 3
    Users = {1, 2}
    Roles = {r1, r2}
    DonorRoles <- MCDonorRoles
    Operations = {"copy", "remove", "test"}
    MaxPatches = 2
INVARIANTS
    DocumentsSafe
    ApplicationSafe
    AccountsSafe
PROPERTIES
    MovedStaysMoved
CHECK_DEADLOCK FALSE
