SPECIFICATION Spec
CONSTANTS
    Migrations = {1, 2}
    Recipients = {1, 2}
    MaxTrouble = 1
    None = None
INVARIANTS
    SuccessIsComplete
    ReferencesFound
    UsersKept
    TriggerRestored
PROPERTIES
    CopiedOnce
    MigrationSettles
CHECK_DEADLOCK FALSE
