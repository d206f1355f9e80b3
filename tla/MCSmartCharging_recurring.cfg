\* The limit of a recurring profile from its start on.
INIT Init
NEXT Next
CONSTANTS
    Profiles <- RecurringLater
    MaxStackLevel = 1
    MaxInstalled = 2
    MaxPeriods = 8
    Day = 3
    LastTime = 3
    MaxOps = 1
    None = None
INVARIANT OutputIsCurrent
CHECK_DEADLOCK FALSE
