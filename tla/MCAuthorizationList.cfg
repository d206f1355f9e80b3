\* The charge point stores an idTag twice when an update removes another one before it.
INIT Init
NEXT Next
CONSTANTS
    IdTags = {1, 2, 3}
    Statuses = {"Accepted"}
    ExpiryDates = {0}
    MaxLength = 3
    SendMaxLength = 2
    CarefulServer = FALSE
    MaxVersion = 3
    LastTime = 0
    None = None
INVARIANT NoIdTagTwice
CHECK_DEADLOCK FALSE
