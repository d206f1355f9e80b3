SPECIFICATION Spec
SYMMETRY Symmetry
CONSTANTS
    A = A
    B = B
    NumConnectors = 2
    IdTags = {A, B}
    ReservationIds = {1, 2}
    ExpiryDates = {1, 2}
    ConnectorZeroSupported = TRUE
    AuthorizeRemoteTxRequests = FALSE
    AllowOfflineTxForUnknownId = TRUE
    StopTransactionOnInvalidId = TRUE
    ResetTries = 1
    NumSlots = 2
    LastTime = 2
    MaxOps = 4
    None = None
PROPERTY ReservationAlwaysHonoured
CHECK_DEADLOCK FALSE
