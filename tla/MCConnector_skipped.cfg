\* The next session begins before the send queue has released an aborted one.
SPECIFICATION Spec
CONSTANTS
    MaxTxCnt = 10
    RecordSize = 2
    MaxAttempts = 1
    CacheSize = 1
    SilentOffline = FALSE
    EndEarly = FALSE
    History = FALSE
    BeginEarly = TRUE
    MaxSession = 2
    MaxReboot = 0
    None = None
INVARIANTS NoTransactionLost
