\* The Authorize of a silent transaction times out after the transaction has been
\* removed from the journal, and its file comes back.
SPECIFICATION Spec
CONSTANTS
    MaxTxCnt = 10
    RecordSize = 1
    MaxAttempts = 1
    CacheSize = 1
    SilentOffline = TRUE
    EndEarly = FALSE
    History = FALSE
    BeginEarly = FALSE
    MaxSession = 3
    MaxReboot = 1
    None = None
INVARIANTS StartedIsCurrent
