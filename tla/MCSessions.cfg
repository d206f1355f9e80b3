\* A journal of one transaction: two sessions, one of them silent if need be, two
\* attempts for each message, a reboot at any time.  And five runs of the firmware.
SPECIFICATION SessionsSpec
CONSTANTS
    MaxTxCnt = 10
    RecordSize = 1
    MaxAttempts = 2
    CacheSize = 1
    SilentOffline = TRUE
    EndEarly = FALSE
    History = TRUE
    BeginEarly = FALSE
    MaxSession = 2
    MaxReboot = 1
    None = None
    RecoverFile = {tx, reservation}
    MigrateFile = {tx}
    Firmware = {"v1", "v2"}
    Width = 8
    MaxFailures = 2
    AutoRecover = TRUE
    MaxRun = 4
    NoFile = NoFile
    Damaged = Damaged
INVARIANTS TypeOK JournalIsCurrent AttemptsBounded NoTransactionLost
    BootNrIdentifiesRun BootLoopBroken
PROPERTIES ServerOrder SettledIsFinal SessionsAreReported
    DeletedForCause StationRegisters
