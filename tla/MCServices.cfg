\* Metering, Configuration, SmartCharging, Variables, Diagnostics, AuthorizationList,
\* Clock, FirmwareService.
SPECIFICATION ServicesSpec
CONSTANTS
    StopTxDataLen = 3
    CacheSize = 1
    MessageAttempts = 1
    MaxTxCnt = 3
    RecordSize = 2
    MaxSession = 4
    None = None
    Torn = Torn
    Builds = {b1, b2}
    MaxRetries = 2
    MaxUpdates = 2
    MaxBoots = 3
INVARIANTS ServicesTypeOK StopDataIsOwn AcceptedSurvives LimitIsCurrent
    LocalListAgrees ClockIsRight AttemptsBounded AnnouncedOnce
PROPERTIES UploadCompleted InstallsWhatIsFetched FailuresAreReported UpdateEnds
