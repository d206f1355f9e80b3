\* The journal of OCPP 2.0.1, and that of OCPP 1.6 with three sessions.  The view
\* leaves out the history variables of the latter but the count of attempts.
SPECIFICATION JournalsSpec
VIEW journalsView
CONSTANTS
    MaxTxCnt = 6
    RecordSize = 2
    EventRecordSize = 3
    MessageAttempts = 1
    TxStartPoint = {"Authorized", "EnergyTransfer"}
    TxStopPoint = {"EVConnected"}
    SilentOffline = TRUE
    BeginEarly = FALSE
    MaxSession = 3
    LastSeqNo = 4
    MaxEvents <- Events
    MaxBoot = 2
    None = None
INVARIANTS TypeOK StartAndEndKept StartedIsCurrent
PROPERTY EventsInOrder
CHECK_DEADLOCK FALSE
