------------------------------- MODULE MCServices -------------------------------
(***************************************************************************)
(* The services beside the transactions, for TLC.  They do not share state at   *)
(* the level of their modules, hence a behaviour is one of a single service,     *)
(* chosen at the beginning: the states of the run are those of all services       *)
(* added up, not multiplied.  Metering and FirmwareService have their constants   *)
(* in the cfg.                                                               *)
(***************************************************************************)
EXTENDS Metering, FirmwareConstants, TLC

CONSTANT Torn

VARIABLES component

-----------------------------------------------------------------------------
(* Configuration: two versions of the firmware that declare keys differently. *)

Declares == (1 :> ("a" :> "0" @@ "b" :> "empty" @@ "c" :> None))
         @@ (2 :> ("a" :> "0" @@ "b" :> "1" @@ "c" :> "s"))
VARIABLES cfVersion, cfConfig, cfRevisionSum, cfFile, cfCleaned, cfChanges, cfAccepted
Cf == INSTANCE Configuration WITH Key <- {"a", "b", "c"}, Versions <- {1, 2},
        ReadOnly <- {"a"}, Numeral <- {"0", "1"}, Text <- {"empty", "s"},
        RevisionMod <- 8, MaxChange <- 3,
        version <- cfVersion, config <- cfConfig, revisionSum <- cfRevisionSum,
        file <- cfFile, cleaned <- cfCleaned, changes <- cfChanges, accepted <- cfAccepted

-----------------------------------------------------------------------------
(* SmartCharging: a profile of each purpose, and one that is malformed.       *)

Profile(id, purpose, level, validTo, kind, start, duration, minRate, periods) ==
    [id |-> id, purpose |-> purpose, level |-> level, tx |-> -1, validFrom |-> 0,
     validTo |-> validTo, kind |-> kind, start |-> start, duration |-> duration,
     unit |-> "current", minRate |-> minRate, periods |-> periods]
Period(start, limit) == [start |-> start, limit |-> limit]
Profiles ==
    {Profile(1, "Tx", 1, 0, "Relative", 0, 0, 5, <<Period(0, 8), Period(1, 4)>>),
     Profile(2, "TxDefault", 0, 0, "Absolute", 2, 1, -1, <<Period(0, 6)>>),
     Profile(3, "Max", 0, 3, "Recurring", 1, 1, -1, <<Period(0, 5)>>),
     Profile(4, "TxDefault", 1, 0, "Relative", 0, 0, -1, <<>>)}
VARIABLES scNow, scTx, scStack, scFile, scTrack, scNextChange, scOutput, scOps, scFresh
Sc == INSTANCE SmartCharging WITH MaxStackLevel <- 1, MaxInstalled <- 2, MaxPeriods <- 8,
        Day <- 2, LastTime <- 3, MaxOps <- 2,
        now <- scNow, tx <- scTx, stack <- scStack, file <- scFile, track <- scTrack,
        nextChange <- scNextChange, output <- scOutput, ops <- scOps, fresh <- scFresh

-----------------------------------------------------------------------------
(* Variables: two buckets, the second one after a variable that is not stored. *)

Buckets == 1 :> <<"a", "b", "t">> @@ 2 :> <<"c", "w">>
Default == [v \in {"a", "b", "c", "t", "w"} |-> 0]
Valid == [v \in {"a", "b", "c", "t", "w"} |-> IF v \in {"t", "w"} THEN {0} ELSE {0, 1}]
VARIABLES vaValue, vaWriteCount, vaTrackWriteCount, vaFile, vaSets, vaAccepted
Va == INSTANCE Variables WITH Persistent <- {"a", "b", "c"}, ReadOnly <- {"t"},
        WriteOnly <- {"w"}, RebootRequired <- {"b"}, WriteMod <- 65536, MaxSet <- 2,
        value <- vaValue, writeCount <- vaWriteCount, trackWriteCount <- vaTrackWriteCount,
        file <- vaFile, sets <- vaSets, accepted <- vaAccepted

-----------------------------------------------------------------------------
(* Diagnostics: four files, one empty and one that cannot be opened; a heading *)
(* may fill the buffer up.                                                   *)

VARIABLES dgNow, dgRetries, dgRetryInterval, dgNextTry, dgUploadIssued, dgUploadFailure,
          dgLastReported, dgUpload, dgRequests
Dg == INSTANCE Diagnostics WITH Secure <- TRUE, DataBufSize <- 4, PreambleLen <- 1,
        ReaderLen <- 3, PostambleLen <- 2, HeadingLen <- 2, FileLengths <- <<3, 0, -1, 2>>,
        InitialDelay <- 1, UploadTimeout <- 2, TransitionDelay <- 1, RetryIntervals <- {1, 4},
        MaxRetries <- 1, Word <- 4, OneAtATime <- TRUE, LastTime <- 5, MaxRequests <- 2,
        now <- dgNow, retries <- dgRetries, retryInterval <- dgRetryInterval,
        nextTry <- dgNextTry, uploadIssued <- dgUploadIssued,
        uploadFailure <- dgUploadFailure, lastReportedStatus <- dgLastReported,
        upload <- dgUpload, requests <- dgRequests

-----------------------------------------------------------------------------
(* AuthorizationList: a list of two entries, and three idTags.                *)

VARIABLES alList, alListVersion, alFile, alEnabled, alClock, alConflicts, alServer
Al == INSTANCE AuthorizationList WITH IdTags <- {1, 2, 3}, Statuses <- {"Accepted"},
        ExpiryDates <- {0, 1}, MaxLength <- 2, SendMaxLength <- 2, CarefulServer <- TRUE,
        MaxVersion <- 2, LastTime <- 2,
        list <- alList, listVersion <- alListVersion, file <- alFile, enabled <- alEnabled,
        clock <- alClock, conflicts <- alConflicts, server <- alServer

-----------------------------------------------------------------------------
(* Clock: the ends of a February and of a year, and a counter that wraps around *)
(* while the clock is running.                                               *)

Days(days) == [i \in DOMAIN days |->
    [year |-> days[i][1], month |-> days[i][2], day |-> days[i][3], sec |-> 0]]
VARIABLES ckUptime, ckCalendar, ckFrac, ckCurrentTime, ckLastUpdate, ckMocppBasetime,
          ckSystemBasetime, ckLastHeartbeat, ckStamp, ckSet, ckSynced, ckZero, ckBeat, ckSyncs
Ck == INSTANCE Clock WITH Second <- 2, DaySecs <- 2, Width <- 9, MaxPoll <- 3, Interval <- 2,
        Calendars <- {Days(<< <<2024, 1, 27>>, <<2024, 1, 28>>, <<2024, 2, 0>>, <<2024, 2, 1>>,
                             <<2024, 2, 2>> >>),
                      Days(<< <<2022, 11, 29>>, <<2022, 11, 30>>, <<2023, 0, 0>>, <<2023, 0, 1>>,
                             <<2023, 0, 2>> >>)},
        LastUptime <- 11, MaxSync <- 2,
        uptime <- ckUptime, calendar <- ckCalendar, frac <- ckFrac,
        currentTime <- ckCurrentTime, lastUpdate <- ckLastUpdate,
        mocpp_basetime <- ckMocppBasetime, system_basetime <- ckSystemBasetime,
        lastHeartbeat <- ckLastHeartbeat, stamp <- ckStamp, set <- ckSet, synced <- ckSynced,
        zero <- ckZero, beat <- ckBeat, syncs <- ckSyncs

-----------------------------------------------------------------------------
(* FirmwareService: each configuration of the firmware, an update that is replaced *)
(* by another one, retries, and reboots into the same or another build.       *)

VARIABLES fwHooks, fwDownloadStatus, fwInstallationStatus, fwDownloading, fwInstalling, fwStage,
          fwDownloadIssued, fwInstallationIssued, fwRetries, fwDue, fwDelayed, fwAvailable0,
          fwLastReported, fwChecked, fwBuildNumber, fwPreviousBuildNumber, fwCharging, fwUpdate,
          fwGranted, fwAttempts, fwFetched, fwFree, fwAnnounced, fwBoots
Fw == INSTANCE FirmwareService WITH
        hooks <- fwHooks, downloadStatus <- fwDownloadStatus,
        installationStatus <- fwInstallationStatus, downloading <- fwDownloading,
        installing <- fwInstalling, stage <- fwStage, downloadIssued <- fwDownloadIssued,
        installationIssued <- fwInstallationIssued, retries <- fwRetries, due <- fwDue,
        delayed <- fwDelayed, available0 <- fwAvailable0,
        lastReportedStatus <- fwLastReported, checked <- fwChecked,
        buildNumber <- fwBuildNumber, previousBuildNumber <- fwPreviousBuildNumber,
        charging <- fwCharging, update <- fwUpdate, granted <- fwGranted,
        attempts <- fwAttempts, fetched <- fwFetched, free <- fwFree,
        announced <- fwAnnounced, boots <- fwBoots

-----------------------------------------------------------------------------
cfVars == <<cfVersion, cfConfig, cfRevisionSum, cfFile, cfCleaned, cfChanges, cfAccepted>>
scVars == <<scNow, scTx, scStack, scFile, scTrack, scNextChange, scOutput, scOps, scFresh>>
vaVars == <<vaValue, vaWriteCount, vaTrackWriteCount, vaFile, vaSets, vaAccepted>>
dgVars == <<dgNow, dgRetries, dgRetryInterval, dgNextTry, dgUploadIssued, dgUploadFailure,
            dgLastReported, dgUpload, dgRequests>>
alVars == <<alList, alListVersion, alFile, alEnabled, alClock, alConflicts, alServer>>
ckVars == <<ckUptime, ckCalendar, ckFrac, ckCurrentTime, ckLastUpdate, ckMocppBasetime,
            ckSystemBasetime, ckLastHeartbeat, ckStamp, ckSet, ckSynced, ckZero, ckBeat, ckSyncs>>
fwVars == <<fwHooks, fwDownloadStatus, fwInstallationStatus, fwDownloading, fwInstalling,
            fwStage, fwDownloadIssued, fwInstallationIssued, fwRetries, fwDue, fwDelayed,
            fwAvailable0, fwLastReported, fwChecked, fwBuildNumber, fwPreviousBuildNumber,
            fwCharging, fwUpdate, fwGranted, fwAttempts, fwFetched, fwFree, fwAnnounced,
            fwBoots>>
servicesVars == <<component, mtVars, cfVars, scVars, vaVars, dgVars, alVars, ckVars, fwVars>>

ServicesInit ==
    /\ component \in {"Metering", "Configuration", "SmartCharging", "Variables",
                      "Diagnostics", "AuthorizationList", "Clock", "FirmwareService"}
    /\ Init /\ Cf!Init /\ Sc!Init /\ Va!Init /\ Dg!Init /\ Al!Init /\ Ck!Init
    /\ Fw!Init
    \* one initial state of the rest
    /\ component # "Configuration" => cfVersion = 1
    /\ component # "Clock" => ckFrac = 0 /\ ckCalendar[1].month = 1
    /\ component # "FirmwareService" =>
          fwHooks = {} /\ fwBuildNumber = CHOOSE b \in Builds : TRUE

\* The bounds of FirmwareService leave it something to do for ever, those of the others
\* do not.
Rest ==
    /\ component # "FirmwareService"
    /\ UNCHANGED servicesVars

ServicesNext ==
    \/ /\ UNCHANGED component
       /\ \/ component = "Metering" /\ Next
             /\ UNCHANGED <<cfVars, scVars, vaVars, dgVars, alVars, ckVars, fwVars>>
          \/ component = "Configuration" /\ Cf!Next
             /\ UNCHANGED <<mtVars, scVars, vaVars, dgVars, alVars, ckVars, fwVars>>
          \/ component = "SmartCharging" /\ Sc!Next
             /\ UNCHANGED <<mtVars, cfVars, vaVars, dgVars, alVars, ckVars, fwVars>>
          \/ component = "Variables" /\ Va!Next
             /\ UNCHANGED <<mtVars, cfVars, scVars, dgVars, alVars, ckVars, fwVars>>
          \/ component = "Diagnostics" /\ Dg!Next
             /\ UNCHANGED <<mtVars, cfVars, scVars, vaVars, alVars, ckVars, fwVars>>
          \/ component = "AuthorizationList" /\ Al!Next
             /\ UNCHANGED <<mtVars, cfVars, scVars, vaVars, dgVars, ckVars, fwVars>>
          \/ component = "Clock" /\ Ck!Next
             /\ UNCHANGED <<mtVars, cfVars, scVars, vaVars, dgVars, alVars, fwVars>>
          \/ component = "FirmwareService" /\ Fw!Next
             /\ UNCHANGED <<mtVars, cfVars, scVars, vaVars, dgVars, alVars, ckVars>>
    \/ Rest

\* The fairness of FirmwareService.
FirmwareFairness ==
    LET Update == component = "FirmwareService" IN
    /\ WF_fwVars(Update /\ Fw!loop)
    /\ WF_fwVars(Update /\ Fw!DelayPasses)
    /\ WF_fwVars(Update /\ Fw!DateReached)
    /\ WF_fwVars(Update /\ \E s \in {"Downloaded", "DownloadFailed"} : Fw!DownloadEnds(s))
    /\ WF_fwVars(Update /\ \E s \in {"Installed", "InstallationFailed"} :
                                Fw!InstallationEnds(s))

ServicesSpec ==
    /\ ServicesInit /\ [][ServicesNext]_servicesVars
    /\ FirmwareFairness

-----------------------------------------------------------------------------
\* Each service keeps its types.
ServicesTypeOK ==
    /\ component = "Metering" => TypeOK
    /\ component = "Configuration" => Cf!TypeOK
    /\ component = "SmartCharging" => Sc!TypeOK
    /\ component = "Variables" => Va!TypeOK
    /\ component = "Diagnostics" => Dg!TypeOK
    /\ component = "AuthorizationList" => Al!TypeOK
    /\ component = "Clock" => Ck!TypeOK
    /\ component = "FirmwareService" => Fw!TypeOK

\* Configuration and Variables: what the server was told is accepted comes back after a reboot.
AcceptedSurvives ==
    /\ component = "Configuration" => Cf!AcceptedSurvives
    /\ component = "Variables" => Va!AcceptedSurvives

\* SmartCharging: the charger has been told the limit that is in force.
LimitIsCurrent == component = "SmartCharging" => Sc!LimitIsCurrent

\* Diagnostics: an upload that is done has been reported, and the server has the whole file.
UploadCompleted == Dg!UploadCompleted

\* AuthorizationList: a lookup gives what the server thinks the charge point has.
LocalListAgrees == component = "AuthorizationList" => Al!LocalListAgrees

\* Clock: the time is the server's, a time taken before is corrected, heartbeats are in time.
ClockIsRight == component = "Clock" => Ck!ClockIsRight

\* FirmwareService: no more attempts than the server granted.
AttemptsBounded == component = "FirmwareService" => Fw!AttemptsBounded

\* FirmwareService: a new build is announced once.
AnnouncedOnce == component = "FirmwareService" => Fw!AnnouncedOnce

\* FirmwareService: what is installed is the firmware of the update that is scheduled.
InstallsWhatIsFetched == Fw!InstallsWhatIsFetched

\* FirmwareService: a failed attempt is reported before the next one.
FailuresAreReported == Fw!FailuresAreReported

\* FirmwareService: an update comes to an end.
UpdateEnds == Fw!UpdateEnds
===============================================================================
