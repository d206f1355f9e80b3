-------------------------- MODULE FirmwareService ---------------------------
(***************************************************************************)
(* Model/FirmwareManagement/FirmwareService.cpp: the firmware update       *)
(* routine with its retries and its reports to the server, and the         *)
(* announcement of a new build after a reboot.                             *)
(*                                                                         *)
(* The routine runs in loop() only, next to a firmware that downloads and  *)
(* installs at its own pace, transactions that begin and end at any time,  *)
(* a server that may replace the update at any time, and resets.           *)
(***************************************************************************)
EXTENDS FirmwareConstants

VARIABLES
    hooks,              \* the handlers and inputs that the firmware has set
    downloadStatus,     \* value of downloadStatusInput()
    installationStatus, \* value of installationStatusInput()
    downloading,        \* the update that the firmware is downloading, or 0
    installing,         \* the update that it is installing, or 0
    stage, downloadIssued, installationIssued,
    retries,
    due,                \* retreiveDate has been reached
    delayed,            \* delayTransition has not passed yet
    available0,         \* availabilityVolatile of connector 0
    lastReportedStatus,
    checked,            \* checkedSuccessfulFwUpdate
    buildNumber,        \* build of the firmware that is running
    previousBuildNumber,\* BUILD_NUMBER in the configuration, on the flash
    charging,           \* a transaction is running on some connector
    update,             \* number of the update that is scheduled: stands for location
    granted, attempts,  \* history: retries granted to it, and downloads begun for it
    fetched,            \* history: the last update that has been downloaded
    free,               \* history: no transaction at one time since that download
    announced,          \* history: announcements of the present build
    boots               \* history

hookVars   == <<downloadStatus, installationStatus, downloading, installing>>
stageVars  == <<stage, downloadIssued, installationIssued, retries, due, delayed>>
reportVars == <<lastReportedStatus, checked, previousBuildNumber, announced>>
history    == <<update, granted, attempts, fetched, free>>
vars == <<hooks, hookVars, stageVars, available0, reportVars, buildNumber, charging,
          history, boots>>

Hooks == {"onDownload", "downloadStatusInput", "onInstall", "installationStatusInput"}

\* A status input comes with the handler it reports about.
Configurations ==
    {h \in SUBSET Hooks :
        /\ "downloadStatusInput" \in h => "onDownload" \in h
        /\ "installationStatusInput" \in h => "onInstall" \in h}

Init ==
    /\ hooks \in Configurations
    /\ downloadStatus = "NotDownloaded" /\ installationStatus = "NotInstalled"
    /\ downloading = 0 /\ installing = 0
    /\ stage = "Idle" /\ downloadIssued = FALSE /\ installationIssued = FALSE
    /\ retries = 0 /\ due = TRUE /\ delayed = FALSE
    /\ available0 = TRUE
    /\ lastReportedStatus = "Idle" /\ checked = FALSE
    /\ buildNumber \in Builds /\ previousBuildNumber = buildNumber
    /\ charging = FALSE
    /\ update = 0 /\ granted = 0 /\ attempts = 0 /\ fetched = 0 /\ free = TRUE
    /\ announced = 0 /\ boots = 1

-----------------------------------------------------------------------------
(* Reports.                                                                *)

getFirmwareStatus ==
    CASE stage = "Installed" -> "Installed"
      [] stage = "InternalError" -> "InstallationFailed"
      [] stage \notin {"Installed", "InternalError"} /\ installationIssued
           /\ "onInstall" \in hooks ->
           IF "installationStatusInput" \in hooks /\ installationStatus # "NotInstalled"
           THEN installationStatus ELSE "Installing"
      [] stage \notin {"Installed", "InternalError"} /\ downloadIssued
           /\ ~(installationIssued /\ "onInstall" \in hooks) ->
           IF "downloadStatusInput" \in hooks /\ downloadStatus # "NotDownloaded"
           THEN downloadStatus ELSE "Downloading"
      [] OTHER -> "Idle"

\* Mutant: the build number is compared in each run and not saved.
getFirmwareStatusNotificationUnsaved ==
    /\ checked' = TRUE
    /\ IF ~checked /\ buildNumber # previousBuildNumber
       THEN /\ lastReportedStatus' = "Installed"
            /\ announced' = announced + 1
       ELSE /\ lastReportedStatus' = getFirmwareStatus
            /\ UNCHANGED announced
    /\ UNCHANGED previousBuildNumber

\* A new build is announced once; else a status that has changed is reported.
getFirmwareStatusNotification ==
    /\ checked' = TRUE
    /\ IF ~checked /\ buildNumber # previousBuildNumber
       THEN /\ previousBuildNumber' = buildNumber
            /\ lastReportedStatus' = "Installed"
            /\ announced' = announced + 1
       ELSE /\ lastReportedStatus' = getFirmwareStatus
            /\ UNCHANGED <<previousBuildNumber, announced>>

-----------------------------------------------------------------------------
(* The stages of loop().                                                   *)

resetStage ==
    /\ stage' = "Idle" /\ downloadIssued' = FALSE /\ installationIssued' = FALSE

NextStage(s) ==
    /\ stage' = s
    /\ UNCHANGED <<downloadIssued, installationIssued, retries, due>>

\* The installation waits for the end of all transactions.
Downloaded ==
    /\ IF charging
       THEN /\ stage' = "AfterDownload"
            /\ UNCHANGED <<installationIssued, delayed>>
       ELSE /\ stage' = IF "onInstall" \in hooks THEN "AwaitInstallation" ELSE "Installing"
            /\ installationIssued' = TRUE /\ delayed' = TRUE
    /\ UNCHANGED <<downloadIssued, retries, due, hookVars, history>>

\* Mutant: the retries are not counted.
AttemptFailedUncounted ==
    /\ due' \in BOOLEAN /\ delayed' = TRUE
    /\ resetStage
    /\ UNCHANGED <<retries, hookVars, history>>

\* The interval until the next attempt may be zero.
AttemptFailed ==
    /\ retries' = retries - 1
    /\ due' \in BOOLEAN /\ delayed' = TRUE
    /\ resetStage
    /\ UNCHANGED <<hookVars, history>>

Finished ==
    /\ retries' = 0
    /\ stage' = "Installed" /\ downloadIssued' = FALSE /\ installationIssued' = FALSE
    /\ UNCHANGED <<due, delayed, hookVars, history>>

StartUpdate ==
    /\ stage = "Idle"
    /\ available0' = FALSE
    /\ IF "onDownload" \in hooks
       THEN /\ stage' = "AwaitDownload" /\ downloadIssued' = TRUE /\ delayed' = TRUE
            /\ UNCHANGED <<installationIssued, retries, due, hookVars, history>>
       ELSE Downloaded

\* Mutant: a download under way is taken for that of this update.
StartDownloadOnce ==
    /\ stage = "AwaitDownload"
    /\ NextStage("Downloading") /\ delayed' = TRUE
    /\ downloadStatus' = downloadStatus
    /\ downloading' = IF downloading = 0 THEN update ELSE downloading
    /\ attempts' = attempts + 1
    /\ UNCHANGED <<available0, installationStatus, installing, update, granted, fetched, free>>

\* onDownload(location) begins anew or fails right away.
StartDownload ==
    /\ stage = "AwaitDownload"
    /\ NextStage("Downloading") /\ delayed' = TRUE
    /\ \/ downloadStatus' = "NotDownloaded" /\ downloading' = update
       \/ downloadStatus' = "DownloadFailed" /\ downloading' = 0
    /\ attempts' = attempts + 1
    /\ UNCHANGED <<available0, installationStatus, installing, update, granted, fetched, free>>

\* Mutant: a download that has failed is waited for.
CheckDownloadUntilDone ==
    /\ stage = "Downloading"
    /\ UNCHANGED available0
    /\ IF "downloadStatusInput" \notin hooks THEN Downloaded
       ELSE IF downloadStatus = "Downloaded"
            THEN NextStage("AfterDownload") /\ UNCHANGED <<delayed, hookVars, history>>
            ELSE UNCHANGED <<stageVars, hookVars, history>>

CheckDownload ==
    /\ stage = "Downloading"
    /\ UNCHANGED available0
    /\ IF "downloadStatusInput" \notin hooks THEN Downloaded
       ELSE CASE downloadStatus = "Downloaded" ->
                   /\ NextStage("AfterDownload") /\ UNCHANGED <<delayed, hookVars, history>>
              [] downloadStatus = "DownloadFailed" -> AttemptFailed
              [] OTHER -> UNCHANGED <<stageVars, hookVars, history>>

AwaitFree ==
    /\ stage = "AfterDownload"
    /\ Downloaded
    /\ UNCHANGED available0

StartInstallation ==
    /\ stage = "AwaitInstallation"
    /\ NextStage("Installing") /\ delayed' = TRUE
    /\ \/ installationStatus' = "NotInstalled" /\ installing' = update
       \/ installationStatus' = "InstallationFailed" /\ installing' = 0
    /\ UNCHANGED <<available0, downloadStatus, downloading, history>>

CheckInstallation ==
    /\ stage = "Installing"
    /\ UNCHANGED available0
    /\ IF "installationStatusInput" \notin hooks THEN Finished
       ELSE CASE installationStatus = "Installed" -> Finished
              [] installationStatus = "InstallationFailed" -> AttemptFailed
              [] OTHER -> UNCHANGED <<stageVars, hookVars, history>>

Proceed == retries > 0 /\ due

\* Mutant: the status is reported after the stages have been evaluated.
loopReportLast ==
    /\ IF ~delayed /\ Proceed
       THEN \/ StartUpdate \/ StartDownload \/ CheckDownload \/ AwaitFree
            \/ StartInstallation \/ CheckInstallation
       ELSE UNCHANGED <<stageVars, hookVars, available0, history>>
    /\ UNCHANGED <<hooks, buildNumber, charging, boots, checked, previousBuildNumber, announced>>
    /\ lastReportedStatus' = getFirmwareStatus'

loop ==
    /\ getFirmwareStatusNotification
    /\ IF ~delayed /\ Proceed
       THEN \/ StartUpdate \/ StartDownload \/ CheckDownload \/ AwaitFree
            \/ StartInstallation \/ CheckInstallation
       ELSE UNCHANGED <<stageVars, hookVars, available0, history>>
    /\ UNCHANGED <<hooks, buildNumber, charging, boots>>

-----------------------------------------------------------------------------
(* The server, the firmware and the clock.                                 *)

\* Takes the place of any update before, whatever its stage.
scheduleFirmwareUpdate(n) ==
    /\ update < MaxUpdates
    /\ IF hooks \cap {"onDownload", "onInstall"} = {}
       THEN /\ stage' = "InternalError"
            /\ UNCHANGED <<downloadIssued, installationIssued, retries, due, delayed, history>>
       ELSE /\ update' = update + 1 /\ granted' = n /\ attempts' = 0
            /\ retries' = n /\ due' \in BOOLEAN /\ delayed' = TRUE
            /\ resetStage
            /\ UNCHANGED <<fetched, free>>
    /\ UNCHANGED <<hooks, hookVars, available0, reportVars, buildNumber, charging, boots>>

DownloadEnds(status) ==
    /\ downloading # 0
    /\ downloadStatus' = status /\ downloading' = 0
    /\ IF status = "Downloaded"
       THEN fetched' = downloading /\ free' = ~charging
       ELSE UNCHANGED <<fetched, free>>
    /\ UNCHANGED <<hooks, installationStatus, installing, stageVars, available0, reportVars,
                   buildNumber, charging, update, granted, attempts, boots>>

InstallationEnds(status) ==
    /\ installing # 0
    /\ installationStatus' = status /\ installing' = 0
    /\ UNCHANGED <<hooks, downloadStatus, downloading, stageVars, available0, reportVars,
                   buildNumber, charging, history, boots>>

DelayPasses ==
    /\ delayed /\ delayed' = FALSE
    /\ UNCHANGED <<hooks, hookVars, stage, downloadIssued, installationIssued, retries, due,
                   available0, reportVars, buildNumber, charging, history, boots>>

DateReached ==
    /\ ~due /\ due' = TRUE
    /\ UNCHANGED <<hooks, hookVars, stage, downloadIssued, installationIssued, retries,
                   delayed, available0, reportVars, buildNumber, charging, history, boots>>

TransactionBegins ==
    /\ ~charging /\ charging' = TRUE
    /\ UNCHANGED <<hooks, hookVars, stageVars, available0, reportVars, buildNumber, history, boots>>

TransactionEnds ==
    /\ charging /\ charging' = FALSE
    /\ free' = TRUE
    /\ UNCHANGED <<hooks, hookVars, stageVars, available0, reportVars, buildNumber, update,
                   granted, attempts, fetched, boots>>

\* Nothing but the build number is kept; setBuildNumber() follows at once.  The
\* transactions are restored from the journal.
Reboot ==
    /\ boots < MaxBoots /\ boots' = boots + 1
    /\ downloadStatus' = "NotDownloaded" /\ installationStatus' = "NotInstalled"
    /\ downloading' = 0 /\ installing' = 0
    /\ resetStage /\ retries' = 0 /\ due' = TRUE /\ delayed' = FALSE
    /\ available0' = TRUE
    /\ lastReportedStatus' = "Idle" /\ checked' = FALSE
    /\ buildNumber' \in Builds
    /\ announced' = IF buildNumber' = buildNumber THEN announced ELSE 0
    /\ UNCHANGED <<hooks, previousBuildNumber, charging, history>>

Next ==
    \/ loop
    \/ \E n \in 0 .. MaxRetries : scheduleFirmwareUpdate(n)
    \/ \E s \in {"Downloaded", "DownloadFailed"} : DownloadEnds(s)
    \/ \E s \in {"Installed", "InstallationFailed"} : InstallationEnds(s)
    \/ DelayPasses \/ DateReached
    \/ TransactionBegins \/ TransactionEnds
    \/ Reboot

Spec == Init /\ [][Next]_vars

\* The firmware calls loop(), time passes, and a download or an installation that
\* has begun ends in one way or another.
Fairness ==
    /\ WF_vars(loop)
    /\ WF_vars(DelayPasses)
    /\ WF_vars(DateReached)
    /\ WF_vars(\E s \in {"Downloaded", "DownloadFailed"} : DownloadEnds(s))
    /\ WF_vars(\E s \in {"Installed", "InstallationFailed"} : InstallationEnds(s))

FairSpec == Spec /\ Fairness

-----------------------------------------------------------------------------
TypeOK ==
    /\ hooks \in Configurations
    /\ downloadStatus \in {"NotDownloaded", "Downloaded", "DownloadFailed"}
    /\ installationStatus \in {"NotInstalled", "Installed", "InstallationFailed"}
    /\ downloading \in 0 .. MaxUpdates /\ installing \in 0 .. MaxUpdates
    /\ update \in 0 .. MaxUpdates /\ fetched \in 0 .. MaxUpdates
    /\ stage \in {"Idle", "AwaitDownload", "Downloading", "AfterDownload",
                  "AwaitInstallation", "Installing", "Installed", "InternalError"}
    /\ downloadIssued \in BOOLEAN /\ installationIssued \in BOOLEAN
    /\ due \in BOOLEAN /\ delayed \in BOOLEAN /\ available0 \in BOOLEAN
    /\ checked \in BOOLEAN /\ charging \in BOOLEAN /\ free \in BOOLEAN
    /\ retries \in 0 .. MaxRetries /\ granted \in 0 .. MaxRetries
    /\ attempts \in 0 .. MaxRetries
    /\ lastReportedStatus \in {"Idle", "Downloading", "Downloaded", "DownloadFailed",
                               "Installing", "Installed", "InstallationFailed"}
    /\ buildNumber \in Builds /\ previousBuildNumber \in Builds
    /\ announced \in Nat /\ boots \in 1 .. MaxBoots

\* However attempts fail, each update is downloaded at most as often as the server
\* has granted, and the retries that remain are those not used.
AttemptsBounded ==
    attempts + (IF stage \in {"Idle", "AwaitDownload"} THEN retries ELSE 0) <= granted

\* onInstall() is called for an update only when that very update has been
\* downloaded, even if another one was under way when it was scheduled, and when no
\* transaction was running at one time since.
InstallsWhatIsFetched ==
    [][(stage = "AwaitInstallation" /\ stage' = "Installing"
          /\ "downloadStatusInput" \in hooks)
       => fetched = update /\ free]_vars

\* No attempt is counted as failed before the server has been told that it has
\* failed, although resetStage() takes the status back in the same call of loop().
FailuresAreReported ==
    [][(retries' = retries - 1 /\ update' = update /\ stage' = "Idle" /\ boots' = boots)
       => lastReportedStatus' \in {"DownloadFailed", "InstallationFailed"}]_vars

\* A new build is announced once, not again by each boot.
AnnouncedOnce == announced <= 1

\* Once transactions have come to an end, an update is installed or has used up its
\* retries, or another one or a reboot takes its place.
UpdateEnds ==
    <>[]~charging =>
        \A u \in 1 .. MaxUpdates :
            (update = u /\ retries > 0) ~> (retries = 0 \/ update # u)
=============================================================================
