----------------------- MODULE FirmwareService_proof ------------------------
(***************************************************************************)
(* Proofs of the safety properties of FirmwareService, for any number of   *)
(* updates, retries, builds and boots, and each configuration of handlers. *)
(***************************************************************************)
EXTENDS FirmwareService, TLAPS

\* The stages in which an attempt has begun, and those after onDownload().
Attempting == {"Downloading", "AfterDownload", "AwaitInstallation", "Installing"}
Working == Attempting \cup {"AwaitDownload"}

\* The flags of the status follow the stage, and a new build is announced before
\* any update begins.
StageFlags ==
    /\ stage \in {"Idle", "Installed", "InternalError"} => ~downloadIssued /\ ~installationIssued
    /\ stage \in {"AwaitDownload", "Downloading"} => downloadIssued /\ ~installationIssued
    /\ stage = "AfterDownload" => ~installationIssued
    /\ stage \in {"AwaitInstallation", "Installing"} => installationIssued
    /\ stage \in Working => checked /\ retries > 0
    /\ stage = "InternalError" => hooks \cap {"onDownload", "onInstall"} = {}
    /\ hooks \cap {"onDownload", "onInstall"} = {}
         => stage \in {"Idle", "InternalError"} /\ retries = 0

\* The attempt that is going on has been counted, and is still among the retries.
Budget == attempts + retries <= granted + (IF stage \in Attempting THEN 1 ELSE 0)

\* What the download that the firmware works on, or has ended, is good for.
FetchedForStage ==
    /\ downloadStatus # "NotDownloaded" => downloading = 0
    /\ stage = "Downloading" => downloading \in {0, update}
    /\ stage = "Downloading" /\ downloadStatus = "Downloaded" => fetched = update
    /\ stage \in {"AfterDownload", "AwaitInstallation"} /\ "downloadStatusInput" \in hooks
         => downloading = 0 /\ fetched = update
    /\ ~charging => free
    /\ stage = "AwaitInstallation" /\ "downloadStatusInput" \in hooks => free

BuildIsKnown == announced <= 1 /\ (announced = 1 => previousBuildNumber = buildNumber)

Inv == TypeOK /\ StageFlags /\ Budget /\ FetchedForStage /\ BuildIsKnown

-----------------------------------------------------------------------------
\* Any set of handlers and any build is a state in which the invariant holds.
LEMMA InitInv == ASSUME Init PROVE Inv
<1>1. TypeOK
  <2>1. 0 \in 0 .. MaxUpdates /\ 0 \in 0 .. MaxRetries /\ 1 \in 1 .. MaxBoots /\ 0 \in Nat
    BY FirmwareAssumption
  <2>2. QED
    BY <2>1, Zenon DEF Init, TypeOK
<1>2. StageFlags /\ FetchedForStage /\ BuildIsKnown
  BY DEF Init, StageFlags, FetchedForStage, BuildIsKnown, Working, Attempting
<1>3. Budget
  BY DEF Init, Budget, Attempting
<1>4. QED
  BY <1>1, <1>2, <1>3 DEF Inv

\* What a report leaves: the status and the build number that it has compared.
Reported ==
    /\ checked' = TRUE /\ announced' \in Nat /\ previousBuildNumber' \in Builds
    /\ lastReportedStatus' \in {"Idle", "Downloading", "Downloaded", "DownloadFailed",
                                "Installing", "Installed", "InstallationFailed"}

\* A report, the first step of loop(), announces a build only while it is new.
LEMMA ReportInv ==
    ASSUME Inv, getFirmwareStatusNotification, UNCHANGED buildNumber
    PROVE  Reported /\ BuildIsKnown'
<1>1. getFirmwareStatus \in {"Idle", "Downloading", "Downloaded", "DownloadFailed",
                             "Installing", "Installed", "InstallationFailed"}
  BY DEF Inv, TypeOK, getFirmwareStatus
<1>2. QED
  BY <1>1 DEF Inv, TypeOK, BuildIsKnown, Reported, getFirmwareStatusNotification

\* What each evaluation of loop() does next to the stages.
Steady == /\ UNCHANGED <<hooks, buildNumber, charging, boots>>
          /\ getFirmwareStatusNotification

\* The parts of the invariant that the stages can disturb.
StageInv == TypeOK /\ StageFlags /\ Budget /\ FetchedForStage

-----------------------------------------------------------------------------
(* One lemma for each way in which an evaluation of loop() goes on.        *)

\* The stages stay as they are while loop() waits.
LEMMA StutterInv ==
    ASSUME Inv, Steady, UNCHANGED <<available0, stageVars, hookVars, history>>
    PROVE  StageInv'
<1>1. Reported
  BY ReportInv DEF Steady
<1>2. TypeOK'
  <2>1. /\ UNCHANGED <<hooks, charging, boots, buildNumber, available0>>
        /\ UNCHANGED <<downloadStatus, installationStatus, downloading, installing>>
        /\ UNCHANGED <<stage, downloadIssued, installationIssued, retries, due, delayed>>
        /\ UNCHANGED <<update, granted, attempts, fetched, free>>
    BY DEF Steady, stageVars, hookVars, history
  <2>2. QED
    BY <1>1, <2>1, SMT DEF Reported, Inv, TypeOK
<1>3. StageFlags'
  BY <1>1 DEF Reported, Inv, StageFlags, Steady, stageVars, Working, Attempting
<1>4. Budget'
  BY DEF Inv, Budget, stageVars, history, Attempting
<1>5. FetchedForStage'
  BY DEF Inv, FetchedForStage, Steady, stageVars, hookVars, history
<1>6. QED
  BY <1>2, <1>3, <1>4, <1>5 DEF StageInv

\* The update goes on to the installation, or waits for transactions to end.
LEMMA DownloadedInv ==
    ASSUME Inv, Steady, Downloaded, retries > 0, available0' \in BOOLEAN,
           \/ stage = "Idle" /\ "onDownload" \notin hooks
           \/ stage = "Downloading" /\ "downloadStatusInput" \notin hooks
           \/ stage = "AfterDownload"
    PROVE  StageInv'
<1>1. Reported
  BY ReportInv DEF Steady
<1>2. /\ stage' \in {"AfterDownload", "AwaitInstallation", "Installing"}
      /\ stage' = "AfterDownload" => installationIssued' = installationIssued
      /\ stage' # "AfterDownload" => installationIssued' = TRUE /\ ~charging
      /\ delayed' = TRUE \/ delayed' = delayed
      /\ UNCHANGED <<downloadIssued, retries, due>>
      /\ UNCHANGED <<hooks, charging, boots, buildNumber>>
      /\ UNCHANGED <<downloadStatus, installationStatus, downloading, installing>>
      /\ UNCHANGED <<update, granted, attempts, fetched, free>>
  BY DEF Downloaded, Steady, hookVars, history
<1>3. stage = "Idle" => "downloadStatusInput" \notin hooks
  BY DEF Inv, TypeOK, Configurations
<1>4. ~installationIssued \/ stage' # "AfterDownload"
  BY DEF Inv, StageFlags
<1>5. TypeOK'
  BY <1>1, <1>2, Zenon DEF Reported, Inv, TypeOK
<1>6. StageFlags'
  BY <1>1, <1>2, <1>4 DEF Reported, Inv, StageFlags, Working, Attempting
<1>7. Budget'
  BY <1>2, FirmwareAssumption DEF Inv, Budget, TypeOK, Attempting
<1>8. FetchedForStage'
  BY <1>2, <1>3 DEF Inv, FetchedForStage
<1>9. QED
  BY <1>5, <1>6, <1>7, <1>8 DEF StageInv

\* A failed attempt uses up one retry.
LEMMA AttemptFailedInv ==
    ASSUME Inv, Steady, AttemptFailed, UNCHANGED available0, stage \in Attempting
    PROVE  StageInv'
<1>1. Reported
  BY ReportInv DEF Steady
<1>2. retries > 0 /\ retries' = retries - 1 /\ retries' \in 0 .. MaxRetries
  BY FirmwareAssumption DEF Inv, Working, StageFlags, TypeOK, AttemptFailed
<1>3. TypeOK'
  BY <1>1, <1>2, Zenon
     DEF Reported, Inv, TypeOK, Steady, AttemptFailed, resetStage, hookVars, history
<1>4. StageFlags'
  <2>1. hooks' \cap {"onDownload", "onInstall"} # {}
    BY DEF Inv, StageFlags, Attempting, Steady
  <2>2. QED
    BY <2>1 DEF AttemptFailed, resetStage, StageFlags, Working, Attempting
<1>5. Budget'
  BY <1>2, FirmwareAssumption
     DEF Inv, Budget, TypeOK, AttemptFailed, resetStage, Attempting, history
<1>6. FetchedForStage'
  BY DEF Inv, FetchedForStage, AttemptFailed, resetStage, hookVars, history, Steady
<1>7. QED
  BY <1>3, <1>4, <1>5, <1>6 DEF StageInv

\* An installation that is done uses up all of them.
LEMMA FinishedInv ==
    ASSUME Inv, Steady, Finished, UNCHANGED available0, stage \in Attempting
    PROVE  StageInv'
<1>1. Reported
  BY ReportInv DEF Steady
<1>2. retries > 0 /\ 0 \in 0 .. MaxRetries
  BY FirmwareAssumption DEF Inv, Working, StageFlags
<1>3. TypeOK'
  BY <1>1, <1>2, Zenon DEF Reported, Inv, TypeOK, Steady, Finished, hookVars, history
<1>4. StageFlags'
  <2>1. hooks' \cap {"onDownload", "onInstall"} # {}
    BY DEF Inv, StageFlags, Attempting, Steady
  <2>2. QED
    BY <2>1 DEF Finished, StageFlags, Working, Attempting
<1>5. Budget'
  BY <1>2, FirmwareAssumption DEF Inv, Budget, TypeOK, Finished, Attempting, history
<1>6. FetchedForStage'
  BY DEF Inv, FetchedForStage, Finished, hookVars, history, Steady
<1>7. QED
  BY <1>3, <1>4, <1>5, <1>6 DEF StageInv

\* An attempt begins with the announcement of the download.
LEMMA StartUpdateInv == ASSUME Inv, Steady, StartUpdate, retries > 0 PROVE StageInv'
<1>1. CASE "onDownload" \notin hooks
  BY <1>1, DownloadedInv, Zenon DEF StartUpdate
<1>2. CASE "onDownload" \in hooks
  <2>1. Reported
    BY ReportInv DEF Steady
  <2>2. TypeOK'
    BY <1>2, <2>1, Zenon DEF Reported, Inv, TypeOK, Steady, StartUpdate, hookVars, history
  <2>3. StageFlags'
    BY <1>2, <2>1 DEF Reported, Inv, StageFlags, Steady, StartUpdate, Working, Attempting
  <2>4. Budget'
    BY <1>2 DEF Inv, Budget, StartUpdate, Attempting, history
  <2>5. FetchedForStage'
    BY <1>2 DEF Inv, FetchedForStage, Steady, StartUpdate, hookVars, history
  <2>6. QED
    BY <2>2, <2>3, <2>4, <2>5 DEF StageInv
<1>3. QED
  BY <1>1, <1>2

\* onDownload() is called: the attempt is counted.
LEMMA StartDownloadInv == ASSUME Inv, Steady, StartDownload PROVE StageInv'
<1>1. Reported
  BY ReportInv DEF Steady
<1>2. retries > 0
  BY DEF Inv, StageFlags, StartDownload, Working
<1>3. attempts' \in 0 .. MaxRetries /\ 0 \in 0 .. MaxUpdates
  BY <1>2, FirmwareAssumption DEF Inv, TypeOK, Budget, StartDownload, Attempting
<1>4. TypeOK'
  BY <1>1, <1>3, Zenon DEF Reported, Inv, TypeOK, Steady, StartDownload, NextStage
<1>5. StageFlags'
  BY <1>1, <1>2 DEF Reported, Inv, StageFlags, Steady, StartDownload, NextStage, Working, Attempting
<1>6. Budget'
  BY FirmwareAssumption DEF Inv, TypeOK, Budget, StartDownload, NextStage, Attempting
<1>7. FetchedForStage'
  BY DEF Inv, FetchedForStage, Steady, StartDownload, NextStage
<1>8. QED
  BY <1>4, <1>5, <1>6, <1>7 DEF StageInv

\* The outcome of the download leads on, ends the attempt, or is awaited.
LEMMA CheckDownloadInv == ASSUME Inv, Steady, CheckDownload, retries > 0 PROVE StageInv'
<1>1. CASE "downloadStatusInput" \notin hooks
  <2>1. available0' \in BOOLEAN
    BY Zenon DEF Inv, TypeOK, CheckDownload
  <2>2. QED
    BY <1>1, <2>1, DownloadedInv, Zenon DEF CheckDownload
<1>2. CASE "downloadStatusInput" \in hooks /\ downloadStatus = "Downloaded"
  <2>1. Reported
    BY ReportInv DEF Steady
  <2>2. /\ NextStage("AfterDownload")
        /\ UNCHANGED <<available0, delayed, hookVars, history>>
    BY <1>2 DEF CheckDownload
  <2>3. TypeOK'
    BY <2>1, <2>2, Zenon DEF Reported, Inv, TypeOK, Steady, NextStage, hookVars, history
  <2>4. StageFlags'
    BY <2>1, <2>2
       DEF Reported, Inv, StageFlags, Steady, CheckDownload, NextStage, Working, Attempting
  <2>5. Budget'
    BY <2>2 DEF Inv, Budget, CheckDownload, NextStage, history, Attempting
  <2>6. FetchedForStage'
    BY <1>2, <2>2 DEF Inv, FetchedForStage, Steady, CheckDownload, NextStage, hookVars, history
  <2>7. QED
    BY <2>3, <2>4, <2>5, <2>6 DEF StageInv
<1>3. CASE "downloadStatusInput" \in hooks /\ downloadStatus = "DownloadFailed"
  BY <1>3, AttemptFailedInv DEF CheckDownload, Attempting
<1>4. CASE UNCHANGED <<available0, stageVars, hookVars, history>>
  BY <1>4, StutterInv
<1>5. QED
  BY <1>1, <1>2, <1>3, <1>4 DEF CheckDownload

\* After the download loop() waits for the end of all transactions.
LEMMA AwaitFreeInv == ASSUME Inv, Steady, AwaitFree, retries > 0 PROVE StageInv'
<1>1. available0' \in BOOLEAN
  BY Zenon DEF Inv, TypeOK, AwaitFree
<1>2. QED
  BY <1>1, DownloadedInv, Zenon DEF AwaitFree

\* onInstall() is called.
LEMMA StartInstallationInv == ASSUME Inv, Steady, StartInstallation PROVE StageInv'
<1>1. Reported
  BY ReportInv DEF Steady
<1>2. 0 \in 0 .. MaxUpdates
  BY FirmwareAssumption
<1>3. TypeOK'
  BY <1>1, <1>2, Zenon DEF Reported, Inv, TypeOK, Steady, StartInstallation, NextStage, history
<1>4. StageFlags'
  BY <1>1 DEF Reported, Inv, StageFlags, Steady, StartInstallation, NextStage, Working, Attempting
<1>5. Budget'
  BY DEF Inv, Budget, StartInstallation, NextStage, history, Attempting
<1>6. FetchedForStage'
  BY DEF Inv, FetchedForStage, Steady, StartInstallation, NextStage, history
<1>7. QED
  BY <1>3, <1>4, <1>5, <1>6 DEF StageInv

\* The outcome of the installation ends the attempt or the update.
LEMMA CheckInstallationInv == ASSUME Inv, Steady, CheckInstallation PROVE StageInv'
<1>1. CASE Finished
  BY <1>1, FinishedInv DEF CheckInstallation, Attempting
<1>2. CASE AttemptFailed
  BY <1>2, AttemptFailedInv DEF CheckInstallation, Attempting
<1>3. CASE UNCHANGED <<available0, stageVars, hookVars, history>>
  BY <1>3, StutterInv
<1>4. QED
  BY <1>1, <1>2, <1>3 DEF CheckInstallation

\* An evaluation of loop() as a whole.
LEMMA LoopInv == ASSUME Inv, loop PROVE Inv'
<1>1. Steady
  BY DEF loop, Steady
<1>2. BuildIsKnown'
  BY ReportInv DEF loop
<1>3. CASE ~delayed /\ Proceed
  <2>1. retries > 0
    BY <1>3 DEF Proceed
  <2>2. StageInv'
    BY <1>1, <1>3, <2>1, StartUpdateInv, StartDownloadInv, CheckDownloadInv, AwaitFreeInv,
       StartInstallationInv, CheckInstallationInv, Zenon DEF loop
  <2>3. QED
    BY <1>2, <2>2 DEF Inv, StageInv
<1>4. CASE ~(~delayed /\ Proceed)
  <2>1. StageInv'
    BY <1>1, <1>4, StutterInv DEF loop
  <2>2. QED
    BY <1>2, <2>1 DEF Inv, StageInv
<1>5. QED
  BY <1>3, <1>4

-----------------------------------------------------------------------------
(* The server, the firmware, the transactions and the resets.              *)

\* A new update takes the place of the one before, with retries of its own.
LEMMA ScheduleInv ==
    ASSUME Inv, NEW n \in 0 .. MaxRetries, scheduleFirmwareUpdate(n) PROVE Inv'
<1>1. BuildIsKnown'
  BY DEF Inv, BuildIsKnown, scheduleFirmwareUpdate, reportVars
<1>2. CASE hooks \cap {"onDownload", "onInstall"} = {}
  <2>1. /\ stage' = "InternalError"
        /\ UNCHANGED <<hooks, downloadIssued, installationIssued, retries, due, delayed,
                       downloadStatus, installationStatus, downloading, installing,
                       available0, buildNumber, charging, boots,
                       lastReportedStatus, checked, previousBuildNumber, announced>>
        /\ UNCHANGED <<update, granted, attempts, fetched, free>>
    BY <1>2 DEF scheduleFirmwareUpdate, hookVars, reportVars, history
  <2>2. TypeOK'
    BY <2>1, SMT DEF Inv, TypeOK
  <2>3. StageFlags'
    BY <1>2, <2>1 DEF Inv, StageFlags, Working, Attempting
  <2>4. Budget'
    BY <1>2, <2>1 DEF Inv, Budget, StageFlags, Attempting
  <2>5. FetchedForStage'
    BY <2>1 DEF Inv, FetchedForStage
  <2>6. QED
    BY <1>1, <2>2, <2>3, <2>4, <2>5 DEF Inv
<1>3. CASE hooks \cap {"onDownload", "onInstall"} # {}
  <2>1. /\ update' \in 0 .. MaxUpdates /\ 0 \in 0 .. MaxRetries
        /\ granted' = n /\ attempts' = 0 /\ retries' = n
        /\ stage' = "Idle" /\ downloadIssued' = FALSE /\ installationIssued' = FALSE
        /\ due' \in BOOLEAN /\ delayed' = TRUE
        /\ UNCHANGED <<hooks, downloadStatus, installationStatus, downloading, installing,
                       available0, buildNumber, charging, boots, fetched, free,
                       lastReportedStatus, checked, previousBuildNumber, announced>>
    BY <1>3, FirmwareAssumption
       DEF Inv, TypeOK, scheduleFirmwareUpdate, resetStage, hookVars, reportVars
  <2>2. TypeOK'
    BY <2>1, Zenon DEF Inv, TypeOK
  <2>3. StageFlags'
    BY <1>3, <2>1 DEF StageFlags, Working, Attempting
  <2>4. Budget'
    BY <2>1 DEF Budget, Attempting
  <2>5. FetchedForStage'
    BY <2>1 DEF Inv, FetchedForStage
  <2>6. QED
    BY <1>1, <2>2, <2>3, <2>4, <2>5 DEF Inv
<1>4. QED
  BY <1>2, <1>3

\* The firmware ends the download that it works on, which may be that of an
\* update replaced since.
LEMMA DownloadEndsInv ==
    ASSUME Inv, NEW s \in {"Downloaded", "DownloadFailed"}, DownloadEnds(s) PROVE Inv'
<1>1. /\ downloadStatus' \in {"Downloaded", "DownloadFailed"}
      /\ downloading' = 0 /\ 0 \in 0 .. MaxUpdates
      /\ fetched' = fetched \/ fetched' = downloading
      /\ free' = free \/ free' = ~charging
      /\ UNCHANGED <<hooks, installationStatus, installing, available0, buildNumber,
                     charging, update, granted, attempts, boots,
                     stage, downloadIssued, installationIssued, retries, due, delayed,
                     lastReportedStatus, checked, previousBuildNumber, announced>>
  BY FirmwareAssumption DEF DownloadEnds, stageVars, reportVars
<1>2. TypeOK'
  <2>1. fetched' \in 0 .. MaxUpdates /\ free' \in BOOLEAN
    BY <1>1, Zenon DEF Inv, TypeOK
  <2>2. QED
    BY <1>1, <2>1, SMT DEF Inv, TypeOK
<1>3. StageFlags' /\ Budget' /\ BuildIsKnown'
  BY <1>1 DEF Inv, StageFlags, Budget, BuildIsKnown, Working, Attempting
<1>4. FetchedForStage'
  BY FirmwareAssumption DEF Inv, FetchedForStage, DownloadEnds, stageVars
<1>5. QED
  BY <1>2, <1>3, <1>4 DEF Inv

\* What happens without changing a stage, a handler's outcome or a report.
LEMMA QuietInv ==
    ASSUME Inv,
           \/ \E s \in {"Installed", "InstallationFailed"} : InstallationEnds(s)
           \/ DelayPasses \/ DateReached \/ TransactionBegins \/ TransactionEnds
    PROVE  Inv'
<1>1. /\ UNCHANGED <<hooks, downloadStatus, downloading, stage, downloadIssued,
                     installationIssued, retries, available0, buildNumber, boots>>
      /\ UNCHANGED <<lastReportedStatus, checked, previousBuildNumber, announced>>
      /\ UNCHANGED <<update, granted, attempts, fetched>>
  BY DEF InstallationEnds, DelayPasses, DateReached, TransactionBegins, TransactionEnds,
         hookVars, stageVars, reportVars, history
<1>2. /\ installationStatus' \in {installationStatus, "Installed", "InstallationFailed"}
      /\ installing' = installing \/ installing' = 0
      /\ 0 \in 0 .. MaxUpdates
  BY FirmwareAssumption
     DEF InstallationEnds, DelayPasses, DateReached, TransactionBegins, TransactionEnds, hookVars
<1>3. /\ due' = due \/ due' = TRUE
      /\ delayed' = delayed \/ delayed' = FALSE
      /\ charging' = charging \/ charging' = ~charging
      /\ free' = free \/ free' = TRUE
      /\ ~charging' => free'
  BY DEF Inv, FetchedForStage, InstallationEnds, DelayPasses, DateReached, TransactionBegins,
         TransactionEnds, stageVars, history
<1>4. TypeOK'
  <2>1. /\ installationStatus' \in {"NotInstalled", "Installed", "InstallationFailed"}
        /\ installing' \in 0 .. MaxUpdates
    BY <1>2, Zenon DEF Inv, TypeOK
  <2>2. due' \in BOOLEAN /\ delayed' \in BOOLEAN /\ charging' \in BOOLEAN /\ free' \in BOOLEAN
    BY <1>3, Zenon DEF Inv, TypeOK
  <2>3. QED
    BY <1>1, <2>1, <2>2, SMT DEF Inv, TypeOK
<1>5. StageFlags' /\ Budget' /\ BuildIsKnown'
  BY <1>1 DEF Inv, StageFlags, Budget, BuildIsKnown, Working, Attempting
<1>6. FetchedForStage'
  BY <1>1, <1>3 DEF Inv, FetchedForStage
<1>7. QED
  BY <1>4, <1>5, <1>6 DEF Inv

\* A reset forgets the update but not the build that has been announced.
LEMMA RebootInv == ASSUME Inv, Reboot PROVE Inv'
<1>1. /\ boots' \in 1 .. MaxBoots /\ 0 \in 0 .. MaxUpdates /\ 0 \in 0 .. MaxRetries
      /\ announced' \in Nat
  BY FirmwareAssumption DEF Inv, TypeOK, Reboot
<1>2. /\ downloadStatus' = "NotDownloaded" /\ installationStatus' = "NotInstalled"
      /\ downloading' = 0 /\ installing' = 0
      /\ stage' = "Idle" /\ downloadIssued' = FALSE /\ installationIssued' = FALSE
      /\ retries' = 0 /\ due' = TRUE /\ delayed' = FALSE /\ available0' = TRUE
      /\ lastReportedStatus' = "Idle" /\ checked' = FALSE /\ buildNumber' \in Builds
      /\ UNCHANGED <<hooks, previousBuildNumber, charging>>
      /\ UNCHANGED <<update, granted, attempts, fetched, free>>
  BY DEF Reboot, resetStage, history
<1>3. TypeOK'
  BY <1>1, <1>2, Zenon DEF Inv, TypeOK
<1>4. StageFlags'
  BY <1>2 DEF StageFlags, Working, Attempting
<1>5. Budget'
  BY <1>2, FirmwareAssumption DEF Inv, TypeOK, StageFlags, Budget, Working, Attempting
<1>6. FetchedForStage'
  BY <1>2 DEF Inv, FetchedForStage
<1>7. BuildIsKnown'
  BY DEF Inv, TypeOK, BuildIsKnown, Reboot
<1>8. QED
  BY <1>3, <1>4, <1>5, <1>6, <1>7 DEF Inv

\* Nothing happens.
LEMMA StutteringInv == ASSUME Inv, UNCHANGED vars PROVE Inv'
<1>1. /\ UNCHANGED <<hooks, available0, buildNumber, charging, boots>>
      /\ UNCHANGED <<downloadStatus, installationStatus, downloading, installing>>
      /\ UNCHANGED <<stage, downloadIssued, installationIssued, retries, due, delayed>>
      /\ UNCHANGED <<lastReportedStatus, checked, previousBuildNumber, announced>>
      /\ UNCHANGED <<update, granted, attempts, fetched, free>>
  BY DEF vars, hookVars, stageVars, reportVars, history
<1>2. TypeOK'
  BY <1>1, SMT DEF Inv, TypeOK
<1>3. StageFlags' /\ Budget' /\ FetchedForStage' /\ BuildIsKnown'
  BY <1>1 DEF Inv, StageFlags, Budget, FetchedForStage, BuildIsKnown, Working, Attempting
<1>4. QED
  BY <1>2, <1>3 DEF Inv

-----------------------------------------------------------------------------
(* Every reachable state satisfies the invariant.                          *)
THEOREM Invariance == Spec => []Inv
<1>1. Init => Inv
  BY InitInv
<1>2. Inv /\ [Next]_vars => Inv'
  BY LoopInv, ScheduleInv, DownloadEndsInv, QuietInv, RebootInv, StutteringInv, Zenon DEF Next
<1>3. QED
  BY <1>1, <1>2, PTL DEF Spec

(* Each variable of the update routine keeps its type: no counter leaves   *)
(* its range, whatever the server and the firmware do.                     *)
THEOREM TypeCorrect == Spec => []TypeOK
<1>1. Inv => TypeOK
  BY DEF Inv
<1>2. QED
  BY <1>1, Invariance, PTL

(* The retries that loop() has left and the downloads it has begun never   *)
(* exceed what scheduleFirmwareUpdate() granted.                           *)
THEOREM AttemptsAreBounded == Spec => []AttemptsBounded
<1>1. Inv => AttemptsBounded
  <2>1. SUFFICES ASSUME Inv PROVE AttemptsBounded
    OBVIOUS
  <2>2. attempts \in Nat /\ retries \in Nat /\ granted \in Nat
    <3>1. /\ attempts \in 0 .. MaxRetries /\ retries \in 0 .. MaxRetries
          /\ granted \in 0 .. MaxRetries
      BY <2>1, Zenon DEF Inv, TypeOK
    <3>2. QED
      BY <3>1, FirmwareAssumption
  <2>3. CASE stage \in Attempting
    BY <2>1, <2>2, <2>3 DEF Inv, StageFlags, Budget, Working, Attempting, AttemptsBounded
  <2>4. CASE stage \notin Attempting
    BY <2>1, <2>2, <2>4 DEF Inv, StageFlags, Budget, AttemptsBounded
  <2>5. QED
    BY <2>3, <2>4
<1>2. QED
  BY <1>1, Invariance, PTL

(* However often the station boots, a build that is new is announced once. *)
THEOREM BuildIsAnnouncedOnce == Spec => []AnnouncedOnce
<1>1. Inv => AnnouncedOnce
  BY DEF Inv, BuildIsKnown, AnnouncedOnce
<1>2. QED
  BY <1>1, Invariance, PTL

(* onInstall() is called for the update that has been downloaded last, and *)
(* only once no transaction has been running since.                        *)
THEOREM OnlyFetchedIsInstalled == Spec => InstallsWhatIsFetched
<1>1. Inv /\ [Next]_vars =>
      [(stage = "AwaitInstallation" /\ stage' = "Installing" /\ "downloadStatusInput" \in hooks)
         => fetched = update /\ free]_vars
  BY DEF Inv, FetchedForStage
<1>2. QED
  BY <1>1, Invariance, PTL DEF Spec, InstallsWhatIsFetched

(* A failed attempt is taken off the retries in a call of loop() that has  *)
(* reported the failure.                                                   *)
LEMMA FailureIsReported ==
    ASSUME Inv, Next, retries' = retries - 1, update' = update, stage' = "Idle", boots' = boots
    PROVE  lastReportedStatus' \in {"DownloadFailed", "InstallationFailed"}
<1>1. retries \in Int /\ update \in Int /\ boots \in Int
  BY FirmwareAssumption DEF Inv, TypeOK
<1>2. retries' # retries /\ update' # update + 1 /\ boots' # boots + 1
  BY <1>1
<1>3. loop /\ ~delayed /\ Proceed
  BY <1>2 DEF Next, loop, scheduleFirmwareUpdate, DownloadEnds, InstallationEnds, DelayPasses,
              DateReached, TransactionBegins, TransactionEnds, Reboot, stageVars
<1>4. AttemptFailed /\ (CheckDownload \/ CheckInstallation)
  BY <1>2, <1>3 DEF loop, StartUpdate, StartDownload, CheckDownload, AwaitFree,
              StartInstallation, CheckInstallation, Downloaded, Finished, NextStage, stageVars
<1>5. lastReportedStatus' = getFirmwareStatus
  BY <1>3, <1>4 DEF Inv, StageFlags, Working, Attempting, loop, getFirmwareStatusNotification,
              CheckDownload, CheckInstallation
<1>6. CASE CheckDownload
  <2>1. /\ stage = "Downloading" /\ "downloadStatusInput" \in hooks
        /\ downloadStatus = "DownloadFailed"
    BY <1>2, <1>6 DEF CheckDownload, Downloaded, NextStage, stageVars
  <2>2. downloadIssued /\ ~installationIssued
    BY <2>1 DEF Inv, StageFlags
  <2>3. QED
    BY <1>5, <2>1, <2>2 DEF getFirmwareStatus
<1>7. CASE CheckInstallation
  <2>1. /\ stage = "Installing" /\ "installationStatusInput" \in hooks
        /\ installationStatus = "InstallationFailed"
    BY <1>2, <1>7 DEF CheckInstallation, Finished, stageVars
  <2>2. installationIssued /\ "onInstall" \in hooks
    BY <2>1 DEF Inv, TypeOK, StageFlags, Configurations
  <2>3. QED
    BY <1>5, <2>1, <2>2 DEF getFirmwareStatus
<1>8. QED
  BY <1>4, <1>6, <1>7

(* No failure of a download or of an installation escapes the server.      *)
THEOREM NoFailureUnreported == Spec => FailuresAreReported
<1>1. Inv /\ [Next]_vars =>
      [(retries' = retries - 1 /\ update' = update /\ stage' = "Idle" /\ boots' = boots)
         => lastReportedStatus' \in {"DownloadFailed", "InstallationFailed"}]_vars
  BY FailureIsReported
<1>2. QED
  BY <1>1, Invariance, PTL DEF Spec, FailuresAreReported

=============================================================================
