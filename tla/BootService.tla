---------------------------- MODULE BootService -----------------------------
(***************************************************************************)
(* Model/Boot/BootService.cpp with mocpp_initialize() and                  *)
(* mocpp_deinitialize() of MicroOcpp.cpp: the boot statistics on the       *)
(* flash, the recovery after a series of unsuccessful boots, the migration *)
(* after an update of the firmware, and the registration at the server.    *)
(*                                                                         *)
(* A file of the flash is removed or written in one step, and the power    *)
(* may fail between any two steps.  A write of the boot statistics that is *)
(* cut off leaves the old file, the new one, or a damaged one.             *)
(***************************************************************************)
EXTENDS BootConstants, FiniteSets

StateFile == RecoverFile \cup MigrateFile

VARIABLES
    bootstats,   \* bootstats.jsn: a record, NoFile or Damaged
    files,       \* the state files: NoFile, or the run that wrote it, with its bootNr
    phase,       \* what mocpp_initialize() is about to do, "running", or "off"
    stats,       \* the local variable bootstats of mocpp_initialize()
    bootNr,      \* Model::bootNr
    version,     \* MO_VERSION of the firmware
    longTime,    \* BootService::executedLongTime
    accepted,    \* BootService::status is Accepted
    intervalOver,\* interval_s has passed since lastBootNotification
    asked,       \* loop() has a BootNotification under way
    triggered,   \* TriggerMessage has one under way
    activated,   \* activatedPostBootCommunication
    run,         \* history: number of this run
    suffered,    \* history: failed runs since a success or the loss of bootstats, for each file
    failedBoots, \* history: boots with a number since the last success
    lastVersion, \* history: the firmware of the last boot with a number
    cause        \* history: why this boot may remove files

flashVars == <<bootstats, files>>
initVars  == <<stats, bootNr, version>>
regVars   == <<accepted, intervalOver, asked, triggered, activated>>
history   == <<run, suffered, failedBoots, lastVersion, cause>>
vars == <<flashVars, phase, initVars, longTime, regVars, history>>

BootNr == 0 .. Width - 1
BootStats == [bootNr : BootNr, lastBootSuccess : BootNr, version : Firmware \cup {NoVersion}]
NewStats == [bootNr |-> 0, lastBootSuccess |-> 0, version |-> NoVersion]

\* Mutant: the difference is not taken modulo 2^16.
getBootFailureCountSigned(s) == s.bootNr - s.lastBootSuccess

getBootFailureCount(s) == (s.bootNr + Width - s.lastBootSuccess) % Width

\* RAM after a reset, and while nothing has been received.
Fresh ==
    /\ longTime' = FALSE
    /\ accepted' = FALSE /\ intervalOver' = TRUE
    /\ asked' = FALSE /\ triggered' = FALSE /\ activated' = FALSE

\* A new charger, or one that has been in use for long and shut down cleanly: its
\* boot numbers are about to wrap around, and a state file is on its flash.
Init ==
    /\ \E old \in {[bootNr |-> Width - 2, lastBootSuccess |-> Width - 2, version |-> v]
                     : v \in Firmware} :
          \/ /\ bootstats = NoFile /\ lastVersion = NoVersion
             /\ files = [f \in StateFile |-> NoFile]
          \/ /\ bootstats = old /\ lastVersion = old.version
             /\ files = [f \in StateFile |-> [run |-> 0, bootNr |-> old.bootNr]]
    /\ phase = "off" /\ stats = NewStats /\ bootNr = 0
    /\ version \in Firmware
    /\ longTime = FALSE
    /\ accepted = FALSE /\ intervalOver = TRUE
    /\ asked = FALSE /\ triggered = FALSE /\ activated = FALSE
    /\ run = 0 /\ failedBoots = 0 /\ cause = "none"
    /\ suffered = [f \in StateFile |-> 0]

-----------------------------------------------------------------------------
(* mocpp_initialize().                                                     *)

PowerUp ==
    /\ phase = "off"
    /\ run' = run + 1
    /\ version' \in Firmware
    /\ phase' = "load"
    /\ UNCHANGED <<flashVars, stats, bootNr, longTime, regVars, suffered, failedBoots,
                   lastVersion, cause>>

\* A damaged file is removed.
loadBootStats ==
    /\ phase = "load"
    /\ LET found == bootstats \in BootStats
           s     == IF found THEN bootstats ELSE NewStats
       IN  /\ stats' = s
           /\ bootstats' = IF found THEN bootstats ELSE NoFile
           /\ phase' = IF AutoRecover /\ getBootFailureCount(s) > MaxFailures
                       THEN "recover" ELSE "migrate"
           /\ suffered' = IF found THEN suffered ELSE [f \in StateFile |-> 0]
           /\ cause' = IF ~found THEN "lost"
                       ELSE IF AutoRecover /\ failedBoots > MaxFailures THEN "failures"
                       ELSE IF lastVersion # version THEN "update" ELSE "none"
    /\ UNCHANGED <<files, bootNr, version, longTime, regVars, run, failedBoots, lastVersion>>

Remove(f) ==
    /\ files[f] # NoFile
    /\ files' = [files EXCEPT ![f] = NoFile]
    /\ suffered' = [suffered EXCEPT ![f] = 0]
RemoveOne(fs) == \E f \in fs : Remove(f)

NoneLeft(fs) ==
    /\ \A f \in fs : files[f] = NoFile
    /\ UNCHANGED <<files, suffered>>

\* Followed by bootstats = BootStats().
recover ==
    /\ phase = "recover"
    /\ \/ RemoveOne(RecoverFile) /\ UNCHANGED <<phase, stats>>
       \/ /\ NoneLeft(RecoverFile)
          /\ stats' = NewStats /\ phase' = "migrate"
    /\ UNCHANGED <<bootstats, bootNr, version, longTime, regVars, run, failedBoots,
                   lastVersion, cause>>

\* Mutant: nothing to migrate when there are no statistics.
migrateKnownOnly ==
    /\ phase = "migrate"
    /\ \/ /\ stats.version \notin {version, NoVersion}
          /\ RemoveOne(MigrateFile) /\ UNCHANGED <<phase, stats>>
       \/ /\ \/ stats.version \in {version, NoVersion} /\ UNCHANGED <<files, suffered>>
             \/ NoneLeft(MigrateFile)
          /\ stats' = [stats EXCEPT !.version = version]
          /\ phase' = "store"
    /\ UNCHANGED <<bootstats, bootNr, version, longTime, regVars, run, failedBoots,
                   lastVersion, cause>>

migrate ==
    /\ phase = "migrate"
    /\ \/ /\ stats.version # version
          /\ RemoveOne(MigrateFile) /\ UNCHANGED <<phase, stats>>
       \/ /\ \/ stats.version = version /\ UNCHANGED <<files, suffered>>
             \/ NoneLeft(MigrateFile)
          /\ stats' = [stats EXCEPT !.version = version]
          /\ phase' = "store"
    /\ UNCHANGED <<bootstats, bootNr, version, longTime, regVars, run, failedBoots,
                   lastVersion, cause>>

NextStats == [stats EXCEPT !.bootNr = (@ + 1) % Width]

\* Boots are counted anew after a recovery.
Counted ==
    /\ failedBoots' = IF cause \in {"lost", "failures"} THEN 1 ELSE failedBoots + 1
    /\ lastVersion' = version

\* bootNr++ and storeBootStats(); the run begins.
assignBootNr ==
    /\ phase = "store"
    /\ bootstats' = NextStats
    /\ stats' = NextStats
    /\ bootNr' = NextStats.bootNr
    /\ phase' = "running"
    /\ Counted
    /\ UNCHANGED <<files, version, longTime, regVars, run, suffered, cause>>

-----------------------------------------------------------------------------
(* The run.                                                                *)

\* A service writes a state file, which may hold a time with the boot number.
WriteStateFile(f) ==
    /\ phase = "running"
    /\ files' = [files EXCEPT ![f] = [run |-> run, bootNr |-> bootNr]]
    /\ suffered' = IF files[f] = NoFile THEN [suffered EXCEPT ![f] = 0] ELSE suffered
    /\ UNCHANGED <<bootstats, phase, initVars, longTime, regVars, run, failedBoots,
                   lastVersion, cause>>

\* A transaction has been reported, a reservation is over.
RemoveStateFile(f) ==
    /\ phase = "running"
    /\ Remove(f)
    /\ UNCHANGED <<bootstats, phase, initVars, longTime, regVars, run, failedBoots,
                   lastVersion, cause>>

\* Mutant: the success is not stored.
SucceededNotStored(s) == s

Succeeded(s) == [s EXCEPT !.lastBootSuccess = s.bootNr]

Success ==
    /\ bootstats' = Succeeded(bootstats)
    /\ suffered' = [f \in StateFile |-> 0]
    /\ failedBoots' = 0

\* BootService::loop() after MO_BOOTSTATS_LONGTIME_MS.
loopLongTime ==
    /\ phase = "running" /\ ~longTime
    /\ longTime' = TRUE
    /\ Success
    /\ UNCHANGED <<files, phase, initVars, regVars, run, lastVersion, cause>>

mocpp_deinitialize ==
    /\ phase = "running" /\ run < MaxRun
    /\ Success
    /\ phase' = "off" /\ stats' = NewStats /\ bootNr' = 0
    /\ Fresh
    /\ UNCHANGED <<files, version, run, lastVersion, cause>>

\* Whatever the library is doing, the power fails.
Off ==
    /\ phase # "off" /\ run < MaxRun
    /\ phase' = "off"
    /\ stats' = NewStats /\ bootNr' = 0
    /\ Fresh
    /\ UNCHANGED <<files, version, run, cause>>

\* A run that has not been a success has failed, for all the files it began with.
PowerFailure ==
    /\ Off
    /\ suffered' = [f \in StateFile |->
          IF phase = "running" /\ ~longTime /\ files[f] # NoFile
          THEN suffered[f] + 1 ELSE suffered[f]]
    /\ UNCHANGED <<bootstats, failedBoots, lastVersion>>

\* The power fails while storeBootStats() is writing.
PowerFailureStoring ==
    /\ Off
    /\ phase \in {"store", "running"}
    /\ \/ /\ bootstats' = Damaged
          /\ UNCHANGED <<suffered, failedBoots, lastVersion>>
       \/ /\ phase = "store" /\ bootstats' = NextStats
          /\ Counted /\ UNCHANGED suffered
       \/ /\ phase = "running" /\ Success /\ UNCHANGED lastVersion

-----------------------------------------------------------------------------
(* Registration: BootService::loop() and the answers to BootNotification.  *)

\* interval_s passes.  It is the timeout of the BootNotification, too.
IntervalPasses ==
    /\ phase = "running" /\ ~intervalOver
    /\ intervalOver' = TRUE
    /\ asked' = FALSE
    /\ UNCHANGED <<flashVars, phase, initVars, longTime, accepted, triggered, activated, history>>

\* Mutant: loop() returns as soon as the station has once been accepted.
loopActivated ==
    /\ phase = "running"
    /\ activated' = (activated \/ accepted)
    /\ IF ~activated' /\ intervalOver
       THEN asked' = TRUE /\ intervalOver' = FALSE
       ELSE UNCHANGED <<asked, intervalOver>>
    /\ UNCHANGED <<flashVars, phase, initVars, longTime, accepted, triggered, history>>

loop ==
    /\ phase = "running"
    /\ activated' = (activated \/ accepted)
    /\ IF ~accepted /\ intervalOver
       THEN asked' = TRUE /\ intervalOver' = FALSE
       ELSE UNCHANGED <<asked, intervalOver>>
    /\ UNCHANGED <<flashVars, phase, initVars, longTime, accepted, triggered, history>>

TriggerMessage ==
    /\ phase = "running" /\ ~triggered
    /\ triggered' = TRUE
    /\ UNCHANGED <<flashVars, phase, initVars, longTime, accepted, intervalOver, asked,
                   activated, history>>

\* BootNotification::processConf: any status in a valid confirmation is taken over
\* and restarts the interval; other answers are of no effect.
Answered(status) ==
    /\ phase = "running"
    /\ \/ asked /\ asked' = FALSE /\ UNCHANGED triggered
       \/ triggered /\ triggered' = FALSE /\ UNCHANGED asked
    /\ IF status = "invalid"
       THEN UNCHANGED <<accepted, intervalOver>>
       ELSE accepted' = (status = "Accepted") /\ intervalOver' = FALSE
    /\ UNCHANGED <<flashVars, phase, initVars, longTime, activated, history>>

TriggeredLost ==
    /\ triggered
    /\ triggered' = FALSE
    /\ UNCHANGED <<flashVars, phase, initVars, longTime, accepted, intervalOver, asked,
                   activated, history>>

Initialize == loadBootStats \/ recover \/ migrate \/ assignBootNr

Next ==
    \/ PowerUp \/ Initialize
    \/ \E f \in StateFile : WriteStateFile(f) \/ RemoveStateFile(f)
    \/ loopLongTime \/ mocpp_deinitialize
    \/ PowerFailure \/ PowerFailureStoring
    \/ IntervalPasses \/ loop \/ TriggerMessage \/ TriggeredLost
    \/ \E status \in {"Accepted", "Pending", "invalid"} : Answered(status)

Spec == Init /\ [][Next]_vars

\* The firmware calls loop(), time passes, and a server that is asked again and
\* again accepts the station in the end.
Fairness ==
    /\ WF_vars(loop)
    /\ WF_vars(IntervalPasses)
    /\ SF_vars(Answered("Accepted"))

FairSpec == Spec /\ Fairness

-----------------------------------------------------------------------------
TypeOK ==
    /\ bootstats \in BootStats \cup {NoFile, Damaged}
    /\ files \in [StateFile -> [run : 0 .. MaxRun, bootNr : BootNr] \cup {NoFile}]
    /\ phase \in {"off", "load", "recover", "migrate", "store", "running"}
    /\ stats \in BootStats /\ bootNr \in BootNr /\ version \in Firmware
    /\ {longTime, accepted, intervalOver, asked, triggered, activated} \subseteq BOOLEAN
    /\ run \in 0 .. MaxRun /\ failedBoots \in 0 .. run
    /\ suffered \in [StateFile -> 0 .. MaxRun]
    /\ lastVersion \in Firmware \cup {NoVersion}
    /\ cause \in {"none", "lost", "failures", "update"}

\* A time with the boot number of this run was taken in this run, although the
\* numbers wrap around and start over after a recovery and when the statistics are
\* lost: every file that holds an older one is gone by then.
BootNrIdentifiesRun ==
    phase = "running" =>
        \A f \in MigrateFile :
            files[f] # NoFile /\ files[f].bootNr = bootNr => files[f].run = run

\* Whatever a state file does to the firmware, it is removed after at most
\* MaxFailures + 1 failed runs, even if the recovery itself is interrupted.  The count
\* starts over with a success, and when the statistics have been lost.
BootLoopBroken ==
    AutoRecover /\ phase = "running" => \A f \in StateFile : suffered[f] <= MaxFailures

\* mocpp_initialize() deletes transactions and other files only after a series of
\* failed boots, after an update, or when the statistics have been lost.
DeletedForCause ==
    [][\A f \in StateFile :
          phase # "running" /\ files[f] # NoFile /\ files'[f] = NoFile
          => /\ cause # "none"
             /\ cause = "update" => f \in MigrateFile]_vars

\* A station that is not accepted asks again until it is, also when the server
\* withdraws the registration in the answer to a triggered BootNotification.
StationRegisters ==
    (phase = "running" /\ ~accepted) ~> (accepted \/ phase # "running")
=============================================================================
