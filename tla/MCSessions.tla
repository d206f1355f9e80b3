------------------------------ MODULE MCSessions ------------------------------
(***************************************************************************)
(* What a boot finds on the flash: the journal of Connector, and the            *)
(* statistics of BootService with the files that a recovery removes.  At the     *)
(* level of these modules they share no state, hence a behaviour is one of a    *)
(* single module.  Both have their constants in the cfg.                     *)
(***************************************************************************)
EXTENDS Connector, BootConstants

VARIABLES component

-----------------------------------------------------------------------------
(* BootService: recoveries, updates of the firmware, and boot numbers that wrap *)
(* around.                                                                  *)

VARIABLES btBootstats, btFiles, btPhase, btStats, btBootNr, btVersion, btLongTime, btAccepted,
          btIntervalOver, btAsked, btTriggered, btActivated, btRun, btSuffered, btFailedBoots,
          btLastVersion, btCause
Bt == INSTANCE BootService WITH
        bootstats <- btBootstats, files <- btFiles, phase <- btPhase, stats <- btStats,
        bootNr <- btBootNr, version <- btVersion, longTime <- btLongTime,
        accepted <- btAccepted, intervalOver <- btIntervalOver, asked <- btAsked,
        triggered <- btTriggered, activated <- btActivated, run <- btRun,
        suffered <- btSuffered, failedBoots <- btFailedBoots,
        lastVersion <- btLastVersion, cause <- btCause

btVars == <<btBootstats, btFiles, btPhase, btStats, btBootNr, btVersion, btLongTime, btAccepted,
            btIntervalOver, btAsked, btTriggered, btActivated, btRun, btSuffered,
            btFailedBoots, btLastVersion, btCause>>
sessionsVars == <<component, vars, btVars>>

SessionsInit ==
    /\ component \in {"Connector", "BootService"}
    /\ Init /\ Bt!Init
    \* one initial state of the rest
    /\ component # "BootService" =>
          btBootstats = NoFile /\ btVersion = CHOOSE v \in Firmware : TRUE

SessionsNext ==
    /\ UNCHANGED component
    /\ \/ component = "Connector" /\ Next /\ UNCHANGED btVars
       \/ component = "BootService" /\ Bt!Next /\ UNCHANGED vars

\* The fairness of FairSpec in Connector, and of FairSpec in BootService.
ConnectorFairness ==
    LET Sessions == component = "Connector" IN
    /\ WF_vars(Sessions /\ (Rollback \/ CollectStopped))
    /\ WF_vars(Sessions /\ Connect) /\ WF_vars(Sessions /\ SetClock)
    /\ WF_vars(Sessions /\ (SlotTimeout \/ GiveUpAnAuthorize))
    /\ SF_vars(Sessions /\ PollRequest)

BootFairness ==
    LET Boot == component = "BootService" IN
    /\ WF_btVars(Boot /\ Bt!loop)
    /\ WF_btVars(Boot /\ Bt!IntervalPasses)
    /\ SF_btVars(Boot /\ Bt!Answered("Accepted"))

SessionsSpec ==
    /\ SessionsInit /\ [][SessionsNext]_sessionsVars
    /\ ConnectorFairness /\ BootFairness

-----------------------------------------------------------------------------
\* BootService: a time stamp with the boot number of this run is of this run.
BootNrIdentifiesRun == component = "BootService" => Bt!BootNrIdentifiesRun

\* BootService: no file is the cause of failed boots for ever.
BootLoopBroken == component = "BootService" => Bt!BootLoopBroken

\* BootService: no file is removed without failures, an update or the loss of statistics.
DeletedForCause == Bt!DeletedForCause

\* BootService: the station is accepted in the end.
StationRegisters == Bt!StationRegisters
===============================================================================
