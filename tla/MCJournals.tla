------------------------------ MODULE MCJournals ------------------------------
(***************************************************************************)
(* The journals of transactions of OCPP 2.0.1 and of OCPP 1.6, over power      *)
(* failures at any step.  A charger has one of the two, hence a behaviour is    *)
(* one of a single module.  TransactionService has its constants in the cfg.   *)
(***************************************************************************)
EXTENDS TransactionService

\* The first session is over, the second one fills a record of three events.
Events == <<2, 4, 0>>

VARIABLES component

-----------------------------------------------------------------------------
(* Connector: three sessions after one of an earlier run, none of them silent, in  *)
(* a journal of two.                                                            *)

VARIABLES cnTxNrBegin, cnTxNrFront, cnTxNrEnd, cnTransaction, cnTransactionFront, cnMem,
          cnFlash, cnSendReqFront, cnAuthQueue, cnConnected, cnExchange, cnLate, cnBootNr,
          cnClockSet, cnNextSession, cnCharged, cnWaived, cnReceived, cnConfirmed, cnSends
Cn == INSTANCE Connector WITH MaxTxCnt <- 6, RecordSize <- 2, MaxAttempts <- 1,
        CacheSize <- 1, SilentOffline <- FALSE, EndEarly <- FALSE, History <- TRUE,
        BeginEarly <- FALSE, MaxReboot <- 1,
        txNrBegin <- cnTxNrBegin, txNrFront <- cnTxNrFront, txNrEnd <- cnTxNrEnd,
        transaction <- cnTransaction, transactionFront <- cnTransactionFront,
        mem <- cnMem, flash <- cnFlash, sendReqFront <- cnSendReqFront,
        authQueue <- cnAuthQueue, connected <- cnConnected, exchange <- cnExchange,
        late <- cnLate, bootNr <- cnBootNr, clockSet <- cnClockSet,
        nextSession <- cnNextSession, charged <- cnCharged, waived <- cnWaived,
        received <- cnReceived, confirmed <- cnConfirmed, sends <- cnSends

cnVars == <<cnTxNrBegin, cnTxNrFront, cnTxNrEnd, cnTransaction, cnTransactionFront, cnMem,
            cnFlash, cnSendReqFront, cnAuthQueue, cnConnected, cnExchange, cnLate, cnBootNr,
            cnClockSet, cnNextSession, cnCharged, cnWaived, cnReceived, cnConfirmed, cnSends>>

\* Its other history variables, which no action reads and StartedIsCurrent does not
\* mention, do not tell states apart.
cnView == <<cnTxNrBegin, cnTxNrFront, cnTxNrEnd, cnTransaction, cnTransactionFront, cnMem,
            cnFlash, cnSendReqFront, cnAuthQueue, cnConnected, cnExchange, cnLate, cnBootNr,
            cnClockSet, cnNextSession, cnSends>>

-----------------------------------------------------------------------------
journalsView == <<component, txVars, cnView>>
journals == <<component, txVars, cnVars>>

JournalsInit ==
    /\ component \in {"TransactionService", "Connector"}
    /\ Init /\ Cn!Init
    \* one initial state of the rest
    /\ component # "TransactionService" => owed = {}

JournalsNext ==
    /\ UNCHANGED component
    /\ \/ component = "TransactionService" /\ Next /\ UNCHANGED cnVars
       \/ component = "Connector" /\ Cn!Next /\ UNCHANGED txVars

JournalsSpec == JournalsInit /\ [][JournalsNext]_journals

-----------------------------------------------------------------------------
\* Connector: a started transaction on the flash is the current one.
StartedIsCurrent == component = "Connector" => Cn!StartedIsCurrent
===============================================================================
