-------------------------- MODULE TransactionService --------------------------
(***************************************************************************)
(* Model/Transactions of OCPP 2.0.1: TransactionService::Evse and the       *)
(* TransactionStoreEvse below it, for one EVSE.                             *)
(*                                                                         *)
(* A transaction is reported by TransactionEvents with the numbers 0, 1, ...*)
(* Each event has a file, which also holds the state of the transaction as *)
(* of its last commit; a state that is newer than the last event lies in a *)
(* file with the number after it, seqNoEnd.  The file with the highest      *)
(* number restores the transaction.  As in Connector, transaction numbers   *)
(* are used again, hence each call of beginTransaction() is a session.      *)
(***************************************************************************)
EXTENDS Integers, FiniteSets

CONSTANTS
    MaxTxCnt,         \* MAX_TX_CNT
    RecordSize,       \* MO_TXRECORD_SIZE
    EventRecordSize,  \* MO_TXEVENTRECORD_SIZE_V201
    MessageAttempts,  \* OCPPCommCtrlr.MessageAttempts
    TxStartPoint, TxStopPoint,  \* sets of TxStartStopPoint
    SilentOffline,    \* SilentOfflineTransactions
    BeginEarly,       \* a session may begin that removes the transaction the queue works on
    MaxSession,       \* bound: sessions
    LastSeqNo,        \* bound: numbers of events
    MaxEvents,        \* bound: events of each session
    MaxBoot,          \* bound: boots
    None              \* an empty pointer, or no file

\* A record has room for a first, a further and a final event.
ASSUME ConstantsAssumption ==
    /\ RecordSize \in Nat \ {0} /\ MaxTxCnt \in Nat /\ MaxTxCnt >= 2 * RecordSize + 2
    /\ EventRecordSize \in Nat /\ EventRecordSize >= 3 /\ MessageAttempts \in Nat
    /\ {SilentOffline, BeginEarly} \subseteq BOOLEAN
    /\ MaxSession \in Nat \ {0} /\ LastSeqNo \in Nat /\ LastSeqNo >= 2
    /\ MaxEvents \in [1 .. MaxSession -> 0 .. LastSeqNo]
    /\ MaxBoot \in Nat \ {0}

VARIABLES
    txNrBegin, txNrFront, txNrEnd,
    transaction,     \* session of Evse::transaction
    txFront,         \* session of Evse::txFront
    txMem,           \* the Transaction object of each session that is referenced
    txFlash,         \* the files of each txNr
    txEventFront,    \* the event at the front: its seqNo and attemptNr, whether it is timed
    requested,       \* txEventFrontIsRequested: its Request is in flight
    authorizing,     \* an Authorize for the transaction is under way
    timed,           \* the clock has been set: the server has accepted the boot
    boots, nextSession,
    owed,            \* history: first and final events neither confirmed nor given up
                     \* (ToEnd: a final event that is yet to come)
    received         \* history: the last event the server has received

txNrs    == <<txNrBegin, txNrFront, txNrEnd>>
frontVars == <<txFront, txEventFront, requested>>
txEnv    == <<timed, boots, nextSession>>
txHistory == <<owed, received>>
txVars == <<txNrs, frontVars, transaction, txMem, txFlash, authorizing, txEnv, txHistory>>

ToEnd   == -1
MaxOf(S) == CHOOSE x \in S : \A y \in S : y <= x
TxNr    == 0 .. MaxTxCnt - 1
Session == 1 .. MaxSession
SeqNo   == 0 .. LastSeqNo
Next1(n)    == (n + 1) % MaxTxCnt
Minus(m, n) == (m + MaxTxCnt - n) % MaxTxCnt

-----------------------------------------------------------------------------
(* Transactions and their files.                                           *)

Tx == [nr : TxNr, silent : BOOLEAN, active : BOOLEAN, started : BOOLEAN, stopped : BOOLEAN,
       auth : BOOLEAN, authorized : BOOLEAN, deauthorized : BOOLEAN,
       seqNos : SUBSET SeqNo, seqNoEnd : SeqNo]
TxEvent == [type : {"Started", "Updated", "Ended"}, attemptNr : 0 .. MessageAttempts,
            timed : BOOLEAN]
TxFile == [session : Session, tx : Tx \cup {None}, event : TxEvent \cup {None}]
TxFiles == [SeqNo -> TxFile \cup {None}]
FrontTxEvent == [seqNo : SeqNo, type : {"Started", "Updated", "Ended"},
                 attemptNr : 0 .. MessageAttempts, timed : BOOLEAN]

\* An empty pointer refers to nothing.
ASSUME NoneAssumption ==
    /\ None \notin Session /\ None \notin Tx
    /\ None \notin TxEvent /\ None \notin TxFile /\ None \notin FrontTxEvent

NewTx(nr) ==
    [nr |-> nr, silent |-> FALSE, active |-> TRUE, started |-> FALSE, stopped |-> FALSE,
     auth |-> FALSE, authorized |-> FALSE, deauthorized |-> FALSE,
     seqNos |-> {}, seqNoEnd |-> 0]
Unused == [s \in Session |-> NewTx(0)]
NoFiles == [n \in SeqNo |-> None]

isAborted(t)  == ~t.active /\ ~t.started
isReported(t) == t.stopped /\ t.seqNos = {}

\* What serializeTransaction() writes.  The numbers of the events are left out, and
\* what does not matter any more of a stopped transaction.
Saved(t) ==
    IF t.stopped THEN [NewTx(t.nr) EXCEPT !.silent = t.silent, !.active = FALSE,
                                          !.started = TRUE, !.stopped = TRUE]
    ELSE [t EXCEPT !.seqNos = {}, !.seqNoEnd = 0]

Found(fs) == {n \in SeqNo : fs[n] # None}

\* A transaction in memory with its files.
Pair(s, t, fs) == [session |-> s, tx |-> t, files |-> fs]
Current == Pair(transaction, txMem[transaction], txFlash[txMem[transaction].nr])

\* A full record gives up the event with the closest neighbours, never the first
\* and the last one.
Droppable(seqNos) == seqNos \ {MaxOf(seqNos), CHOOSE n \in seqNos : \A m \in seqNos : n <= m}
Gap(seqNos, n) ==
    LET after == {m \in seqNos : m > n}
        before == {m \in seqNos : m < n}
    IN  IF after = {} \/ before = {} THEN 0
        ELSE (CHOOSE m \in after : \A k \in after : m <= k) - MaxOf(before)
Dropped(seqNos) ==
    LET D == Droppable(seqNos)
    IN  {MaxOf({n \in D : \A m \in D : Gap(seqNos, n) <= Gap(seqNos, m)})}

\* Events go, with their files.
Without(p, out) ==
    Pair(p.session, [p.tx EXCEPT !.seqNos = @ \ out],
         [n \in SeqNo |-> IF n \in out THEN None ELSE p.files[n]])

\* Mutant: the record grows.
ShrunkNot(p, n) == p
Shrunk(p, n) ==
    IF n \notin p.tx.seqNos /\ Cardinality(p.tx.seqNos) + 1 > EventRecordSize
    THEN Without(p, Dropped(p.tx.seqNos)) ELSE p

\* A file is written.  The state of the transaction is read from the last file only.
Written(p, n, e) ==
    IF \E m \in Found(p.files) : m > n
    THEN [p EXCEPT !.files[n] = [session |-> p.session, tx |-> None, event |-> e]]
    ELSE [p EXCEPT !.files = [m \in SeqNo |->
              IF m = n THEN [session |-> p.session, tx |-> Saved(p.tx), event |-> e]
              ELSE IF @[m] = None THEN None ELSE [@[m] EXCEPT !.tx = None]]]

\* commit(): the state of the transaction alone, or an event with it.
CommitTx(p) == Written(Shrunk(p, p.tx.seqNoEnd), p.tx.seqNoEnd, None)
CommitEvent(p, n, e) ==
    LET q == Shrunk(p, n)
        r == Written(q, n, e)
    IN  IF n = q.tx.seqNoEnd
        THEN [r EXCEPT !.tx.seqNos = @ \cup {n}, !.tx.seqNoEnd = @ + 1]
        ELSE r

\* Mutant: the last file goes without the state having been saved elsewhere.
KeptStateNot(p, n) == p

\* remove(): before the file of the last event goes, the state of the transaction is
\* saved in the file after it.
KeptState(p, n) ==
    IF n = MaxOf(p.tx.seqNos) /\ p.files[p.tx.seqNoEnd] = None THEN CommitTx(p) ELSE p
RemoveEvent(p, n) ==
    IF n \notin p.tx.seqNos THEN p ELSE Without(KeptState(p, n), {n})

\* loadTransaction().
Load(nr, fs) ==
    LET last == MaxOf(Found(fs))
        bare == fs[last].event = None
    IN  Pair(fs[last].session,
             [fs[last].tx EXCEPT
                !.nr = nr,
                !.seqNos = IF bare THEN Found(fs) \ {last} ELSE Found(fs),
                !.seqNoEnd = IF bare THEN last ELSE last + 1],
             fs)

Stored(flash) == {n \in TxNr : Found(flash[n]) # {}}

\* An object that nothing refers to is deleted.
Kept(sessions) == [s \in Session |-> IF s \in sessions THEN txMem[s] ELSE NewTx(0)]
Apply(p) ==
    /\ txMem' = [txMem EXCEPT ![p.session] = p.tx]
    /\ txFlash' = [txFlash EXCEPT ![p.tx.nr] = p.files]

-----------------------------------------------------------------------------
(* Boot: the constructor of Evse, with discoverStoredTx().                  *)

\* The range of the numbers found, which wraps around at MaxTxCnt.
Oldest(ns) == CHOOSE n \in ns : \A m \in ns : Minus(m, n) < MaxTxCnt \div 2
Newest(ns) == CHOOSE n \in ns : \A m \in ns : Minus(n, m) < MaxTxCnt \div 2

BootFrom(flash) ==
    LET S == Stored(flash)
        p == Load(Newest(S), flash[Newest(S)])
    IN  /\ IF S = {}
           THEN /\ txNrBegin' = 0 /\ txNrFront' = 0 /\ txNrEnd' = 0
                /\ transaction' = None /\ txMem' = Unused
           ELSE /\ txNrBegin' = Oldest(S) /\ txNrFront' = Oldest(S)
                /\ txNrEnd' = Next1(Newest(S))
                /\ transaction' = p.session
                /\ txMem' = [Unused EXCEPT ![p.session] = p.tx]
        /\ txFlash' = flash
        /\ txFront' = None /\ txEventFront' = None /\ requested' = FALSE
        /\ authorizing' = FALSE
        /\ timed' = FALSE /\ boots' = boots + 1

\* The charger has been in use: the journal holds one transaction, and its final event
\* is still to be sent, or has been.
InitialFlash(pending) ==
    LET t == [NewTx(0) EXCEPT !.started = TRUE, !.stopped = TRUE, !.active = FALSE]
    IN  [n \in TxNr |-> IF n # MaxTxCnt - 2 THEN NoFiles
                        ELSE [k \in SeqNo |->
                            IF pending /\ k = 1
                            THEN [session |-> 1, tx |-> t,
                                  event |-> [type |-> "Ended", attemptNr |-> 0, timed |-> TRUE]]
                            ELSE IF ~pending /\ k = 2
                            THEN [session |-> 1, tx |-> t, event |-> None] ELSE None]]

Init ==
    /\ txNrBegin = MaxTxCnt - 2 /\ txNrFront = MaxTxCnt - 2 /\ txNrEnd = MaxTxCnt - 1
    /\ transaction = None /\ txFront = None /\ txEventFront = None /\ requested = FALSE
    /\ txMem = Unused
    /\ \E pending \in BOOLEAN :
          txFlash = InitialFlash(pending) /\ owed = IF pending THEN {<<1, 1>>} ELSE {}
    /\ authorizing = FALSE /\ timed = FALSE /\ boots = 1 /\ nextSession = 2
    /\ received = <<1, 0>>

-----------------------------------------------------------------------------
(* beginTransaction().                                                     *)

\* The object of a transaction number: txFront, or a new one from the flash.
TxAt(n) ==
    IF txFront # None /\ txMem[txFront].nr = n THEN txMem[txFront]
    ELSE Load(n, txFlash[n]).tx
Known(n) == Found(txFlash[n]) # {} \/ (txFront # None /\ txMem[txFront].nr = n)
Trimmable(n) == Known(n) => TxAt(n).silent \/ isAborted(TxAt(n))

Size == Minus(txNrEnd, txNrBegin)
Back(k) == Minus(txNrEnd, k)
Trimmed == CHOOSE k \in 0 .. Size :
              /\ \A j \in 1 .. k : Trimmable(Back(j))
              /\ k = Size \/ ~Trimmable(Back(k + 1))
newEnd == Back(Trimmed)
frontAfterTrim == IF Minus(txNrEnd, txNrFront) <= Trimmed THEN newEnd ELSE txNrFront

HasRoom == Size - Trimmed < RecordSize
Evicting ==
    /\ ~HasRoom
    /\ LET t == TxAt(txNrBegin)
       IN  Known(txNrBegin) => isReported(t) \/ isAborted(t) \/ (t.silent /\ t.stopped)
Silent == ~HasRoom /\ ~Evicting

\* The numbers whose files are removed.
gone == {Back(j) : j \in 1 .. Trimmed} \cup (IF Evicting THEN {txNrBegin} ELSE {})

\* The queue does not refer to a transaction that is being removed.
Released == txFront # None => txMem[txFront].nr \notin gone

CanBegin ==
    /\ transaction = None /\ nextSession <= MaxSession
    /\ BeginEarly \/ Released
    /\ Silent => SilentOffline

\* The new transaction, with its first commit, given how the caller prepares it.
Begun == Pair(nextSession, [NewTx(newEnd) EXCEPT !.silent = Silent], NoFiles)
beginTransaction(p) ==
    /\ txNrEnd' = Next1(newEnd)
    /\ txNrBegin' = IF Evicting THEN Next1(txNrBegin) ELSE txNrBegin
    /\ txNrFront' = IF Evicting /\ frontAfterTrim = txNrBegin
                    THEN Next1(txNrBegin) ELSE frontAfterTrim
    /\ txFlash' = [n \in TxNr |-> IF n = newEnd THEN p.files
                                  ELSE IF n \in gone THEN NoFiles ELSE txFlash[n]]
    /\ txMem' = [txMem EXCEPT ![nextSession] = p.tx]
    /\ transaction' = nextSession
    /\ nextSession' = nextSession + 1

-----------------------------------------------------------------------------
(* Authorization and the end of a transaction.                             *)

Authorized(p) == CommitTx([p EXCEPT !.tx.authorized = TRUE])

\* With an Authorize, or without.  What is not committed is in memory only.
beginAuthorization ==
    \E validate \in BOOLEAN :
        LET prepared(p) ==
                IF validate THEN [p EXCEPT !.tx.auth = TRUE]
                ELSE Authorized([p EXCEPT !.tx.auth = TRUE])
        IN  /\ \/ CanBegin /\ beginTransaction(prepared(CommitTx(Begun)))
               \/ /\ transaction # None /\ ~Current.tx.auth
                  /\ Apply(prepared(Current))
                  /\ UNCHANGED <<txNrs, transaction, nextSession>>
            /\ authorizing' = (validate \/ authorizing)
            /\ UNCHANGED <<frontVars, timed, boots, txHistory>>

\* An answer, or none in time; one for a former transaction is discarded.
AuthorizeEnds ==
    /\ authorizing
    /\ authorizing' = FALSE
    /\ \/ Apply(Authorized(Current))
       \/ Apply(CommitTx([Current EXCEPT !.tx.deauthorized = TRUE]))
    /\ UNCHANGED <<txNrs, frontVars, transaction, txEnv, txHistory>>

endAuthorization ==
    /\ transaction # None /\ Current.tx.auth
    /\ Apply(CommitTx([Current EXCEPT !.tx.auth = FALSE]))
    /\ UNCHANGED <<txNrs, frontVars, transaction, authorizing, txEnv, txHistory>>

Ended(p) == CommitTx([p EXCEPT !.tx.active = FALSE])

\* abortTransaction(), UnlockConnector and RequestStopTransaction.
abortTransaction ==
    /\ transaction # None /\ Current.tx.active
    /\ Apply(Ended(Current))
    /\ UNCHANGED <<txNrs, frontVars, transaction, authorizing, txEnv, txHistory>>

-----------------------------------------------------------------------------
(* Evse::loop().                                                           *)

\* The inputs of the firmware, and whether EVConnectionTimeOut has passed.  The policies
\* are StopTxOnEVSideDisconnect and StopTxOnInvalidId.
Input == [plugged : BOOLEAN, evReady : BOOLEAN, evseReady : BOOLEAN, timedOut : BOOLEAN,
          policy : BOOLEAN]

Collect ==
    /\ transaction # None
    /\ isAborted(Current.tx) \/ Current.tx.stopped
    /\ transaction' = None
    /\ txMem' = Kept({txFront})
    /\ authorizing' = FALSE
    /\ UNCHANGED <<txNrs, frontVars, txFlash, txEnv, txHistory>>

EndedBeforeStart(t, in) ==
    \/ in.timedOut /\ ~in.plugged
    \/ /\ t.deauthorized /\ ~t.started
       /\ (TxStartPoint \cup TxStopPoint) \cap {"Authorized", "PowerPathClosed"} # {}

\* The stop condition; a transaction that there is not is NewTx.
StopCondition(t, in) ==
    \/ ~t.active
    \/ /\ TxStopPoint \cap {"EVConnected", "PowerPathClosed"} # {}
       /\ ~in.plugged /\ (in.policy \/ ~t.started)
    \/ TxStopPoint \cap {"Authorized", "PowerPathClosed"} # {} /\ ~t.auth
    \/ "EnergyTransfer" \in TxStopPoint /\ ~in.evReady
    \/ "Authorized" \in TxStopPoint /\ t.deauthorized /\ in.policy

StartCondition(t, in) ==
    /\ t.active /\ ~t.started
    /\ \/ "PowerPathClosed" \in TxStartPoint /\ in.plugged /\ t.auth /\ t.authorized
       \/ "Authorized" \in TxStartPoint /\ t.auth /\ t.authorized
       \/ "EVConnected" \in TxStartPoint /\ in.plugged
       \/ "EnergyTransfer" \in TxStartPoint /\ in.evReady /\ in.evseReady

\* The event of this iteration: the final one waits for stopTxReadyInput, an update is
\* due when a substate changes or a sample is taken.
EventTypes(t, in) ==
    IF t.started /\ ~t.stopped /\ ~t.active THEN {"Ended", "Updated", "none"}
    ELSE IF ~StopCondition(t, in) /\ StartCondition(t, in) THEN {"Started"}
    ELSE IF t.started /\ ~t.stopped THEN {"Updated", "none"}
    ELSE {"none"}

Emitted(p, type) ==
    CommitEvent([p EXCEPT !.tx.started = @ \/ type = "Started",
                          !.tx.stopped = @ \/ type = "Ended"],
                p.tx.seqNoEnd, [type |-> type, attemptNr |-> 0, timed |-> timed \/ type # "Started"])

\* The event becomes the front if it is the oldest one.
Announce(p, type, n, front) ==
    /\ owed' = IF p.tx.silent \/ type = "Updated" THEN owed
               ELSE (owed \ {<<p.session, ToEnd>>}) \cup {<<p.session, n>>} \cup
                    (IF type = "Started" THEN {<<p.session, ToEnd>>} ELSE {})
    /\ IF txEventFront = None /\ p.tx.nr = front /\ p.tx.seqNos = {n}
       THEN /\ txFront' = IF txFront = None THEN p.session ELSE txFront
            /\ txEventFront' = [seqNo |-> n, type |-> type, attemptNr |-> 0,
                                timed |-> timed \/ type # "Started"]
       ELSE UNCHANGED <<txFront, txEventFront>>

\* The outcomes of an iteration: whether it ends the transaction, and the event.
Iteration(t, in) ==
    LET ends == t.active /\ (EndedBeforeStart(t, in) \/ (StopCondition(t, in) /\ t.started))
    IN  {[ends |-> ends, type |-> type] :
            type \in EventTypes([t EXCEPT !.active = @ /\ ~ends], in)}

LoopTransaction ==
    /\ transaction # None /\ ~isAborted(Current.tx) /\ ~Current.tx.stopped
    /\ \E it \in UNION {Iteration(Current.tx, in) : in \in Input} :
          LET p == IF it.ends THEN Ended(Current) ELSE Current
          IN  IF it.type = "none"
              THEN it.ends /\ Apply(p) /\ UNCHANGED <<owed, txFront, txEventFront>>
              ELSE /\ p.tx.seqNoEnd + (IF it.type = "Updated" THEN 1 ELSE 0) < MaxEvents[transaction]
                   /\ Apply(Emitted(p, it.type))
                   /\ Announce(Emitted(p, it.type), it.type, p.tx.seqNoEnd, txNrFront)
    /\ UNCHANGED <<txNrs, requested, transaction, authorizing, txEnv, received>>

\* A start point that needs no authorization: loop() begins the transaction itself.
LoopBegin ==
    /\ CanBegin /\ MaxEvents[nextSession] > 0
    /\ \E in \in Input :
          ~StopCondition(NewTx(newEnd), in) /\ StartCondition(NewTx(newEnd), in)
    /\ LET p == Emitted(CommitTx(Begun), "Started")
       IN  /\ beginTransaction(p)
           /\ Announce(p, "Started", 0, txNrFront')
    /\ UNCHANGED <<requested, authorizing, timed, boots, received>>

-----------------------------------------------------------------------------
(* The send queue: getFrontRequestOpNr() and fetchFrontRequest().           *)

Collectable(n) ==
    LET t == IF transaction # None /\ txMem[transaction].nr = n
             THEN txMem[transaction] ELSE TxAt(n)
    IN  (Known(n) \/ (transaction # None /\ txMem[transaction].nr = n))
            => isAborted(t) \/ isReported(t) \/ t.silent

Pending == Minus(txNrEnd, txNrFront)
FrontAt(k) == (txNrFront + k) % MaxTxCnt
\* txFront, once it is set, stands for the number at the front.
CollectableAt(k) ==
    IF k = 0 /\ txFront # None
    THEN LET t == txMem[txFront] IN isAborted(t) \/ isReported(t) \/ t.silent
    ELSE Collectable(FrontAt(k))
Collected == CHOOSE k \in 0 .. Pending :
                /\ \A j \in 0 .. k - 1 : CollectableAt(j)
                /\ k = Pending \/ ~CollectableAt(k)
NewFront ==
    IF Collected = Pending THEN None
    ELSE IF Collected = 0 /\ txFront # None THEN Pair(txFront, txMem[txFront], txFlash[txMem[txFront].nr])
    ELSE IF transaction # None /\ txMem[transaction].nr = FrontAt(Collected) THEN Current
    ELSE Load(FrontAt(Collected), txFlash[FrontAt(Collected)])

\* Mutant: the newest event.
BackSeqNo(seqNos) == MaxOf(seqNos)
FrontSeqNo(seqNos) == CHOOSE n \in seqNos : \A m \in seqNos : n <= m

\* The front event, and the transaction it is about.
getFrontRequestOpNr ==
    /\ timed /\ ~requested /\ txEventFront = None
    /\ txNrFront' = FrontAt(Collected)
    /\ IF NewFront = None
       THEN txFront' = None /\ txMem' = Kept({transaction}) /\ UNCHANGED txEventFront
       ELSE LET p == NewFront
                n == FrontSeqNo(p.tx.seqNos)
            IN  /\ txFront' = p.session
                /\ txMem' = [Kept({transaction}) EXCEPT ![p.session] = p.tx]
                /\ txEventFront' =
                     IF p.tx.seqNos = {} THEN None
                     ELSE [seqNo |-> n, type |-> p.files[n].event.type,
                           attemptNr |-> p.files[n].event.attemptNr,
                           timed |-> p.files[n].event.timed]
    /\ txNrFront' # txNrFront \/ txFront' # txFront \/ txEventFront' # txEventFront
    /\ UNCHANGED <<txNrBegin, txNrEnd, requested, transaction, txFlash, authorizing,
                   txEnv, txHistory>>

Front == Pair(txFront, txMem[txFront], txFlash[txMem[txFront].nr])
FrontEvent == <<txFront, txEventFront.seqNo>>

\* A start time taken before the clock was set: the bootNr of an event is never
\* assigned, so that none of them is taken to be of this boot.
StartTimeLost == txEventFront.seqNo = 0 /\ ~txEventFront.timed

\* It goes silent, and its events are removed one after the other.
Invalid == CommitTx([Front EXCEPT !.tx.silent = TRUE, !.tx.active = FALSE])
Discarded(p, upTo) == Without(p, {n \in p.tx.seqNos : n <= upTo})
OwedByOthers == {m \in owed : m[1] # txFront}

FetchInvalid ==
    /\ StartTimeLost /\ ~Front.tx.silent
    /\ Apply(Discarded(Invalid, LastSeqNo))
    /\ owed' = OwedByOthers
    /\ UNCHANGED <<txEventFront, requested>>

FetchGivenUp ==
    /\ ~StartTimeLost /\ ~Front.tx.silent
    /\ txEventFront.attemptNr >= MessageAttempts
    /\ Apply(RemoveEvent(Front, txEventFront.seqNo))
    /\ owed' = owed \ {FrontEvent}
    /\ txEventFront' = None
    /\ UNCHANGED requested

Fetch ==
    /\ ~StartTimeLost /\ ~Front.tx.silent
    /\ txEventFront.attemptNr < MessageAttempts
    /\ txEventFront' = [txEventFront EXCEPT !.attemptNr = @ + 1]
    /\ Apply(CommitEvent(Front, txEventFront.seqNo,
                [type |-> txEventFront.type, attemptNr |-> txEventFront.attemptNr + 1,
                 timed |-> txEventFront.timed]))
    /\ requested' = TRUE
    /\ UNCHANGED owed

fetchFrontRequest ==
    /\ timed /\ ~requested /\ txEventFront # None
    /\ FetchInvalid \/ FetchGivenUp \/ Fetch
    /\ UNCHANGED <<txNrs, txFront, transaction, authorizing, txEnv, received>>

-----------------------------------------------------------------------------
(* The Request in flight, and the environment.                             *)

\* processConf(), which may end the transaction, in memory; the listener removes the event.
Answered(rejected) ==
    IF rejected THEN [Front EXCEPT !.tx.active = FALSE, !.tx.deauthorized = TRUE] ELSE Front
Confirmed(rejected) == RemoveEvent(Answered(rejected), txEventFront.seqNo)
receiveConf ==
    /\ requested
    /\ received' = FrontEvent
    /\ \E rejected \in BOOLEAN : Apply(Confirmed(rejected))
    /\ owed' = owed \ {FrontEvent}
    /\ txEventFront' = None /\ requested' = FALSE
    /\ UNCHANGED <<txNrs, txFront, transaction, authorizing, txEnv>>

\* The abort listener: no answer in time, or an error.  The server may have the event.
requestAborted ==
    /\ requested
    /\ requested' = FALSE
    /\ received' \in {received, FrontEvent}
    /\ UNCHANGED <<txNrs, txFront, txEventFront, transaction, txMem, txFlash, authorizing, txEnv,
                   owed>>

\* The power fails, also between two file operations: p is what has been done to a
\* transaction.
CutOff(p) == BootFrom([txFlash EXCEPT ![p.tx.nr] = p.files])

\* A full record has given up an event for a commit that does not follow.
CommitCutOff ==
    /\ transaction # None /\ ~Current.tx.stopped
    /\ CutOff(Shrunk(Current, Current.tx.seqNoEnd))
    /\ UNCHANGED txHistory

\* The state of the transaction has been saved, and its events are not all removed.
FetchCutOff ==
    /\ timed /\ ~requested /\ txEventFront # None /\ ~Front.tx.silent
    /\ \/ /\ StartTimeLost
          /\ \E upTo \in SeqNo : CutOff(Discarded(Invalid, upTo))
          /\ owed' = OwedByOthers
       \/ /\ ~StartTimeLost /\ txEventFront.attemptNr >= MessageAttempts
          /\ CutOff(KeptState(Front, txEventFront.seqNo))
          /\ UNCHANGED owed
    /\ UNCHANGED received

\* The server has received the event, and its answer may have come, too.
ConfCutOff ==
    /\ requested
    /\ received' = FrontEvent
    /\ \/ BootFrom(txFlash)
       \/ \E rejected \in BOOLEAN : CutOff(KeptState(Answered(rejected), txEventFront.seqNo))
    /\ UNCHANGED owed

Reboot ==
    /\ boots < MaxBoot
    /\ (BootFrom(txFlash) /\ UNCHANGED txHistory) \/ CommitCutOff \/ FetchCutOff \/ ConfCutOff
    /\ UNCHANGED nextSession

\* The connection is up after a boot for the first time.  While it is down later on,
\* the queue is not polled and Requests time out.
Connect ==
    /\ ~timed
    /\ timed' = TRUE
    /\ UNCHANGED <<txNrs, frontVars, transaction, txMem, txFlash, authorizing, boots,
                   nextSession, txHistory>>

Loop == Collect \/ LoopTransaction \/ LoopBegin
Next ==
    \/ beginAuthorization \/ AuthorizeEnds \/ endAuthorization \/ abortTransaction
    \/ Loop
    \/ getFrontRequestOpNr \/ fetchFrontRequest
    \/ receiveConf \/ requestAborted
    \/ Connect
    \/ Reboot

Spec == Init /\ [][Next]_txVars

-----------------------------------------------------------------------------
TypeOK ==
    /\ {txNrBegin, txNrFront, txNrEnd} \subseteq TxNr
    /\ {transaction, txFront} \subseteq Session \cup {None}
    /\ txMem \in [Session -> Tx] /\ txFlash \in [TxNr -> TxFiles]
    /\ \A s \in Session : Cardinality(txMem[s].seqNos) <= EventRecordSize
    /\ txEventFront \in FrontTxEvent \cup {None} /\ (txEventFront # None => txFront # None)
    /\ {requested, authorizing, timed} \subseteq BOOLEAN
    /\ (requested => txEventFront # None) /\ (authorizing => transaction # None)
    /\ boots \in 1 .. MaxBoot /\ nextSession \in 2 .. MaxSession + 1
    /\ owed \subseteq Session \X (SeqNo \cup {ToEnd}) /\ received \in Session \X SeqNo

\* A transaction that was started stays the transaction of the EVSE until its final
\* event.  Its first and its final event are on the flash, and in the part of it that the
\* send queue works through, until they are confirmed or given up after all attempts.
\* No full record, eviction, rollback or power failure loses any of this.
StartAndEndKept ==
    \A m \in owed :
        IF m[2] = ToEnd THEN transaction = m[1] /\ Current.tx.started
        ELSE \E n \in TxNr :
                /\ Minus(n, txNrFront) < Pending
                /\ LET f == txFlash[n][m[2]]
                   IN  f # None /\ f.session = m[1] /\ f.event # None

\* The server gets the events in the order of the transactions and of their events, and
\* what it gets twice is the last one: attempts and power failures repeat nothing else.
EventsInOrder ==
    [][\/ received[1] < received'[1]
       \/ received[1] = received'[1] /\ received[2] <= received'[2]]_txVars

=============================================================================
