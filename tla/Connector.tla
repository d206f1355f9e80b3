----------------------------- MODULE Connector ------------------------------
(***************************************************************************)
(* Model/ConnectorBase/Connector.cpp with Model/Transactions: the OCPP 1.6 *)
(* transactions of one connector and their journal on the flash.           *)
(*                                                                         *)
(* A transaction has a number txNr (mod MAX_TX_CNT), which names its file. *)
(* Files lie in [txNrBegin, txNrEnd), the ones still to be reported to the *)
(* server from txNrFront on.  Numbers are given out again when a           *)
(* transaction is rolled back, so the model names each call of             *)
(* beginTransaction() by a session that is never reused.                   *)
(*                                                                         *)
(* Transaction objects are shared: the connector, its send queue and the   *)
(* listeners of each Request refer to them, and the TransactionStore keeps *)
(* weak references.  An object may outlive its file.                       *)
(***************************************************************************)
EXTENDS Integers, Sequences, FiniteSets

CONSTANTS
    MaxTxCnt,      \* MAX_TX_CNT
    RecordSize,    \* MO_TXRECORD_SIZE
    MaxAttempts,   \* TransactionMessageAttempts
    CacheSize,     \* MO_REQUEST_CACHE_MAXSIZE
    SilentOffline, \* SilentOfflineTransactions
    EndEarly,      \* a session may be ended while its Authorize is pending
    History,       \* the flash holds a transaction of an earlier run
    BeginEarly,    \* one may begin while the queue still refers to a collected one
    MaxSession,    \* bound: calls of beginTransaction()
    MaxReboot,     \* bound: reboots
    None           \* an empty pointer, or no file

ASSUME ConstantsAssumption ==
    /\ RecordSize \in Nat \ {0} /\ MaxTxCnt \in Nat /\ MaxTxCnt >= 2 * RecordSize + 2
    /\ MaxAttempts \in Nat \ {0} /\ CacheSize \in Nat \ {0}
    /\ {SilentOffline, EndEarly, BeginEarly, History} \subseteq BOOLEAN
    /\ MaxSession \in Nat /\ MaxReboot \in Nat
    /\ None \notin 0 .. MaxSession

VARIABLES
    txNrBegin, txNrFront, txNrEnd,
    transaction,       \* session of Connector::transaction
    transactionFront,  \* session of Connector::transactionFront
    mem,               \* the Transaction object of each session, if referenced
    flash,             \* the file of each txNr
    sendReqFront,      \* the Request of this connector in flight
    authQueue,         \* sessions with an Authorize in the default send queue
    connected,
    exchange,          \* what the network does with the Request in flight
    late,              \* answers to Requests given up may still arrive
    bootNr,
    clockSet,          \* the clock has been set since the boot, by the firmware or
                       \* the BootNotification that opens the send queues
    nextSession,
    charged,           \* history: sessions that have started to charge
    waived,            \* history: sessions given up, or never to be reported
    received,          \* history: transaction messages the server has received
    confirmed,         \* history: those whose answer has reached the charger
    sends              \* history: how often each of them was sent

txNrs   == <<txNrBegin, txNrFront, txNrEnd>>
refVars == <<transaction, transactionFront>>
rpcVars == <<sendReqFront, authQueue>>
netVars == <<connected, exchange, late>>
envVars == <<bootNr, clockSet, nextSession>>
history == <<charged, waived, received, confirmed, sends>>
vars == <<txNrs, refVars, mem, flash, rpcVars, netVars, envVars, history>>

TxNr == 0 .. MaxTxCnt - 1
Session == 0 .. MaxSession     \* session 0 is one of an earlier run
TxMessage == {"StartTransaction", "StopTransaction"} \X Session

\* Mutant: no wrap-around.
Next1Unbounded(n) == n + 1

Next1(n)    == (n + 1) % MaxTxCnt
Minus(m, n) == (m + MaxTxCnt - n) % MaxTxCnt
Ahead(n)    == Minus(n, txNrBegin)

NewTx(nr, silent) ==
    [nr |-> nr, silent |-> silent, begun |-> FALSE, active |-> TRUE,
     authorized |-> FALSE, deauthorized |-> FALSE,
     start |-> "no", startTry |-> 0, startBoot |-> 0,
     stop |-> "no", stopTry |-> 0]

NoObjects == [s \in Session |-> NewTx(0, FALSE)]

isRunning(t)   == t.start # "no" /\ t.stop = "no"
isAborted(t)   == t.start = "no" /\ ~t.active
isCompleted(t) == t.stop = "confirmed"

-----------------------------------------------------------------------------
(* TransactionStore.                                                       *)

Referenced ==
    ({transaction, transactionFront} \cup {authQueue[k] : k \in DOMAIN authQueue}
        \cup (IF sendReqFront = None THEN {} ELSE {sendReqFront.session})) \ {None}

\* getTransaction(): the object in the cache, the newest if there are several,
\* or else the one to be loaded from the file.
Cached(n, refs) == {s \in refs : mem[s].nr = n}
SessionAt(n, refs) ==
    IF Cached(n, refs) # {}
    THEN CHOOSE s \in Cached(n, refs) : \A r \in Cached(n, refs) : r <= s
    ELSE IF flash[n] = None THEN None ELSE flash[n].session
\* Unreferenced objects are destroyed.
Objects == [s \in Session |-> IF s \in Referenced THEN mem[s] ELSE NewTx(0, FALSE)]
TxOf(s, n, refs) == IF s \in Cached(n, refs) THEN mem[s] ELSE flash[n].tx

\* commit() writes the file with the number of the object.
Write(fs, s, t) == [fs EXCEPT ![t.nr] = [session |-> s, tx |-> t]]
Remove(fs, ns) == [n \in TxNr |-> IF n \in ns THEN None ELSE fs[n]]

Commit(s, t) ==
    /\ mem' = [mem EXCEPT ![s] = t]
    /\ flash' = Write(flash, s, t)

-----------------------------------------------------------------------------
(* Boot: the constructor of Connector.                                     *)

Files(fs) == {n \in TxNr : fs[n] # None}

\* Mutant: the range is taken not to wrap around.
NewestNoWrap(ns) == CHOOSE n \in ns : \A m \in ns : m <= n

\* The range of the files found, which wraps around at MaxTxCnt.
Oldest(ns) == CHOOSE n \in ns : \A m \in ns : Minus(m, n) < MaxTxCnt \div 2
Newest(ns) == CHOOSE n \in ns : \A m \in ns : Minus(n, m) < MaxTxCnt \div 2

\* Mutant: the current transaction is not restored.
BootForgetting(fs) ==
    /\ txNrBegin' = IF Files(fs) = {} THEN 0 ELSE Oldest(Files(fs))
    /\ txNrFront' = txNrBegin'
    /\ txNrEnd' = IF Files(fs) = {} THEN 0 ELSE Next1(Newest(Files(fs)))
    /\ transaction' = None
    /\ mem' = NoObjects
    /\ flash' = fs
    /\ transactionFront' = None
    /\ sendReqFront' = None /\ authQueue' = <<>>
    /\ connected' = FALSE /\ exchange' = "idle" /\ late' = FALSE
    /\ bootNr' = bootNr + 1
    /\ clockSet' = FALSE

\* The most recent transaction on the flash becomes the current one.
BootFrom(fs) ==
    /\ IF Files(fs) = {}
       THEN /\ txNrBegin' = 0 /\ txNrFront' = 0 /\ txNrEnd' = 0
            /\ transaction' = None
            /\ mem' = NoObjects
       ELSE LET last == fs[Newest(Files(fs))]
            IN  /\ txNrBegin' = Oldest(Files(fs))
                /\ txNrFront' = Oldest(Files(fs))
                /\ txNrEnd' = Next1(Newest(Files(fs)))
                /\ transaction' = last.session
                /\ mem' = [NoObjects EXCEPT ![last.session] = last.tx]
    /\ flash' = fs
    /\ transactionFront' = None
    /\ sendReqFront' = None /\ authQueue' = <<>>
    /\ connected' = FALSE /\ exchange' = "idle" /\ late' = FALSE
    /\ bootNr' = bootNr + 1
    /\ clockSet' = FALSE

Reboot ==
    /\ bootNr <= MaxReboot
    /\ BootFrom(flash)
    /\ UNCHANGED <<nextSession, history>>

\* A charger with an empty flash, or with one transaction reported long ago.
Init ==
    /\ LET last == MaxTxCnt - 2
           done == [NewTx(last, FALSE) EXCEPT !.begun = TRUE, !.active = FALSE,
                       !.authorized = TRUE, !.start = "confirmed", !.startTry = 1,
                       !.stop = "confirmed", !.stopTry = 1]
       IN  /\ txNrBegin = IF History THEN last ELSE 0
           /\ flash = [n \in TxNr |-> IF History /\ n = last
                                      THEN [session |-> 0, tx |-> done] ELSE None]
           /\ transaction = IF History THEN 0 ELSE None
           /\ mem = IF History THEN [NoObjects EXCEPT ![0] = done] ELSE NoObjects
    /\ txNrFront = txNrBegin /\ txNrEnd = IF History THEN Next1(txNrBegin) ELSE 0
    /\ transactionFront = None
    /\ sendReqFront = None /\ authQueue = <<>>
    /\ connected = FALSE /\ exchange = "idle" /\ late = FALSE
    /\ bootNr = 1 /\ clockSet = FALSE /\ nextSession = 1
    /\ charged = {} /\ waived = {} /\ received = {} /\ confirmed = {}
    /\ sends = [m \in TxMessage |-> 0]

-----------------------------------------------------------------------------
(* allocateTransaction().                                                  *)

\* Silent, aborted and unreadable entries at the back are removed first.
Trimmable(n) ==
    LET s == SessionAt(n, Referenced)
    IN  s # None => LET t == TxOf(s, n, Referenced) IN t.silent \/ isAborted(t)

Back(k) == Minus(txNrEnd, k)
Trimmed == CHOOSE k \in 0 .. Ahead(txNrEnd) :
              /\ \A j \in 1 .. k : Trimmable(Back(j))
              /\ k = Ahead(txNrEnd) \/ ~Trimmable(Back(k + 1))
TrimmedTo(k) == Remove(flash, {Back(j) : j \in 1 .. k})

newEnd == Back(Trimmed)
frontAfterTrim == IF Minus(txNrEnd, txNrFront) <= Trimmed THEN newEnd ELSE txNrFront

\* Mutant: a stopped transaction counts as history.
EvictableStopped ==
    LET s == SessionAt(txNrBegin, Referenced)
    IN  s # None =>
           LET t == TxOf(s, txNrBegin, Referenced) IN t.stop # "no" \/ isAborted(t)

\* There is room in the journal, or its oldest entry is history.
HasRoom == Ahead(newEnd) < RecordSize
Evictable ==
    LET s == SessionAt(txNrBegin, Referenced)
    IN  s # None =>
           LET t == TxOf(s, txNrBegin, Referenced)
           IN  isCompleted(t) \/ isAborted(t) \/ (t.silent /\ t.stop # "no")
Evicting == ~HasRoom /\ Evictable
Silent   == ~HasRoom /\ ~Evictable

\* The files once the new one can be created, and the state of the flash after
\* each file operation up to that point.
Cleared == IF Evicting THEN Remove(TrimmedTo(Trimmed), {txNrBegin}) ELSE TrimmedTo(Trimmed)
Created == Write(Cleared, nextSession, NewTx(newEnd, Silent))
Interrupted == {TrimmedTo(k) : k \in 0 .. Trimmed} \cup {Cleared, Created}

Allocate ==
    /\ Silent => SilentOffline
    /\ txNrEnd' = Next1(newEnd)
    /\ txNrBegin' = IF Evicting THEN Next1(txNrBegin) ELSE txNrBegin
    /\ txNrFront' = IF Evicting /\ frontAfterTrim = txNrBegin
                    THEN Next1(txNrBegin) ELSE frontAfterTrim
    /\ waived' = IF Silent THEN waived \cup {nextSession} ELSE waived

-----------------------------------------------------------------------------
(* Sessions.                                                               *)

\* The timeout listener of Authorize: what local authorization and the
\* settings for offline transactions make of the transaction.
Offline(t) == {[t EXCEPT !.authorized = TRUE], [t EXCEPT !.active = FALSE]}

\* An Authorize is waiting or in flight: its listeners hold the transaction.
AuthorizePending(s) ==
    \/ \E k \in DOMAIN authQueue : authQueue[k] = s
    \/ sendReqFront # None /\ sendReqFront.kind = "Authorize" /\ sendReqFront.session = s

\* The objects of collected transactions have been released.
Settled ==
    \A s \in Referenced : ~(isAborted(mem[s]) \/ isCompleted(mem[s]) \/ mem[s].silent)

CanBegin ==
    /\ transaction = None
    /\ nextSession <= MaxSession
    /\ BeginEarly \/ Settled

Begun(authorized) ==
    [NewTx(newEnd, Silent) EXCEPT !.begun = TRUE, !.authorized = authorized]

beginTransaction_authorized ==
    /\ CanBegin
    /\ Allocate
    /\ mem' = [Objects EXCEPT ![nextSession] = Begun(TRUE)]
    /\ flash' = Write(Cleared, nextSession, Begun(TRUE))
    /\ transaction' = nextSession
    /\ nextSession' = nextSession + 1
    /\ UNCHANGED <<transactionFront, rpcVars, netVars, bootNr, clockSet, charged,
                   received, confirmed, sends>>

\* With local preauthorization, or without.  The Authorize for it may evict the
\* oldest one from the default send queue.
beginTransaction ==
    /\ CanBegin
    /\ Allocate
    /\ \E preauthorized \in BOOLEAN :
          LET t == Begun(preauthorized)
              m == [Objects EXCEPT ![nextSession] = t]
              f == Write(Cleared, nextSession, t)
          IN  IF Len(authQueue) < CacheSize
              THEN /\ mem' = m /\ flash' = f
                   /\ authQueue' = Append(authQueue, nextSession)
              ELSE \E u \in Offline(mem[Head(authQueue)]) :
                      /\ mem' = [m EXCEPT ![Head(authQueue)] = u]
                      /\ flash' = Write(f, Head(authQueue), u)
                      /\ authQueue' = Append(Tail(authQueue), nextSession)
    /\ transaction' = nextSession
    /\ nextSession' = nextSession + 1
    /\ UNCHANGED <<transactionFront, sendReqFront, netVars, bootNr, clockSet, charged,
                   received, confirmed, sends>>

\* The power fails while the files for a new transaction are prepared.
BeginInterrupted ==
    /\ CanBegin
    /\ bootNr <= MaxReboot
    /\ Silent => SilentOffline
    /\ \E fs \in Interrupted : BootFrom(fs)
    /\ nextSession' = nextSession + 1
    /\ waived' = IF Silent THEN waived \cup {nextSession} ELSE waived
    /\ UNCHANGED <<charged, received, confirmed, sends>>

\* Mutant: no commit.
endTransactionUncommitted ==
    /\ transaction # None /\ mem[transaction].active
    /\ EndEarly \/ ~AuthorizePending(transaction)
    /\ mem' = [mem EXCEPT ![transaction].active = FALSE]
    /\ UNCHANGED <<txNrs, refVars, flash, rpcVars, netVars, envVars, history>>

endTransaction ==
    /\ transaction # None /\ mem[transaction].active
    /\ EndEarly \/ ~AuthorizePending(transaction)
    /\ Commit(transaction, [mem[transaction] EXCEPT !.active = FALSE])
    /\ UNCHANGED <<txNrs, refVars, rpcVars, netVars, envVars, history>>

-----------------------------------------------------------------------------
(* Connector::loop().                                                      *)

\* An aborted or a finished silent transaction is removed from the journal, and
\* its number is given out again.
Rollback ==
    /\ transaction # None
    /\ LET t == mem[transaction]
       IN  /\ isAborted(t) \/ (t.silent /\ t.stop # "no")
           /\ flash' = Remove(flash, {t.nr})
           /\ txNrFront' = IF txNrFront = txNrEnd THEN t.nr ELSE txNrFront
           /\ txNrEnd' = t.nr
    /\ transaction' = None
    /\ UNCHANGED <<txNrBegin, transactionFront, mem, rpcVars, netVars, envVars, history>>

\* A stopped transaction is left to the send queue.
CollectStopped ==
    /\ transaction # None
    /\ mem[transaction].stop # "no" /\ ~mem[transaction].silent
    /\ transaction' = None
    /\ UNCHANGED <<txNrs, transactionFront, mem, flash, rpcVars, netVars, envVars, history>>

Inactive(t) == [t EXCEPT !.active = FALSE]

\* Reasons to end the session, one after the other, given the inputs of the
\* firmware and the configuration (policy: StopTransactionOnEVSideDisconnect, or
\* StopTransactionOnInvalidId; either of them ends the session).
EndedUnplugged(t, unplugged, policy) ==
    IF isRunning(t) /\ unplugged /\ policy THEN Inactive(t) ELSE t
EndedWaiting(t, unplugged, timedOut) ==
    IF t.start = "no" /\ t.begun /\ unplugged /\ timedOut THEN Inactive(t) ELSE t
EndedDeauthorized(t, policy) ==
    IF t.deauthorized /\ (isRunning(t) => policy) THEN Inactive(t) ELSE t

\* Start or stop the transaction when its conditions are met.
MayStart(t, unplugged) ==
    t.start = "no" /\ t.active /\ t.authorized /\ ~unplugged
Started(t) ==
    [t EXCEPT !.start = IF t.silent THEN "confirmed" ELSE "requested",
              !.startBoot = IF clockSet THEN 0 ELSE bootNr]
MayStop(t) == isRunning(t) /\ ~t.active
Stopped(t) ==
    [t EXCEPT !.stop = IF t.silent THEN "confirmed" ELSE "requested"]

SessionLoop ==
    /\ transaction # None
    /\ ~isAborted(mem[transaction]) /\ mem[transaction].stop = "no"
    /\ \E unplugged, timedOut, policy, ready \in BOOLEAN :
          LET t == mem[transaction]
              u == EndedDeauthorized(
                      EndedWaiting(EndedUnplugged(t, unplugged, policy),
                                   unplugged, timedOut), policy)
              v == IF ready /\ MayStart(u, unplugged) THEN Started(u)
                   ELSE IF ready /\ MayStop(u) THEN Stopped(u)
                   ELSE u
          IN  /\ timedOut => EndEarly \/ ~AuthorizePending(transaction)
              /\ v # t
              /\ Commit(transaction, v)
              /\ charged' = IF v.start # "no" THEN charged \cup {transaction} ELSE charged
    /\ UNCHANGED <<txNrs, refVars, rpcVars, netVars, envVars, waived, received, confirmed, sends>>

-----------------------------------------------------------------------------
(* The send queue.  RequestQueue::loop polls getFrontRequestOpNr() of the  *)
(* connector, and fetchFrontRequest() unless an Authorize is waiting.      *)

\* The objects that getFrontRequestOpNr() looks at, from txNrFront on.
Pending == Minus(txNrEnd, txNrFront)
FrontAt(j) ==
    IF j = 0 /\ transactionFront # None THEN transactionFront
    ELSE SessionAt((txNrFront + j) % MaxTxCnt, Referenced \ {transactionFront})
FrontTx(j) ==
    IF j = 0 /\ transactionFront # None THEN mem[transactionFront]
    ELSE TxOf(FrontAt(j), (txNrFront + j) % MaxTxCnt, Referenced \ {transactionFront})
Collectable(t) == isAborted(t) \/ isCompleted(t) \/ t.silent

Collected == CHOOSE k \in 0 .. Pending :
                /\ \A j \in 0 .. k - 1 : FrontAt(j) # None /\ Collectable(FrontTx(j))
                /\ k < Pending => FrontAt(k) = None \/ ~Collectable(FrontTx(k))

newFront == IF Collected = Pending THEN None ELSE FrontAt(Collected)
newFrontTx == FrontTx(Collected)

getFrontRequestOpNr ==
    /\ txNrFront' = (txNrFront + Collected) % MaxTxCnt
    /\ transactionFront' = newFront
    /\ UNCHANGED <<txNrBegin, txNrEnd, transaction>>

\* The object of transactionFront may just have been loaded from its file.
KeepFront == mem' = IF newFront = None THEN mem ELSE [mem EXCEPT ![newFront] = newFrontTx]
CommitFront(t) ==
    /\ mem' = [mem EXCEPT ![newFront] = t]
    /\ flash' = Write(flash, newFront, t)

Transmit(kind, s) ==
    /\ sendReqFront' = [kind |-> kind, session |-> s]
    /\ exchange' = "sent"
    /\ sends' = [m \in TxMessage |-> sends[m] + (IF m = <<kind, s>> THEN 1 ELSE 0)]
NoTransmission == UNCHANGED <<sendReqFront, exchange, sends>>

PollAuthorize ==
    /\ authQueue # <<>>
    /\ Transmit("Authorize", Head(authQueue))
    /\ authQueue' = Tail(authQueue)
    /\ KeepFront
    /\ UNCHANGED <<flash, waived>>

\* Nothing to send, or the retry interval is running.
PollNothing ==
    /\ authQueue = <<>>
    /\ newFront # None =>
          LET t == newFrontTx
          IN  \/ t.start = "no" \/ (t.start = "confirmed" /\ t.stop = "no")
              \/ t.start = "requested" /\ t.startTry \in 1 .. MaxAttempts - 1
              \/ t.start = "confirmed" /\ t.stop = "requested"
                    /\ t.stopTry \in 1 .. MaxAttempts - 1
    /\ KeepFront
    /\ NoTransmission
    /\ UNCHANGED <<flash, authQueue, waived>>

\* The start time is unknown if it was taken in an earlier run with no clock.
StartTimeLost(t) == t.startBoot # 0 /\ t.startBoot # bootNr

\* createReq() replaces a start time that was taken before the clock was set.  It
\* does so in memory only.
Adjusted(t) == IF t.startBoot = bootNr THEN [t EXCEPT !.startBoot = 0] ELSE t

\* Mutant: the attempt is not committed.
PollStartTxUncommitted ==
    /\ authQueue = <<>>
    /\ newFront # None /\ newFrontTx.start = "requested"
    /\ LET t == newFrontTx
       IN  IF StartTimeLost(t) \/ t.startTry >= MaxAttempts
           THEN /\ CommitFront([t EXCEPT !.silent = TRUE, !.active = FALSE])
                /\ waived' = waived \cup {newFront}
                /\ NoTransmission
           ELSE /\ mem' = [mem EXCEPT ![newFront] = Adjusted([t EXCEPT !.startTry = @ + 1])]
                /\ Transmit("StartTransaction", newFront)
                /\ UNCHANGED <<flash, waived>>
    /\ UNCHANGED authQueue

PollStartTx ==
    /\ authQueue = <<>>
    /\ newFront # None /\ newFrontTx.start = "requested"
    /\ LET t == newFrontTx
       IN  IF StartTimeLost(t) \/ t.startTry >= MaxAttempts
           THEN /\ CommitFront([t EXCEPT !.silent = TRUE, !.active = FALSE])
                /\ waived' = waived \cup {newFront}
                /\ NoTransmission
           ELSE LET u == [t EXCEPT !.startTry = @ + 1]
                IN  /\ flash' = Write(flash, newFront, u)
                    /\ mem' = [mem EXCEPT ![newFront] = Adjusted(u)]
                    /\ Transmit("StartTransaction", newFront)
                    /\ UNCHANGED waived
    /\ UNCHANGED authQueue

\* Mutants: the attempt is not committed; StartTransaction need not be confirmed.
PollStopTxUncommitted ==
    /\ authQueue = <<>>
    /\ newFront # None /\ newFrontTx.start = "confirmed" /\ newFrontTx.stop = "requested"
    /\ LET t == newFrontTx
       IN  IF t.stopTry >= MaxAttempts
           THEN /\ mem' = [mem EXCEPT ![newFront] = [t EXCEPT !.silent = TRUE]]
                /\ waived' = waived \cup {newFront}
                /\ NoTransmission
           ELSE /\ mem' = [mem EXCEPT ![newFront] = [t EXCEPT !.stopTry = @ + 1]]
                /\ Transmit("StopTransaction", newFront)
                /\ UNCHANGED waived
    /\ UNCHANGED <<flash, authQueue>>
PollStopTxEarly ==
    /\ authQueue = <<>>
    /\ newFront # None /\ newFrontTx.stop = "requested" /\ newFrontTx.stopTry < MaxAttempts
    /\ CommitFront([newFrontTx EXCEPT !.stopTry = @ + 1])
    /\ Transmit("StopTransaction", newFront)
    /\ UNCHANGED <<waived, authQueue>>

\* Giving up a StopTransaction is not committed.
PollStopTx ==
    /\ authQueue = <<>>
    /\ newFront # None /\ newFrontTx.start = "confirmed" /\ newFrontTx.stop = "requested"
    /\ LET t == newFrontTx
       IN  IF t.stopTry >= MaxAttempts
           THEN /\ mem' = [mem EXCEPT ![newFront] = [t EXCEPT !.silent = TRUE]]
                /\ waived' = waived \cup {newFront}
                /\ NoTransmission /\ UNCHANGED flash
           ELSE /\ CommitFront([t EXCEPT !.stopTry = @ + 1])
                /\ Transmit("StopTransaction", newFront)
                /\ UNCHANGED waived
    /\ UNCHANGED authQueue

Polling ==
    /\ connected /\ clockSet /\ sendReqFront = None
    /\ getFrontRequestOpNr
    /\ UNCHANGED <<connected, late, envVars, charged, received, confirmed>>
PollRequest == Polling /\ (PollAuthorize \/ PollStartTx \/ PollStopTx)
Poll == PollRequest \/ (Polling /\ PollNothing)

Received(r) == {<<r.kind, r.session>>} \cap TxMessage

\* The abort listener of StartTransaction and StopTransaction.
Aborted(s, try) ==
    IF try >= MaxAttempts
    THEN /\ Commit(s, [mem[s] EXCEPT !.silent = TRUE, !.active = FALSE])
         /\ waived' = waived \cup {s}
    ELSE UNCHANGED <<mem, flash, waived>>

RequestAborted ==
    LET s == sendReqFront.session
    IN  \/ sendReqFront.kind = "StartTransaction" /\ Aborted(s, mem[s].startTry)
        \/ sendReqFront.kind = "StopTransaction" /\ Aborted(s, mem[s].stopTry)

\* The Request in flight is given up.  Unless it has been lost, the server may get
\* it all the same (before any later one on the same connection), and answer it.
GiveUp ==
    /\ sendReqFront' = None
    /\ exchange' = "idle"
    /\ late' = (late \/ exchange # "lost")
    /\ \/ UNCHANGED received
       \/ exchange = "sent" /\ received' = received \cup Received(sendReqFront)

SlotTimeout ==
    /\ sendReqFront # None
    /\ \/ RequestAborted
       \/ /\ sendReqFront.kind = "Authorize"
          /\ \E t \in Offline(mem[sendReqFront.session]) : Commit(sendReqFront.session, t)
          /\ UNCHANGED waived
    /\ GiveUp
    /\ UNCHANGED <<txNrs, refVars, authQueue, connected, envVars, charged, confirmed, sends>>

\* An Authorize times out in the default send queue.
QueueTimeout(k) ==
    /\ \E t \in Offline(mem[authQueue[k]]) : Commit(authQueue[k], t)
    /\ authQueue' = SubSeq(authQueue, 1, k - 1) \o SubSeq(authQueue, k + 1, Len(authQueue))
    /\ UNCHANGED <<txNrs, refVars, sendReqFront, netVars, envVars, history>>

-----------------------------------------------------------------------------
(* Answers of the server.                                                  *)

AuthorizeAnswered(s, kind) ==
    /\ \/ kind = "accepted" /\ Commit(s, [mem[s] EXCEPT !.authorized = TRUE])
       \/ kind = "accepted" /\ Commit(s, Inactive(mem[s]))   \* reserved for another user
       \/ kind = "rejected" /\ Commit(s, [mem[s] EXCEPT !.deauthorized = TRUE])
       \/ kind = "error" /\ UNCHANGED <<mem, flash>>
    /\ UNCHANGED <<waived, confirmed>>

StartTransactionAnswered(s, kind) ==
    IF kind = "error"
    THEN RequestAborted /\ UNCHANGED confirmed
    ELSE /\ Commit(s, [mem[s] EXCEPT !.start = "confirmed",
                                     !.deauthorized = @ \/ kind = "rejected"])
         /\ confirmed' = confirmed \cup {<<"StartTransaction", s>>}
         /\ UNCHANGED waived

\* An error counts as a confirmation.
StopTransactionAnswered(s) ==
    /\ Commit(s, [mem[s] EXCEPT !.stop = "confirmed"])
    /\ confirmed' = confirmed \cup {<<"StopTransaction", s>>}
    /\ UNCHANGED waived

receiveResponse ==
    /\ exchange \in {"accepted", "rejected", "error"}
    /\ LET r == sendReqFront
       IN  \/ r.kind = "Authorize" /\ AuthorizeAnswered(r.session, exchange)
           \/ r.kind = "StartTransaction" /\ StartTransactionAnswered(r.session, exchange)
           \/ r.kind = "StopTransaction" /\ StopTransactionAnswered(r.session)
    /\ sendReqFront' = None
    /\ exchange' = "idle"
    /\ UNCHANGED <<txNrs, refVars, authQueue, connected, late, envVars, charged,
                   received, sends>>

\* A late answer to another Request only releases the one in flight.
receiveStrayResponse ==
    /\ late /\ sendReqFront # None
    /\ GiveUp
    /\ UNCHANGED <<txNrs, refVars, mem, flash, authQueue, connected, envVars, charged,
                   waived, confirmed, sends>>

-----------------------------------------------------------------------------
(* Environment.                                                            *)

ServerAnswers ==
    /\ exchange = "sent"
    /\ \E kind \in {"accepted", "rejected", "error"} :
          /\ sendReqFront.kind = "StopTransaction" => kind # "rejected"
          /\ exchange' = kind
          /\ received' = IF sendReqFront.kind = "StartTransaction" /\ kind = "error"
                         THEN received ELSE received \cup Received(sendReqFront)
    /\ UNCHANGED <<txNrs, refVars, mem, flash, rpcVars, connected, late, envVars, charged,
                   waived, confirmed, sends>>

Connect ==
    /\ ~connected
    /\ connected' = TRUE
    /\ UNCHANGED <<txNrs, refVars, mem, flash, rpcVars, exchange, late, envVars, history>>

Disconnect ==
    /\ connected
    /\ connected' = FALSE
    /\ exchange' = IF sendReqFront = None THEN "idle" ELSE "lost"
    /\ late' = FALSE
    /\ UNCHANGED <<txNrs, refVars, mem, flash, rpcVars, envVars, history>>

SetClock ==
    /\ ~clockSet
    /\ clockSet' = TRUE
    /\ UNCHANGED <<txNrs, refVars, mem, flash, rpcVars, netVars, bootNr, nextSession, history>>

GiveUpAnAuthorize == \E k \in DOMAIN authQueue : QueueTimeout(k)
Loop == Rollback \/ CollectStopped \/ SessionLoop

Next ==
    \/ beginTransaction \/ beginTransaction_authorized \/ endTransaction
    \/ Loop
    \/ Poll
    \/ SlotTimeout
    \/ GiveUpAnAuthorize
    \/ receiveResponse \/ receiveStrayResponse
    \/ ServerAnswers
    \/ Connect \/ Disconnect \/ SetClock
    \/ Reboot \/ BeginInterrupted

Spec == Init /\ [][Next]_vars

\* The firmware calls loop(), clocks go on, each disconnect is followed by a
\* reconnect, and the station is accepted after each boot.  Again and again the
\* connection is up, the slot is free and the retry interval is over when loop()
\* polls.  The server need not answer.
Fairness ==
    /\ WF_vars(Rollback \/ CollectStopped)
    /\ WF_vars(Connect) /\ WF_vars(SetClock)
    /\ WF_vars(SlotTimeout \/ GiveUpAnAuthorize)
    /\ SF_vars(PollRequest)

FairSpec == Spec /\ Fairness

-----------------------------------------------------------------------------
Tx == [nr : TxNr, silent : BOOLEAN, begun : BOOLEAN, active : BOOLEAN,
       authorized : BOOLEAN, deauthorized : BOOLEAN,
       start : {"no", "requested", "confirmed"}, startTry : 0 .. MaxAttempts,
       startBoot : 0 .. MaxReboot + 1,
       stop : {"no", "requested", "confirmed"}, stopTry : 0 .. MaxAttempts]

Request == [kind : {"Authorize", "StartTransaction", "StopTransaction"}, session : Session]
File == [session : Session, tx : Tx]

ASSUME NoneAssumption == None \notin Request \cup File

TypeOK ==
    /\ {txNrBegin, txNrFront, txNrEnd} \subseteq TxNr
    /\ {transaction, transactionFront} \subseteq Session \cup {None}
    /\ mem \in [Session -> Tx]
    /\ flash \in [TxNr -> File \cup {None}]
    /\ sendReqFront \in Request \cup {None}
    /\ authQueue \in Seq(Session) /\ Len(authQueue) <= CacheSize
    /\ connected \in BOOLEAN /\ late \in BOOLEAN
    /\ exchange \in {"idle", "sent", "lost", "accepted", "rejected", "error"}
    /\ exchange = "idle" <=> sendReqFront = None
    /\ bootNr \in 1 .. MaxReboot + 1 /\ clockSet \in BOOLEAN
    /\ nextSession \in 1 .. MaxSession + 1
    /\ charged \subseteq Session /\ waived \subseteq Session
    /\ received \subseteq TxMessage /\ confirmed \subseteq TxMessage
    /\ sends \in [TxMessage -> Nat]

Reported(s) == <<"StopTransaction", s>> \in confirmed
Queued(n) == Minus(n, txNrFront) < Minus(txNrEnd, txNrFront)

\* Every session that has charged and that is not given up after all attempts is
\* still in the part of the journal that the send queue works through, until the
\* server has confirmed its StopTransaction, whatever is rolled back, evicted or
\* interrupted by a reboot in the meantime.
NoTransactionLost ==
    \A s \in charged \ waived : Reported(s) \/
        \E n \in TxNr : Queued(n) /\
            \/ flash[n] # None /\ flash[n].session = s
            \/ transaction = s /\ mem[s].nr = n

ButStartTime(t) == [t EXCEPT !.startBoot = 0]

\* What the charger knows of the session going on is on the flash, so that it
\* survives a reboot at any time, except for the start time that createReq() corrects.
JournalIsCurrent ==
    transaction # None /\ mem[transaction].stop = "no" =>
        LET file == flash[mem[transaction].nr]
        IN  /\ file # None /\ file.session = transaction
            /\ ButStartTime(file.tx) = ButStartTime(mem[transaction])

\* A started and not yet stopped transaction in the journal always is the current
\* one: no reboot, no rollback and no later session orphans it.
StartedIsCurrent ==
    \A n \in TxNr : flash[n] # None =>
        LET t == flash[n].tx
        IN  isRunning(t) => transaction = flash[n].session

\* The server gets the transactions one after the other: no StartTransaction before
\* the StopTransaction of each earlier session that has charged, and no
\* StopTransaction before its own StartTransaction.
ServerOrder ==
    [][\A m \in received' \ received :
          IF m[1] = "StartTransaction"
          THEN \A s \in charged : s < m[2] =>
                  s \in waived \/ <<"StopTransaction", s>> \in received
          ELSE <<"StartTransaction", m[2]>> \in received]_vars

\* What is settled stays settled, even after a reboot: a confirmed message is not sent
\* once more, and a session that has been given up is not taken up again, although the
\* charger does not always write down that it has given it up.
SettledIsFinal ==
    [][\A m \in TxMessage :
          m \in confirmed \/ m[2] \in waived => sends'[m] = sends[m]]_vars

\* No message is sent more often than TransactionMessageAttempts, although reboots
\* come between the attempts.
AttemptsBounded == \A m \in TxMessage : sends[m] <= MaxAttempts

\* A session that has charged and is over is reported to the server in the end, or
\* given up, if the connection comes back again and again.
SessionsAreReported ==
    \A s \in 1 .. MaxSession :
        (s \in charged /\ transaction # s) ~> (Reported(s) \/ s \in waived)
=============
