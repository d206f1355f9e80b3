------------------------------- MODULE Metering -------------------------------
(***************************************************************************)
(* Model/Metering of OCPP 1.6, for one connector: the MeterStore with the   *)
(* meter data of each transaction, which StopTransaction carries, and the   *)
(* MeteringConnector that takes the samples and sends MeterValues.          *)
(*                                                                         *)
(* The journal of transactions stands for what Connector does: it numbers   *)
(* them, calls the metering at their begin, start, stop and removal, and    *)
(* its own commits come after these calls.  As numbers are used again, each *)
(* transaction has a session of its own, the history its samples carry.     *)
(***************************************************************************)
EXTENDS Integers, Sequences

CONSTANTS
    StopTxDataLen,    \* MO_MAX_STOPTXDATA_LEN
    CacheSize,        \* MO_METERVALUES_CACHE_MAXSIZE
    MessageAttempts,  \* TransactionMessageAttempts
    MaxTxCnt,         \* MAX_TX_CNT
    RecordSize,       \* MO_TXRECORD_SIZE
    MaxSession,       \* bound: sessions
    None

ASSUME ConstantsAssumption ==
    /\ StopTxDataLen \in Nat /\ StopTxDataLen >= 2
    /\ CacheSize \in Nat \ {0} /\ MessageAttempts \in Nat /\ MaxSession \in Nat
    /\ RecordSize \in Nat \ {0} /\ MaxTxCnt \in Nat /\ RecordSize <= MaxTxCnt

VARIABLES
    journal,         \* the transactions, oldest first; the last may be the current one
    nrEnd,           \* Connector::txNrEnd
    sessions,        \* how many there have been
    sd,              \* the files sd-<connector>-<txNr>-<i>
    stopTxnData,     \* the TransactionMeterData of the connector
    meterData, meterDataFront,  \* MeterValues to be sent
    sentStop         \* history: the StopTransaction sent last

mtVars == <<journal, nrEnd, sessions, sd, stopTxnData, meterData, meterDataFront, sentStop>>

TxNr  == 0 .. MaxTxCnt - 1
Index == 0 .. StopTxDataLen - 1
NoSample == [i \in Index |-> None]
Sample(s, kind) == [session |-> s, kind |-> kind]
Samples == [session : 1 .. MaxSession, kind : {"begin", "periodic", "end"}]
MeterData == [nr : TxNr, data : Seq(Samples), mvCount : 0 .. StopTxDataLen, finalized : BOOLEAN]

\* Nothing is none of these.
ASSUME NoneAssumption == None \notin Samples \cup MeterData

Current == journal[Len(journal)]
HasCurrent == journal # <<>> /\ Current.phase \in {"preparing", "running", "aborted"}
InPhase(phase) == [journal EXCEPT ![Len(journal)].phase = phase]

-----------------------------------------------------------------------------
(* MeterStore.                                                             *)

Paths(f) == {i \in Index : f[i] # None}
MvCount(f) == IF Paths(f) = {} THEN 0
              ELSE 1 + CHOOSE i \in Paths(f) : \A j \in Paths(f) : j <= i

\* restore(): the files in order, up to a region without any.
Restored(nr) ==
    [nr |-> nr, data |-> [k \in 1 .. MvCount(sd[nr]) |-> sd[nr][k - 1]],
     mvCount |-> MvCount(sd[nr]), finalized |-> FALSE]

\* getTxMeterData(): the object in use, or a new one from the files; none if silent.
getTxMeterData(tx) ==
    IF tx.silent THEN None
    ELSE IF stopTxnData # None /\ stopTxnData.nr = tx.nr THEN stopTxnData
    ELSE Restored(tx.nr)

\* addTxData(): a full record overwrites its last entry.
AddedAt(d) == IF d.mvCount >= StopTxDataLen THEN d.mvCount - 1 ELSE d.mvCount
Added(d, mv) ==
    IF d = None \/ d.finalized THEN d
    ELSE IF d.mvCount >= StopTxDataLen THEN [d EXCEPT !.data[Len(d.data)] = mv]
    ELSE [d EXCEPT !.data = Append(@, mv), !.mvCount = @ + 1]
AddedFile(d, mv) ==
    IF d = None \/ d.finalized THEN sd ELSE [sd EXCEPT ![d.nr][AddedAt(d)] = mv]

\* Mutant: the files beyond the entries in memory, of which there are none, stay.
CachedOnly(nr) ==
    IF stopTxnData # None /\ stopTxnData.nr = nr THEN stopTxnData.mvCount ELSE 0

\* remove(): the files from the last to the first; the number of them is that of the
\* object in use, if it has any.
RemovedCount(nr) ==
    IF stopTxnData # None /\ stopTxnData.nr = nr /\ stopTxnData.mvCount > 0
    THEN stopTxnData.mvCount ELSE MvCount(sd[nr])
Removed(nr) == [sd EXCEPT ![nr] = [i \in Index |-> IF i < RemovedCount(nr) THEN None ELSE @[i]]]
RemovedDownTo(nr, k) ==
    [sd EXCEPT ![nr] = [i \in Index |-> IF k <= i /\ i < RemovedCount(nr) THEN None ELSE @[i]]]
Finalized(nr) ==
    IF stopTxnData # None /\ stopTxnData.nr = nr
    THEN [stopTxnData EXCEPT !.finalized = TRUE] ELSE stopTxnData

-----------------------------------------------------------------------------
(* What Connector calls.                                                    *)

\* allocateTransaction(): an entry that is over makes room.  The number the new one gets
\* is cleaned, for it may have been rolled back before.
Begin ==
    /\ ~HasCurrent /\ sessions < MaxSession
    /\ LET evict == Len(journal) >= RecordSize
           kept == IF evict THEN Tail(journal) ELSE journal
           sd1 == IF evict THEN Removed(journal[1].nr) ELSE sd
       IN  /\ evict => journal[1].phase = "done"
           /\ \E silent \in BOOLEAN :
                 journal' = Append(kept, [session |-> sessions + 1, nr |-> nrEnd,
                                          phase |-> "preparing", silent |-> silent])
           /\ sd' = [sd1 EXCEPT ![nrEnd] = Removed(nrEnd)[nrEnd]]
           /\ stopTxnData' = Finalized(nrEnd)
    /\ nrEnd' = (nrEnd + 1) % MaxTxCnt
    /\ sessions' = sessions + 1
    /\ UNCHANGED <<meterData, meterDataFront, sentStop>>

\* beginTxMeterData(), and the commit.
Start ==
    /\ HasCurrent /\ Current.phase = "preparing"
    /\ LET d == getTxMeterData(Current)
           mv == Sample(Current.session, "begin")
       IN  /\ stopTxnData' = IF Current.silent THEN stopTxnData ELSE Added(d, mv)
           /\ sd' = IF Current.silent THEN sd ELSE AddedFile(d, mv)
    /\ journal' = InPhase("running")
    /\ UNCHANGED <<nrEnd, sessions, meterData, meterDataFront, sentStop>>

\* endTxMeterData(), and the commit.  The object is given away.
Stop ==
    /\ HasCurrent /\ Current.phase = "running"
    /\ LET d == getTxMeterData(Current)
       IN  /\ sd' = IF Current.silent THEN sd ELSE AddedFile(d, Sample(Current.session, "end"))
           /\ stopTxnData' = IF Current.silent THEN stopTxnData ELSE None
    /\ journal' = InPhase(IF Current.silent THEN "aborted" ELSE "stopped")
    /\ UNCHANGED <<nrEnd, sessions, meterData, meterDataFront, sentStop>>

\* The attempts to deliver StartTransaction are used up: the transaction goes silent.
GiveUpStart ==
    /\ HasCurrent /\ Current.phase = "running" /\ ~Current.silent
    /\ journal' = [journal EXCEPT ![Len(journal)].silent = TRUE]
    /\ sd' = Removed(Current.nr)
    /\ stopTxnData' = Finalized(Current.nr)
    /\ UNCHANGED <<nrEnd, sessions, meterData, meterDataFront, sentStop>>

Abort ==
    /\ HasCurrent /\ Current.phase = "preparing"
    /\ journal' = InPhase("aborted")
    /\ UNCHANGED <<nrEnd, sessions, sd, stopTxnData, meterData, meterDataFront, sentStop>>

\* Connector::loop() collects the transaction: abortTxMeterData(), removeTxMeterData(),
\* and its number is free again.
Collect ==
    /\ HasCurrent /\ Current.phase = "aborted"
    /\ stopTxnData' = None
    /\ sd' = [sd EXCEPT ![Current.nr] =
                 [i \in Index |-> IF i < MvCount(sd[Current.nr]) THEN None ELSE @[i]]]
    /\ journal' = SubSeq(journal, 1, Len(journal) - 1)
    /\ nrEnd' = Current.nr
    /\ UNCHANGED <<sessions, meterData, meterDataFront, sentStop>>

\* StopTransaction is sent, as often as attempts allow, and in the end it is confirmed
\* or given up with the meter data.
SendStop ==
    \E k \in 1 .. Len(journal) :
        /\ journal[k].phase = "stopped"
        /\ sentStop' = [session |-> journal[k].session, data |-> getTxMeterData(journal[k]).data]
        /\ UNCHANGED <<journal, nrEnd, sessions, sd, stopTxnData, meterData, meterDataFront>>
EndStop ==
    \E k \in 1 .. Len(journal) :
        /\ journal[k].phase = "stopped"
        /\ \/ journal' = [journal EXCEPT ![k].phase = "done"] /\ UNCHANGED <<sd, stopTxnData>>
           \/ /\ journal' = [journal EXCEPT ![k].phase = "done", ![k].silent = TRUE]
              /\ sd' = Removed(journal[k].nr)
              /\ stopTxnData' = Finalized(journal[k].nr)
        /\ UNCHANGED <<nrEnd, sessions, meterData, meterDataFront, sentStop>>

-----------------------------------------------------------------------------
(* MeteringConnector.                                                      *)

Running == HasCurrent /\ Current.phase = "running"

\* loop(): the object of the running transaction, reloaded after a reboot, and a sample.
\* MeterValuesInTxOnly is set: without a running transaction, or for a silent one, there
\* is none.
reload == stopTxnData = None \/ stopTxnData.nr # Current.nr
LoopSample ==
    /\ Running /\ ~Current.silent
    /\ LET d == IF reload THEN getTxMeterData(Current) ELSE stopTxnData
           mv == Sample(Current.session, "periodic")
           kept == IF Len(meterData) >= CacheSize THEN Tail(meterData) ELSE meterData
       IN  /\ stopTxnData' = Added(d, mv)
           /\ sd' = AddedFile(d, mv)
           /\ meterData' = Append(kept, [nr |-> Current.nr, attemptNr |-> 0])
    /\ UNCHANGED <<journal, nrEnd, sessions, meterDataFront, sentStop>>

getFrontRequestOpNr ==
    /\ meterDataFront = None /\ meterData # <<>>
    /\ meterDataFront' = Head(meterData)
    /\ meterData' = Tail(meterData)
    /\ UNCHANGED <<journal, nrEnd, sessions, sd, stopTxnData, sentStop>>

\* fetchFrontRequest(): discarded after all attempts, dropped with a silent transaction,
\* or sent; then it is confirmed or not.
fetchFrontRequest ==
    /\ meterDataFront # None
    /\ LET drop == \/ meterDataFront.attemptNr >= MessageAttempts
                   \/ \E k \in 1 .. Len(journal) :
                         journal[k].nr = meterDataFront.nr /\ journal[k].silent
       IN  \/ meterDataFront' = None
           \/ ~drop /\ meterDataFront' = [meterDataFront EXCEPT !.attemptNr = @ + 1]
    /\ UNCHANGED <<journal, nrEnd, sessions, sd, stopTxnData, meterData, sentStop>>

-----------------------------------------------------------------------------
(* The power fails, also within a call: the sample is on the flash and the  *)
(* transaction is not committed, or some of the files have been removed.    *)

Reset == stopTxnData' = None /\ meterData' = <<>> /\ meterDataFront' = None
         /\ UNCHANGED <<nrEnd, sessions, sentStop>>
Reboot == Reset /\ UNCHANGED <<journal, sd>>
RebootInStart ==
    /\ HasCurrent /\ Current.phase = "preparing" /\ ~Current.silent
    /\ sd' = AddedFile(getTxMeterData(Current), Sample(Current.session, "begin"))
    /\ Reset /\ UNCHANGED journal
RebootInStop ==
    /\ Running /\ ~Current.silent
    /\ sd' = AddedFile(getTxMeterData(Current), Sample(Current.session, "end"))
    /\ Reset /\ UNCHANGED journal
RebootInRemove ==
    /\ HasCurrent /\ Current.phase = "aborted"
    /\ \E k \in Index : sd' = RemovedDownTo(Current.nr, k)
    /\ Reset /\ UNCHANGED journal

Init ==
    /\ journal = <<>> /\ nrEnd = 0 /\ sessions = 0 /\ sd = [n \in TxNr |-> NoSample]
    /\ stopTxnData = None /\ meterData = <<>> /\ meterDataFront = None /\ sentStop = None

Next ==
    \/ Begin \/ Start \/ Stop \/ GiveUpStart \/ Abort \/ Collect \/ SendStop \/ EndStop
    \/ LoopSample \/ getFrontRequestOpNr \/ fetchFrontRequest
    \/ Reboot \/ RebootInStart \/ RebootInStop \/ RebootInRemove

Spec == Init /\ [][Next]_mtVars

-----------------------------------------------------------------------------
\* The record does not outgrow its files, nor the cache its limit.
Entry == [session : 1 .. MaxSession, nr : TxNr, silent : BOOLEAN,
          phase : {"preparing", "running", "aborted", "stopped", "done"}]
Message == [nr : TxNr, attemptNr : 0 .. MessageAttempts]

TypeOK ==
    /\ journal \in Seq(Entry) /\ Len(journal) <= RecordSize
    /\ nrEnd \in TxNr /\ sessions \in 0 .. MaxSession
    /\ sd \in [TxNr -> [Index -> Samples \cup {None}]]
    /\ stopTxnData \in MeterData \cup {None}
    /\ stopTxnData # None =>
          stopTxnData.finalized \/ Len(stopTxnData.data) = stopTxnData.mvCount
    /\ meterData \in Seq(Message) /\ Len(meterData) <= CacheSize
    /\ meterDataFront \in Message \cup {None}
    /\ sentStop # None => sentStop.session \in 1 .. MaxSession /\ sentStop.data \in Seq(Samples)

\* StopTransaction carries the samples of its own transaction, the first one taken at its
\* begin and the last one at its end: however often the power failed in between, the
\* record was full, a number was used again, and the message is sent again.
StopDataIsOwn ==
    sentStop # None =>
        /\ \A k \in 1 .. Len(sentStop.data) : sentStop.data[k].session = sentStop.session
        /\ sentStop.data # <<>> /\ sentStop.data[1].kind = "begin"
        /\ sentStop.data[Len(sentStop.data)].kind = "end"
==============================================================================
