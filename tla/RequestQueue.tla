---------------------------- MODULE RequestQueue ----------------------------
(***************************************************************************)
(* Core/RequestQueue.cpp: the RPC engine of the charger.  It polls its     *)
(* request emitters (the default send queue, the PreBoot queue of the      *)
(* BootService, one emitter for the transaction messages of each connector)*)
(* and keeps one Request in flight, sendReqFront.  Requests of the server  *)
(* are executed on arrival and answered from recvQueue.                    *)
(*                                                                         *)
(* The VolatileRequestQueues appear as the bounded FIFOs they implement    *)
(* (ImplementsFifo in VolatileRequestQueue_proof).  A transaction message  *)
(* is named by its OpNr; its emitter makes a new Request, with a new       *)
(* message ID, for each attempt, hence calls and answers are tagged with   *)
(* the attempt.  The network is the current WebSocket connection: it       *)
(* answers in any order and late, and loses everything when it drops.      *)
(***************************************************************************)
EXTENDS Integers, Sequences, FiniteSets

CONSTANTS
    CacheSize,    \* MO_REQUEST_CACHE_MAXSIZE
    PreBootMsg,   \* requests passed to sendRequestPreBoot()
    BootMsg,      \* those of them that are BootNotifications
    DefaultMsg,   \* requests passed to sendRequest()
    NoTimeout,    \* those of them with setTimeout(0)
    Emitter,      \* RequestEmitters of transaction messages
    MaxTx,        \* bound: number of transaction messages
    MaxAttempts,  \* TransactionMessageAttempts
    InMsg,        \* requests of the server
    None          \* an empty unique_ptr

FirstOpNr == 10   \* nextOpNr after a boot
TxMsg == FirstOpNr .. FirstOpNr + MaxTx - 1
OutMsg == PreBootMsg \cup DefaultMsg \cup TxMsg

ASSUME ConstantsAssumption ==
    /\ CacheSize \in Nat \ {0} /\ MaxTx \in Nat /\ MaxAttempts \in Nat \ {0}
    /\ NoTimeout \subseteq DefaultMsg /\ BootMsg \subseteq PreBootMsg
    /\ None \notin OutMsg \cup InMsg

\* A message is of one kind.
ASSUME KindsAssumption ==
    /\ DefaultMsg \cap PreBootMsg = {} /\ (DefaultMsg \cup PreBootMsg) \cap TxMsg = {}
    /\ InMsg \cap OutMsg = {}

VARIABLES
    connected,         \* connection.isConnected()
    sendReqFront,      \* the Request in flight
    requestSent,       \* sendReqFront->isRequestSent()
    defaultSendQueue,  \* FIFO of the VolatileRequestQueue with that name
    preBootQueue,      \* FIFO of BootService::preBootQueue
    accepted,          \* BootService::status is Accepted
    postBoot,          \* PreBootQueue::activatedPostBootCommunication
    txQueue,           \* the OpNrs each emitter has still to deliver, in order
    nextOpNr,
    attempt,           \* attempts made of each message
    expired,           \* messages with isTimeoutExceeded()
    outcome,           \* which listeners of a message have run, if any
    recvQueue,         \* FIFO of the executed, unanswered server requests
    recvReqFront,      \* the server request being answered
    responses,         \* responses sent to the server, in order
    calls,             \* requests on their way to the server
    answers            \* responses of the server on their way to the charger

sendVars == <<sendReqFront, requestSent, defaultSendQueue, preBootQueue>>
bootVars == <<accepted, postBoot>>
txVars   == <<txQueue, nextOpNr>>
msgVars  == <<attempt, expired, outcome>>
recvVars == <<recvQueue, recvReqFront, responses>>
netVars  == <<connected, calls, answers>>
vars == <<sendVars, bootVars, txVars, msgVars, recvVars, netVars>>

Outcomes == {"none", "pending", "conf", "error", "timeout", "discarded", "dropped"}

Init ==
    /\ connected = FALSE
    /\ sendReqFront = None /\ requestSent = FALSE
    /\ defaultSendQueue = <<>> /\ preBootQueue = <<>>
    /\ accepted = FALSE /\ postBoot = FALSE
    /\ txQueue = [e \in Emitter |-> <<>>] /\ nextOpNr = FirstOpNr
    /\ attempt = [m \in OutMsg |-> 0]
    /\ expired = {}
    /\ outcome = [m \in OutMsg \cup InMsg |-> "none"]
    /\ recvQueue = <<>> /\ recvReqFront = None /\ responses = <<>>
    /\ calls = {} /\ answers = {}

Elements(q) == {q[k] : k \in 1 .. Len(q)}

\* SelectSeq, without recursion: a queue without some of its Requests.
KeptAt(q, gone) == {k \in 1 .. Len(q) : q[k] \notin gone}
Kept(q, gone) ==
    [i \in 1 .. Cardinality(KeptAt(q, gone)) |->
        q[CHOOSE k \in KeptAt(q, gone) : Cardinality(KeptAt(q, gone) \cap (1 .. k)) = i]]

-----------------------------------------------------------------------------
(* Producers.                                                              *)

\* Mutants: one element too many; the element that has to leave is forgotten.
PushedOneMore(q, m) == IF Len(q) <= CacheSize THEN Append(q, m) ELSE Append(Tail(q), m)
EvictedSilently(q)  == {}

\* VolatileRequestQueue::pushRequestBack: a full queue gives up its front.
Pushed(q, m) == IF Len(q) < CacheSize THEN Append(q, m) ELSE Append(Tail(q), m)
Evicted(q)   == IF Len(q) < CacheSize THEN {} ELSE {Head(q)}

Resolve(msgs, to) == [m \in DOMAIN outcome |-> IF m \in msgs THEN to ELSE outcome[m]]

SendRequest(m) ==
    /\ outcome[m] = "none"
    /\ defaultSendQueue' = Pushed(defaultSendQueue, m)
    /\ outcome' = [Resolve(Evicted(defaultSendQueue), "timeout") EXCEPT ![m] = "pending"]
    /\ attempt' = [attempt EXCEPT ![m] = 1]
    /\ expired' = expired \ Evicted(defaultSendQueue)
    /\ UNCHANGED <<sendReqFront, requestSent, preBootQueue, bootVars, txVars,
                   recvVars, netVars>>

\* TriggerMessage, too, uses the PreBoot queue.
SendRequestPreBoot(m) ==
    /\ m \notin BootMsg /\ outcome[m] = "none"
    /\ preBootQueue' = Pushed(preBootQueue, m)
    /\ outcome' = [Resolve(Evicted(preBootQueue), "timeout") EXCEPT ![m] = "pending"]
    /\ attempt' = [attempt EXCEPT ![m] = 1]
    /\ expired' = expired \ Evicted(preBootQueue)
    /\ UNCHANGED <<sendReqFront, requestSent, defaultSendQueue, bootVars, txVars,
                   recvVars, netVars>>

\* BootService::loop: timeouts of the PreBoot queue, activation, and another
\* BootNotification in each interval until the station is accepted.
BootServiceLoop ==
    LET kept == Kept(preBootQueue, expired)
        gone == Elements(preBootQueue) \cap expired
    IN  /\ postBoot' = (postBoot \/ accepted)
        /\ \/ /\ preBootQueue' = kept
              /\ outcome' = Resolve(gone, "timeout")
              /\ expired' = expired \ gone
              /\ UNCHANGED attempt
           \/ \E m \in BootMsg :
                 /\ ~accepted /\ outcome[m] = "none"
                 /\ preBootQueue' = Pushed(kept, m)
                 /\ outcome' = [Resolve(gone \cup Evicted(kept), "timeout")
                                   EXCEPT ![m] = "pending"]
                 /\ expired' = expired \ (gone \cup Evicted(kept))
                 /\ attempt' = [attempt EXCEPT ![m] = 1]
    /\ UNCHANGED <<sendReqFront, requestSent, defaultSendQueue, accepted, txVars,
                   recvVars, netVars>>

\* A connector numbers its next transaction message with getNextOpNr().
EmitTx(e) ==
    /\ nextOpNr < FirstOpNr + MaxTx
    /\ txQueue' = [txQueue EXCEPT ![e] = Append(@, nextOpNr)]
    /\ outcome' = [outcome EXCEPT ![nextOpNr] = "pending"]
    /\ nextOpNr' = nextOpNr + 1
    /\ UNCHANGED <<sendVars, bootVars, attempt, expired, recvVars, netVars>>

-----------------------------------------------------------------------------
(* RequestQueue::loop.  Its first part gives up what has timed out.        *)

\* Mutants: the queue does not call the listeners; the slot is not released.
QueueTimedOutIgnored == {}
slotKept == sendReqFront

SlotTimedOut == IF sendReqFront \in expired THEN {sendReqFront} ELSE {}
QueueTimedOut == Elements(defaultSendQueue) \cap expired
RecvTimedOut == IF recvReqFront \in expired THEN {recvReqFront} ELSE {}

slot        == IF sendReqFront \in expired THEN None ELSE sendReqFront
cached      == Kept(defaultSendQueue, expired)
recvSlot    == IF recvReqFront \in expired THEN None ELSE recvReqFront

\* A transaction message that timed out stays with its emitter, which will
\* make a new Request of it.
AfterTimeouts ==
    Resolve((SlotTimedOut \ TxMsg) \cup QueueTimedOut \cup RecvTimedOut, "timeout")

\* The timed out Requests are destroyed, and their clocks with them.
ExpiredLeft == expired \ (SlotTimedOut \cup QueueTimedOut \cup RecvTimedOut)

LoopOffline ==
    /\ ~connected
    /\ sendReqFront' = slot
    /\ requestSent' = (requestSent /\ slot # None)
    /\ recvReqFront' = recvSlot
    /\ defaultSendQueue' = cached
    /\ outcome' = AfterTimeouts
    /\ expired' = ExpiredLeft
    /\ UNCHANGED <<preBootQueue, bootVars, txVars, attempt, recvQueue, responses, netVars>>

\* The server request to be answered next.
recvFront == IF recvSlot = None /\ recvQueue # <<>> THEN Head(recvQueue) ELSE recvSlot
recvRest  == IF recvSlot = None /\ recvQueue # <<>> THEN Tail(recvQueue) ELSE recvQueue

\* createResponse() is a success: the loop ends here, whether sendTXT() passes
\* or fails.
LoopRespond ==
    /\ connected /\ recvFront # None
    /\ \E sent \in BOOLEAN :
          /\ recvReqFront' = IF sent THEN None ELSE recvFront
          /\ responses' = IF sent THEN Append(responses, recvFront) ELSE responses
          /\ outcome' = IF sent THEN [AfterTimeouts EXCEPT ![recvFront] = "conf"]
                                ELSE AfterTimeouts
    /\ recvQueue' = recvRest
    /\ sendReqFront' = slot
    /\ requestSent' = (requestSent /\ slot # None)
    /\ defaultSendQueue' = cached
    /\ expired' = ExpiredLeft
    /\ UNCHANGED <<preBootQueue, bootVars, txVars, attempt, netVars>>

NoOperation == FirstOpNr + MaxTx

\* Mutant: the PreBoot queue does not block the others before the activation.
preBootOpNrNoGate == IF preBootQueue = <<>> THEN NoOperation ELSE 1

defaultOpNr == IF cached = <<>> THEN NoOperation ELSE 1
preBootOpNr == IF ~postBoot THEN 0 ELSE IF preBootQueue = <<>> THEN NoOperation ELSE 1
txOpNr(e)   == IF txQueue[e] = <<>> THEN NoOperation ELSE Head(txQueue[e])

\* The first of the queues with the smallest OpNr is polled: the default queue
\* comes before the PreBoot queue in sendQueues.
PollDefault == defaultOpNr < NoOperation /\ defaultOpNr <= preBootOpNr
PollPreBoot == preBootOpNr < NoOperation /\ preBootOpNr < defaultOpNr

\* Mutant: the first emitter that has a message is taken.
PollTxAny(e) == ~PollDefault /\ ~PollPreBoot /\ txQueue[e] # <<>>

PollTx(e) ==
    /\ ~PollDefault /\ ~PollPreBoot
    /\ txQueue[e] # <<>>
    /\ \A f \in Emitter : txOpNr(e) <= txOpNr(f)

\* sendReqFront = m, followed by createRequest() and sendTXT(), any of which
\* may fail.  The Request is then tried again in the next call.
Send(m, try) ==
    /\ sendReqFront' = m
    /\ \/ requestSent' = FALSE /\ UNCHANGED calls
       \/ requestSent' = TRUE /\ calls' = calls \cup {<<m, try>>}

FetchNothing ==
    /\ sendReqFront' = None /\ requestSent' = FALSE
    /\ UNCHANGED calls

FetchDefault ==
    /\ PollDefault
    /\ defaultSendQueue' = Tail(cached)
    /\ Send(Head(cached), 1)
    /\ outcome' = AfterTimeouts
    /\ UNCHANGED <<preBootQueue, txQueue, attempt>>

FetchPreBoot ==
    /\ PollPreBoot
    /\ IF preBootQueue = <<>>
       THEN FetchNothing /\ UNCHANGED preBootQueue
       ELSE Send(Head(preBootQueue), 1) /\ preBootQueue' = Tail(preBootQueue)
    /\ defaultSendQueue' = cached
    /\ outcome' = AfterTimeouts
    /\ UNCHANGED <<txQueue, attempt>>

\* The emitter returns a new Request, or none while the retry interval runs, or
\* none because the attempts are used up and it discards the message.
FetchTx(e) ==
    LET m == Head(txQueue[e])
    IN  /\ PollTx(e)
        /\ \/ /\ attempt[m] < MaxAttempts
              /\ attempt' = [attempt EXCEPT ![m] = @ + 1]
              /\ Send(m, attempt[m] + 1)
              /\ outcome' = AfterTimeouts
              /\ UNCHANGED txQueue
           \/ /\ attempt[m] \in 1 .. MaxAttempts - 1
              /\ FetchNothing
              /\ outcome' = AfterTimeouts
              /\ UNCHANGED <<txQueue, attempt>>
           \/ /\ attempt[m] = MaxAttempts
              /\ FetchNothing
              /\ txQueue' = [txQueue EXCEPT ![e] = Tail(@)]
              /\ outcome' = [AfterTimeouts EXCEPT ![m] = "discarded"]
              /\ UNCHANGED attempt
        /\ defaultSendQueue' = cached
        /\ UNCHANGED preBootQueue

\* Nothing to fetch, or the slot is taken: an unsent Request is tried again.
KeepSlot ==
    /\ slot # None \/ ~(PollDefault \/ PollPreBoot \/ \E e \in Emitter : PollTx(e))
    /\ IF slot # None /\ ~requestSent
       THEN Send(slot, attempt[slot])
       ELSE sendReqFront' = slot /\ requestSent' = (slot # None) /\ UNCHANGED calls
    /\ defaultSendQueue' = cached
    /\ outcome' = AfterTimeouts
    /\ UNCHANGED <<preBootQueue, txQueue, attempt>>

\* createConf() is still pending, or there is no server request.
LoopRequest ==
    /\ connected
    /\ recvReqFront' = recvFront /\ recvQueue' = recvRest
    /\ \/ slot = None /\ (FetchDefault \/ FetchPreBoot \/ \E e \in Emitter : FetchTx(e))
       \/ KeepSlot
    /\ expired' = ExpiredLeft
    /\ UNCHANGED <<bootVars, nextOpNr, responses, connected, answers>>

Loop == LoopOffline \/ LoopRespond \/ LoopRequest

-----------------------------------------------------------------------------
(* RequestQueue::receiveMessage.                                           *)

\* Mutant: any attempt will do.
IsForFrontAnyAttempt(a) == sendReqFront = a.msg

\* The message ID of the response is that of sendReqFront.
IsForFront(a) == sendReqFront = a.msg /\ attempt[sendReqFront] = a.attempt

\* receiveResponse() in that case.  A transaction message is done with when its
\* operation says so; after another CALLERROR its emitter makes a new attempt.
ReceiveMatching(kind) ==
    \E done \in BOOLEAN :
        /\ (sendReqFront \notin TxMsg \/ kind = "conf") => done
        /\ outcome' = IF done THEN Resolve({sendReqFront}, kind) ELSE outcome
        /\ txQueue' = IF done
                      THEN [e \in Emitter |-> Kept(txQueue[e], {sendReqFront})]
                      ELSE txQueue
        /\ \/ accepted' = accepted
           \/ sendReqFront \in BootMsg /\ kind = "conf" /\ accepted' = TRUE

\* receiveResponse() for any other message ID: sendReqFront is reset, too, with
\* none of its listeners called.  A transaction message stays with its emitter.
ReceiveStray ==
    /\ outcome' = Resolve({sendReqFront} \cap (DefaultMsg \cup PreBootMsg), "dropped")
    /\ UNCHANGED <<txQueue, accepted>>

ReceiveResponse(a) ==
    /\ IF IsForFront(a) THEN ReceiveMatching(a.kind) ELSE ReceiveStray
    /\ answers' = answers \ {a}
    /\ sendReqFront' = None /\ requestSent' = FALSE
    /\ expired' = expired \ {sendReqFront}
    /\ UNCHANGED <<defaultSendQueue, preBootQueue, postBoot, nextOpNr, attempt,
                   recvVars, connected, calls>>

\* receiveRequest(): the operation is executed and its response planned.
ReceiveRequest(m) ==
    /\ connected
    /\ outcome[m] = "none"
    /\ recvQueue' = Pushed(recvQueue, m)
    /\ outcome' = [Resolve(Evicted(recvQueue), "timeout") EXCEPT ![m] = "pending"]
    /\ expired' = expired \ Evicted(recvQueue)
    /\ UNCHANGED <<sendVars, bootVars, txVars, attempt, recvReqFront, responses,
                   netVars>>

-----------------------------------------------------------------------------
(* Environment.                                                            *)

\* A Request exists, and its timeout period elapses.
Tick(m) ==
    /\ m \notin NoTimeout \cup expired
    /\ IF m \in TxMsg THEN sendReqFront = m ELSE outcome[m] = "pending"
    /\ expired' = expired \cup {m}
    /\ UNCHANGED <<sendVars, bootVars, txVars, attempt, outcome, recvVars, netVars>>

Connect ==
    /\ ~connected
    /\ connected' = TRUE
    /\ UNCHANGED <<sendVars, bootVars, txVars, msgVars, recvVars, calls, answers>>

\* Calls and answers of the old connection are lost.
Disconnect ==
    /\ connected
    /\ connected' = FALSE
    /\ calls' = {} /\ answers' = {}
    /\ UNCHANGED <<sendVars, bootVars, txVars, msgVars, recvVars>>

ServerAnswers(c) ==
    /\ calls' = calls \ {c}
    /\ \E kind \in {"conf", "error"} :
          answers' = answers \cup {[msg |-> c[1], attempt |-> c[2], kind |-> kind]}
    /\ UNCHANGED <<sendVars, bootVars, txVars, msgVars, recvVars, connected>>

Next ==
    \/ \E m \in DefaultMsg : SendRequest(m)
    \/ \E m \in PreBootMsg : SendRequestPreBoot(m)
    \/ BootServiceLoop
    \/ \E e \in Emitter : EmitTx(e)
    \/ Loop
    \/ \E a \in answers : ReceiveResponse(a)
    \/ \E m \in InMsg : ReceiveRequest(m)
    \/ \E m \in OutMsg \cup InMsg : Tick(m)
    \/ Connect \/ Disconnect
    \/ \E c \in calls : ServerAnswers(c)

Spec == Init /\ [][Next]_vars

\* The firmware keeps calling loop(); clocks do not stop.
Fairness ==
    /\ WF_vars(Loop)
    /\ \A m \in OutMsg : WF_vars(Tick(m))

FairSpec == Spec /\ Fairness

\* The connection comes back each time, and while it is up, again and again,
\* sendTXT() succeeds, retry intervals end and loop() gets to poll.
ConnectionReturns ==
    /\ WF_vars(BootServiceLoop)
    /\ WF_vars(Connect)
    /\ SF_vars(LoopRequest /\ (attempt' # attempt \/ txQueue' # txQueue))
    /\ SF_vars(LoopRequest /\ calls' # calls)

-----------------------------------------------------------------------------
TypeOK ==
    /\ connected \in BOOLEAN /\ accepted \in BOOLEAN /\ postBoot \in BOOLEAN
    /\ sendReqFront \in OutMsg \cup {None}
    /\ requestSent \in BOOLEAN /\ (requestSent => sendReqFront # None)
    /\ defaultSendQueue \in Seq(DefaultMsg) /\ Len(defaultSendQueue) <= CacheSize
    /\ preBootQueue \in Seq(PreBootMsg) /\ Len(preBootQueue) <= CacheSize
    /\ recvQueue \in Seq(InMsg) /\ Len(recvQueue) <= CacheSize
    /\ recvReqFront \in InMsg \cup {None}
    /\ txQueue \in [Emitter -> Seq(TxMsg)]
    /\ nextOpNr \in FirstOpNr .. FirstOpNr + MaxTx
    /\ attempt \in [OutMsg -> 0 .. MaxAttempts]
    /\ expired \subseteq OutMsg \cup InMsg
    /\ outcome \in [OutMsg \cup InMsg -> Outcomes]
    /\ responses \in Seq(InMsg)
    /\ calls \subseteq OutMsg \X (1 .. MaxAttempts)
    /\ answers \subseteq [msg : OutMsg, attempt : 1 .. MaxAttempts, kind : {"conf", "error"}]

\* Each request that was handed to the engine and whose listeners have not run
\* is in one of its queues or in flight: none is leaked on the way from queue to
\* slot to network, and none is worked on after its listeners have run; no request of
\* the server is answered twice.
Conservation ==
    /\ \A m \in DefaultMsg : outcome[m] = "pending" <=>
          m \in {sendReqFront} \cup Elements(defaultSendQueue)
    /\ \A m \in PreBootMsg : outcome[m] = "pending" <=>
          m \in {sendReqFront} \cup Elements(preBootQueue)
    /\ \A m \in TxMsg : outcome[m] = "pending" <=>
          \E e \in Emitter : m \in Elements(txQueue[e])
    /\ \A m \in InMsg : outcome[m] = "pending" <=>
          m \in {recvReqFront} \cup Elements(recvQueue)
    /\ \A j, k \in 1 .. Len(responses) : responses[j] = responses[k] => j = k

\* Until the BootNotification has been accepted, only requests of the PreBoot
\* queue reach the server, although the default queue and the connectors fill up.
PreBootGate == [][\A c \in calls' \ calls : c[1] \notin PreBootMsg => postBoot]_vars

\* Transaction messages reach the server in the order of their OpNrs, across all
\* connectors: while one is being retried, no later one overtakes it.
TxInOrder ==
    [][\A c \in calls' \ calls : c[1] \in TxMsg =>
          \A e \in Emitter : \A m \in Elements(txQueue[e]) : c[1] <= m]_vars

\* The listeners of a request run for one reason only; a late response reaches
\* no request whose timeout has been executed.
OutcomeIsFinal ==
    [][\A m \in OutMsg \cup InMsg :
          outcome[m] \notin {"none", "pending"} => outcome'[m] = outcome[m]]_vars

\* processConf() of a request runs on the response of the server to that very
\* request, even if responses to given up requests come in late.
ConfIsGenuine ==
    [][\A m \in OutMsg : outcome[m] = "pending" /\ outcome'[m] = "conf" =>
          \E a \in answers : a.msg = m /\ a.kind = "conf" /\ a.attempt = attempt[m]]_vars

\* Every request with a timeout comes to an end, even if the charger never goes
\* online again.
RequestsEnd ==
    \A m \in DefaultMsg \ NoTimeout : outcome[m] = "pending" ~> outcome[m] # "pending"

\* Once the station is accepted, and if the connection keeps coming back, every
\* transaction message is answered by the server or given up after its attempts,
\* although the queues of other requests share the slot with it.
TxMessagesEnd ==
    ConnectionReturns =>
        \A m \in TxMsg : (postBoot /\ outcome[m] = "pending") ~> outcome[m] # "pending"

\* No request is abandoned without a call of its listeners.
ListenersCalled == \A m \in DefaultMsg : outcome[m] # "dropped"
=============================================================================
