----------------------- MODULE MCVolatileRequestQueue -----------------------
(***************************************************************************)
(* The ring buffer, and the engine that works off such queues.  At the      *)
(* level of their modules they do not share state, hence a behaviour is     *)
(* one of the ring, or one of the engine whose loop() is called again and   *)
(* again.                                                                  *)
(***************************************************************************)
EXTENDS VolatileRequestQueue

CONSTANTS b1, t1, d1,  \* a BootNotification, a triggered and another request
          e1, e2,      \* the transaction messages of two connectors
          None

VARIABLES component, connected, sendReqFront, requestSent, defaultSendQueue, preBootQueue,
          accepted, postBoot, txQueue, nextOpNr, attempt, rqExpired, outcome, recvQueue,
          recvReqFront, responses, calls, answers

Rq == INSTANCE RequestQueue WITH CacheSize <- 1, PreBootMsg <- {b1, t1}, BootMsg <- {b1},
        DefaultMsg <- {d1}, NoTimeout <- {}, Emitter <- {e1, e2}, MaxTx <- 2,
        MaxAttempts <- 1, InMsg <- {}, expired <- rqExpired

rqVars == <<connected, sendReqFront, requestSent, defaultSendQueue, preBootQueue, accepted,
            postBoot, txQueue, nextOpNr, attempt, rqExpired, outcome, recvQueue, recvReqFront,
            responses, calls, answers>>

QueuesInit == component \in {"ring", "engine"} /\ Init /\ Rq!Init
RingNext   == component = "ring" /\ Next /\ UNCHANGED <<component, rqVars>>
EngineNext == component = "engine" /\ Rq!Next /\ UNCHANGED <<component, vars>>

\* The fairness of FairSpec in RequestQueue: the firmware keeps calling loop(); clocks do
\* not stop.
EngineLoop    == component = "engine" /\ Rq!Loop /\ UNCHANGED <<component, vars>>
EngineTick(m) == component = "engine" /\ Rq!Tick(m) /\ UNCHANGED <<component, vars>>
QueuesVars == <<component, vars, rqVars>>
QueuesSpec ==
    /\ QueuesInit /\ [][RingNext \/ EngineNext]_QueuesVars
    /\ WF_QueuesVars(EngineLoop)
    /\ \A m \in Rq!OutMsg : WF_QueuesVars(EngineTick(m))

\* RequestQueue: with the clock alone, every request with a timeout comes to an end.
RequestsEnd == Rq!RequestsEnd

\* RequestQueue: with a connection that keeps coming back, transaction messages do so too.
TxMessagesEnd == Rq!TxMessagesEnd
=============================================================================
