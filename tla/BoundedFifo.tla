---------------------------- MODULE BoundedFifo ----------------------------
(***************************************************************************)
(* What a VolatileRequestQueue promises to the RequestQueue that owns it,  *)
(* without the ring buffer: a FIFO of Requests which holds at most Size of *)
(* them.  A Request that is pushed leaves the FIFO once, in one of two     *)
(* ways: it is fetched from the front, or its timeout listener runs.  The  *)
(* listener runs because the timeout of the Request has elapsed, or because*)
(* the Request is the oldest one and a newer one needs its place.          *)
(***************************************************************************)
EXTENDS Integers, Sequences

CONSTANTS Size,      \* MO_REQUEST_CACHE_MAXSIZE
          Request    \* the Request objects that are ever created

VARIABLES queue,     \* the cached Requests, oldest first
          fate       \* what became of each Request

fifoVars == <<queue, fate>>

Fates == {"new", "cached", "fetched", "timedOut"}

FifoInit ==
    /\ queue = <<>>
    /\ fate = [r \in Request |-> "new"]

\* A Request is appended while there is room.
Push(r) ==
    /\ fate[r] = "new"
    /\ Len(queue) < Size
    /\ queue' = Append(queue, r)
    /\ fate' = [fate EXCEPT ![r] = "cached"]

\* The FIFO is full: the oldest Request is given up for the new one.
PushEvicting(r) ==
    /\ fate[r] = "new"
    /\ Len(queue) = Size
    /\ queue' = Append(Tail(queue), r)
    /\ fate' = [fate EXCEPT ![r] = "cached", ![Head(queue)] = "timedOut"]

\* The oldest Request is handed to the RPC engine.
Fetch ==
    /\ queue # <<>>
    /\ queue' = Tail(queue)
    /\ fate' = [fate EXCEPT ![Head(queue)] = "fetched"]

Without(q, k) == [j \in 1 .. Len(q) - 1 |-> IF j < k THEN q[j] ELSE q[j + 1]]

\* A Request times out at position k; the others keep their order.
Expire(k) ==
    /\ queue' = Without(queue, k)
    /\ fate' = [fate EXCEPT ![queue[k]] = "timedOut"]

FifoNext ==
    \/ \E r \in Request : Push(r) \/ PushEvicting(r)
    \/ Fetch
    \/ \E k \in 1 .. Len(queue) : Expire(k)

FifoSpec == FifoInit /\ [][FifoNext]_fifoVars
=============================================================================
