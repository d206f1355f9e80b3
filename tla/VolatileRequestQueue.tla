------------------------ MODULE VolatileRequestQueue ------------------------
(***************************************************************************)
(* Core/RequestQueue.cpp, class VolatileRequestQueue: the ring buffer      *)
(* requests[MO_REQUEST_CACHE_MAXSIZE] with the index `front` of the oldest *)
(* element and the number `len` of elements.  Three instances of it exist: *)
(* the default send queue, the PreBoot queue and the queue of responses.   *)
(*                                                                         *)
(* loop() is one step per iteration of its while statement, so that the    *)
(* clock may advance between two calls of isTimeoutExceeded().  The other  *)
(* methods are one step each; they are not called while loop() runs        *)
(* because the library is single-threaded and none of its own timeout      *)
(* listeners sends a request.                                              *)
(***************************************************************************)
EXTENDS Integers, Sequences

CONSTANTS Size,       \* MO_REQUEST_CACHE_MAXSIZE
          Request,    \* the Request objects that are ever created
          NoRequest   \* an empty unique_ptr

ASSUME SizeAssumption == Size \in Nat \ {0}
ASSUME NoRequestAssumption == NoRequest \notin Request

VARIABLES requests,   \* the array of unique_ptr<Request>
          front,      \* index of the oldest Request
          len,        \* number of cached Requests
          looping,    \* loop() is executing
          i,          \* the loop variable of loop()
          expired,    \* Requests with isTimeoutExceeded()
          due,        \* Requests that had expired when loop() was entered
          fate        \* what became of each Request

vars == <<requests, front, len, looping, i, expired, due, fate>>

Slots == 0 .. Size - 1

\* The slot of the k-th oldest Request, counted from 0.
Slot(k) == (front + k) % Size

\* How many places behind the front a slot lies.
Offset(s) == (s + Size - front) % Size

Init ==
    /\ requests = [s \in Slots |-> NoRequest]
    /\ front = 0
    /\ len = 0
    /\ looping = FALSE
    /\ i = 0
    /\ expired = {}
    /\ due = {}
    /\ fate = [r \in Request |-> "new"]

\* Time passes until the timeout of a Request that exists has elapsed.
Tick(r) ==
    /\ fate[r] = "cached"
    /\ expired' = expired \cup {r}
    /\ UNCHANGED <<requests, front, len, looping, i, due, fate>>

-----------------------------------------------------------------------------
LoopEnter ==
    /\ ~looping
    /\ looping' = TRUE
    /\ i' = 0
    /\ due' = {requests[Slot(k)] : k \in 0 .. len - 1} \cap expired
    /\ UNCHANGED <<requests, front, len, expired, fate>>

\* requests[index] has not timed out: i++.
LoopSkip ==
    /\ looping /\ i < len
    /\ requests[Slot(i)] \notin expired
    /\ i' = i + 1
    /\ UNCHANGED <<requests, front, len, looping, expired, due, fate>>

\* The timed out Request is the front one: its slot is released.
LoopDropFront ==
    /\ looping /\ i < len
    /\ requests[Slot(i)] \in expired
    /\ Slot(i) = front
    /\ requests' = [requests EXCEPT ![front] = NoRequest]
    /\ front' = (front + 1) % Size
    /\ len' = len - 1
    /\ fate' = [fate EXCEPT ![requests[front]] = "timedOut"]
    /\ UNCHANGED <<looping, i, expired, due>>

\* The requests behind the k-th oldest one move up by one slot, the slot of
\* the newest one is left empty.
ShiftDown(k) ==
    [s \in Slots |->
        IF Offset(s) = len - 1 THEN NoRequest
        ELSE IF k <= Offset(s) /\ Offset(s) < len - 1
             THEN requests[(s + 1) % Size]
             ELSE requests[s]]

\* Mutant: the successor, now at position i, is skipped.
LoopDropInnerSkip ==
    /\ looping /\ i < len
    /\ requests[Slot(i)] \in expired
    /\ Slot(i) # front
    /\ requests' = ShiftDown(i)
    /\ len' = len - 1
    /\ i' = i + 1
    /\ fate' = [fate EXCEPT ![requests[Slot(i)]] = "timedOut"]
    /\ UNCHANGED <<front, looping, expired, due>>

\* The timed out Request is in the middle or at the back.
LoopDropInner ==
    /\ looping /\ i < len
    /\ requests[Slot(i)] \in expired
    /\ Slot(i) # front
    /\ requests' = ShiftDown(i)
    /\ len' = len - 1
    /\ fate' = [fate EXCEPT ![requests[Slot(i)]] = "timedOut"]
    /\ UNCHANGED <<front, looping, i, expired, due>>

LoopReturn ==
    /\ looping /\ i >= len
    /\ looping' = FALSE
    /\ i' = 0
    /\ due' = {}
    /\ UNCHANGED <<requests, front, len, expired, fate>>

-----------------------------------------------------------------------------
\* Mutant: len is not decremented.
fetchFrontRequestKeepLen ==
    /\ ~looping
    /\ len # 0
    /\ requests' = [requests EXCEPT ![front] = NoRequest]
    /\ front' = (front + 1) % Size
    /\ fate' = [fate EXCEPT ![requests[front]] = "fetched"]
    /\ UNCHANGED <<len, looping, i, expired, due>>

fetchFrontRequest ==
    /\ ~looping
    /\ len # 0
    /\ requests' = [requests EXCEPT ![front] = NoRequest]
    /\ front' = (front + 1) % Size
    /\ len' = len - 1
    /\ fate' = [fate EXCEPT ![requests[front]] = "fetched"]
    /\ UNCHANGED <<looping, i, expired, due>>

pushRequestBack(r) ==
    /\ ~looping
    /\ fate[r] = "new"
    /\ len < Size
    /\ requests' = [requests EXCEPT ![Slot(len)] = r]
    /\ len' = len + 1
    /\ fate' = [fate EXCEPT ![r] = "cached"]
    /\ UNCHANGED <<front, looping, i, expired, due>>

\* Mutant: the front does not move on, and the newest Request is overwritten.
pushRequestBackFullKeepFront(r) ==
    /\ ~looping
    /\ fate[r] = "new"
    /\ len >= Size
    /\ requests' = [requests EXCEPT ![Slot(len - 1)] = r]
    /\ fate' = [fate EXCEPT ![r] = "cached", ![requests[front]] = "timedOut"]
    /\ UNCHANGED <<front, len, looping, i, expired, due>>

\* Cache full: executeTimeout() on the oldest Request, whose slot is also the
\* one that (front + len) % Size yields after front++ and len--.
pushRequestBackFull(r) ==
    /\ ~looping
    /\ fate[r] = "new"
    /\ len >= Size
    /\ LET newFront == (front + 1) % Size
           newSlot  == (newFront + (len - 1)) % Size
       IN  /\ requests' = [[requests EXCEPT ![front] = NoRequest]
                                    EXCEPT ![newSlot] = r]
           /\ front' = newFront
    /\ len' = (len - 1) + 1
    /\ fate' = [fate EXCEPT ![r] = "cached", ![requests[front]] = "timedOut"]
    /\ UNCHANGED <<looping, i, expired, due>>

Loop == LoopEnter \/ LoopSkip \/ LoopDropFront \/ LoopDropInner \/ LoopReturn

Next ==
    \/ \E r \in Request : Tick(r) \/ pushRequestBack(r) \/ pushRequestBackFull(r)
    \/ fetchFrontRequest
    \/ Loop

Spec == Init /\ [][Next]_vars

-----------------------------------------------------------------------------
TypeOK ==
    /\ requests \in [Slots -> Request \cup {NoRequest}]
    /\ front \in Slots
    /\ len \in 0 .. Size
    /\ looping \in BOOLEAN
    /\ i \in 0 .. Size
    /\ expired \subseteq Request
    /\ due \subseteq expired
    /\ fate \in [Request -> {"new", "cached", "fetched", "timedOut"}]

\* The window of `len` slots from `front` on holds a Request in each slot, so
\* that no method dereferences an empty pointer, and no slot outside of it
\* does, so that no Request is overwritten (destroyed with no listener called).
WindowExact ==
    \A s \in Slots : requests[s] # NoRequest <=> Offset(s) < len

\* A Request owns at most one slot, and owns one exactly as long as it is
\* cached: no shift of the ring loses or duplicates a Request.
OneSlotEach ==
    /\ \A s, t \in Slots :
          requests[s] # NoRequest /\ requests[s] = requests[t] => s = t
    /\ \A r \in Request :
          fate[r] = "cached" <=> \E s \in Slots : requests[s] = r

\* While loop() runs, the positions it has passed hold no Request that had timed
\* out on entry, and every such Request is still cached or has been given up:
\* removing an element does not make the iteration jump over its successor.
SweptPrefix ==
    /\ ~looping => due = {}
    /\ \A r \in due : fate[r] \in {"cached", "timedOut"}
    /\ \A s \in Slots : Offset(s) < i /\ Offset(s) < len => requests[s] \notin due

\* loop() gives up every Request that had timed out when it was called,
\* although it removes elements from the ring it is iterating over.
SweepComplete ==
    [][LoopReturn => \A r \in due : fate[r] = "timedOut"]_vars

\* The ring buffer implements the bounded FIFO.
Fifo == INSTANCE BoundedFifo
            WITH queue <- [k \in 1 .. len |-> requests[Slot(k - 1)]]

FifoSpec == Fifo!FifoSpec
=============================================================================
