--------------------- MODULE VolatileRequestQueue_proof ---------------------
(***************************************************************************)
(* For a ring of every size and every set of Requests: the invariants of   *)
(* VolatileRequestQueue, the completeness of loop(), and the refinement of *)
(* the bounded FIFO.                                                       *)
(***************************************************************************)
EXTENDS VolatileRequestQueue, SequenceTheorems, TLAPS

-----------------------------------------------------------------------------
(* Arithmetic of the ring.  o(s) abbreviates (s + Size - f) % Size.        *)

\* The slot k places behind the front f, without the modulo.
LEMMA SlotIs ==
    ASSUME NEW f \in Slots, NEW k \in 0 .. Size
    PROVE  (f + k) % Size = IF f + k < Size THEN f + k ELSE f + k - Size
  BY SizeAssumption, SMT DEF Slots

\* The distance of slot s from the front f, without the modulo.
LEMMA OffsetIs ==
    ASSUME NEW f \in Slots, NEW s \in Slots
    PROVE  (s + Size - f) % Size = IF s >= f THEN s - f ELSE s + Size - f
  BY SizeAssumption, SMT DEF Slots

\* The slot k places behind f exists and has the distance k.
LEMMA SlotOffset ==
    ASSUME NEW f \in Slots, NEW k \in 0 .. Size - 1
    PROVE  /\ (f + k) % Size \in Slots
           /\ (((f + k) % Size) + Size - f) % Size = k
<1>1. (f + k) % Size = IF f + k < Size THEN f + k ELSE f + k - Size
  BY SlotIs, SizeAssumption
<1>2. (f + k) % Size \in Slots
  BY <1>1, SizeAssumption DEF Slots
<1>3. QED
  BY <1>1, <1>2, OffsetIs, SizeAssumption DEF Slots

\* Distances are below Size, and lead back to their slots.
LEMMA OffsetSlot ==
    ASSUME NEW f \in Slots, NEW s \in Slots
    PROVE  /\ (s + Size - f) % Size \in 0 .. Size - 1
           /\ (f + ((s + Size - f) % Size)) % Size = s
<1> DEFINE o == (s + Size - f) % Size
<1>1. o = IF s >= f THEN s - f ELSE s + Size - f
  BY OffsetIs
<1> HIDE DEF o
<1>2. o \in 0 .. Size - 1
  BY <1>1, SizeAssumption DEF Slots
<1>3. (f + o) % Size = IF f + o < Size THEN f + o ELSE f + o - Size
  BY <1>2, SlotIs, SizeAssumption
<1>4. (f + o) % Size = s
  BY <1>1, <1>3, SizeAssumption DEF Slots
<1>5. QED
  BY <1>2, <1>4 DEF o

\* The front moves on by one: every other slot comes one place closer to it.
LEMMA Advance ==
    ASSUME NEW f \in Slots, NEW s \in Slots
    PROVE  /\ (f + 1) % Size \in Slots
           /\ (s + Size - ((f + 1) % Size)) % Size
                = IF s = f THEN Size - 1 ELSE ((s + Size - f) % Size) - 1
           /\ (s + Size - f) % Size = 0 <=> s = f
<1> DEFINE g == (f + 1) % Size
<1>1. g = IF f + 1 < Size THEN f + 1 ELSE 0
  BY SizeAssumption, SMT DEF Slots
<1>2. g \in Slots
  BY <1>1, SizeAssumption DEF Slots
<1> HIDE DEF g
<1>3. (s + Size - g) % Size = IF s >= g THEN s - g ELSE s + Size - g
  BY <1>2, OffsetIs
<1>4. (s + Size - f) % Size = IF s >= f THEN s - f ELSE s + Size - f
  BY OffsetIs
<1>5. (s + Size - g) % Size = IF s = f THEN Size - 1 ELSE ((s + Size - f) % Size) - 1
  BY <1>1, <1>3, <1>4, SizeAssumption DEF Slots
<1>6. QED
  BY <1>2, <1>4, <1>5, SizeAssumption DEF Slots, g

\* The next slot lies one place further behind the front.
LEMMA NextSlot ==
    ASSUME NEW f \in Slots, NEW s \in Slots, (s + Size - f) % Size < Size - 1
    PROVE  /\ (s + 1) % Size \in Slots
           /\ (((s + 1) % Size) + Size - f) % Size = ((s + Size - f) % Size) + 1
<1> DEFINE t == (s + 1) % Size
<1>1. t = IF s + 1 < Size THEN s + 1 ELSE 0
  BY SizeAssumption, SMT DEF Slots
<1>2. t \in Slots
  BY <1>1, SizeAssumption DEF Slots
<1> HIDE DEF t
<1>3. (t + Size - f) % Size = IF t >= f THEN t - f ELSE t + Size - f
  BY <1>2, OffsetIs
<1>4. (s + Size - f) % Size = IF s >= f THEN s - f ELSE s + Size - f
  BY OffsetIs
<1>5. (t + Size - f) % Size = ((s + Size - f) % Size) + 1
  BY <1>1, <1>3, <1>4, SizeAssumption DEF Slots
<1>6. QED
  BY <1>2, <1>5 DEF t

\* Two slots with the same distance are the same slot.
LEMMA OffsetInjective ==
    ASSUME NEW f \in Slots, NEW s \in Slots, NEW t \in Slots,
           (s + Size - f) % Size = (t + Size - f) % Size
    PROVE  s = t
<1>1. (f + ((s + Size - f) % Size)) % Size = s
  BY OffsetSlot
<1>2. (f + ((t + Size - f) % Size)) % Size = t
  BY OffsetSlot
<1>3. QED
  BY <1>1, <1>2

\* Going on by one from the front f, then by k: one step at a time.
LEMMA AdvanceFar ==
    ASSUME NEW f \in Slots
    PROVE  (((f + 1) % Size) + (Size - 1)) % Size = f
  BY SizeAssumption, SMT DEF Slots

-----------------------------------------------------------------------------
(* The inductive invariant.                                                *)

Inv == TypeOK /\ WindowExact /\ OneSlotEach /\ SweptPrefix

\* Slot and Offset are inverse to each other in every state.
LEMMA Ring ==
    ASSUME TypeOK
    PROVE  /\ \A k \in 0 .. Size - 1 : Slot(k) \in Slots /\ Offset(Slot(k)) = k
           /\ \A s \in Slots : Offset(s) \in 0 .. Size - 1 /\ Slot(Offset(s)) = s
           /\ \A s, t \in Slots : Offset(s) = Offset(t) => s = t
           /\ front \in Slots /\ Offset(front) = 0 /\ Slot(0) = front
<1>1. front \in Slots
  BY DEF TypeOK
<1>2. \A k \in 0 .. Size - 1 : Slot(k) \in Slots /\ Offset(Slot(k)) = k
  BY <1>1, SlotOffset DEF Slot, Offset
<1>3. \A s \in Slots : Offset(s) \in 0 .. Size - 1 /\ Slot(Offset(s)) = s
  BY <1>1, OffsetSlot DEF Slot, Offset
<1>4. Offset(front) = 0
  BY <1>1, Advance DEF Offset
<1>5. QED
  BY <1>1, <1>2, <1>3, <1>4

\* After front = (front + 1) % Size.
LEMMA RingAdvance ==
    ASSUME TypeOK, front' = (front + 1) % Size
    PROVE  /\ front' \in Slots
           /\ \A s \in Slots :
                 Offset(s)' = IF s = front THEN Size - 1 ELSE Offset(s) - 1
<1>1. front \in Slots
  BY DEF TypeOK
<1>2. front' \in Slots
  BY <1>1, Advance
<1>3. ASSUME NEW s \in Slots
      PROVE  Offset(s)' = IF s = front THEN Size - 1 ELSE Offset(s) - 1
  <2>1. (s + Size - ((front + 1) % Size)) % Size
           = IF s = front THEN Size - 1 ELSE ((s + Size - front) % Size) - 1
    BY <1>1, Advance
  <2>2. QED
    BY <2>1, Zenon DEF Offset
<1>4. QED
  BY <1>2, <1>3

\* With front unchanged, so are Slot and Offset.
LEMMA SameFront ==
    ASSUME front' = front
    PROVE  \A s : Offset(s)' = Offset(s) /\ Slot(s)' = Slot(s)
  BY Zenon DEF Offset, Slot

\* The inductive invariant holds in the empty queue.
LEMMA InitInv == ASSUME Init PROVE Inv
<1>0. 0 \in Slots /\ 0 \in 0 .. Size
  BY SizeAssumption DEF Slots
<1>1. TypeOK
  BY <1>0, Zenon DEF Init, TypeOK
<1>2. \A s \in Slots : Offset(s) \in 0 .. Size - 1 /\ requests[s] = NoRequest
  BY <1>1, Ring DEF Init
<1>3. WindowExact
  BY <1>2, SizeAssumption DEF Init, WindowExact
<1>4. OneSlotEach
  BY <1>2, NoRequestAssumption DEF Init, OneSlotEach
<1>5. QED
  BY <1>1, <1>3, <1>4 DEF Init, Inv, SweptPrefix

\* The cached requests are Requests, and they are in the state "cached".
LEMMA Cached ==
    ASSUME Inv, NEW k \in 0 .. len - 1
    PROVE  /\ Slot(k) \in Slots
           /\ requests[Slot(k)] \in Request
           /\ fate[requests[Slot(k)]] = "cached"
<1>1. k \in 0 .. Size - 1 /\ Slot(k) \in Slots /\ Offset(Slot(k)) = k
  BY Ring, SizeAssumption DEF Inv, TypeOK
<1>2. requests[Slot(k)] # NoRequest
  BY <1>1 DEF Inv, WindowExact, TypeOK
<1>3. requests[Slot(k)] \in Request
  BY <1>1, <1>2 DEF Inv, TypeOK
<1>4. QED
  BY <1>1, <1>3 DEF Inv, OneSlotEach

\* Clocks do not disturb the invariant.
LEMMA TickInv == ASSUME Inv, NEW r \in Request, Tick(r) PROVE Inv'
  BY DEF Inv, Tick, TypeOK, WindowExact, OneSlotEach, SweptPrefix, Offset

\* Entering loop(): what is due is cached, and nothing is swept yet.
LEMMA LoopEnterInv == ASSUME Inv, LoopEnter PROVE Inv'
<1>1. \A k \in 0 .. len - 1 : /\ requests[Slot(k)] \in Request
                              /\ fate[requests[Slot(k)]] = "cached"
  BY Cached
<1>2. due' \subseteq expired /\ \A r \in due' : fate[r] = "cached"
  BY <1>1 DEF LoopEnter
<1>3. TypeOK'
  BY <1>2, SizeAssumption DEF Inv, LoopEnter, TypeOK
<1>4. \A s \in Slots : Offset(s) \in 0 .. Size - 1
  BY Ring DEF Inv
<1>5. SweptPrefix'
  BY <1>2, <1>4, SizeAssumption DEF LoopEnter, SweptPrefix, Offset
<1>6. QED
  BY <1>3, <1>5 DEF Inv, LoopEnter, WindowExact, OneSlotEach, Offset

\* i++ passes a Request that was not due.
LEMMA LoopSkipInv == ASSUME Inv, LoopSkip PROVE Inv'
<1>1. TypeOK'
  BY SizeAssumption DEF Inv, LoopSkip, TypeOK
<1>2. SweptPrefix'
  <2>1. ASSUME NEW s \in Slots, Offset(s) < i + 1, Offset(s) < len
        PROVE  requests[s] \notin due
    <3>1. CASE Offset(s) < i
      BY <2>1, <3>1 DEF Inv, SweptPrefix
    <3>2. CASE Offset(s) = i
      BY <3>2, Ring DEF Inv, LoopSkip, TypeOK
    <3>3. QED
      BY <2>1, <3>1, <3>2, Ring DEF Inv, TypeOK
  <2>2. QED
    BY <2>1 DEF Inv, LoopSkip, SweptPrefix, Offset
<1>3. QED
  BY <1>1, <1>2 DEF Inv, LoopSkip, WindowExact, OneSlotEach, Offset

\* Leaving loop().
LEMMA LoopReturnInv == ASSUME Inv, LoopReturn PROVE Inv'
<1>0. 0 \in 0 .. Size
  BY SizeAssumption
<1>1. TypeOK'
  BY <1>0, Zenon DEF Inv, LoopReturn, TypeOK
<1>2. SweptPrefix'
  BY DEF LoopReturn, SweptPrefix
<1>3. WindowExact'
  BY SameFront DEF Inv, LoopReturn, WindowExact
<1>4. OneSlotEach'
  BY DEF Inv, LoopReturn, OneSlotEach
<1>5. QED
  BY <1>1, <1>2, <1>3, <1>4 DEF Inv


\* Releasing the front slot: fetchFrontRequest and LoopDropFront, which differ
\* in what becomes of the Request.
LEMMA ReleaseFront ==
    ASSUME Inv, len # 0,
           requests' = [requests EXCEPT ![front] = NoRequest],
           front' = (front + 1) % Size,
           len' = len - 1,
           NEW to \in {"fetched", "timedOut"},
           fate' = [fate EXCEPT ![requests[front]] = to]
    PROVE  /\ requests[front] \in Request
           /\ requests' \in [Slots -> Request \cup {NoRequest}]
           /\ front' \in Slots
           /\ len' \in 0 .. Size
           /\ fate' \in [Request -> {"new", "cached", "fetched", "timedOut"}]
           /\ WindowExact'
           /\ OneSlotEach'
<1>1. /\ TypeOK /\ len \in 1 .. Size
      /\ front \in Slots /\ Offset(front) = 0
  BY Ring, SizeAssumption DEF Inv, TypeOK
<1>2. requests[front] \in Request /\ fate[requests[front]] = "cached"
  BY <1>1, Cached, Ring DEF Inv
<1>3. /\ front' \in Slots
      /\ \A s \in Slots : Offset(s)' = IF s = front THEN Size - 1 ELSE Offset(s) - 1
  BY <1>1, RingAdvance
<1>4. /\ \A s \in Slots : Offset(s) \in 0 .. Size - 1
      /\ \A s \in Slots : Offset(s) = 0 => s = front
  BY <1>1, Ring
<1>5. requests' \in [Slots -> Request \cup {NoRequest}]
  BY <1>1 DEF TypeOK
<1>6. /\ requests'[front] = NoRequest
      /\ \A s \in Slots \ {front} : requests'[s] = requests[s]
  BY <1>1 DEF TypeOK
<1>7. fate' \in [Request -> {"new", "cached", "fetched", "timedOut"}]
  BY <1>1, <1>2 DEF TypeOK
<1>8. WindowExact'
  <2>1. ASSUME NEW s \in Slots
        PROVE  requests'[s] # NoRequest <=> Offset(s)' < len'
    <3>1. CASE s = front
      BY <1>1, <1>3, <1>6, <3>1, SizeAssumption
    <3>2. CASE s # front
      BY <1>1, <1>3, <1>4, <1>6, <3>2, SizeAssumption DEF Inv, WindowExact
    <3>3. QED
      BY <3>1, <3>2
  <2>2. QED
    BY <2>1 DEF WindowExact
<1>9. OneSlotEach'
  <2>1. \A s, t \in Slots :
           requests'[s] # NoRequest /\ requests'[s] = requests'[t] => s = t
    BY <1>6 DEF Inv, OneSlotEach
  <2>2. ASSUME NEW r \in Request
        PROVE  fate'[r] = "cached" <=> \E s \in Slots : requests'[s] = r
    <3>1. CASE r = requests[front]
      BY <1>1, <1>2, <1>6, <3>1, NoRequestAssumption DEF Inv, OneSlotEach, TypeOK
    <3>2. CASE r # requests[front]
      BY <1>1, <1>2, <1>6, <3>2, NoRequestAssumption DEF Inv, OneSlotEach, TypeOK
    <3>3. QED
      BY <3>1, <3>2
  <2>3. QED
    BY <2>1, <2>2 DEF OneSlotEach
<1>10. len' \in 0 .. Size
  BY <1>1, SizeAssumption
<1>11. QED
  BY <1>2, <1>3, <1>5, <1>7, <1>8, <1>9, <1>10

\* fetchFrontRequest() keeps the invariant.
LEMMA fetchFrontRequestInv == ASSUME Inv, fetchFrontRequest PROVE Inv'
<1>1. /\ requests' \in [Slots -> Request \cup {NoRequest}]
      /\ front' \in Slots
      /\ len' \in 0 .. Size
      /\ fate' \in [Request -> {"new", "cached", "fetched", "timedOut"}]
      /\ WindowExact' /\ OneSlotEach'
  BY ReleaseFront DEF fetchFrontRequest
<1>2. TypeOK'
  BY <1>1, Zenon DEF Inv, TypeOK, fetchFrontRequest
<1>3. SweptPrefix'
  BY DEF Inv, SweptPrefix, fetchFrontRequest
<1>4. QED
  BY <1>1, <1>2, <1>3 DEF Inv

\* Giving up the front one keeps the invariant, and i stays 0.
LEMMA LoopDropFrontInv == ASSUME Inv, LoopDropFront PROVE Inv'
<1>1. len # 0 /\ i = 0 /\ 0 \in 0 .. Size
  BY Ring, SizeAssumption DEF Inv, TypeOK, LoopDropFront
<1>2. /\ requests' \in [Slots -> Request \cup {NoRequest}]
      /\ front' \in Slots
      /\ len' \in 0 .. Size
      /\ fate' \in [Request -> {"new", "cached", "fetched", "timedOut"}]
      /\ requests[front] \in Request
      /\ WindowExact' /\ OneSlotEach'
  BY <1>1, ReleaseFront DEF LoopDropFront
<1>3. TypeOK'
  BY <1>2, Zenon DEF Inv, TypeOK, LoopDropFront
<1>4. SweptPrefix'
  <2>1. \A s \in Slots : Offset(s)' \in 0 .. Size - 1
    <3>1. TypeOK' => \A s \in Slots : Offset(s)' \in 0 .. Size - 1
      BY <1>2, OffsetSlot, Zenon DEF Offset
    <3>2. QED
      BY <1>3, <3>1
  <2>2. \A r \in due : fate'[r] \in {"cached", "timedOut"}
    BY <1>2 DEF Inv, TypeOK, SweptPrefix, LoopDropFront
  <2>3. QED
    BY <1>1, <2>1, <2>2, SizeAssumption DEF LoopDropFront, SweptPrefix
<1>5. QED
  BY <1>2, <1>3, <1>4 DEF Inv

\* pushRequestBack() with a free slot keeps the invariant.
LEMMA pushRequestBackInv ==
    ASSUME Inv, NEW r \in Request, pushRequestBack(r) PROVE Inv'
<1>1. /\ len \in 0 .. Size - 1
      /\ Slot(len) \in Slots /\ Offset(Slot(len)) = len
      /\ \A s \in Slots : Offset(s) \in 0 .. Size - 1
      /\ \A s, t \in Slots : Offset(s) = Offset(t) => s = t
      /\ \A s \in Slots : Offset(s)' = Offset(s)
  BY Ring, SameFront, SizeAssumption DEF Inv, TypeOK, pushRequestBack
<1>2. /\ requests' \in [Slots -> Request \cup {NoRequest}]
      /\ requests'[Slot(len)] = r /\ r # NoRequest
      /\ \A s \in Slots \ {Slot(len)} : requests'[s] = requests[s]
      /\ requests[Slot(len)] = NoRequest
  BY <1>1, NoRequestAssumption, SizeAssumption
     DEF Inv, TypeOK, WindowExact, pushRequestBack
<1>3. /\ fate' \in [Request -> {"new", "cached", "fetched", "timedOut"}]
      /\ fate[r] = "new" /\ fate'[r] = "cached"
      /\ \A q \in Request \ {r} : fate'[q] = fate[q]
  BY DEF Inv, TypeOK, pushRequestBack
<1>4. len' = len + 1 /\ len' \in 0 .. Size
  BY <1>1, SizeAssumption DEF pushRequestBack
<1>5. TypeOK'
  BY <1>2, <1>3, <1>4, Zenon DEF Inv, TypeOK, pushRequestBack
<1>6. WindowExact'
  <2>1. ASSUME NEW s \in Slots
        PROVE  requests'[s] # NoRequest <=> Offset(s) < len + 1
    BY <1>1, <1>2, SizeAssumption DEF Inv, WindowExact
  <2>2. QED
    BY <1>1, <1>4, <2>1 DEF WindowExact
<1>7. OneSlotEach'
  <2>1. \A s \in Slots : requests[s] # r
    BY <1>3 DEF Inv, OneSlotEach
  <2>2. \A s, t \in Slots :
           requests'[s] # NoRequest /\ requests'[s] = requests'[t] => s = t
    BY <1>2, <2>1 DEF Inv, OneSlotEach
  <2>3. ASSUME NEW q \in Request
        PROVE  fate'[q] = "cached" <=> \E s \in Slots : requests'[s] = q
    <3>1. CASE q = r
      BY <1>1, <1>2, <1>3, <3>1
    <3>2. CASE q # r
      BY <1>1, <1>2, <1>3, <3>2, NoRequestAssumption DEF Inv, OneSlotEach
    <3>3. QED
      BY <3>1, <3>2
  <2>4. QED
    BY <2>2, <2>3 DEF OneSlotEach
<1>8. SweptPrefix'
  BY DEF Inv, SweptPrefix, pushRequestBack
<1>9. QED
  BY <1>5, <1>6, <1>7, <1>8 DEF Inv

\* pushRequestBack() on the full ring keeps the invariant.
LEMMA pushRequestBackFullInv ==
    ASSUME Inv, NEW r \in Request, pushRequestBackFull(r) PROVE Inv'
<1>1. /\ len = Size /\ len' = Size /\ front \in Slots
      /\ (((front + 1) % Size) + (len - 1)) % Size = front
      /\ front' \in Slots
  <2>1. front \in Slots /\ len = Size
    BY SizeAssumption DEF Inv, TypeOK, pushRequestBackFull
  <2>2. QED
    BY <2>1, Advance, AdvanceFar, SizeAssumption DEF pushRequestBackFull
<1>2. requests' = [requests EXCEPT ![front] = r] /\ front' = (front + 1) % Size
  BY <1>1 DEF Inv, TypeOK, pushRequestBackFull
<1>3. /\ \A s \in Slots : Offset(s) \in 0 .. Size - 1
      /\ \A s \in Slots : Offset(s)' \in 0 .. Size - 1
  BY <1>1, OffsetSlot, Zenon DEF Offset
<1>4. /\ \A s \in Slots : requests[s] \in Request
      /\ requests[front] \in Request /\ fate[requests[front]] = "cached"
  BY <1>1, <1>3, SizeAssumption DEF Inv, TypeOK, WindowExact, OneSlotEach
<1>5. /\ requests' \in [Slots -> Request \cup {NoRequest}]
      /\ requests'[front] = r /\ r # NoRequest
      /\ \A s \in Slots \ {front} : requests'[s] = requests[s]
  BY <1>1, <1>2, NoRequestAssumption DEF Inv, TypeOK
<1>6. /\ fate' \in [Request -> {"new", "cached", "fetched", "timedOut"}]
      /\ fate[r] = "new" /\ fate'[r] = "cached"
      /\ fate'[requests[front]] = "timedOut"
      /\ \A q \in Request \ {r, requests[front]} : fate'[q] = fate[q]
  BY <1>4 DEF Inv, TypeOK, pushRequestBackFull
<1>7. TypeOK'
  <2>1. Size \in 0 .. Size
    BY SizeAssumption
  <2>2. QED
    BY <1>1, <1>5, <1>6, <2>1, Zenon DEF Inv, TypeOK, pushRequestBackFull
<1>8. WindowExact'
  BY <1>1, <1>3, <1>4, <1>5, NoRequestAssumption, SizeAssumption DEF WindowExact
<1>9. OneSlotEach'
  <2>1. \A s \in Slots : requests[s] # r
    BY <1>6 DEF Inv, OneSlotEach
  <2>2. \A s, t \in Slots :
           requests'[s] # NoRequest /\ requests'[s] = requests'[t] => s = t
    BY <1>5, <2>1 DEF Inv, OneSlotEach
  <2>3. ASSUME NEW q \in Request
        PROVE  fate'[q] = "cached" <=> \E s \in Slots : requests'[s] = q
    <3>1. CASE q = r
      BY <1>1, <1>5, <1>6, <3>1
    <3>2. CASE q = requests[front]
      BY <1>1, <1>4, <1>5, <1>6, <2>1, <3>2, NoRequestAssumption DEF Inv, OneSlotEach
    <3>3. CASE q # r /\ q # requests[front]
      BY <1>1, <1>5, <1>6, <3>3, NoRequestAssumption DEF Inv, OneSlotEach
    <3>4. QED
      BY <3>1, <3>2, <3>3
  <2>4. QED
    BY <2>2, <2>3 DEF OneSlotEach
<1>10. SweptPrefix'
  BY DEF Inv, SweptPrefix, pushRequestBackFull
<1>11. QED
  BY <1>7, <1>8, <1>9, <1>10 DEF Inv

\* What the inner loop of loop() leaves in each slot.
LEMMA Shifted ==
    ASSUME Inv, NEW k \in 0 .. len - 1, k > 0, NEW s \in Slots
    PROVE  LET t == (s + 1) % Size
           IN  /\ Offset(s) < k => ShiftDown(k)[s] = requests[s]
               /\ k <= Offset(s) /\ Offset(s) < len - 1
                     => /\ t \in Slots /\ Offset(t) = Offset(s) + 1
                        /\ ShiftDown(k)[s] = requests[t]
               /\ Offset(s) >= len - 1 => ShiftDown(k)[s] = NoRequest
<1> DEFINE t == (s + 1) % Size
<1>1. /\ len \in 0 .. Size /\ front \in Slots
      /\ Offset(s) \in 0 .. Size - 1
  BY Ring DEF Inv, TypeOK
<1>2. Offset(s) < len - 1 => t \in Slots /\ Offset(t) = Offset(s) + 1
  <2>1. Offset(s) < len - 1 => Offset(s) < Size - 1
    BY <1>1, SizeAssumption
  <2>2. (s + Size - front) % Size < Size - 1
           => /\ (s + 1) % Size \in Slots
              /\ (((s + 1) % Size) + Size - front) % Size
                    = ((s + Size - front) % Size) + 1
    BY <1>1, NextSlot
  <2>3. QED
    BY <2>1, <2>2, Zenon DEF Offset
<1>3. ShiftDown(k)[s] = IF Offset(s) = len - 1 THEN NoRequest
                        ELSE IF k <= Offset(s) /\ Offset(s) < len - 1
                             THEN requests[t] ELSE requests[s]
  BY DEF ShiftDown
<1>4. Offset(s) >= len => requests[s] = NoRequest
  BY <1>1, SizeAssumption DEF Inv, WindowExact
<1> HIDE DEF t
<1>5. /\ Offset(s) < k => ShiftDown(k)[s] = requests[s]
      /\ k <= Offset(s) /\ Offset(s) < len - 1
            => t \in Slots /\ Offset(t) = Offset(s) + 1 /\ ShiftDown(k)[s] = requests[t]
      /\ Offset(s) >= len - 1 => ShiftDown(k)[s] = NoRequest
  BY <1>1, <1>2, <1>3, <1>4, SizeAssumption
<1>6. QED
  BY <1>5, Zenon DEF t

\* Giving up one behind the front keeps the invariant.
LEMMA LoopDropInnerInv == ASSUME Inv, LoopDropInner PROVE Inv'
<1> DEFINE up(s) == IF Offset(s) < i THEN s ELSE (s + 1) % Size
<1>1. /\ i \in 1 .. len - 1 /\ len \in 1 .. Size /\ len' = len - 1
      /\ Slot(i) \in Slots /\ Offset(Slot(i)) = i
      /\ requests[Slot(i)] \in Request /\ fate[requests[Slot(i)]] = "cached"
  <2>1. i \in 0 .. len - 1 /\ i # 0 /\ len \in 0 .. Size
    BY Ring, SizeAssumption DEF Inv, TypeOK, LoopDropInner
  <2>2. QED
    BY <2>1, Ring, Cached, SizeAssumption DEF Inv, LoopDropInner
<1>2. /\ \A s \in Slots : Offset(s) \in 0 .. Size - 1
      /\ \A s, t \in Slots : Offset(s) = Offset(t) => s = t
      /\ \A s : Offset(s)' = Offset(s)
  BY Ring, SameFront DEF Inv, LoopDropInner
<1>3. ASSUME NEW s \in Slots, Offset(s) < len - 1
      PROVE  /\ up(s) \in Slots
             /\ Offset(up(s)) = IF Offset(s) < i THEN Offset(s) ELSE Offset(s) + 1
             /\ requests'[s] = requests[up(s)]
  <2>1. CASE Offset(s) < i
    BY <1>1, <1>2, <2>1, Shifted DEF LoopDropInner
  <2>2. CASE i <= Offset(s)
    BY <1>1, <1>2, <1>3, <2>2, Shifted DEF LoopDropInner
  <2>3. QED
    BY <1>1, <1>2, <2>1, <2>2
<1>4. ASSUME NEW s \in Slots, Offset(s) >= len - 1
      PROVE  requests'[s] = NoRequest
  BY <1>1, <1>4, Shifted DEF LoopDropInner
<1> HIDE DEF up
<1>5. ASSUME NEW s \in Slots, Offset(s) < len - 1
      PROVE  requests'[s] \in Request /\ requests'[s] # NoRequest
  <2>1. Offset(up(s)) < len
    BY <1>1, <1>2, <1>3, <1>5
  <2>2. QED
    BY <1>3, <1>5, <2>1, NoRequestAssumption DEF Inv, TypeOK, WindowExact
<1>6. requests' \in [Slots -> Request \cup {NoRequest}]
  <2>1. \A s \in Slots : requests'[s] \in Request \cup {NoRequest}
    BY <1>1, <1>2, <1>4, <1>5
  <2>2. requests' = [s \in Slots |-> requests'[s]]
    BY DEF LoopDropInner, ShiftDown
  <2>3. QED
    BY <2>1, <2>2
<1>7. /\ fate' \in [Request -> {"new", "cached", "fetched", "timedOut"}]
      /\ fate'[requests[Slot(i)]] = "timedOut"
      /\ \A q \in Request \ {requests[Slot(i)]} : fate'[q] = fate[q]
  BY <1>1 DEF Inv, TypeOK, LoopDropInner
<1>8. TypeOK'
  <2>1. len' \in 0 .. Size
    BY <1>1, SizeAssumption
  <2>2. QED
    BY <1>6, <1>7, <2>1, Zenon DEF Inv, TypeOK, LoopDropInner
<1>9. WindowExact'
  BY <1>1, <1>2, <1>4, <1>5 DEF WindowExact
<1>10. OneSlotEach'
  <2>1. ASSUME NEW s \in Slots, NEW t \in Slots,
               requests'[s] # NoRequest, requests'[s] = requests'[t]
        PROVE  s = t
    <3>1. Offset(s) < len - 1 /\ Offset(t) < len - 1
      BY <1>1, <1>2, <1>4, <2>1
    <3>2. up(s) = up(t)
      BY <1>3, <2>1, <3>1 DEF Inv, OneSlotEach
    <3>3. Offset(s) = Offset(t)
      BY <1>1, <1>2, <1>3, <3>1, <3>2
    <3>4. QED
      BY <1>2, <3>3
  <2>2. ASSUME NEW q \in Request
        PROVE  fate'[q] = "cached" <=> \E s \in Slots : requests'[s] = q
    <3>1. ASSUME NEW s \in Slots, requests'[s] = q
          PROVE  fate'[q] = "cached"
      <4>1. Offset(s) < len - 1
        BY <1>1, <1>2, <1>4, <3>1, NoRequestAssumption
      <4>2. up(s) \in Slots /\ requests[up(s)] = q /\ Offset(up(s)) # i
        BY <1>1, <1>2, <1>3, <3>1, <4>1
      <4>3. q # requests[Slot(i)]
        BY <1>1, <4>2, NoRequestAssumption DEF Inv, OneSlotEach
      <4>4. QED
        BY <1>7, <4>2, <4>3 DEF Inv, OneSlotEach
    <3>2. ASSUME fate'[q] = "cached"
          PROVE  \E s \in Slots : requests'[s] = q
      <4>1. q # requests[Slot(i)] /\ fate[q] = "cached"
        BY <1>7, <3>2
      <4>2. PICK t \in Slots : requests[t] = q
        BY <4>1 DEF Inv, OneSlotEach
      <4>3. Offset(t) < len /\ Offset(t) # i
        BY <1>1, <1>2, <4>1, <4>2, NoRequestAssumption DEF Inv, WindowExact
      <4> DEFINE k == IF Offset(t) < i THEN Offset(t) ELSE Offset(t) - 1
      <4>4. k \in 0 .. len - 2 /\ k \in 0 .. Size - 1
        BY <1>1, <1>2, <4>3, SizeAssumption
      <4>5. Slot(k) \in Slots /\ Offset(Slot(k)) = k
        BY <4>4, Ring DEF Inv
      <4>6. Offset(up(Slot(k))) = Offset(t) /\ up(Slot(k)) \in Slots
        BY <1>1, <1>2, <1>3, <4>3, <4>4, <4>5
      <4>7. up(Slot(k)) = t
        BY <1>2, <4>6
      <4>8. requests'[Slot(k)] = q
        BY <1>1, <1>3, <4>2, <4>4, <4>5, <4>7
      <4>9. QED
        BY <4>5, <4>8
    <3>3. QED
      BY <3>1, <3>2
  <2>3. QED
    BY <2>1, <2>2 DEF OneSlotEach
<1>11. SweptPrefix'
  <2>1. \A r \in due : fate'[r] \in {"cached", "timedOut"}
    BY <1>1, <1>7 DEF Inv, TypeOK, SweptPrefix
  <2>2. ASSUME NEW s \in Slots, Offset(s) < i, Offset(s) < len - 1
        PROVE  requests'[s] \notin due
    <3>1. up(s) = s
      BY <1>2, <1>3, <2>2
    <3>2. QED
      BY <1>1, <1>2, <1>3, <2>2, <3>1 DEF Inv, SweptPrefix
  <2>3. QED
    BY <1>1, <1>2, <2>1, <2>2 DEF Inv, SweptPrefix, LoopDropInner
<1>12. QED
  BY <1>8, <1>9, <1>10, <1>11 DEF Inv

\* Each step keeps the invariant.
LEMMA NextInv == ASSUME Inv, [Next]_vars PROVE Inv'
<1>1. CASE \E r \in Request : Tick(r)
  BY <1>1, TickInv
<1>2. CASE \E r \in Request : pushRequestBack(r)
  BY <1>2, pushRequestBackInv
<1>3. CASE \E r \in Request : pushRequestBackFull(r)
  BY <1>3, pushRequestBackFullInv
<1>4. CASE fetchFrontRequest
  BY <1>4, fetchFrontRequestInv
<1>5. CASE Loop
  BY <1>5, LoopEnterInv, LoopSkipInv, LoopDropFrontInv, LoopDropInnerInv,
     LoopReturnInv DEF Loop
<1>6. CASE UNCHANGED vars
  BY <1>6, SameFront
     DEF vars, Inv, TypeOK, WindowExact, OneSlotEach, SweptPrefix
<1>7. QED
  BY <1>1, <1>2, <1>3, <1>4, <1>5, <1>6 DEF Next

\* The inductive invariant holds in every reachable state.
THEOREM Invariance == Spec => []Inv
<1>1. Init => Inv
  BY InitInv
<1>2. Inv /\ [Next]_vars => Inv'
  BY NextInv
<1>3. QED
  BY <1>1, <1>2, PTL DEF Spec

\* The array, its indices and the bookkeeping have their types.
THEOREM TypeCorrect == Spec => []TypeOK
<1>1. Inv => TypeOK
  BY DEF Inv
<1>2. QED
  BY <1>1, Invariance, PTL

\* No method meets an empty pointer, none overwrites a Request.
THEOREM WindowIsExact == Spec => []WindowExact
<1>1. Inv => WindowExact
  BY DEF Inv
<1>2. QED
  BY <1>1, Invariance, PTL

\* No shift or wrap-around of the ring loses or duplicates a Request.
THEOREM EachInOneSlot == Spec => []OneSlotEach
<1>1. Inv => OneSlotEach
  BY DEF Inv
<1>2. QED
  BY <1>1, Invariance, PTL

\* A call of loop() gives up every Request that had timed out at its start.
THEOREM SweepIsComplete == Spec => SweepComplete
<1>1. ASSUME Inv, LoopReturn, NEW r \in due
      PROVE  fate[r] = "timedOut"
  <2>1. SUFFICES ASSUME fate[r] = "cached" PROVE FALSE
    BY <1>1 DEF Inv, SweptPrefix
  <2>2. PICK s \in Slots : requests[s] = r
    BY <1>1, <2>1 DEF Inv, TypeOK, OneSlotEach
  <2>3. Offset(s) < len
    BY <1>1, <2>2, NoRequestAssumption DEF Inv, TypeOK, WindowExact
  <2>4. Offset(s) \in 0 .. Size - 1 /\ Offset(s) < i
    BY <1>1, <2>3, Ring, SizeAssumption DEF Inv, TypeOK, LoopReturn
  <2>5. QED
    BY <1>1, <2>2, <2>3, <2>4 DEF Inv, SweptPrefix
<1>2. Inv /\ [Next]_vars => [LoopReturn => \A r \in due : fate[r] = "timedOut"]_vars
  BY <1>1
<1>3. QED
  BY <1>2, Invariance, PTL DEF Spec, SweepComplete

-----------------------------------------------------------------------------
(* The ring buffer implements the bounded FIFO.                            *)

content == [k \in 1 .. len |-> requests[Slot(k - 1)]]

\* The slots of the FIFO after front++.
LEMMA SlotAdvance ==
    ASSUME NEW f \in Slots, NEW k \in 0 .. Size - 2
    PROVE  (((f + 1) % Size) + k) % Size = (f + (k + 1)) % Size
<1> DEFINE g == (f + 1) % Size
<1>1. g = IF f + 1 < Size THEN f + 1 ELSE 0
  BY SizeAssumption, SMT DEF Slots
<1>2. g \in Slots
  BY <1>1, SizeAssumption DEF Slots
<1> HIDE DEF g
<1>3. (g + k) % Size = IF g + k < Size THEN g + k ELSE g + k - Size
  BY <1>2, SlotIs, SizeAssumption
<1>4. (f + (k + 1)) % Size = IF f + (k + 1) < Size THEN f + (k + 1) ELSE f + (k + 1) - Size
  BY SlotIs, SizeAssumption
<1>5. (g + k) % Size = (f + (k + 1)) % Size
  BY <1>1, <1>3, <1>4, SizeAssumption DEF Slots
<1>6. QED
  BY <1>5 DEF g

\* The refinement mapping: the content of the FIFO is that of the window.
LEMMA Content ==
    ASSUME Inv
    PROVE  /\ content \in Seq(Request) /\ Len(content) = len
           /\ \A k \in 1 .. len : /\ content[k] = requests[Slot(k - 1)]
                                  /\ Slot(k - 1) \in Slots /\ Offset(Slot(k - 1)) = k - 1
<1>1. len \in 0 .. Size
  BY DEF Inv, TypeOK
<1>2. \A k \in 1 .. len : /\ requests[Slot(k - 1)] \in Request
                          /\ Slot(k - 1) \in Slots /\ Offset(Slot(k - 1)) = k - 1
  <2>1. TAKE k \in 1 .. len
  <2>2. k - 1 \in 0 .. len - 1 /\ k - 1 \in 0 .. Size - 1
    BY <1>1, SizeAssumption
  <2>3. QED
    BY <2>2, Cached, Ring DEF Inv
<1>3. QED
  BY <1>1, <1>2, SizeAssumption DEF content

\* The content after a step is a sequence t when it has the elements of t.
LEMMA ContentIs ==
    ASSUME NEW t \in Seq(Request), Len(t) = len',
           \A k \in 1 .. len' : requests'[Slot(k - 1)'] = t[k]
    PROVE  content' = t
<1>1. content' = [k \in 1 .. len' |-> t[k]]
  BY Zenon DEF content
<1>2. content' \in Seq(Request) /\ Len(content') = Len(t)
  BY <1>1, LenProperties, ElementOfSeq
<1>3. \A k \in 1 .. Len(content') : content'[k] = t[k]
  BY <1>1, <1>2
<1>4. QED
  BY <1>2, <1>3, SeqEqual

\* pushRequestBack() with a free slot is a Push.
LEMMA PushStep ==
    ASSUME Inv, NEW r \in Request, pushRequestBack(r)
    PROVE  Fifo!Push(r)
<1>1. /\ len \in 0 .. Size - 1 /\ len' = len + 1
      /\ Slot(len) \in Slots /\ Offset(Slot(len)) = len
      /\ \A s : Slot(s)' = Slot(s)
  BY Ring, SameFront, SizeAssumption DEF Inv, TypeOK, pushRequestBack
<1>2. ASSUME NEW k \in 1 .. len
      PROVE  requests'[Slot(k - 1)] = content[k]
  BY <1>1, Content DEF Inv, TypeOK, pushRequestBack
<1>3. requests'[Slot(len)] = r
  BY <1>1 DEF Inv, TypeOK, pushRequestBack
<1>4. /\ Append(content, r) \in Seq(Request)
      /\ Len(Append(content, r)) = len'
      /\ \A k \in 1 .. len : Append(content, r)[k] = content[k]
      /\ Append(content, r)[len'] = r
  BY <1>1, Content, AppendProperties
<1>5. ASSUME NEW k \in 1 .. len'
      PROVE  requests'[Slot(k - 1)'] = Append(content, r)[k]
  <2>1. CASE k = len'
    BY <1>1, <1>3, <1>4, <2>1
  <2>2. CASE k \in 1 .. len
    BY <1>1, <1>2, <1>4, <2>2
  <2>3. k = len' \/ k \in 1 .. len
    BY <1>1
  <2>4. QED
    BY <2>1, <2>2, <2>3, Zenon
<1>6. content' = Append(content, r)
  BY <1>4, <1>5, ContentIs
<1>7. QED
  BY <1>1, <1>6, Content DEF Fifo!Push, content, pushRequestBack

\* The position of each content moves when the front does.
LEMMA SlotMoves ==
    ASSUME TypeOK, front' = (front + 1) % Size
    PROVE  \A k \in 0 .. Size - 2 : Slot(k)' = Slot(k + 1)
<1>1. ASSUME NEW k \in 0 .. Size - 2
      PROVE  (((front + 1) % Size) + k) % Size = (front + (k + 1)) % Size
  BY SlotAdvance DEF TypeOK
<1>2. QED
  BY <1>1, Zenon DEF Slot

\* Releasing the front slot leaves the tail of the FIFO.
LEMMA ReleaseStep ==
    ASSUME Inv, len # 0,
           requests' = [requests EXCEPT ![front] = NoRequest],
           front' = (front + 1) % Size,
           len' = len - 1
    PROVE  /\ content # <<>> /\ Head(content) = requests[front]
           /\ content' = Tail(content)
<1>1. /\ len \in 1 .. Size /\ TypeOK /\ Slot(0) = front
  BY Ring, SizeAssumption DEF Inv, TypeOK
<1>2. content # <<>> /\ Head(content) = requests[front]
  BY <1>1, Content
<1>3. /\ Tail(content) \in Seq(Request) /\ Len(Tail(content)) = len'
      /\ \A k \in 1 .. len' : Tail(content)[k] = content[k + 1]
  BY <1>1, <1>2, Content, HeadTailProperties
<1>4. ASSUME NEW k \in 1 .. len'
      PROVE  requests'[Slot(k - 1)'] = Tail(content)[k]
  <2>1. k - 1 \in 0 .. Size - 2 /\ k + 1 \in 1 .. len /\ (k - 1) + 1 = k /\ (k + 1) - 1 = k
    BY <1>1, SizeAssumption
  <2>2. Slot(k - 1)' = Slot(k)
    BY <1>1, <2>1, SlotMoves
  <2>3. Slot(k) \in Slots /\ Offset(Slot(k)) = k /\ content[k + 1] = requests[Slot(k)]
    BY <2>1, Content
  <2>4. Slot(k) # front
    BY <1>1, <2>1, <2>3, Ring
  <2>5. requests'[Slot(k)] = requests[Slot(k)]
    BY <1>1, <2>3, <2>4 DEF TypeOK
  <2>6. QED
    BY <1>3, <2>2, <2>3, <2>5
<1>5. QED
  BY <1>2, <1>3, <1>4, ContentIs

\* fetchFrontRequest() is a Fetch.
LEMMA FetchStep == ASSUME Inv, fetchFrontRequest PROVE Fifo!Fetch
  BY ReleaseStep DEF fetchFrontRequest, Fifo!Fetch, content

\* Giving up the front one is Expire(1).
LEMMA ExpireFrontStep == ASSUME Inv, LoopDropFront PROVE 1 \in 1 .. len /\ Fifo!Expire(1)
<1>1. len \in 1 .. Size
  BY SizeAssumption DEF Inv, TypeOK, LoopDropFront
<1>2. /\ content # <<>> /\ content[1] = requests[front]
      /\ content' = Tail(content)
  BY <1>1, ReleaseStep, Content, HeadTailProperties DEF LoopDropFront
<1>3. /\ Tail(content) \in [1 .. len - 1 -> Request]
      /\ \A j \in 1 .. len - 1 : Tail(content)[j] = content[j + 1]
  BY <1>1, <1>2, Content, HeadTailProperties, LenProperties
<1>4. Tail(content) = [j \in 1 .. len - 1 |-> IF j < 1 THEN content[j] ELSE content[j + 1]]
  <2>1. \A j \in 1 .. len - 1 : ~(j < 1)
    BY <1>1
  <2>2. QED
    BY <1>3, <2>1
<1>5. content' = Fifo!Without(content, 1)
  BY <1>2, <1>4, Content, Zenon DEF Fifo!Without
<1>6. fate' = [fate EXCEPT ![content[1]] = "timedOut"]
  BY <1>2 DEF LoopDropFront
<1>7. 1 \in 1 .. len
  BY <1>1
<1>8. QED
  BY <1>5, <1>6, <1>7, Zenon DEF Fifo!Expire, content

\* pushRequestBack() on the full ring is a PushEvicting.
LEMMA EvictStep ==
    ASSUME Inv, NEW r \in Request, pushRequestBackFull(r)
    PROVE  Fifo!PushEvicting(r)
<1>1. /\ len = Size /\ len' = len /\ Size \in Nat \ {0} /\ TypeOK
      /\ front \in Slots /\ Slot(0) = front
      /\ front' = (front + 1) % Size
      /\ requests' = [requests EXCEPT ![front] = r]
  <2>1. front \in Slots /\ len = Size /\ TypeOK
    BY SizeAssumption DEF Inv, TypeOK, pushRequestBackFull
  <2>2. (((front + 1) % Size) + (len - 1)) % Size = front
    BY <2>1, AdvanceFar
  <2>3. Slot(0) = front
    BY <2>1, Ring
  <2>4. requests' = [requests EXCEPT ![front] = r] /\ front' = (front + 1) % Size
    BY <2>1, <2>2 DEF TypeOK, pushRequestBackFull
  <2>5. len' = (len - 1) + 1
    BY DEF pushRequestBackFull
  <2>6. QED
    BY <2>1, <2>3, <2>4, <2>5, SizeAssumption
<1>2. content # <<>> /\ Head(content) = requests[front]
  BY <1>1, Content
<1>3. /\ Tail(content) \in Seq(Request) /\ Len(Tail(content)) = len - 1
      /\ \A k \in 1 .. len - 1 : Tail(content)[k] = content[k + 1]
  BY <1>1, <1>2, Content, HeadTailProperties
<1> DEFINE t == Append(Tail(content), r)
<1>4. /\ t \in Seq(Request) /\ Len(t) = len'
      /\ \A k \in 1 .. len - 1 : t[k] = content[k + 1]
      /\ t[len] = r
  BY <1>1, <1>3, AppendProperties
<1> HIDE DEF t
<1>5. ASSUME NEW k \in 1 .. len'
      PROVE  requests'[Slot(k - 1)'] = t[k]
  <2>1. CASE k = len
    <3>1. Slot(k - 1)' = front
      BY <1>1, <2>1, AdvanceFar, Zenon DEF Slot
    <3>2. QED
      BY <1>1, <1>4, <2>1, <3>1 DEF TypeOK
  <2>2. CASE k \in 1 .. len - 1
    <3>1. k - 1 \in 0 .. Size - 2 /\ k + 1 \in 1 .. len /\ (k - 1) + 1 = k /\ (k + 1) - 1 = k
      BY <1>1, <2>2
    <3>2. Slot(k - 1)' = Slot(k)
      BY <1>1, <3>1, SlotMoves
    <3>3. Slot(k) \in Slots /\ Offset(Slot(k)) = k /\ content[k + 1] = requests[Slot(k)]
      BY <3>1, Content
    <3>4. Slot(k) # front
      BY <1>1, <3>1, <3>3, Ring
    <3>5. requests'[Slot(k)] = requests[Slot(k)]
      BY <1>1, <3>3, <3>4 DEF TypeOK
    <3>6. QED
      BY <1>4, <2>2, <3>2, <3>3, <3>5
  <2>3. k = len \/ k \in 1 .. len - 1
    BY <1>1
  <2>4. QED
    BY <2>1, <2>2, <2>3, Zenon
<1>6. content' = t
  BY <1>4, <1>5, ContentIs
<1>7. QED
  BY <1>1, <1>2, <1>6, Content DEF Fifo!PushEvicting, content, t, pushRequestBackFull

\* Giving up the one at position i is Expire(i + 1).
LEMMA ExpireInnerStep ==
    ASSUME Inv, LoopDropInner
    PROVE  i + 1 \in 1 .. len /\ Fifo!Expire(i + 1)
<1>1. /\ i \in 1 .. len - 1 /\ len \in 1 .. Size /\ len' = len - 1 /\ TypeOK
      /\ requests' = ShiftDown(i)
      /\ \A k : Slot(k)' = Slot(k)
  <2>1. i \in 0 .. len - 1 /\ i # 0 /\ len \in 0 .. Size
    BY Ring, SizeAssumption DEF Inv, TypeOK, LoopDropInner
  <2>2. QED
    BY <2>1, SameFront, SizeAssumption DEF Inv, LoopDropInner
<1>2. ASSUME NEW j \in 1 .. len - 1
      PROVE  requests'[Slot(j - 1)] = IF j < i + 1 THEN content[j] ELSE content[j + 1]
  <2>1. /\ j \in 1 .. len /\ j + 1 \in 1 .. len /\ (j + 1) - 1 = j
        /\ j - 1 < len - 1
    BY <1>1
  <2> DEFINE s == Slot(j - 1)
  <2>2. /\ content[j] = requests[s] /\ s \in Slots /\ Offset(s) = j - 1
        /\ content[j + 1] = requests[Slot(j)] /\ Slot(j) \in Slots
        /\ Offset(Slot(j)) = j
    BY <2>1, Content
  <2> HIDE DEF s
  <2>3. CASE j < i + 1
    BY <1>1, <2>1, <2>2, <2>3, Shifted DEF s
  <2>4. CASE i <= j - 1
    <3> DEFINE t == (s + 1) % Size
    <3>1. t \in Slots /\ Offset(t) = Offset(s) + 1 /\ ShiftDown(i)[s] = requests[t]
      BY <1>1, <2>1, <2>2, <2>4, Shifted
    <3> HIDE DEF t
    <3>2. t = Slot(j)
      BY <1>1, <2>1, <2>2, <3>1, Ring
    <3>3. QED
      BY <1>1, <2>1, <2>2, <2>4, <3>1, <3>2 DEF s
  <2>5. QED
    BY <1>1, <2>3, <2>4
<1>3. content' = [j \in 1 .. len - 1 |-> requests'[Slot(j - 1)]]
  BY <1>1, Zenon DEF content
<1>4. content' = Fifo!Without(content, i + 1)
  BY <1>2, <1>3, Content DEF Fifo!Without
<1>5. fate' = [fate EXCEPT ![content[i + 1]] = "timedOut"] /\ i + 1 \in 1 .. len
  <2>1. i + 1 \in 1 .. len /\ (i + 1) - 1 = i
    BY <1>1
  <2>2. content[i + 1] = requests[Slot(i)]
    BY <2>1, Content
  <2>3. QED
    BY <2>1, <2>2 DEF LoopDropInner
<1>6. QED
  BY <1>4, <1>5, Zenon DEF Fifo!Expire, content

\* The other steps change nothing of the FIFO.
LEMMA StutterStep ==
    ASSUME UNCHANGED <<requests, front, len, fate>>
    PROVE  UNCHANGED Fifo!fifoVars
<1>1. content' = content
  BY SameFront, Zenon DEF content
<1>2. QED
  BY <1>1, Zenon DEF Fifo!fifoVars, content

\* Each step is one of the bounded FIFO, or a stutter.
LEMMA NextRefines == ASSUME Inv, [Next]_vars PROVE [Fifo!FifoNext]_(Fifo!fifoVars)
<1>1. CASE \E r \in Request : Tick(r)
  BY <1>1, StutterStep DEF Tick
<1>2. CASE \E r \in Request : pushRequestBack(r)
  BY <1>2, PushStep, Zenon DEF Fifo!FifoNext
<1>3. CASE \E r \in Request : pushRequestBackFull(r)
  BY <1>3, EvictStep, Zenon DEF Fifo!FifoNext
<1>4. CASE fetchFrontRequest
  BY <1>4, FetchStep, Zenon DEF Fifo!FifoNext
<1>5. CASE LoopEnter \/ LoopSkip \/ LoopReturn
  BY <1>5, StutterStep DEF LoopEnter, LoopSkip, LoopReturn
<1>6. Len(content) = len /\ (LoopDropFront => 1 \in 1 .. len)
  BY Content, ExpireFrontStep DEF Inv, TypeOK
<1>7. CASE LoopDropFront
  BY <1>6, <1>7, ExpireFrontStep, Zenon DEF Fifo!FifoNext, content
<1>8. CASE LoopDropInner
  BY <1>6, <1>8, ExpireInnerStep, Zenon DEF Fifo!FifoNext, content
<1>9. CASE UNCHANGED vars
  BY <1>9, StutterStep DEF vars
<1>10. QED
  BY <1>1, <1>2, <1>3, <1>4, <1>5, <1>7, <1>8, <1>9, Zenon DEF Next, Loop

\* Seen from outside, the ring buffer with its loop() is the bounded FIFO: the
\* RPC engine may rely on BoundedFifo alone.
THEOREM ImplementsFifo == Spec => FifoSpec
<1>1. Init => Fifo!FifoInit
  <2>1. ASSUME Init PROVE content = <<>>
    BY <2>1, InitInv, Content, EmptySeq DEF Init
  <2>2. QED
    BY <2>1 DEF Init, Fifo!FifoInit, content
<1>2. Inv /\ [Next]_vars => [Fifo!FifoNext]_(Fifo!fifoVars)
  BY NextRefines
<1>3. QED
  BY <1>1, <1>2, Invariance, PTL DEF Spec, FifoSpec, Fifo!FifoSpec

=============================================================================
