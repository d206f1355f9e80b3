---------------------------- MODULE Station_proof ----------------------------
(***************************************************************************)
(* For any number of connectors, reservations and idTags: the types of      *)
(* Station, and its two properties of reservations.  IInv says which of the *)
(* reservations of a connector can still be in force, and what a listener   *)
(* that waits for Authorize knows of them; neither is so where a known id   *)
(* was given another reservation, and until such a connector is free again  *)
(* it is in reassigned.                                                     *)
(***************************************************************************)
EXTENDS Station, FiniteSetTheorems, WellFoundedInduction, TLAPS

-----------------------------------------------------------------------------
(* The first slot of a set of slots, and the last one.                      *)

Below == {p \in Nat \X Nat : p[1] < p[2]}

LEMMA BelowWellFounded == IsWellFoundedOn(Below, Nat)
<1>1. OpToRel(<, Nat) = Below
  BY DEF OpToRel, Below
<1>2. QED
  BY <1>1, NatLessThanWellFounded

\* A set of numbers has a least element, which is its Min.
LEMMA MinIs ==
    ASSUME NEW S, S \subseteq Nat, S # {}
    PROVE  Min(S) \in S /\ \A y \in S : Min(S) <= y
<1>1. PICK x \in S : \A y \in S : ~(<<y, x>> \in Below)
  BY BelowWellFounded, WFMin
<1>2. ASSUME NEW y \in S PROVE x <= y
  <2>1. x \in Nat /\ y \in Nat
    OBVIOUS
  <2>2. y < x => <<y, x>> \in Below
    BY <2>1 DEF Below
  <2>3. QED
    BY <1>1, <2>1, <2>2
<1>3. QED
  BY <1>2 DEF Min

\* A bounded one has a greatest.
LEMMA MaxIs ==
    ASSUME NEW n \in Nat, NEW S, S \subseteq 1 .. n, S # {}
    PROVE  Max(S) \in S
<1> DEFINE D == {n - x : x \in S}
<1>1. D \subseteq Nat /\ D # {}
  <2>1. \A x \in S : n - x \in Nat
    OBVIOUS
  <2>2. PICK x \in S : TRUE
    OBVIOUS
  <2>3. n - x \in D
    OBVIOUS
  <2>4. QED
    BY <2>1, <2>3
<1>2. Min(D) \in D /\ \A y \in D : Min(D) <= y
  BY <1>1, MinIs
<1>3. PICK x \in S : Min(D) = n - x
  BY <1>2
<1>4. \A y \in S : x >= y
  <2>1. TAKE y \in S
  <2>2. n - x <= n - y
    BY <1>2, <1>3
  <2>3. QED
    BY <2>2
<1>5. QED
  BY <1>4 DEF Max

-----------------------------------------------------------------------------
(* The inductive invariant.                                                 *)

\* Of two reservations of a connector that are on the flash, the one in the higher slot has
\* expired: the other one was made since, in the first slot that was free.
OneInForce(c) ==
    \A s, t \in 1 .. NumSlots :
        slots[s].connector = c /\ slots[t].connector = c /\ s < t => slots[t].expiry < time

\* A transaction that waits for Authorize has not been authorized.
Undecided == \A c \in Connectors : Waits(c) => ~tx[c].authorized

\* What the listener of the timeout knows still holds for the reservations in force.
Unblocked(c) ==
    Waits(c) /\ ~tx[c].authorize.blocked => \A s \in InForce(c) : slots[s].idTag = tx[c].idTag

IInv ==
    /\ TypeOK
    /\ Undecided
    /\ \A c \in Connectors \ reassigned : OneInForce(c) /\ Unblocked(c)

-----------------------------------------------------------------------------
(* The operators.                                                           *)

LEMMA SlotsType ==
    ASSUME TypeOK
    PROVE  /\ DOMAIN slots = 1 .. NumSlots
           /\ \A s \in 1 .. NumSlots :
                 slots[s] \in Reservation /\ slots[s].expiry \in Nat /\ slots[s].connector \in Int
           /\ Now \in Nat /\ Now <= time /\ time \in Nat
<1>1. slots \in [1 .. NumSlots -> Reservation] /\ time \in 1 .. LastTime
  BY DEF TypeOK
<1>2. \A s \in 1 .. NumSlots : slots[s].expiry \in ExpiryDates \cup {0}
                              /\ slots[s].connector \in -1 .. NumConnectors
  BY <1>1 DEF Reservation
<1>3. ExpiryDates \cup {0} \subseteq Nat /\ NumConnectors \in Nat /\ LastTime \in Nat
  BY ConstantsAssumption
<1>4. time \in Nat /\ time >= 1
  BY <1>1, <1>3
<1>5. QED
  BY <1>1, <1>2, <1>3, <1>4 DEF Now

\* A reservation that prevails is one of the slots.
LEMMA PrevailingIs ==
    ASSUME TypeOK, NEW c \in Connectors, NEW idTag
    PROVE  /\ Prevailing(c, idTag) = {} \/ \E s \in 1 .. NumSlots : Prevailing(c, idTag) = {s}
           /\ ReservationAt(c) # {} => /\ Prevailing(c, idTag) = {Min(ReservationAt(c))}
                                       /\ Min(ReservationAt(c)) \in ReservationAt(c)
                                       /\ \A s \in ReservationAt(c) : Min(ReservationAt(c)) <= s
<1>1. \A S \in SUBSET (1 .. NumSlots) : S # {} =>
          /\ Min(S) \in S /\ Max(S) \in S
          /\ \A s \in S : Min(S) <= s
  <2>1. TAKE S \in SUBSET (1 .. NumSlots)
  <2>2. HAVE S # {}
  <2>3. S \subseteq Nat
    OBVIOUS
  <2>4. QED
    BY <2>2, <2>3, MinIs, MaxIs, ConstantsAssumption
<1>2. Active \subseteq 1 .. NumSlots
  BY SlotsType DEF Active
<1>3. ReservationAt(c) \subseteq Active /\ Unspecified \subseteq Active
  BY DEF ReservationAt, Unspecified
<1>4. c # 0
  BY DEF Connectors
<1>5. ReservationAt(c) # {} => /\ Prevailing(c, idTag) = {Min(ReservationAt(c))}
                               /\ Min(ReservationAt(c)) \in ReservationAt(c)
                               /\ \A s \in ReservationAt(c) : Min(ReservationAt(c)) <= s
  <2>1. HAVE ReservationAt(c) # {}
  <2>2. Prevailing(c, idTag) = {Min(ReservationAt(c))}
    BY <1>4, <2>1 DEF Prevailing
  <2>3. ReservationAt(c) \in SUBSET (1 .. NumSlots)
    BY <1>2, <1>3
  <2>4. QED
    BY <1>1, <2>1, <2>2, <2>3
<1>6. OfIdTag(idTag) = {} \/ \E s \in 1 .. NumSlots : OfIdTag(idTag) = {s}
  <2> DEFINE own == {s \in Active : slots[s].idTag = idTag}
             zero == {s \in own : slots[s].connector = 0}
  <2>1. own \in SUBSET (1 .. NumSlots) /\ zero \in SUBSET (1 .. NumSlots)
    BY <1>2
  <2>2. OfIdTag(idTag) = IF zero # {} THEN {Min(zero)}
                         ELSE IF own # {} THEN {Max(own)} ELSE {}
    BY DEF OfIdTag
  <2> HIDE DEF own, zero
  <2>3. QED
    BY <1>1, <2>1, <2>2
<1>7. Blocking(c) = {} \/ \E s \in 1 .. NumSlots : Blocking(c) = {s}
  <2> DEFINE free == {d \in Connectors \ {c} : Status(d) = "Available"}
  <2>1. IsFiniteSet(Connectors)
    BY FS_Interval, ConstantsAssumption DEF Connectors
  <2>2. free \subseteq Connectors
    OBVIOUS
  <2>3. Cardinality(free) \in Nat
    BY <2>1, <2>2, FS_Subset, FS_CardinalityType
  <2>4. Blocking(c) = IF ConnectorZeroSupported /\ Cardinality(free) < Cardinality(Unspecified)
                      THEN {Max(Unspecified)} ELSE {}
    BY DEF Blocking
  <2> HIDE DEF free
  <2>5. CASE Unspecified = {}
    <3>1. Cardinality(Unspecified) = 0
      BY <2>5, FS_EmptySet
    <3>2. QED
      BY <2>3, <2>4, <3>1
  <2>6. CASE Unspecified # {}
    <3>1. Unspecified \in SUBSET (1 .. NumSlots)
      BY <1>2, <1>3
    <3>2. QED
      BY <1>1, <2>4, <2>6, <3>1
  <2>7. QED
    BY <2>5, <2>6
<1>8. Prevailing(c, idTag) = {} \/ \E s \in 1 .. NumSlots : Prevailing(c, idTag) = {s}
  <2>1. CASE ReservationAt(c) # {}
    BY <1>2, <1>3, <1>5, <2>1
  <2>2. CASE ReservationAt(c) = {}
    BY <1>6, <1>7, <2>2 DEF Prevailing
  <2>3. QED
    BY <2>1, <2>2
<1>9. QED
  BY <1>5, <1>8

\* Its id, for the transaction.
LEMMA ResvIdType ==
    ASSUME TypeOK, NEW c \in Connectors, NEW idTag
    PROVE  ResvId(Prevailing(c, idTag)) \in ReservationIds \cup {-1}
<1>1. CASE Prevailing(c, idTag) = {}
  BY <1>1 DEF ResvId
<1>2. ASSUME NEW s \in 1 .. NumSlots, Prevailing(c, idTag) = {s}
      PROVE  ResvId(Prevailing(c, idTag)) \in ReservationIds \cup {-1}
  <2>1. Min({s}) = s
    BY MinIs
  <2>2. ResvId({s}) = slots[s].id
    BY <2>1 DEF ResvId, FirstOf
  <2>3. QED
    BY <1>2, <2>2, SlotsType DEF Reservation
<1>3. QED
  BY <1>1, <1>2, PrevailingIs

\* The reservation in force at a connector is the one that prevails.
LEMMA InForceIsFirst ==
    ASSUME TypeOK, NEW c \in Connectors, OneInForce(c), NEW s \in InForce(c)
    PROVE  s \in ReservationAt(c) /\ s = Min(ReservationAt(c))
<1>1. s \in 1 .. NumSlots /\ slots[s].connector = c /\ time <= slots[s].expiry
  BY SlotsType DEF InForce
<1>2. s \in ReservationAt(c)
  BY <1>1, SlotsType DEF ReservationAt, Active, IsActive, Connectors
<1>3. PICK m : m = Min(ReservationAt(c))
  OBVIOUS
<1>4. m \in ReservationAt(c) /\ m <= s
  BY <1>2, <1>3, PrevailingIs
<1>5. m \in 1 .. NumSlots /\ slots[m].connector = c
  BY <1>4, SlotsType DEF ReservationAt, Active
<1>6. ~(m < s)
  BY <1>1, <1>5, SlotsType DEF OneInForce
<1>7. QED
  BY <1>1, <1>2, <1>3, <1>4, <1>5, <1>6

\* A transaction whose idTag matches what prevails is not against a reservation in force.
LEMMA MatchesInForce ==
    ASSUME TypeOK, NEW c \in Connectors, OneInForce(c), NEW idTag,
           Matches(Prevailing(c, idTag), idTag)
    PROVE  \A s \in InForce(c) : slots[s].idTag = idTag
<1>1. TAKE s \in InForce(c)
<1>2. s \in ReservationAt(c) /\ s = Min(ReservationAt(c))
  BY InForceIsFirst
<1>3. Prevailing(c, idTag) = {s}
  BY <1>2, PrevailingIs
<1>4. Min({s}) = s
  <2>1. {s} \subseteq Nat
    BY <1>2, SlotsType DEF ReservationAt, Active
  <2>2. QED
    BY <2>1, MinIs
<1>5. QED
  BY <1>3, <1>4 DEF Matches, FirstOf

\* The connector that a remote start is for.
LEMMA SelectedIs ==
    ASSUME NEW c, Selected(c) # {}, c \in AllConnectors
    PROVE  Min(Selected(c)) \in Connectors /\ tx[Min(Selected(c))] = None
<1>1. \A d \in Selected(c) : d \in Connectors /\ tx[d] = None
  BY ConstantsAssumption DEF Selected, CanStart, AllConnectors, Connectors
<1>2. Selected(c) \subseteq Nat
  BY <1>1 DEF Connectors
<1>3. QED
  BY <1>1, <1>2, MinIs
-----------------------------------------------------------------------------
(* What a step owes the invariant.                                          *)

\* At a connector that was not reassigned and is not in this step.
Keeps ==
    /\ Undecided'
    /\ \A c \in Connectors \ (reassigned \cup Moved) : OneInForce(c)' /\ Unblocked(c)'

LEMMA RememberType == Remember => reassigned' \subseteq Connectors
  BY DEF Remember

\* A connector that leaves reassigned has no reservation in force and nobody who waits.
LEMMA KeepsIInv ==
    ASSUME Keeps, Remember, TypeOK'
    PROVE  IInv'
<1>1. SUFFICES ASSUME NEW c \in Connectors, c \notin reassigned'
               PROVE  OneInForce(c)' /\ Unblocked(c)'
  BY DEF IInv, Keeps
<1>2. CASE c \notin reassigned \cup Moved
  BY <1>2 DEF Keeps
<1>3. CASE c \in reassigned \cup Moved
  <2>1. ~Waits(c)' /\ InForce(c)' = {}
    BY <1>1, <1>3 DEF Remember
  <2>2. /\ DOMAIN slots' = 1 .. NumSlots /\ time' \in Int
        /\ \A s \in 1 .. NumSlots : slots'[s].expiry \in Int
    <3>1. slots' \in [1 .. NumSlots -> Reservation] /\ time' \in 1 .. LastTime
      BY DEF TypeOK
    <3>2. \A s \in 1 .. NumSlots : slots'[s].expiry \in ExpiryDates \cup {0}
      BY <3>1 DEF Reservation
    <3>3. ExpiryDates \cup {0} \subseteq Int /\ 1 .. LastTime \subseteq Int
      BY ConstantsAssumption
    <3>4. QED
      BY <3>1, <3>2, <3>3
  <2>3. OneInForce(c)'
    <3>1. SUFFICES ASSUME NEW t \in 1 .. NumSlots, slots'[t].connector = c
                   PROVE  slots'[t].expiry < time'
      BY DEF OneInForce
    <3>2. t \notin InForce(c)'
      BY <2>1
    <3>3. ~(time' <= slots'[t].expiry)
      BY <2>2, <3>1, <3>2 DEF InForce
    <3>4. QED
      BY <2>2, <3>3
  <2>4. Unblocked(c)'
    BY <2>1 DEF Unblocked
  <2>5. QED
    BY <2>3, <2>4
<1>4. QED
  BY <1>2, <1>3

-----------------------------------------------------------------------------
(* Steps that only change transactions.                                     *)

\* Slots, time and clock are as before, and each transaction is the old one, not authorized
\* meanwhile, or waits for nothing, or knows what prevails now.
Known(c, u) ==
    \/ u = None
    \/ /\ u \in Tx
       /\ u.authorize # None =>
             /\ ~u.authorized
             /\ c \notin reassigned /\ ~u.authorize.blocked =>
                   \A s \in InForce(c) : slots[s].idTag = u.idTag

LEMMA KnownKeeps ==
    ASSUME IInv, UNCHANGED <<time, slots>>, tx' \in [Connectors -> Tx \cup {None}],
           \A c \in Connectors : Known(c, tx'[c])
    PROVE  Keeps
<1>1. Undecided'
  BY DEF Undecided, Known, Waits
<1>2. ASSUME NEW c \in Connectors, c \notin reassigned
      PROVE  OneInForce(c)' /\ Unblocked(c)'
  <2>1. OneInForce(c)'
    BY <1>2 DEF IInv, OneInForce
  <2>2. InForce(c)' = InForce(c)
    BY DEF InForce
  <2>3. SUFFICES ASSUME tx'[c] # None, tx'[c].authorize # None,
                        ~tx'[c].authorize.blocked, NEW s \in InForce(c)
                 PROVE  slots[s].idTag = tx'[c].idTag
    BY <2>1, <2>2 DEF Unblocked, Waits
  <2>4. Known(c, tx'[c])
    OBVIOUS
  <2>5. QED
    BY <1>2, <2>3, <2>4 DEF Known
<1>3. QED
  BY <1>1, <1>2 DEF Keeps

LEMMA TxIsKnown ==
    ASSUME IInv, NEW c \in Connectors
    PROVE  Known(c, tx[c]) /\ tx[c] \in Tx \cup {None}
  BY DEF IInv, TypeOK, Undecided, Unblocked, Known, Waits

\* The first state of a transaction that waits for Authorize.
LEMMA PreparingIsKnown ==
    ASSUME IInv, NEW c \in Connectors, NEW idTag \in IdTags
    PROVE  Preparing(c, idTag) \in Tx /\ Known(c, Preparing(c, idTag))
<1> DEFINE r == Prevailing(c, idTag)
           a == [blocked |-> ~Matches(r, idTag), reservation |-> ResvId(r)]
<1>1. ResvId(r) \in ReservationIds \cup {-1}
  BY ResvIdType DEF IInv
<1>2. c \notin reassigned /\ Matches(r, idTag) => \A s \in InForce(c) : slots[s].idTag = idTag
  BY MatchesInForce DEF IInv
<1>3. Preparing(c, idTag) = [NewTx(idTag) EXCEPT !.authorize = a]
  BY DEF Preparing
<1> HIDE DEF r
<1>4. a \in Listener
  BY <1>1 DEF Listener
<1>5. a.blocked = ~Matches(r, idTag)
  OBVIOUS
<1> HIDE DEF a
<1>6. /\ Preparing(c, idTag) \in Tx
      /\ Preparing(c, idTag).authorize = a
      /\ Preparing(c, idTag).idTag = idTag /\ ~Preparing(c, idTag).authorized
  BY <1>3, <1>4 DEF NewTx, Tx
<1>7. QED
  BY <1>2, <1>5, <1>6 DEF Known

\* One that does not wait.
LEMMA BegunIsKnown ==
    ASSUME IInv, NEW c \in Connectors, NEW idTag \in IdTags
    PROVE  BegunAuthorized(c, idTag) \in Tx /\ Known(c, BegunAuthorized(c, idTag))
<1> DEFINE r == Prevailing(c, idTag)
           i == IF Matches(r, idTag) THEN ResvId(r) ELSE -1
<1>1. i \in ReservationIds \cup {-1}
  BY ResvIdType DEF IInv
<1>2. BegunAuthorized(c, idTag) = [NewTx(idTag) EXCEPT !.authorized = TRUE, !.reservation = i]
  BY DEF BegunAuthorized
<1> HIDE DEF i
<1>3. /\ BegunAuthorized(c, idTag) \in Tx
      /\ BegunAuthorized(c, idTag).authorize = None
  BY <1>1, <1>2 DEF NewTx, Tx
<1>4. QED
  BY <1>3 DEF Known

\* The end of Authorize.
LEMMA DecidedIsKnown ==
    ASSUME IInv, NEW c \in Connectors, tx[c] # None, tx[c].authorize # None,
           NEW u \in {Accepted(c), Rejected(c), TimedOut(c)}
    PROVE  /\ u \in Tx /\ u.authorize = None
           /\ c \notin reassigned /\ u.authorized =>
                 \A s \in InForce(c) : slots[s].idTag = tx[c].idTag
<1>1. PICK t : t = tx[c]
  OBVIOUS
<1>2. t \in Tx /\ t.authorize \in Listener /\ ~t.authorized
  BY <1>1 DEF IInv, TypeOK, Undecided, Waits, Tx
<1>3. t.authorize.reservation \in ReservationIds \cup {-1} /\ t.idTag \in IdTags
  BY <1>2 DEF Listener, Tx
<1>4. CASE u = Accepted(c)
  <2> DEFINE r == Prevailing(c, t.idTag)
  <2>1. ResvId(r) \in ReservationIds \cup {-1}
    BY <1>3, ResvIdType DEF IInv
  <2>2. c \notin reassigned /\ Matches(r, t.idTag) =>
            \A s \in InForce(c) : slots[s].idTag = t.idTag
    BY MatchesInForce DEF IInv
  <2>3. u = IF Matches(r, t.idTag)
            THEN [t EXCEPT !.authorize = None, !.authorized = TRUE, !.reservation = ResvId(r)]
            ELSE [t EXCEPT !.authorize = None, !.active = FALSE]
    BY <1>1, <1>4 DEF Accepted
  <2> HIDE DEF r
  <2>4. CASE Matches(r, t.idTag)
    <3>1. u = [t EXCEPT !.authorize = None, !.authorized = TRUE, !.reservation = ResvId(r)]
      BY <2>3, <2>4
    <3>2. u \in Tx /\ u.authorize = None
      BY <1>2, <2>1, <3>1 DEF Tx
    <3>3. QED
      BY <1>1, <2>2, <2>4, <3>2
  <2>5. CASE ~Matches(r, t.idTag)
    <3>1. u = [t EXCEPT !.authorize = None, !.active = FALSE]
      BY <2>3, <2>5
    <3>2. u \in Tx /\ u.authorize = None /\ ~u.authorized
      BY <1>2, <3>1 DEF Tx
    <3>3. QED
      BY <3>2
  <2>6. QED
    BY <2>4, <2>5
<1>5. CASE u = Rejected(c)
  <2>1. u = [t EXCEPT !.authorize = None, !.deauthorized = TRUE]
    BY <1>1, <1>5 DEF Rejected
  <2>2. u \in Tx /\ u.authorize = None /\ ~u.authorized
    BY <1>2, <2>1 DEF Tx
  <2>3. QED
    BY <2>2
<1>6. CASE u = TimedOut(c)
  <2>1. CASE t.authorize.blocked \/ ~AllowOfflineTxForUnknownId
    <3>1. u = [t EXCEPT !.authorize = None, !.active = FALSE]
      BY <1>1, <1>6, <2>1 DEF TimedOut
    <3>2. u \in Tx /\ u.authorize = None /\ ~u.authorized
      BY <1>2, <3>1 DEF Tx
    <3>3. QED
      BY <3>2
  <2>2. CASE ~(t.authorize.blocked \/ ~AllowOfflineTxForUnknownId)
    <3>1. u = [t EXCEPT !.authorize = None, !.authorized = TRUE,
                        !.reservation = t.authorize.reservation]
      BY <1>1, <1>6, <2>2 DEF TimedOut
    <3>2. u \in Tx /\ u.authorize = None
      BY <1>2, <1>3, <3>1 DEF Tx
    <3>3. c \notin reassigned => \A s \in InForce(c) : slots[s].idTag = t.idTag
      BY <1>1, <2>2 DEF IInv, Unblocked, Waits
    <3>4. QED
      BY <1>1, <3>2, <3>3
  <2>3. QED
    BY <2>1, <2>2
<1>7. QED
  BY <1>4, <1>5, <1>6

\* A transaction that goes on, as far as it matters here.
Same(t, u) ==
    /\ u \in Tx /\ u.authorized = t.authorized /\ u.idTag = t.idTag
    /\ u.authorize \in {t.authorize, None} /\ u.reservation = t.reservation

LEMMA SameIsKnown ==
    ASSUME IInv, NEW c \in Connectors, tx[c] # None, NEW u, Same(tx[c], u)
    PROVE  u \in Tx /\ Known(c, u)
<1>1. Known(c, tx[c])
  BY TxIsKnown
<1>2. QED
  BY <1>1 DEF Known, Same

LEMMA InactiveIsSame ==
    ASSUME NEW t \in Tx
    PROVE  Same(t, Inactive(t)) \/ Inactive(t) = None
<1>1. CASE t = None
  BY <1>1 DEF Inactive
<1>2. CASE t # None
  <2>1. Inactive(t) = [t EXCEPT !.active = FALSE]
    BY <1>2 DEF Inactive
  <2>2. QED
    BY <2>1 DEF Same, Tx
<1>3. QED
  BY <1>1, <1>2

LEMMA LoopedIsSame ==
    ASSUME NEW c \in Connectors, tx[c] \in Tx \cup {None}
    PROVE  Looped(c) = None \/ (tx[c] # None /\ tx[c] \in Tx /\ Same(tx[c], Looped(c)))
<1>1. PICK t : t = tx[c]
  OBVIOUS
<1>2. CASE t = None
  <2>1. Kept(t) = None
    BY <1>2 DEF Kept
  <2>2. QED
    BY <1>1, <2>1 DEF Looped, Starts, Stops
<1>3. CASE t # None
  <2>1. t \in Tx
    BY <1>1, <1>3
  <2>2. Same(t, t) /\ (Same(t, Inactive(t)) \/ Inactive(t) = None)
    BY <2>1, InactiveIsSame DEF Same, Tx
  <2>3. PICK k : k = Kept(t)
    OBVIOUS
  <2>4. k = None \/ Same(t, k)
    BY <2>2, <2>3 DEF Kept
  <2>5. PICK u : u = Looped(c)
    OBVIOUS
  <2>6. \/ u = k
        \/ k # None /\ u = [k EXCEPT !.phase = "running"]
        \/ k # None /\ u = [k EXCEPT !.phase = "stopped"]
    BY <1>1, <2>3, <2>5 DEF Looped, Starts, Stops
  <2>7. u = k \/ Same(t, u)
    BY <2>4, <2>6 DEF Same, Tx
  <2>8. QED
    BY <1>1, <1>3, <2>1, <2>4, <2>5, <2>7
<1>4. QED
  BY <1>2, <1>3

-----------------------------------------------------------------------------
(* The invariant: the actions one by one.                                   *)

\* What the steps that only change transactions have in common.
LEMMA TransactionsKeep ==
    ASSUME IInv, NEW txs, Transactions(txs), resets' \in 0 .. ResetTries, ops' \in 0 .. MaxOps,
           txs \in [Connectors -> Tx \cup {None}],
           \A c \in Connectors : Known(c, txs[c])
    PROVE  IInv'
<1>1. tx' = txs
  BY DEF Transactions
<1>2. TypeOK'
  BY <1>1, RememberType DEF IInv, TypeOK, Transactions
<1>3. UNCHANGED <<time, slots>> /\ Remember
  BY DEF Transactions
<1>4. Keeps
  BY <1>1, <1>3, KnownKeeps
<1>5. QED
  BY <1>2, <1>3, <1>4, KeepsIInv

\* A transaction of a single connector changes.
LEMMA TransactionKeeps ==
    ASSUME IInv, NEW c \in Connectors, NEW u, Transactions([tx EXCEPT ![c] = u]),
           resets' \in 0 .. ResetTries, ops' \in 0 .. MaxOps,
           u \in Tx \cup {None}, Known(c, u)
    PROVE  IInv'
<1> DEFINE txs == [tx EXCEPT ![c] = u]
<1>1. tx \in [Connectors -> Tx \cup {None}]
  BY DEF IInv, TypeOK
<1>2. txs \in [Connectors -> Tx \cup {None}]
  BY <1>1
<1>3. \A d \in Connectors : Known(d, txs[d])
  <2>1. TAKE d \in Connectors
  <2>2. txs[d] = IF d = c THEN u ELSE tx[d]
    BY <1>1
  <2>3. QED
    BY <2>2, TxIsKnown
<1> HIDE DEF txs
<1>4. Transactions(txs)
  BY DEF txs
<1>5. QED
  BY <1>2, <1>3, <1>4, TransactionsKeep

LEMMA OpType == TypeOK /\ Op => ops' \in 0 .. MaxOps /\ ops' # ops
  BY ConstantsAssumption DEF TypeOK, Op

LEMMA BeginKeeps == IInv /\ Begin => IInv'
<1>1. SUFFICES ASSUME IInv, Begin PROVE IInv'
  OBVIOUS
<1>2. PICK c \in Connectors, idTag \in IdTags :
          tx[c] = None /\ Transactions([tx EXCEPT ![c] = Preparing(c, idTag)])
  BY <1>1 DEF Begin
<1>3. ops' \in 0 .. MaxOps /\ resets' \in 0 .. ResetTries
  BY <1>1, OpType DEF Begin, IInv, TypeOK
<1>4. QED
  BY <1>1, <1>2, <1>3, PreparingIsKnown, TransactionKeeps

LEMMA AuthorizeKeeps == IInv /\ Authorize => IInv'
<1>1. SUFFICES ASSUME IInv, Authorize PROVE IInv'
  OBVIOUS
<1>2. PICK c \in Connectors :
          /\ tx[c] # None /\ tx[c].authorize # None
          /\ \E t \in {Accepted(c), Rejected(c), TimedOut(c)} : Transactions([tx EXCEPT ![c] = t])
  BY <1>1 DEF Authorize
<1>3. PICK t \in {Accepted(c), Rejected(c), TimedOut(c)} : Transactions([tx EXCEPT ![c] = t])
  BY <1>2
<1>4. t \in Tx /\ t.authorize = None
  BY <1>1, <1>2, DecidedIsKnown
<1>5. Known(c, t)
  BY <1>4 DEF Known
<1>6. ops' \in 0 .. MaxOps /\ resets' \in 0 .. ResetTries
  BY <1>1 DEF Authorize, IInv, TypeOK
<1>7. QED
  BY <1>1, <1>3, <1>4, <1>5, <1>6, TransactionKeeps

LEMMA EndKeeps == IInv /\ End => IInv'
<1>1. SUFFICES ASSUME IInv, End PROVE IInv'
  OBVIOUS
<1>2. PICK c \in Connectors :
          /\ tx[c] # None /\ tx[c].active
          /\ Transactions([tx EXCEPT ![c] = Inactive(@)])
  BY <1>1 DEF End
<1>3. tx[c] \in Tx /\ tx \in [Connectors -> Tx \cup {None}]
  BY <1>1, <1>2 DEF IInv, TypeOK
<1>4. PICK u : u = Inactive(tx[c])
  OBVIOUS
<1>5. u \in Tx \cup {None} /\ Known(c, u)
  <2>1. Same(tx[c], u) \/ u = None
    BY <1>3, <1>4, InactiveIsSame
  <2>2. CASE u = None
    BY <2>2 DEF Known
  <2>3. CASE Same(tx[c], u)
    BY <1>1, <1>2, <2>3, SameIsKnown
  <2>4. QED
    BY <2>1, <2>2, <2>3
<1>6. Transactions([tx EXCEPT ![c] = u])
  BY <1>2, <1>3, <1>4
<1>7. ops' \in 0 .. MaxOps /\ resets' \in 0 .. ResetTries
  BY <1>1, OpType DEF End, IInv, TypeOK
<1>8. QED
  BY <1>1, <1>5, <1>6, <1>7, TransactionKeeps

LEMMA RemoteStartKeeps == IInv /\ RemoteStart => IInv'
<1>1. SUFFICES ASSUME IInv, RemoteStart PROVE IInv'
  OBVIOUS
<1>2. PICK c \in AllConnectors, idTag \in IdTags :
          /\ Selected(c) # {}
          /\ LET d == Min(Selected(c))
             IN  Transactions([tx EXCEPT ![d] =
                     IF AuthorizeRemoteTxRequests THEN Preparing(d, idTag)
                     ELSE BegunAuthorized(d, idTag)])
  BY <1>1 DEF RemoteStart
<1>3. PICK d : d = Min(Selected(c))
  OBVIOUS
<1>4. d \in Connectors
  BY <1>2, <1>3, SelectedIs
<1>5. PICK u : u = IF AuthorizeRemoteTxRequests THEN Preparing(d, idTag)
                   ELSE BegunAuthorized(d, idTag)
  OBVIOUS
<1>6. Transactions([tx EXCEPT ![d] = u])
  BY <1>2, <1>3, <1>5
<1>7. u \in Tx \cup {None} /\ Known(d, u)
  BY <1>1, <1>4, <1>5, PreparingIsKnown, BegunIsKnown
<1>8. ops' \in 0 .. MaxOps /\ resets' \in 0 .. ResetTries
  BY <1>1, OpType DEF RemoteStart, IInv, TypeOK
<1>9. QED
  BY <1>1, <1>4, <1>6, <1>7, <1>8, TransactionKeeps

LEMMA ResetKeeps == IInv /\ Reset => IInv'
<1>1. SUFFICES ASSUME IInv, Reset PROVE IInv'
  OBVIOUS
<1> DEFINE txs == [c \in Connectors |-> Inactive(tx[c])]
<1>2. \A c \in Connectors : Inactive(tx[c]) \in Tx \cup {None} /\ Known(c, Inactive(tx[c]))
  <2>1. TAKE c \in Connectors
  <2>2. CASE tx[c] = None
    BY <2>2 DEF Inactive, Known
  <2>3. CASE tx[c] # None
    <3>1. tx[c] \in Tx
      BY <1>1, <2>3 DEF IInv, TypeOK
    <3>2. Same(tx[c], Inactive(tx[c])) \/ Inactive(tx[c]) = None
      BY <3>1, InactiveIsSame
    <3>3. CASE Inactive(tx[c]) = None
      BY <3>3 DEF Known
    <3>4. QED
      BY <1>1, <2>3, <3>2, <3>3, SameIsKnown
  <2>4. QED
    BY <2>2, <2>3
<1>3. txs \in [Connectors -> Tx \cup {None}] /\ \A c \in Connectors : Known(c, txs[c])
  BY <1>2
<1>4. Transactions(txs)
  BY <1>1 DEF Reset
<1>5. ops' \in 0 .. MaxOps /\ resets' \in 0 .. ResetTries
  BY <1>1, OpType, ConstantsAssumption DEF Reset, IInv, TypeOK
<1> HIDE DEF txs
<1>6. QED
  BY <1>1, <1>3, <1>4, <1>5, TransactionsKeep

LEMMA RebootKeeps == IInv /\ Reboot => IInv'
<1>1. SUFFICES ASSUME IInv, Reboot PROVE IInv'
  OBVIOUS
<1>2. \A c \in Connectors : tx'[c] \in Tx \cup {None} /\ Known(c, tx'[c])
  <2>1. TAKE c \in Connectors
  <2>2. tx'[c] = IF tx[c] = None THEN None ELSE [tx[c] EXCEPT !.authorize = None]
    BY <1>1 DEF Reboot
  <2>3. CASE tx[c] = None
    BY <2>2, <2>3 DEF Known
  <2>4. CASE tx[c] # None
    <3>1. tx[c] \in Tx
      BY <1>1, <2>4 DEF IInv, TypeOK
    <3>2. tx'[c] \in Tx /\ tx'[c].authorize = None
      BY <2>2, <2>4, <3>1 DEF Tx
    <3>3. QED
      BY <3>2 DEF Known
  <2>5. QED
    BY <2>3, <2>4
<1>3. tx' \in [Connectors -> Tx \cup {None}]
  <2>1. tx' = [c \in Connectors |-> tx'[c]]
    BY <1>1 DEF Reboot
  <2>2. QED
    BY <1>2, <2>1
<1>4. UNCHANGED <<time, slots>>
  BY <1>1 DEF Reboot
<1>5. TypeOK'
  <2>1. ops' \in 0 .. MaxOps /\ resets' \in 0 .. ResetTries
    BY <1>1, OpType, ConstantsAssumption DEF Reboot, IInv
  <2>2. QED
    BY <1>1, <1>3, <2>1, RememberType DEF Reboot, IInv, TypeOK
<1>6. Remember
  BY <1>1 DEF Reboot
<1>7. QED
  BY <1>1, <1>2, <1>3, <1>4, <1>5, <1>6, KnownKeeps, KeepsIInv

\* Reservations end, or time goes on: no reservation is in force that was not before.
LEMMA FewerInForce ==
    ASSUME IInv, time \in Int, time' \in Int, time <= time', DOMAIN slots' = DOMAIN slots,
           \A s \in 1 .. NumSlots : slots'[s] \in {slots[s], NoReservation},
           tx' \in [Connectors -> Tx \cup {None}],
           \A c \in Connectors : tx'[c] = None \/ (tx[c] # None /\ Same(tx[c], tx'[c]))
    PROVE  Keeps
<1>1. \A s \in 1 .. NumSlots : slots[s].expiry \in Nat /\ slots[s].connector \in Int
  BY SlotsType DEF IInv
<1>2. \A c \in Connectors, s \in 1 .. NumSlots : slots'[s].connector = c => slots'[s] = slots[s]
  BY DEF NoReservation, Connectors
<1>3. DOMAIN slots = 1 .. NumSlots
  BY SlotsType DEF IInv
<1>4. Undecided'
  <2>1. SUFFICES ASSUME NEW c \in Connectors, tx'[c] # None, tx'[c].authorize # None
                 PROVE  ~tx'[c].authorized
    BY DEF Undecided, Waits
  <2>2. QED
    BY <2>1 DEF Same, IInv, Undecided, Waits
<1>5. ASSUME NEW c \in Connectors, c \notin reassigned PROVE OneInForce(c)'
  <2>1. SUFFICES ASSUME NEW s \in 1 .. NumSlots, NEW t \in 1 .. NumSlots,
                        slots'[s].connector = c, slots'[t].connector = c, s < t
                 PROVE  slots'[t].expiry < time'
    BY DEF OneInForce
  <2>2. slots'[s] = slots[s] /\ slots'[t] = slots[t]
    BY <1>2, <2>1
  <2>3. slots[t].expiry < time
    BY <1>5, <2>1, <2>2 DEF IInv, OneInForce
  <2>4. QED
    BY <1>1, <2>2, <2>3
<1>6. ASSUME NEW c \in Connectors, c \notin reassigned PROVE Unblocked(c)'
  <2>1. SUFFICES ASSUME tx'[c] # None, tx'[c].authorize # None,
                        ~tx'[c].authorize.blocked, NEW s \in InForce(c)'
                 PROVE  slots'[s].idTag = tx'[c].idTag
    BY DEF Unblocked, Waits
  <2>2. s \in InForce(c) /\ slots'[s] = slots[s]
    <3>1. s \in 1 .. NumSlots /\ slots'[s].connector = c /\ time' <= slots'[s].expiry
      BY <1>3 DEF InForce
    <3>2. slots'[s] = slots[s]
      BY <1>2, <3>1
    <3>3. time <= slots[s].expiry
      BY <1>1, <3>1, <3>2
    <3>4. QED
      BY <1>3, <3>1, <3>2, <3>3 DEF InForce
  <2>3. tx[c] # None /\ tx'[c].authorize = tx[c].authorize /\ tx'[c].idTag = tx[c].idTag
    BY <2>1 DEF Same
  <2>4. slots[s].idTag = tx[c].idTag
    BY <1>6, <2>1, <2>2, <2>3 DEF IInv, Unblocked, Waits
  <2>5. QED
    BY <2>2, <2>3, <2>4
<1>7. QED
  BY <1>4, <1>5, <1>6 DEF Keeps

\* What stays with a transaction that nothing happens to.
LEMMA UnchangedIsSame ==
    ASSUME IInv, tx' = tx
    PROVE  /\ tx' \in [Connectors -> Tx \cup {None}]
           /\ \A c \in Connectors : tx'[c] = None \/ (tx[c] # None /\ Same(tx[c], tx'[c]))
<1>1. tx \in [Connectors -> Tx \cup {None}]
  BY DEF IInv, TypeOK
<1>2. \A t \in Tx : Same(t, t)
  BY DEF Same
<1>3. QED
  BY <1>1, <1>2

LEMMA LoopKeeps == IInv /\ Loop => IInv'
<1>1. SUFFICES ASSUME IInv, Loop PROVE IInv'
  OBVIOUS
<1> DEFINE operative == {c \in AllConnectors : OperativeWith(tx', c)}
<1>2. slots' = KeptSlots(tx', operative)
  BY <1>1 DEF Loop
<1> HIDE DEF operative
<1>3. DOMAIN slots = 1 .. NumSlots /\ slots \in [1 .. NumSlots -> Reservation]
  BY <1>1, SlotsType DEF IInv, TypeOK
<1>4. /\ DOMAIN slots' = DOMAIN slots
      /\ \A s \in 1 .. NumSlots : slots'[s] \in {slots[s], NoReservation}
  BY <1>2, <1>3 DEF KeptSlots
<1>5. slots' \in [1 .. NumSlots -> Reservation]
  <2>1. NoReservation \in Reservation
    BY ConstantsAssumption DEF NoReservation, Reservation
  <2>2. \A s \in 1 .. NumSlots : slots'[s] \in Reservation
    BY <1>3, <1>4, <2>1
  <2>3. slots' = [s \in 1 .. NumSlots |-> slots'[s]]
    BY <1>2, <1>3 DEF KeptSlots
  <2>4. QED
    BY <2>2, <2>3
<1>6. tx' = [c \in Connectors |-> Looped(c)]
  BY <1>1 DEF Loop
<1>7. \A c \in Connectors : Looped(c) = None \/ (tx[c] # None /\ Same(tx[c], Looped(c)))
  BY <1>1, TxIsKnown, LoopedIsSame
<1>8. tx' \in [Connectors -> Tx \cup {None}]
  BY <1>6, <1>7 DEF Same
<1>9. \A c \in Connectors : tx'[c] = None \/ (tx[c] # None /\ Same(tx[c], tx'[c]))
  BY <1>6, <1>7
<1>10. time' = time /\ time \in Int
  BY <1>1, SlotsType DEF Loop, IInv
<1>11. Keeps
  BY <1>1, <1>4, <1>8, <1>9, <1>10, FewerInForce
<1>12. TypeOK'
  <2>1. resets' \in 0 .. ResetTries
    BY <1>1, ConstantsAssumption DEF Loop, ResetsLeft, IInv, TypeOK
  <2>2. QED
    BY <1>1, <1>5, <1>8, <2>1, RememberType DEF Loop, IInv, TypeOK
<1>13. Remember
  BY <1>1 DEF Loop
<1>14. QED
  BY <1>11, <1>12, <1>13, KeepsIInv

LEMMA TickKeeps == IInv /\ Tick => IInv'
<1>1. SUFFICES ASSUME IInv, Tick PROVE IInv'
  OBVIOUS
<1>2. time \in Int /\ time' \in Int /\ time <= time' /\ slots' = slots /\ tx' = tx
  BY <1>1, SlotsType DEF Tick, IInv
<1>3. Keeps /\ Remember
  BY <1>1, <1>2, UnchangedIsSame, FewerInForce DEF Tick
<1>4. TypeOK'
  <2>1. time' \in 1 .. LastTime
    BY <1>1, ConstantsAssumption DEF Tick, IInv, TypeOK
  <2>2. QED
    BY <1>1, <2>1, RememberType DEF Tick, IInv, TypeOK
<1>5. QED
  BY <1>3, <1>4, KeepsIInv

\* The clock, faults and the availability of connectors are no part of the invariant.
LEMMA OthersKeep == IInv /\ (SetClock \/ Fault \/ ChangeAvailability) => IInv'
<1>1. SUFFICES ASSUME IInv, SetClock \/ Fault \/ ChangeAvailability PROVE IInv'
  OBVIOUS
<1>2. time' = time /\ slots' = slots /\ tx' = tx /\ Remember
  BY <1>1 DEF SetClock, Fault, ChangeAvailability
<1>3. Keeps
  <2>1. time \in Int
    BY <1>1, SlotsType DEF IInv
  <2>2. QED
    BY <1>1, <1>2, <2>1, UnchangedIsSame, FewerInForce
<1>4. TypeOK'
  <2>1. CASE SetClock
    BY <1>1, <2>1, RememberType DEF SetClock, IInv, TypeOK
  <2>2. CASE Fault
    <3>1. fault' \subseteq AllConnectors
      BY <1>1, <2>2 DEF Fault, IInv, TypeOK
    <3>2. ops' \in 0 .. MaxOps
      BY <1>1, <2>2, OpType DEF Fault, IInv
    <3>3. QED
      BY <1>1, <2>2, <3>1, <3>2, RememberType DEF Fault, IInv, TypeOK
  <2>3. CASE ChangeAvailability
    <3>1. PICK c \in AllConnectors, available \in BOOLEAN :
              availability' = [d \in AllConnectors |->
                                  IF c \in {0, d} THEN available ELSE availability[d]]
      BY <2>3 DEF ChangeAvailability
    <3>2. availability' \in [AllConnectors -> BOOLEAN]
      BY <1>1, <3>1 DEF IInv, TypeOK
    <3>3. ops' \in 0 .. MaxOps
      BY <1>1, <2>3, OpType DEF ChangeAvailability, IInv
    <3>4. QED
      BY <1>1, <2>3, <3>2, <3>3, RememberType DEF ChangeAvailability, IInv, TypeOK
  <2>4. QED
    BY <1>1, <2>1, <2>2, <2>3
<1>5. QED
  BY <1>2, <1>3, <1>4, KeepsIInv

\* The reservation with an id, and the slot for a new one.
LEMMA SlotIs ==
    ASSUME TypeOK, NEW S, S \subseteq 1 .. NumSlots, S # {}
    PROVE  Min(S) \in S /\ Min(S) \in 1 .. NumSlots /\ \A s \in S : Min(S) <= s
<1>1. S \subseteq Nat
  OBVIOUS
<1>2. QED
  BY <1>1, MinIs

LEMMA CancelReservationKeeps == IInv /\ CancelReservation => IInv'
<1>1. SUFFICES ASSUME IInv, CancelReservation PROVE IInv'
  OBVIOUS
<1>2. PICK id \in ReservationIds :
          ById(id) # {} /\ slots' = [slots EXCEPT ![Min(ById(id))] = NoReservation]
  BY <1>1 DEF CancelReservation
<1>3. slots \in [1 .. NumSlots -> Reservation] /\ time \in Int
  BY <1>1, SlotsType DEF IInv, TypeOK
<1>4. NoReservation \in Reservation
  BY ConstantsAssumption DEF NoReservation, Reservation
<1>5. /\ DOMAIN slots' = DOMAIN slots
      /\ \A s \in 1 .. NumSlots : slots'[s] \in {slots[s], NoReservation}
      /\ slots' \in [1 .. NumSlots -> Reservation]
  BY <1>2, <1>3, <1>4
<1>6. time' = time /\ tx' = tx /\ Remember
  BY <1>1 DEF CancelReservation
<1>7. Keeps
  BY <1>1, <1>3, <1>5, <1>6, UnchangedIsSame, FewerInForce
<1>8. ops' \in 0 .. MaxOps
  BY <1>1, OpType DEF CancelReservation, IInv
<1>9. TypeOK'
  BY <1>1, <1>5, <1>8, RememberType DEF CancelReservation, IInv, TypeOK
<1>10. QED
  BY <1>6, <1>7, <1>9, KeepsIInv

\* An update of a reservation: what it does at a connector that it does not reassign is to
\* change the expiry of one in force there.
LEMMA UpdateKeeps ==
    ASSUME IInv, NEW p \in Active, NEW r \in Reservation,
           slots' = [slots EXCEPT ![p] = r], UNCHANGED <<time, tx>>
    PROVE  Keeps
<1>1. DOMAIN slots = 1 .. NumSlots /\ time \in Nat /\ p \in 1 .. NumSlots
  BY SlotsType DEF IInv, Active
<1>2. \A s \in 1 .. NumSlots :
          /\ slots'[s] = IF s = p THEN r ELSE slots[s]
          /\ slots[s].expiry \in Nat
  BY <1>1, SlotsType DEF IInv
<1>3. Undecided'
  BY DEF IInv, Undecided, Waits
<1>4. ASSUME NEW c \in Connectors, c \notin reassigned, c \notin Moved
      PROVE  OneInForce(c)' /\ Unblocked(c)'
  <2>1. \A s \in 1 .. NumSlots : slots'[s].connector = c =>
            /\ slots[s].connector = c /\ slots'[s].idTag = slots[s].idTag
            /\ slots'[s] = slots[s] \/ time <= slots[s].expiry
    <3>1. TAKE s \in 1 .. NumSlots
    <3>2. HAVE slots'[s].connector = c
    <3>3. CASE slots'[s] = slots[s]
      BY <3>2, <3>3
    <3>4. CASE slots'[s] # slots[s]
      <4>1. s \in Active
        BY <1>2, <3>4
      <4>2. QED
        BY <1>4, <3>2, <3>4, <4>1 DEF Moved
    <3>5. QED
      BY <3>3, <3>4
  <2>2. OneInForce(c)'
    <3>1. SUFFICES ASSUME NEW s \in 1 .. NumSlots, NEW t \in 1 .. NumSlots,
                          slots'[s].connector = c, slots'[t].connector = c, s < t
                   PROVE  slots'[t].expiry < time
      BY DEF OneInForce
    <3>2. slots[t].expiry < time
      BY <1>4, <2>1, <3>1 DEF IInv, OneInForce
    <3>3. slots'[t] = slots[t]
      BY <1>1, <1>2, <2>1, <3>1, <3>2
    <3>4. QED
      BY <3>2, <3>3
  <2>3. Unblocked(c)'
    <3>1. SUFFICES ASSUME tx[c] # None, tx[c].authorize # None, ~tx[c].authorize.blocked,
                          NEW s \in InForce(c)'
                   PROVE  slots'[s].idTag = tx[c].idTag
      BY DEF Unblocked, Waits
    <3>2. s \in 1 .. NumSlots /\ slots'[s].connector = c /\ time <= slots'[s].expiry
      BY <1>1 DEF InForce
    <3>3. s \in InForce(c) /\ slots'[s].idTag = slots[s].idTag
      BY <1>1, <2>1, <3>2 DEF InForce
    <3>4. QED
      BY <1>4, <3>1, <3>3 DEF IInv, Unblocked, Waits
  <2>4. QED
    BY <2>2, <2>3
<1>5. QED
  BY <1>3, <1>4 DEF Keeps

\* A new reservation: nothing is reserved at its connector, as far as the charge point
\* knows, and no transaction is there.
LEMMA NewReservationKeeps ==
    ASSUME IInv, Free # {}, NEW r \in Reservation,
           slots' = [slots EXCEPT ![Min(Free)] = r], UNCHANGED <<time, tx>>,
           r.connector \in Connectors =>
               ReservationAt(r.connector) = {} /\ tx[r.connector] = None
    PROVE  Keeps
<1>1. DOMAIN slots = 1 .. NumSlots /\ time \in Nat /\ Now \in Nat /\ Now <= time
  BY SlotsType DEF IInv
<1>2. PICK p : p = Min(Free)
  OBVIOUS
<1>3. p \in 1 .. NumSlots /\ \A s \in Free : p <= s
  <2>1. Free \subseteq 1 .. NumSlots
    BY <1>1 DEF Free
  <2>2. QED
    BY <1>2, <2>1, SlotIs DEF IInv
<1>4. \A s \in 1 .. NumSlots :
          /\ slots'[s] = IF s = p THEN r ELSE slots[s]
          /\ slots[s].expiry \in Nat
  BY <1>1, <1>2, SlotsType DEF IInv
<1>5. \A s \in 1 .. NumSlots :
          r.connector \in Connectors /\ slots[s].connector = r.connector =>
              p <= s /\ slots[s].expiry < time
  <2>1. TAKE s \in 1 .. NumSlots
  <2>2. HAVE r.connector \in Connectors /\ slots[s].connector = r.connector
  <2>3. s \notin Active
    BY <2>2 DEF ReservationAt
  <2>4. s \in Free
    BY <1>1, <2>3 DEF Free
  <2>5. slots[s].connector >= 0
    BY <2>2 DEF Connectors
  <2>6. ~(Now <= slots[s].expiry)
    BY <1>1, <2>3, <2>5 DEF Active, IsActive
  <2>7. QED
    BY <1>1, <1>3, <1>4, <2>4, <2>6
<1>6. ASSUME NEW c \in Connectors, c \notin reassigned PROVE OneInForce(c)'
  <2>1. SUFFICES ASSUME NEW s \in 1 .. NumSlots, NEW t \in 1 .. NumSlots,
                        slots'[s].connector = c, slots'[t].connector = c, s < t
                 PROVE  slots'[t].expiry < time
    BY DEF OneInForce
  <2>2. CASE t = p
    <3>1. slots[s].connector = r.connector /\ r.connector \in Connectors
      BY <1>4, <2>1, <2>2
    <3>2. p <= s
      BY <1>5, <3>1
    <3>3. QED
      BY <1>3, <2>1, <2>2, <3>2
  <2>3. CASE s = p
    <3>1. slots[t].connector = r.connector /\ r.connector \in Connectors /\ t # p
      BY <1>4, <2>1, <2>3
    <3>2. QED
      BY <1>4, <1>5, <3>1
  <2>4. CASE s # p /\ t # p
    BY <1>4, <1>6, <2>1, <2>4 DEF IInv, OneInForce
  <2>5. QED
    BY <2>2, <2>3, <2>4
<1>7. Undecided'
  BY DEF IInv, Undecided, Waits
<1>8. ASSUME NEW c \in Connectors, c \notin reassigned PROVE Unblocked(c)'
  <2>1. SUFFICES ASSUME tx[c] # None, tx[c].authorize # None,
                        ~tx[c].authorize.blocked, NEW s \in InForce(c)'
                 PROVE  slots'[s].idTag = tx[c].idTag
    BY DEF Unblocked, Waits
  <2>2. s \in 1 .. NumSlots /\ slots'[s].connector = c /\ time <= slots'[s].expiry
    BY <1>1 DEF InForce
  <2>3. s # p
    BY <1>4, <2>1, <2>2
  <2>4. s \in InForce(c) /\ slots'[s] = slots[s]
    BY <1>1, <1>4, <2>2, <2>3 DEF InForce
  <2>5. QED
    BY <1>8, <2>1, <2>4 DEF IInv, Unblocked, Waits
<1>9. QED
  BY <1>6, <1>7, <1>8 DEF Keeps

LEMMA ReserveNowKeeps == IInv /\ ReserveNow => IInv'
<1>1. SUFFICES ASSUME IInv, ReserveNow PROVE IInv'
  OBVIOUS
<1>2. PICK id \in ReservationIds, c \in AllConnectors, idTag \in IdTags, e \in ExpiryDates :
          LET r == [id |-> id, connector |-> c, expiry |-> e, idTag |-> idTag]
          IN  \/ /\ ById(id) # {}
                 /\ slots' = [slots EXCEPT ![Min(ById(id))] = r]
              \/ /\ c # 0 => Status(c) = "Available"
                 /\ CanReserve(c)
                 /\ slots' = [slots EXCEPT ![Min(Free)] = r]
  BY <1>1 DEF ReserveNow
<1>3. PICK r : r = [id |-> id, connector |-> c, expiry |-> e, idTag |-> idTag]
  OBVIOUS
<1>4. r \in Reservation /\ r.connector = c
  BY <1>3, ConstantsAssumption DEF Reservation, AllConnectors
<1>5. UNCHANGED <<time, tx>> /\ Remember
  BY <1>1 DEF ReserveNow
<1>6. slots \in [1 .. NumSlots -> Reservation] /\ Active \subseteq 1 .. NumSlots
  BY <1>1, SlotsType DEF IInv, TypeOK, Active
<1>7. ASSUME ById(id) # {}, slots' = [slots EXCEPT ![Min(ById(id))] = r]
      PROVE  Keeps
  <2>1. Min(ById(id)) \in ById(id)
    <3>1. ById(id) \subseteq 1 .. NumSlots
      BY <1>6 DEF ById
    <3>2. QED
      BY <1>1, <1>7, <3>1, SlotIs DEF IInv
  <2>2. Min(ById(id)) \in Active
    BY <2>1 DEF ById
  <2>3. QED
    BY <1>1, <1>4, <1>5, <1>7, <2>2, UpdateKeeps
<1>8. ASSUME c # 0 => Status(c) = "Available", CanReserve(c),
             slots' = [slots EXCEPT ![Min(Free)] = r]
      PROVE  Keeps
  <2>1. Free # {}
    BY <1>8 DEF CanReserve
  <2>2. c \in Connectors => ReservationAt(c) = {} /\ tx[c] = None
    BY <1>8 DEF Status, StatusWith, Connectors
  <2>3. QED
    BY <1>1, <1>4, <1>5, <1>8, <2>1, <2>2, NewReservationKeeps
<1>9. Keeps
  BY <1>2, <1>3, <1>7, <1>8
<1>10. slots' \in [1 .. NumSlots -> Reservation]
  BY <1>2, <1>3, <1>4, <1>6
<1>11. TypeOK'
  <2>1. ops' \in 0 .. MaxOps
    BY <1>1, OpType DEF ReserveNow, IInv
  <2>2. QED
    BY <1>1, <1>10, <2>1, RememberType DEF ReserveNow, IInv, TypeOK
<1>12. QED
  BY <1>5, <1>9, <1>11, KeepsIInv

LEMMA InitIInv == Init => IInv
<1>1. SUFFICES ASSUME Init PROVE IInv
  OBVIOUS
<1>2. TypeOK
  <2>1. NoReservation \in Reservation
    BY ConstantsAssumption DEF NoReservation, Reservation
  <2>2. /\ slots \in [1 .. NumSlots -> Reservation]
        /\ tx \in [Connectors -> Tx \cup {None}]
        /\ availability \in [AllConnectors -> BOOLEAN]
    BY <1>1, <2>1 DEF Init
  <2>3. time \in 1 .. LastTime /\ resets \in 0 .. ResetTries /\ ops \in 0 .. MaxOps
    BY <1>1, ConstantsAssumption DEF Init
  <2>4. QED
    BY <1>1, <2>2, <2>3 DEF Init, TypeOK
<1>3. ASSUME NEW c \in Connectors PROVE OneInForce(c)
  <2>1. \A s \in 1 .. NumSlots : slots[s].connector = -1
    BY <1>1 DEF Init, NoReservation
  <2>2. QED
    BY <2>1 DEF OneInForce, Connectors
<1>4. Undecided /\ \A c \in Connectors : Unblocked(c)
  BY <1>1 DEF Init, Undecided, Unblocked, Waits
<1>5. QED
  BY <1>2, <1>3, <1>4 DEF IInv

LEMMA StepIInv == IInv /\ [Next]_stVars => IInv'
<1>1. SUFFICES ASSUME IInv, [Next]_stVars PROVE IInv'
  OBVIOUS
<1>2. CASE ReserveNow
  BY <1>1, <1>2, ReserveNowKeeps
<1>3. CASE CancelReservation
  BY <1>1, <1>3, CancelReservationKeeps
<1>4. CASE Begin
  BY <1>1, <1>4, BeginKeeps
<1>5. CASE Authorize
  BY <1>1, <1>5, AuthorizeKeeps
<1>6. CASE End
  BY <1>1, <1>6, EndKeeps
<1>7. CASE RemoteStart
  BY <1>1, <1>7, RemoteStartKeeps
<1>8. CASE Reset
  BY <1>1, <1>8, ResetKeeps
<1>9. CASE SetClock \/ Fault \/ ChangeAvailability
  BY <1>1, <1>9, OthersKeep
<1>10. CASE Loop
  BY <1>1, <1>10, LoopKeeps
<1>11. CASE Tick
  BY <1>1, <1>11, TickKeeps
<1>12. CASE Reboot
  BY <1>1, <1>12, RebootKeeps
<1>13. CASE UNCHANGED stVars
  BY <1>1, <1>13 DEF stVars, IInv, TypeOK, OneInForce, Undecided, Unblocked, InForce, Waits
<1>14. QED
  BY <1>1, <1>2, <1>3, <1>4, <1>5, <1>6, <1>7, <1>8, <1>9, <1>10, <1>11, <1>12, <1>13 DEF Next

-----------------------------------------------------------------------------
(* The theorems.                                                            *)

\* IInv holds in every state.
THEOREM Invariance == Spec => []IInv
<1>1. Init => IInv
  BY InitIInv
<1>2. IInv /\ [Next]_stVars => IInv'
  BY StepIInv
<1>3. QED
  BY <1>1, <1>2, PTL DEF Spec

\* The types of the charge point: its transactions, reservations and counters.
THEOREM TypeCorrect == Spec => []TypeOK
<1>1. IInv => TypeOK
  BY DEF IInv
<1>2. QED
  BY <1>1, Invariance, PTL

\* A step that gives a connector a transaction, or takes it away, and one that does not.
LEMMA HonouredBySame ==
    ASSUME IInv, NEW c \in Connectors, Waits(c),
           tx'[c] = None \/ Same(tx[c], tx'[c])
    PROVE  ~(tx'[c] # None /\ tx'[c].authorized)
  BY DEF IInv, Undecided, Same

LEMMA StepHonoured ==
    ASSUME IInv, Next, NEW c \in Connectors \ reassigned, Waits(c),
           tx'[c] # None, tx'[c].authorized
    PROVE  \A s \in InForce(c) : slots[s].idTag = tx[c].idTag
<1>1. tx \in [Connectors -> Tx \cup {None}] /\ tx[c] \in Tx /\ tx[c] # None
  BY DEF IInv, TypeOK, Waits
<1>2. Same(tx[c], tx[c])
  BY <1>1 DEF Same
<1>3. tx'[c] # tx[c] /\ ~Same(tx[c], tx'[c])
  BY <1>2, HonouredBySame
<1>4. CASE Authorize
  <2>1. PICK d \in Connectors :
            /\ tx[d] # None /\ tx[d].authorize # None
            /\ \E t \in {Accepted(d), Rejected(d), TimedOut(d)} :
                  Transactions([tx EXCEPT ![d] = t])
    BY <1>4 DEF Authorize
  <2>2. PICK t \in {Accepted(d), Rejected(d), TimedOut(d)} : tx' = [tx EXCEPT ![d] = t]
    BY <2>1 DEF Transactions
  <2>3. d = c /\ tx'[c] = t
    BY <1>1, <1>3, <2>2
  <2>4. QED
    BY <2>1, <2>2, <2>3, DecidedIsKnown
<1>5. CASE Begin
  <2>1. PICK d \in Connectors, idTag \in IdTags :
            tx[d] = None /\ tx' = [tx EXCEPT ![d] = Preparing(d, idTag)]
    BY <1>5 DEF Begin, Transactions
  <2>2. tx'[c] = tx[c]
    BY <1>1, <2>1
  <2>3. QED
    BY <1>3, <2>2
<1>6. CASE RemoteStart
  <2>1. PICK e \in AllConnectors, idTag \in IdTags :
            /\ Selected(e) # {}
            /\ LET d == Min(Selected(e))
               IN  Transactions([tx EXCEPT ![d] =
                       IF AuthorizeRemoteTxRequests THEN Preparing(d, idTag)
                       ELSE BegunAuthorized(d, idTag)])
    BY <1>6 DEF RemoteStart
  <2>2. PICK d : d = Min(Selected(e))
    OBVIOUS
  <2>3. d \in Connectors /\ tx[d] = None
    BY <2>1, <2>2, SelectedIs
  <2>4. tx' = [tx EXCEPT ![d] = IF AuthorizeRemoteTxRequests THEN Preparing(d, idTag)
                                ELSE BegunAuthorized(d, idTag)]
    BY <2>1, <2>2 DEF Transactions
  <2>5. tx'[c] = tx[c]
    BY <1>1, <2>3, <2>4
  <2>6. QED
    BY <1>3, <2>5
<1>7. CASE End
  <2>1. PICK d \in Connectors : tx' = [tx EXCEPT ![d] = Inactive(@)]
    BY <1>7 DEF End, Transactions
  <2>2. tx'[c] = tx[c] \/ tx'[c] = Inactive(tx[c])
    BY <1>1, <2>1
  <2>3. QED
    BY <1>1, <1>3, <2>2, InactiveIsSame
<1>8. CASE Reset
  <2>1. tx'[c] = Inactive(tx[c])
    BY <1>8 DEF Reset, Transactions
  <2>2. QED
    BY <1>1, <1>3, <2>1, InactiveIsSame
<1>9. CASE Loop
  <2>1. tx'[c] = Looped(c)
    BY <1>9 DEF Loop
  <2>2. QED
    BY <1>1, <1>3, <2>1, LoopedIsSame
<1>10. CASE Reboot
  <2>1. tx'[c] = [tx[c] EXCEPT !.authorize = None]
    BY <1>10 DEF Reboot
  <2>2. Same(tx[c], tx'[c])
    BY <1>1, <2>1 DEF Same, Tx
  <2>3. QED
    BY <1>3, <2>2
<1>11. CASE ReserveNow \/ CancelReservation \/ ChangeAvailability \/ Fault \/ Tick \/ SetClock
  BY <1>3, <1>11 DEF ReserveNow, CancelReservation, ChangeAvailability, Fault, Tick, SetClock
<1>12. QED
  BY <1>4, <1>5, <1>6, <1>7, <1>8, <1>9, <1>10, <1>11 DEF Next

\* Who waits for Authorize gets no transaction at a connector that is reserved for another
\* idTag, by an answer in time or by the timeout of the Request, whatever the server does
\* with reservations meanwhile, unless it has reassigned a known one to this connector.
THEOREM ReservationsAreHonoured == Spec => ReservationHonoured
<1>1. IInv /\ [Next]_stVars => [\A c \in Connectors \ reassigned : Honours(c)]_stVars
  BY StepHonoured DEF Honours
<1>2. QED
  BY <1>1, Invariance, PTL DEF Spec, ReservationHonoured

\* What ends a reservation in loop().
LEMMA StepKept ==
    ASSUME IInv, Next, NEW s \in Active, slots'[s] # slots[s], ops' = ops
    PROVE  \/ slots[s].connector \in fault \/ ~availability[slots[s].connector]
           \/ \E c \in Connectors :
                 /\ tx[c] # None /\ tx[c].authorized
                 /\ \/ slots[s].connector = c
                    \/ tx[c].idTag = slots[s].idTag
                    \/ tx[c].reservation = slots[s].id
<1>1. ~Op
  BY OpType DEF IInv
<1>2. Loop
  BY <1>1 DEF Next, ReserveNow, CancelReservation, Begin, Authorize, Transactions, End,
              RemoteStart, Reset, ChangeAvailability, Fault, Tick, SetClock, Reboot
<1>3. PICK r : r = slots[s]
  OBVIOUS
<1>4. s \in 1 .. NumSlots /\ r.connector \in AllConnectors
  <2>1. s \in 1 .. NumSlots /\ r.connector >= 0
    BY <1>3, SlotsType DEF Active, IsActive, IInv
  <2>2. r.connector \in -1 .. NumConnectors
    BY <1>3, <2>1, SlotsType DEF IInv, Reservation
  <2>3. QED
    BY <2>1, <2>2, ConstantsAssumption DEF AllConnectors
<1> DEFINE operative == {c \in AllConnectors : OperativeWith(tx', c)}
<1>5. Ended(r, tx', operative)
  <2>1. slots' = KeptSlots(tx', operative)
    BY <1>2 DEF Loop
  <2> HIDE DEF operative
  <2>2. s \in DOMAIN slots
    BY <1>4, SlotsType DEF IInv
  <2>3. QED
    BY <1>3, <2>1, <2>2 DEF KeptSlots
<1>6. CASE r.connector \notin operative
  <2>1. ~OperativeWith(tx', r.connector)
    BY <1>4, <1>6
  <2>2. QED
    BY <1>2, <1>3, <2>1 DEF OperativeWith, IsFaulted, Loop
<1> HIDE DEF operative
<1>7. ASSUME NEW c \in Connectors, tx'[c] # None, tx'[c].authorized
      PROVE  /\ tx[c] # None /\ tx[c].authorized
             /\ tx'[c].idTag = tx[c].idTag /\ tx'[c].reservation = tx[c].reservation
  <2>1. tx'[c] = Looped(c)
    BY <1>2 DEF Loop
  <2>2. tx[c] \in Tx \cup {None}
    BY DEF IInv, TypeOK
  <2>3. QED
    BY <1>7, <2>1, <2>2, LoopedIsSame DEF Same
<1>8. CASE r.connector \in operative
  <2>1. PICK c \in Connectors :
            /\ tx'[c] # None /\ tx'[c].authorized
            /\ \/ r.connector = c
               \/ tx'[c].reservation = r.id
               \/ tx'[c].idTag = r.idTag
    BY <1>5, <1>8 DEF Ended
  <2>2. QED
    BY <1>3, <1>7, <2>1
<1>9. QED
  BY <1>6, <1>8

\* A reservation that is taken for active ends with a request of the server, a transaction,
\* a fault or ChangeAvailability: loop() drops none after a reboot, or for another cause.
THEOREM ReservationsAreKept == Spec => ReservationKept
<1>1. IInv /\ [Next]_stVars =>
          [\A s \in Active :
              LET r == slots[s] IN
              (slots'[s] # r /\ ops' = ops) =>
                  \/ r.connector \in fault \/ ~availability[r.connector]
                  \/ \E c \in Connectors :
                        /\ tx[c] # None /\ tx[c].authorized
                        /\ r.connector = c \/ tx[c].idTag = r.idTag \/ tx[c].reservation = r.id]_stVars
  BY StepKept
<1>2. QED
  BY <1>1, Invariance, PTL DEF Spec, ReservationKept
=============================================================================
