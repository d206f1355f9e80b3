------------------------------- MODULE Station --------------------------------
(***************************************************************************)
(* The charge point of OCPP 1.6 with its connectors: their status and        *)
(* availability, the ReservationService, remote start and stop, Unlock and     *)
(* Reset, as far as they act on transactions.  How a transaction is kept and   *)
(* reported is the subject of Connector; here it only begins, is authorized,   *)
(* starts and stops.                                                       *)
(*                                                                         *)
(* There is no ConnectorPluggedInput, no local authorization and no FreeVend.  *)
(* All of this runs in one thread: loop() is one step, between the messages.   *)
(***************************************************************************)
EXTENDS Integers, FiniteSetsExt

CONSTANTS
    NumConnectors,    \* without connector 0
    IdTags, ReservationIds, ExpiryDates,
    ConnectorZeroSupported,      \* ReserveConnectorZeroSupported
    AuthorizeRemoteTxRequests, AllowOfflineTxForUnknownId, StopTransactionOnInvalidId,
    ResetTries,       \* 1 + ResetRetries
    NumSlots,         \* MO_RESERVATION_SIZE
    LastTime, MaxOps, \* bounds: the clock; requests, users and faults
    None

ASSUME ConstantsAssumption ==
    /\ NumConnectors \in Nat /\ NumSlots \in Nat
    /\ ExpiryDates \subseteq Nat /\ ReservationIds \subseteq Int
    /\ ResetTries \in Nat /\ LastTime \in Nat \ {0} /\ MaxOps \in Nat

Connectors == 1 .. NumConnectors
AllConnectors == 0 .. NumConnectors

VARIABLES
    time, clockSet,   \* the time, and whether the charge point knows it
    fault,            \* the connectors with an error input that is faulted
    availability,     \* availabilityBool of each connector, on the flash
    looped,           \* trackLoopExecute
    tx,               \* the transaction of each connector, or None
    slots,            \* the reservations, on the flash; connector -1 if there is none
    status,           \* currentStatus
    resets,           \* outstandingResetRetries
    ops,
    reassigned        \* history: the connectors with a reservation that was another one before

stVars == <<time, clockSet, fault, availability, looped, tx, slots, status, resets, ops,
            reassigned>>

-----------------------------------------------------------------------------
(* Reservations.                                                           *)

NoReservation == [id |-> -1, connector |-> -1, expiry |-> 0, idTag |-> None]
Now == IF clockSet THEN time ELSE 0
IsActive(r) == r.connector >= 0 /\ Now <= r.expiry
Active == {s \in DOMAIN slots : IsActive(slots[s])}
FirstOf(S) == slots[Min(S)]

Running(t) == t # None /\ t.phase = "running"
IsFaulted(c) == c \in fault

\* isOperative() once loop() has run: never withdrawn from a running transaction.
OperativeWith(txs, c) ==
    /\ ~IsFaulted(c)
    /\ \/ \E d \in IF c = 0 THEN Connectors ELSE {c} : Running(txs[d])
       \/ availability[c]
IsOperative(c) == looped /\ OperativeWith(tx, c)

\* getReservation(connectorId)
ReservationAt(c) == {s \in Active : slots[s].connector = c}

\* getStatus(), with the transactions txs and a connector that is operative or not.
StatusWith(txs, c, operative) ==
    IF IsFaulted(c) THEN "Faulted"
    ELSE IF ~operative THEN "Unavailable"
    ELSE IF c = 0 THEN "Available"
    ELSE IF Running(txs[c]) THEN "Charging"   \* Charging, SuspendedEV or SuspendedEVSE
    ELSE IF ReservationAt(c) # {} THEN "Reserved"
    ELSE IF txs[c] = None THEN "Available"
    ELSE IF status[c] \in {"Charging", "Finishing"} \/ txs[c].phase = "stopped" THEN "Finishing"
    ELSE "Preparing"
Status(c) == StatusWith(tx, c, IsOperative(c))

\* getReservation(idTag): one of connector 0 comes before the others.
OfIdTag(idTag) ==
    LET own == {s \in Active : slots[s].idTag = idTag}
        zero == {s \in own : slots[s].connector = 0}
    IN  IF zero # {} THEN {Min(zero)} ELSE IF own # {} THEN {Max(own)} ELSE {}

\* The reservations of connector 0 that need this connector as well as the others.
Unspecified == ReservationAt(0)
Blocking(c) ==
    LET free == {d \in Connectors \ {c} : Status(d) = "Available"}
    IN  IF ConnectorZeroSupported /\ Cardinality(free) < Cardinality(Unspecified)
        THEN {Max(Unspecified)} ELSE {}

\* getReservation(connectorId, idTag): the slot that applies, if any; idTag may be None.
Prevailing(c, idTag) ==
    IF c # 0 /\ ReservationAt(c) # {} THEN {Min(ReservationAt(c))}
    ELSE IF idTag # None /\ OfIdTag(idTag) # {} THEN OfIdTag(idTag)
    ELSE Blocking(c)

\* The reservations of a connector that have not expired.  Without the time, as after a
\* reboot, the charge point takes the expired ones for active, too.
InForce(c) == {s \in DOMAIN slots : slots[s].connector = c /\ time <= slots[s].expiry}

\* History: a connector is reassigned when an id that is known gets a reservation there that
\* it was not before, of another connector or idTag or past its expiry, until no reservation
\* is in force there and nobody waits.
Waits(c) == tx[c] # None /\ tx[c].authorize # None
Moved ==
    {slots'[s].connector : s \in {s \in Active :
        slots'[s] # slots[s] /\ ~(/\ slots'[s].connector = slots[s].connector
                                 /\ slots'[s].idTag = slots[s].idTag
                                 /\ time <= slots[s].expiry)}}
Remember ==
    reassigned' = {c \in Connectors : (c \in reassigned \/ c \in Moved)
                                      /\ (Waits(c)' \/ InForce(c)' # {})}

-----------------------------------------------------------------------------
(* ReserveNow and CancelReservation.                                        *)

Op == ops < MaxOps /\ ops' = ops + 1

ById(id) == {s \in Active : slots[s].id = id}
Free == DOMAIN slots \ Active

\* updateReservation(): a new reservation, if nothing blocks it and a slot is free.
\* A new reservation of connector 0 takes no account of itself.
CanReserve(c) == Prevailing(c, None) = {} /\ Free # {}

\* ReserveNow: a known id is updated in any case, another one needs a free connector.
ReserveNow ==
    /\ Op
    /\ \E id \in ReservationIds, c \in AllConnectors, idTag \in IdTags, e \in ExpiryDates :
          LET r == [id |-> id, connector |-> c, expiry |-> e, idTag |-> idTag]
          IN  /\ c = 0 => ConnectorZeroSupported
              /\ \/ /\ ById(id) # {}
                    /\ slots' = [slots EXCEPT ![Min(ById(id))] = r]
                 \/ /\ ById(id) = {}
                    /\ Status(0) \notin {"Faulted", "Unavailable"}
                    /\ c # 0 => Status(c) = "Available"
                    /\ CanReserve(c)
                    /\ slots' = [slots EXCEPT ![Min(Free)] = r]
    /\ UNCHANGED <<time, clockSet, fault, availability, looped, tx, status, resets>>
    /\ Remember

CancelReservation ==
    /\ Op
    /\ \E id \in ReservationIds :
          /\ ById(id) # {}
          /\ slots' = [slots EXCEPT ![Min(ById(id))] = NoReservation]
    /\ UNCHANGED <<time, clockSet, fault, availability, looped, tx, status, resets>>
    /\ Remember

-----------------------------------------------------------------------------
(* Transactions.                                                           *)

NewTx(idTag) ==
    [idTag |-> idTag, phase |-> "preparing", active |-> TRUE, authorized |-> FALSE,
     deauthorized |-> FALSE, reservation |-> -1, authorize |-> None]
ResvId(S) == IF S = {} THEN -1 ELSE FirstOf(S).id
Matches(S, idTag) == S = {} \/ FirstOf(S).idTag = idTag

\* beginTransaction(): the listener of the timeout gets what is known of reservations now.
Preparing(c, idTag) ==
    LET r == Prevailing(c, idTag)
    IN  [NewTx(idTag) EXCEPT
            !.authorize = [blocked |-> ~Matches(r, idTag), reservation |-> ResvId(r)]]

\* beginTransaction_authorized()
BegunAuthorized(c, idTag) ==
    LET r == Prevailing(c, idTag)
    IN  [NewTx(idTag) EXCEPT !.authorized = TRUE,
            !.reservation = IF Matches(r, idTag) THEN ResvId(r) ELSE -1]

Transactions(txs) ==
    /\ tx' = txs
    /\ UNCHANGED <<time, clockSet, fault, availability, looped, slots, status>>
    /\ Remember

Begin ==
    /\ Op
    /\ \E c \in Connectors, idTag \in IdTags :
          tx[c] = None /\ Transactions([tx EXCEPT ![c] = Preparing(c, idTag)])
    /\ UNCHANGED resets

\* The answer to Authorize, and its timeout.
Accepted(c) ==
    LET r == Prevailing(c, tx[c].idTag)
    IN  IF Matches(r, tx[c].idTag)
        THEN [tx[c] EXCEPT !.authorize = None, !.authorized = TRUE, !.reservation = ResvId(r)]
        ELSE [tx[c] EXCEPT !.authorize = None, !.active = FALSE]
Rejected(c) == [tx[c] EXCEPT !.authorize = None, !.deauthorized = TRUE]
\* Mutant: a reservation does not matter while offline.
TimedOutAnyway(c) ==
    IF ~AllowOfflineTxForUnknownId THEN [tx[c] EXCEPT !.authorize = None, !.active = FALSE]
    ELSE [tx[c] EXCEPT !.authorize = None, !.authorized = TRUE,
                       !.reservation = tx[c].authorize.reservation]
TimedOut(c) ==
    IF tx[c].authorize.blocked \/ ~AllowOfflineTxForUnknownId
    THEN [tx[c] EXCEPT !.authorize = None, !.active = FALSE]
    ELSE [tx[c] EXCEPT !.authorize = None, !.authorized = TRUE,
                       !.reservation = tx[c].authorize.reservation]
Authorize ==
    /\ \E c \in Connectors :
          /\ tx[c] # None /\ tx[c].authorize # None
          /\ \E t \in {Accepted(c), Rejected(c), TimedOut(c)} :
                Transactions([tx EXCEPT ![c] = t])
    /\ UNCHANGED <<resets, ops>>

Inactive(t) == IF t = None THEN None ELSE [t EXCEPT !.active = FALSE]

\* endTransaction() by the user, by RemoteStopTransaction, or by UnlockConnector.
End ==
    /\ Op
    /\ \E c \in Connectors :
          /\ tx[c] # None /\ tx[c].active
          /\ Transactions([tx EXCEPT ![c] = Inactive(@)])
    /\ UNCHANGED resets

\* RemoteStartTransaction at a connector, or at the first one that can take it.
CanStart(c) == tx[c] = None /\ IsOperative(c)
Selected(c) == IF c = 0 THEN {d \in Connectors : CanStart(d)} ELSE {d \in {c} : CanStart(d)}
RemoteStart ==
    /\ Op
    /\ \E c \in AllConnectors, idTag \in IdTags :
          /\ Selected(c) # {}
          /\ LET d == Min(Selected(c))
             IN  Transactions([tx EXCEPT ![d] =
                     IF AuthorizeRemoteTxRequests THEN Preparing(d, idTag)
                     ELSE BegunAuthorized(d, idTag)])
    /\ UNCHANGED resets

\* Reset: all transactions end, and the reset is due after a while, some times over.
Reset ==
    /\ Op
    /\ resets' = ResetTries
    /\ Transactions([c \in Connectors |-> Inactive(tx[c])])

\* ChangeAvailability, of connector 0 for all.  A running transaction goes on.
ChangeAvailability ==
    /\ Op
    /\ \E c \in AllConnectors, available \in BOOLEAN :
          availability' = [d \in AllConnectors |->
                              IF c \in {0, d} THEN available ELSE availability[d]]
    /\ UNCHANGED <<time, clockSet, fault, looped, tx, slots, status, resets>>
    /\ Remember

-----------------------------------------------------------------------------
(* loop()                                                                  *)

\* The transaction part of Connector::loop(): aborted and stopped transactions are
\* collected, deauthorized ones end, and then the transaction starts or stops.
Kept(t) ==
    IF t = None \/ t.phase = "stopped" \/ (t.phase = "preparing" /\ ~t.active) THEN None
    ELSE IF t.deauthorized /\ (t.phase = "preparing" \/ StopTransactionOnInvalidId)
         THEN Inactive(t) ELSE t
Starts(c) ==
    LET t == Kept(tx[c])
    IN  /\ t # None /\ t.phase = "preparing" /\ t.active /\ t.authorized
        /\ OperativeWith(tx, c)
Stops(c) == LET t == Kept(tx[c]) IN t # None /\ t.phase = "running" /\ ~t.active
Looped(c) ==
    IF Starts(c) THEN [Kept(tx[c]) EXCEPT !.phase = "running"]
    ELSE IF Stops(c) THEN [Kept(tx[c]) EXCEPT !.phase = "stopped"]
    ELSE Kept(tx[c])

\* ReservationService::loop(): a reservation ends when its connector cannot take it any
\* more, or when its idTag or id has been used for a transaction at any connector.
Ended(r, txs, operative) ==
    LET authorized == {c \in Connectors : txs[c] # None /\ txs[c].authorized}
    IN  \/ r.connector \notin operative
        \/ r.connector \in authorized
        \/ \E c \in authorized : txs[c].reservation = r.id \/ txs[c].idTag = r.idTag
KeptSlots(txs, operative) ==
    [s \in DOMAIN slots |->
        IF s \in Active /\ Ended(slots[s], txs, operative) THEN NoReservation ELSE slots[s]]

\* ResetService::loop(): a reset is due after a while, as long as retries are left.
ResetsLeft == IF resets > 0 THEN resets - 1 ELSE 0

\* Mutant: the reservations come before the connectors, which are Unavailable until then.
LoopReservationsFirst ==
    /\ looped' = TRUE
    /\ tx' = [c \in Connectors |-> Looped(c)]
    /\ status' = status
    /\ slots' = KeptSlots(tx, {c \in AllConnectors : IsOperative(c)})
    /\ resets' = resets
    /\ UNCHANGED <<time, clockSet, fault, availability, ops>>
    /\ Remember

\* Model::loop(): first the connectors, 0 before the others, then the reservations, then
\* the reset, when it is due; it may fail.  A connector that starts or stops a transaction
\* leaves its status for the next time.
Loop ==
    /\ looped' = TRUE
    /\ tx' = [c \in Connectors |-> Looped(c)]
    /\ status' = [c \in AllConnectors |->
           IF c = 0 THEN StatusWith(tx, 0, OperativeWith(tx, 0))
           ELSE IF Starts(c) \/ Stops(c) THEN status[c]
           ELSE StatusWith(tx', c, OperativeWith(tx', c))]
    /\ slots' = KeptSlots(tx', {c \in AllConnectors : OperativeWith(tx', c)})
    /\ resets' \in {resets, ResetsLeft}
    /\ UNCHANGED <<time, clockSet, fault, availability, ops>>
    /\ Remember

-----------------------------------------------------------------------------
(* The world, and the power.                                                *)

Fault ==
    /\ Op
    /\ \E c \in AllConnectors : fault' = IF IsFaulted(c) THEN fault \ {c} ELSE fault \union {c}
    /\ UNCHANGED <<time, clockSet, availability, looped, tx, slots, status, resets>>
    /\ Remember

Tick ==
    /\ time < LastTime /\ time' = time + 1
    /\ UNCHANGED <<clockSet, fault, availability, looped, tx, slots, status, resets, ops>>
    /\ Remember

\* BootNotification or Heartbeat bring the time.
SetClock ==
    /\ ~clockSet /\ clockSet' = TRUE
    /\ UNCHANGED <<time, fault, availability, looped, tx, slots, status, resets, ops>>
    /\ Remember

\* The transactions come back from their journal, without a listener for Authorize.
Reboot ==
    /\ Op
    /\ clockSet' = FALSE /\ looped' = FALSE /\ resets' = 0
    /\ status' = [c \in AllConnectors |-> "UNDEFINED"]
    /\ tx' = [c \in Connectors |->
                 IF tx[c] = None THEN None ELSE [tx[c] EXCEPT !.authorize = None]]
    /\ UNCHANGED <<time, fault, availability, slots>>
    /\ Remember

Init ==
    /\ time = 1 /\ clockSet = FALSE /\ fault = {} /\ looped = FALSE /\ resets = 0 /\ ops = 0
    /\ availability = [c \in AllConnectors |-> TRUE]
    /\ tx = [c \in Connectors |-> None]
    /\ slots = [s \in 1 .. NumSlots |-> NoReservation]
    /\ status = [c \in AllConnectors |-> "UNDEFINED"]
    /\ reassigned = {}

Next == \/ ReserveNow \/ CancelReservation \/ Begin \/ Authorize \/ End \/ RemoteStart
        \/ Reset \/ ChangeAvailability \/ Loop \/ Fault \/ Tick \/ SetClock \/ Reboot

Spec == Init /\ [][Next]_stVars

-----------------------------------------------------------------------------
(* Properties.                                                             *)

Reservation == [id : ReservationIds \cup {-1}, connector : -1 .. NumConnectors,
                expiry : ExpiryDates \cup {0}, idTag : IdTags \cup {None}]
Listener == [blocked : BOOLEAN, reservation : ReservationIds \cup {-1}]
Tx == [idTag : IdTags, phase : {"preparing", "running", "stopped"}, active : BOOLEAN,
       authorized : BOOLEAN, deauthorized : BOOLEAN, reservation : ReservationIds \cup {-1},
       authorize : Listener \cup {None}]

TypeOK ==
    /\ time \in 1 .. LastTime /\ clockSet \in BOOLEAN /\ looped \in BOOLEAN
    /\ fault \subseteq AllConnectors
    /\ availability \in [AllConnectors -> BOOLEAN]
    /\ tx \in [Connectors -> Tx \cup {None}]
    /\ slots \in [1 .. NumSlots -> Reservation]
    /\ resets \in 0 .. ResetTries /\ ops \in 0 .. MaxOps
    /\ reassigned \subseteq Connectors

\* A connector where somebody waits for Authorize gives no transaction to another idTag than
\* that of the reservation in force.
Honours(c) ==
    (Waits(c) /\ tx'[c] # None /\ tx'[c].authorized) =>
        \A s \in InForce(c) : slots[s].idTag = tx[c].idTag

\* Nobody who waits for Authorize at a connector with a reservation of another idTag gets a
\* transaction there, be it with the answer of the server or, offline, with what was known
\* when the transaction began: whatever is reserved, cancelled or expires meanwhile, and
\* however a reservation is updated at other connectors, or at this one for its own idTag.
\* Excepted is a connector that is reassigned: one to which ReserveNow with a known id moved
\* a reservation, or gave it another idTag or extended it when it had expired, as long as a
\* reservation is in force or somebody waits there.
ReservationHonoured == [][\A c \in Connectors \ reassigned : Honours(c)]_stVars

\* What the comments of the ReservationService promise of every connector: who starts a
\* transaction matches its reservation.
ReservationAlwaysHonoured == [][\A c \in Connectors : Honours(c)]_stVars

\* An active reservation is only ever lost to the server, to a transaction of its connector,
\* of its idTag or of its id, to a fault or to ChangeAvailability: a reboot never ends it.
ReservationKept ==
    [][\A s \in Active :
          LET r == slots[s] IN
          (slots'[s] # r /\ ops' = ops) =>
              \/ r.connector \in fault \/ ~availability[r.connector]
              \/ \E c \in Connectors :
                    /\ tx[c] # None /\ tx[c].authorized
                    /\ r.connector = c \/ tx[c].idTag = r.idTag \/ tx[c].reservation = r.id]_stVars
===============================================================================
