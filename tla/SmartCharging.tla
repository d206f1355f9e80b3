---------------------------- MODULE SmartCharging ----------------------------
(***************************************************************************)
(* Model/SmartCharging: the charging profiles that the server installs at    *)
(* the charge point (connector 0) and at a connector, their files, and the    *)
(* limit that follows from them.  The limit is not computed at every loop(),  *)
(* but only when the time of the next change, told by the last computation,   *)
(* has come, or when something has invalidated it.                           *)
(*                                                                         *)
(* Time is an integer; MinTime stands for a time that is not set.  One        *)
(* connector is modelled, number 1.                                        *)
(***************************************************************************)
EXTENDS Integers, Sequences, FiniteSets

CONSTANTS
    Profiles,              \* the profiles that a server may send
    MaxStackLevel,         \* MO_ChargeProfileMaxStackLevel
    MaxInstalled,          \* MO_MaxChargingProfilesInstalled
    MaxPeriods,            \* MO_ChargingScheduleMaxPeriods
    Day,                   \* the length of a day
    LastTime,              \* bound: of the clock
    MaxOps,                \* bound: requests of the server and restarts
    None

MinTime == 0
MaxTime == LastTime + 100
Unlimited == [power |-> 1000, current |-> 1000]

Level == 0 .. MaxStackLevel
\* The stacks of profiles, by connector and purpose.
Slot == {<<0, "Max">>, <<0, "TxDefault">>, <<1, "TxDefault">>, <<1, "Tx">>} \X Level
Purpose(slot) == slot[1][2]

VARIABLES
    now,
    tx,            \* the transaction of the connector: [rmt, start, id], or None
    stack,         \* Slot -> the profile in memory, or None
    file,          \* Slot -> the profile on the flash, or None
    track,         \* trackTxRmtProfileId, trackTxStart, trackTxId of the connector
    nextChange,    \* by connector
    output,        \* trackLimitOutput, by connector: what the charger was told last
    ops,
    fresh          \* history: nothing has happened since the last loop()

scVars == <<now, tx, stack, file, track, nextChange, output, ops, fresh>>

NoTrack == [rmt |-> -1, start |-> MaxTime, id |-> -1]
Least(a, b) == IF a < b THEN a ELSE b
Larger(a, b) == IF a > b THEN a ELSE b
RateMin(a, b) == [power |-> Least(a.power, b.power), current |-> Least(a.current, b.current)]

-----------------------------------------------------------------------------
(* The limit at a time, and the time up to which it is valid.  An accumulator *)
(* holds whether a limit is defined, the limit and nextChange.               *)

NotDefined(next) == [defined |-> FALSE, rate |-> Unlimited, next |-> next]

\* The start of the day of a recurring schedule.  The remainder of a negative number is
\* negative, so that before the first day it is a time to come, up to a day away.
DayStart(start, t) ==
    IF t >= start THEN t - ((t - start) % Day) ELSE t + ((start - t) % Day)

\* The time to which the periods of a schedule are relative, or None.
Basis(s, t, startOfCharging) ==
    CASE s.kind = "Absolute" -> IF s.start > MinTime THEN s.start
                                ELSE IF startOfCharging > MinTime /\ startOfCharging < t
                                THEN startOfCharging ELSE None
      [] s.kind = "Recurring" -> DayStart(s.start, t)
      [] s.kind = "Relative" -> IF startOfCharging > t THEN None ELSE startOfCharging

\* The walk over the periods: the last one that has begun sets the limit, the next one
\* sets nextChange.
PeriodLimit(s, t, basis, next) ==
    LET begun == {k \in DOMAIN s.periods :
                    \A j \in 1 .. k : s.periods[j].start <= t - basis}
        n == Cardinality(begun)
        end == IF n < Len(s.periods) THEN basis + s.periods[n + 1].start ELSE next
    IN  [defined |-> n > 0, next |-> end,
         rate |-> IF n = 0 THEN Unlimited
                  ELSE [Unlimited EXCEPT ![s.unit] = Larger(s.periods[n].limit, s.minRate)]]

\* ChargingSchedule::calculateLimit()
ScheduleLimit(s, t, startOfCharging, next) ==
    IF s.kind = "Absolute" /\ s.start > t THEN NotDefined(Least(next, s.start))
    ELSE LET basis == Basis(s, t, startOfCharging)
             next1 == IF s.kind = "Recurring" THEN Least(next, basis + Day) ELSE next
         IN  IF basis = None THEN NotDefined(next)
             ELSE IF t < basis THEN NotDefined(next1)
             ELSE IF s.duration > 0 /\ t - basis >= s.duration THEN NotDefined(next1)
             ELSE PeriodLimit(s, t, basis,
                    IF s.duration > 0 THEN Least(next1, basis + s.duration) ELSE next1)

\* ChargingProfile::calculateLimit()
ProfileLimit(p, t, startOfCharging, next) ==
    IF t > p.validTo /\ p.validTo > MinTime THEN NotDefined(next)
    ELSE IF t < p.validFrom THEN NotDefined(Least(next, p.validFrom))
    ELSE ScheduleLimit(p, t, startOfCharging, next)

\* A stack, from the highest level down to the first profile that defines a limit.
StackLimit(st, cId, purpose, t, startOfCharging, next) ==
    LET acc[l \in 0 .. MaxStackLevel + 1] ==
            IF l = MaxStackLevel + 1 THEN NotDefined(next)
            ELSE LET above == acc[l + 1]
                     p == st[<<cId, purpose>>, l]
                 IN  IF above.defined \/ p = None THEN above
                     ELSE ProfileLimit(p, t, startOfCharging, above.next)
    IN  acc[0]

\* The TxProfiles of the transaction: of the remote start, of no particular transaction, or
\* of its id.
OfTransaction(st, tr) ==
    LET ofTx(p) == (tr.rmt >= 0 /\ tr.rmt = p.id) \/ p.tx < 0 \/ tr.id = p.tx
    IN  [s \in Slot |-> IF st[s] = None THEN None ELSE IF ofTx(st[s]) THEN st[s] ELSE None]

\* SmartChargingConnector::calculateLimit()
ConnectorLimit(st, tr, t) ==
    LET orElse(a, purpose, cId) ==
            IF a.defined \/ tr.start >= MaxTime THEN a
            ELSE StackLimit(st, cId, purpose, t, tr.start, a.next)
        own == StackLimit(OfTransaction(st, tr), 1, "Tx", t, tr.start, MaxTime)
        limit == orElse(orElse(own, "TxDefault", 1), "TxDefault", 0)
        cp == StackLimit(st, 0, "Max", t, tr.start, limit.next)
    IN  [rate |-> RateMin(limit.rate, cp.rate), next |-> cp.next]

\* SmartChargingService::calculateLimit(), for connector 0
ChargePointLimit(st, t) ==
    LET cp == StackLimit(st, 0, "Max", t, MinTime, MaxTime)
    IN  [rate |-> cp.rate, next |-> cp.next]

Limit(st, tr, c, t) == IF c = 0 THEN ChargePointLimit(st, t) ELSE ConnectorLimit(st, tr, t)

\* getCompositeSchedule(): the limits from now on, each from the end of the one before.
CompositeSchedule(c, duration, unit) ==
    LET periodsFrom[t \in now .. MaxTime, n \in 0 .. MaxPeriods] ==
            IF t - now >= duration \/ n = MaxPeriods THEN <<>>
            ELSE LET l == Limit(stack, track, c, t)
                 IN  <<[start |-> t - now, limit |-> l.rate[unit]]>>
                        \o periodsFrom[l.next, n + 1]
    IN  periodsFrom[now, 0]
ConnectorSchedule(duration, unit) == CompositeSchedule(1, duration, unit)
ChargePointSchedule(duration, unit) == CompositeSchedule(0, duration, unit)

\* GetCompositeSchedule; a connector that does not exist is refused.
GetCompositeSchedule(c, duration, unit) ==
    IF c = 0 THEN ChargePointSchedule(duration, unit)
    ELSE IF c = 1 THEN ConnectorSchedule(duration, unit)
    ELSE None

-----------------------------------------------------------------------------
(* The stacks and their files.                                             *)

Loaded == {s \in Slot : stack[s] # None}
Cleared(slots) == [s \in Slot |-> IF s \in slots THEN None ELSE stack[s]]
\* Files are removed for the profiles in memory only.
ClearedFile(slots) == [s \in Slot |-> IF s \in slots \cap Loaded THEN None ELSE file[s]]
\* printProfileFileName()
SlotOf(c, p) == <<<<c, p.purpose>>, p.level>>
Installed(st) == Cardinality({s \in Slot : st[s] # None})

\* Mutant: the connectors are not notified.
NotifiedChargePoint == [nextChange EXCEPT ![0] = now]

\* notifyProfilesUpdated(): the next loop() computes the limits anew.
Notified == [c \in {0, 1} |-> now]

\* loadChargingProfile(), loadChargingSchedule() and loadChargingSchedulePeriod(): what is
\* not refused.  The order of the periods is not looked at.
ValidPeriod(period) == period.start >= 0 /\ period.limit >= 0
ValidSchedule(p) ==
    /\ p.duration >= 0
    /\ Len(p.periods) \in 1 .. MaxPeriods
    /\ \A k \in DOMAIN p.periods : ValidPeriod(p.periods[k])
ValidProfile(p) == p.id >= 0 /\ p.level \in Level /\ ValidSchedule(p)

\* SetChargingProfile accepts a TxProfile for a running transaction only.
AcceptsProfile(c, p) ==
    /\ ValidProfile(p)
    /\ p.purpose = "Max" => c = 0
    /\ p.purpose = "Tx" =>
          /\ c = 1 /\ tx # None
          /\ tx.start < MaxTime /\ (p.tx >= 0 => p.tx = tx.id)

\* setChargingProfile(): first what has the same id goes; then the new profile is taken, if
\* there is room, and stored.  If this fails, it goes again.
InstallProfile(c, p) ==
    LET same == {s \in Loaded : stack[s].id = p.id}
        slot == SlotOf(c, p)
        st == Cleared(same)
        f == ClearedFile(same)
    IN  /\ nextChange' = Notified
        /\ \/ /\ Installed(st) < MaxInstalled
              /\ stack' = [st EXCEPT ![slot] = p]
              /\ file' = [f EXCEPT ![slot] = p]
           \/ /\ Installed(st) < MaxInstalled    \* the write fails
              /\ stack' = [st EXCEPT ![slot] = None]
              /\ file' = [f EXCEPT ![slot] = None]
           \/ /\ Installed(st) >= MaxInstalled
              /\ stack' = st /\ file' = f

SetChargingProfile ==
    /\ ops < MaxOps /\ ops' = ops + 1 /\ fresh' = FALSE
    /\ \E p \in Profiles, c \in {0, 1} : AcceptsProfile(c, p) /\ InstallProfile(c, p)
    /\ UNCHANGED <<now, tx, track, output>>

\* RemoteStartTransaction with a profile: it is installed before the transaction begins.
RemoteStart ==
    /\ ops < MaxOps /\ ops' = ops + 1 /\ fresh' = FALSE
    /\ tx = None
    /\ \E p \in Profiles :
          /\ ValidProfile(p) /\ p.purpose = "Tx"
          /\ InstallProfile(1, p)
          /\ tx' = IF stack'[SlotOf(1, p)] = p
                   THEN [rmt |-> p.id, start |-> MaxTime, id |-> -1] ELSE None
    /\ UNCHANGED <<now, track, output>>

Clear(slots) == stack' = Cleared(slots) /\ file' = ClearedFile(slots)

\* ClearChargingProfile: by id, or by connector, purpose and level, each of them optional.
ClearChargingProfile ==
    /\ ops < MaxOps /\ ops' = ops + 1 /\ fresh' = FALSE
    /\ \/ \E id \in {p.id : p \in Profiles} : Clear({s \in Loaded : stack[s].id = id})
       \/ \E c \in {0, 1, None}, purpose \in {"Max", "TxDefault", "Tx", None},
             level \in Level \cup {None} :
             Clear({s \in Loaded : /\ c \in {None, s[1][1]}
                                   /\ purpose \in {None, Purpose(s)}
                                   /\ level \in {None, s[2]}})
    /\ nextChange' = Notified
    /\ UNCHANGED <<now, tx, track, output>>

-----------------------------------------------------------------------------
(* loop()                                                                  *)

\* trackTransaction(): what the limit depends on.  The TxProfiles end with the transaction.
Tracked ==
    IF tx = None THEN NoTrack
    ELSE [rmt |-> tx.rmt,
          start |-> IF tx.start < MaxTime THEN tx.start ELSE track.start,
          id |-> IF tx.id >= 0 THEN tx.id ELSE track.id]

Loop ==
    LET ended == {s \in Slot : tx = None /\ track # NoTrack /\ Purpose(s) = "Tx"}
        changed == [nextChange EXCEPT ![1] = IF Tracked # track THEN now ELSE @]
        st == Cleared(ended)
        limit == [c \in {c \in {0, 1} : now >= changed[c]} |-> Limit(st, Tracked, c, now)]
    IN  /\ track' = Tracked
        /\ stack' = st
        /\ file' = ClearedFile(ended)
        /\ nextChange' =
              [c \in {0, 1} |-> IF c \in DOMAIN limit THEN limit[c].next ELSE changed[c]]
        /\ output' = [c \in {0, 1} |-> IF c \in DOMAIN limit THEN limit[c].rate ELSE output[c]]
        /\ fresh' = TRUE
        /\ UNCHANGED <<now, tx, ops>>

\* The transaction begins, is reported, is confirmed, and ends.
Transaction ==
    /\ tx' \in IF tx = None THEN {[rmt |-> -1, start |-> MaxTime, id |-> -1]}
               ELSE IF tx.start = MaxTime THEN {[tx EXCEPT !.start = now], None}
               ELSE IF tx.id < 0 THEN {[tx EXCEPT !.id = 1]}
               ELSE {None}
    /\ fresh' = FALSE
    /\ UNCHANGED <<now, stack, file, track, nextChange, output, ops>>

Tick ==
    /\ now < LastTime
    /\ now' = now + 1 /\ fresh' = FALSE
    /\ UNCHANGED <<tx, stack, file, track, nextChange, output, ops>>

\* toJson() calls the minimal rate minChargeRate, which loadChargingSchedule() does not know.
Restored(p) == [p EXCEPT !.minRate = -1]

\* loadProfiles() at boot: all levels but the highest one.
Load(f) ==
    /\ stack' = [s \in Slot |-> IF s[2] < MaxStackLevel /\ f[s] # None
                               THEN Restored(f[s]) ELSE None]
    /\ file' = f
    /\ track' = NoTrack
    /\ nextChange' = [c \in {0, 1} |-> MinTime]
    /\ output' = [c \in {0, 1} |-> Unlimited]

Reboot ==
    /\ ops < MaxOps /\ ops' = ops + 1 /\ fresh' = FALSE
    /\ Load(file)
    /\ UNCHANGED <<now, tx>>

\* The power fails in setChargingProfile(): what has the same id is gone, and the file of the
\* new profile may be torn, which loadProfiles() removes.
RebootInSet ==
    /\ ops < MaxOps /\ ops' = ops + 1 /\ fresh' = FALSE
    /\ \E p \in Profiles, c \in {0, 1} :
          /\ AcceptsProfile(c, p)
          /\ LET f == ClearedFile({s \in Loaded : stack[s].id = p.id})
             IN  Load(f) \/ Load([f EXCEPT ![SlotOf(c, p)] = None])
    /\ UNCHANGED <<now, tx>>

Init ==
    /\ now = 1 /\ tx = None /\ ops = 0 /\ fresh = FALSE
    /\ stack = [s \in Slot |-> None] /\ file = stack
    /\ track = NoTrack
    /\ nextChange = [c \in {0, 1} |-> MinTime]
    /\ output = [c \in {0, 1} |-> Unlimited]

Next ==
    \/ SetChargingProfile \/ RemoteStart \/ ClearChargingProfile \/ Loop
    \/ Transaction \/ Tick \/ Reboot \/ RebootInSet

-----------------------------------------------------------------------------
TypeOK ==
    /\ \A s \in Slot : stack[s] # None => stack[s].level = s[2] /\ stack[s].purpose = Purpose(s)
    /\ Installed(stack) <= MaxInstalled

\* After loop() the charger has been told the limit that the profiles define now, though the
\* limit was computed at another time.
OutputIsCurrent ==
    fresh => \A c \in {0, 1} : output[c] = Limit(stack, track, c, now).rate

\* A schedule s tells the limit of connector c at each time from now on.
Tells(s, c) ==
    \A t \in now .. LastTime :
        LET begun == Cardinality({i \in DOMAIN s : s[i].start <= t - now})
        IN  s[begun].limit = Limit(stack, track, c, t).rate.current
ScheduleIsRight ==
    \A c \in {0, 1} : Tells(GetCompositeSchedule(c, LastTime - now + 1, "current"), c)

\* After loop(), what the charger has been told is the limit of now, and what the server is
\* told is the limit of each time.  Assumed of Profiles, as nextChange is wrong for others:
\*  - none ends (validTo) before LastTime;
\*  - none is recurring with a startSchedule after the first time of the clock;
\*  - only a profile that is looked at first has later periods.
LimitIsCurrent == OutputIsCurrent /\ (fresh => ScheduleIsRight)
==============================================================================
