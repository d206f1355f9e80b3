--------------------------------- MODULE Clock ---------------------------------
(***************************************************************************)
(* Core/Time.cpp and HeartbeatService: the date and time of the station, which  *)
(* follow from a counter of milliseconds that wraps around and from the time    *)
(* that the server tells with BootNotification and Heartbeat; the correction of *)
(* the times that were taken before; and the rhythm of the heartbeats.         *)
(*                                                                         *)
(* A tick stands for a millisecond.  Hour, minute and second of a Timestamp are *)
(* one number; months and days count from 0.  An answer of the server takes no *)
(* time.                                                                   *)
(***************************************************************************)
EXTENDS Integers, Sequences, FiniteSetsExt

CONSTANTS
    Second,      \* ticks of a second: 1000
    DaySecs,     \* seconds of a day: 86400
    Width,       \* mocpp_tick_ms() is modulo 2^32
    MaxPoll,     \* mocpp_loop() is called again after at most so many ticks
    Interval,    \* HeartbeatInterval, in seconds
    Calendars,   \* sequences of consecutive days; the station starts on the second one
    LastUptime, MaxSync,  \* bounds: ticks, and times that the server tells
    None

\* Assumed: MaxPoll + Interval * Second < Width.

VARIABLES
    uptime,          \* the ticks since the power came on
    calendar, frac,  \* the server's days, and its part of a second at uptime 0
    currentTime, lastUpdate, mocpp_basetime, system_basetime,  \* Clock
    lastHeartbeat,   \* HeartbeatService
    stamp,           \* a time taken while the clock was not set: [value, at], or None
    set,             \* history: the server has told the time in this run
    synced,          \* history: the uptime when it did so last
    zero,            \* history: the uptime when the counter was 0 before this run
    beat,            \* history: the uptime of the last heartbeat
    syncs

clockVars == <<currentTime, lastUpdate, mocpp_basetime, system_basetime>>
ckVars == <<uptime, calendar, frac, clockVars, lastHeartbeat, stamp, set, synced, zero,
            beat, syncs>>

Tick(u) == u % Width
mocpp_tick_ms == Tick(uptime)

-----------------------------------------------------------------------------
(* Timestamp.                                                              *)

Timestamp(y, m, d, s) == [year |-> y, month |-> m, day |-> d, sec |-> s]
Epoch == Timestamp(1970, 0, 0, 0)

noDays(month, year) ==
    CASE month \in {0, 2, 4, 6, 7, 9, 11} -> 31
      [] month \in {3, 5, 8, 10} -> 30
      [] month = 1 -> IF year % 4 = 0 /\ (year % 100 # 0 \/ year % 400 = 0) THEN 29 ELSE 28

\* Days beyond the month go to the next one, days below zero to the one before.
RECURSIVE Carried(_)
Carried(t) ==
    IF t.day >= noDays(t.month, t.year)
    THEN Carried([t EXCEPT !.day = @ - noDays(t.month, t.year), !.month = (@ + 1) % 12,
                           !.year = IF t.month = 11 THEN @ + 1 ELSE @])
    ELSE IF t.day < 0
    THEN LET m == (t.month + 11) % 12
             y == IF t.month = 0 THEN t.year - 1 ELSE t.year
         IN  Carried([t EXCEPT !.day = @ + noDays(m, y), !.month = m, !.year = y])
    ELSE t

\* operator+= and operator-
Plus(t, secs) ==
    Carried([t EXCEPT !.sec = (@ + secs) % DaySecs, !.day = @ + ((t.sec + secs) \div DaySecs)])

DaysSince(y, t) ==
    t.day + MapThenSumSet(LAMBDA ym : noDays(ym[2], ym[1]),
                {ym \in (y .. t.year) \X (0 .. 11) : ym[1] < t.year \/ ym[2] < t.month})
Difference(a, b) ==
    LET y == Min({a.year, b.year})
    IN  (DaysSince(y, a) - DaysSince(y, b)) * DaySecs + a.sec - b.sec

-----------------------------------------------------------------------------
(* Clock.                                                                  *)

\* Mutant: the fraction of a second is dropped at each call.
nowDropping(u) ==
    LET deltaSecs == ((Tick(u) + Width - lastUpdate) % Width) \div Second
    IN  [time |-> Plus(currentTime, deltaSecs), update |-> Tick(u)]

\* now(), called at an uptime: the whole seconds since the last update.
now(u) ==
    LET deltaSecs == ((Tick(u) + Width - lastUpdate) % Width) \div Second
    IN  [time |-> Plus(currentTime, deltaSecs),
         update |-> (lastUpdate + deltaSecs * Second) % Width]

\* An int of the width of the counter.
AsInt(n) == IF n >= Width \div 2 THEN n - Width ELSE n
Quotient(a, b) == IF a >= 0 THEN a \div b ELSE -((-a) \div b)

adjustPrebootTimestamp(t) ==
    LET systemtime_in == Difference(t, Epoch)
    IN  IF systemtime_in > Quotient(AsInt(system_basetime), Second) THEN mocpp_basetime
        ELSE Plus(mocpp_basetime, systemtime_in - system_basetime \div Second)

\* What the server's clock shows at an uptime: the seconds since the first of its days, and
\* the Timestamp of that number.
ServerSecs(u) == DaySecs + (frac + u) \div Second
ServerTime(secs) == [calendar[1 + secs \div DaySecs] EXCEPT !.sec = secs % DaySecs]

\* The answer to BootNotification or Heartbeat.
setTime ==
    /\ syncs < MaxSync /\ syncs' = syncs + 1
    /\ system_basetime' = mocpp_tick_ms /\ lastUpdate' = mocpp_tick_ms
    /\ mocpp_basetime' = ServerTime(ServerSecs(uptime)) /\ currentTime' = mocpp_basetime'
    /\ set' = TRUE /\ synced' = uptime
    /\ UNCHANGED <<uptime, calendar, frac, lastHeartbeat, stamp, zero, beat>>

-----------------------------------------------------------------------------
(* The run.                                                                *)

\* HeartbeatService::loop()
hbInterval == (Interval * Second) % Width
HeartbeatDue(u) == (Tick(u) + Width - lastHeartbeat) % Width >= hbInterval

\* mocpp_loop(), some ticks after the last one.  Connector::loop() asks for the time.
Loop ==
    /\ \E d \in 1 .. MaxPoll :
          LET u == uptime + d
          IN  /\ u <= LastUptime
              /\ uptime' = u
              /\ currentTime' = now(u).time /\ lastUpdate' = now(u).update
              /\ IF HeartbeatDue(u) THEN lastHeartbeat' = Tick(u) /\ beat' = u
                 ELSE UNCHANGED <<lastHeartbeat, beat>>
    /\ UNCHANGED <<calendar, frac, mocpp_basetime, system_basetime, stamp, set, synced, zero,
                   syncs>>

\* A transaction takes the time while the clock is not set.
Take ==
    /\ ~set /\ stamp = None
    /\ currentTime' = now(uptime).time /\ lastUpdate' = now(uptime).update
    /\ stamp' = [value |-> currentTime', at |-> uptime]
    /\ UNCHANGED <<uptime, calendar, frac, mocpp_basetime, system_basetime, lastHeartbeat, set,
                   synced, zero, beat, syncs>>

\* mocpp_deinitialize() and mocpp_initialize(): the counter goes on, the Clock starts anew
\* and what was taken before is of another boot.
Reinitialize ==
    /\ currentTime' = Epoch /\ mocpp_basetime' = Epoch
    /\ lastUpdate' = 0 /\ system_basetime' = 0
    /\ lastHeartbeat' = mocpp_tick_ms /\ beat' = uptime
    /\ stamp' = None /\ set' = FALSE /\ synced' = 0
    /\ zero' = uptime - mocpp_tick_ms
    /\ UNCHANGED <<uptime, calendar, frac, syncs>>

Init ==
    /\ uptime = 0 /\ calendar \in Calendars /\ frac \in 0 .. Second - 1
    /\ currentTime = Epoch /\ mocpp_basetime = Epoch
    /\ lastUpdate = 0 /\ system_basetime = 0 /\ lastHeartbeat = 0
    /\ stamp = None /\ set = FALSE /\ synced = 0 /\ zero = 0 /\ beat = 0 /\ syncs = 0

Next == setTime \/ Loop \/ Take \/ Reinitialize

-----------------------------------------------------------------------------
TypeOK ==
    /\ {lastUpdate, system_basetime, lastHeartbeat} \subseteq 0 .. Width - 1
    /\ \A t \in {currentTime, mocpp_basetime} :
          t.month \in 0 .. 11 /\ t.day \in 0 .. noDays(t.month, t.year) - 1 /\ t.sec \in 0 .. DaySecs - 1

\* A Timestamp is the server's time at an uptime, with an error in a range of seconds.
Near(t, u, errors) == \E e \in errors : t = ServerTime(ServerSecs(u) + e)

\* Once it is set the clock is the server's, up to the fraction of a second that the server
\* does not tell.  It does not drift, however often it is read, at the end of a month, and
\* when the counter wraps around.
NowIsRight == set => Near(currentTime, uptime, -1 .. 0)

\* A time that was taken before can be corrected, up to a second, if the server tells its
\* time in the first half of the range of the counter.  (Later on the counter is taken for
\* a negative number, and the result is the time when the server told it.)
PrebootIsRight ==
    set /\ stamp # None /\ synced - zero < Width \div 2 =>
        Near(adjustPrebootTimestamp(stamp.value), stamp.at, -1 .. 1)

\* After a mocpp_loop() the last heartbeat is not older than the interval.
HeartbeatsInTime == uptime - beat < Interval * Second

ClockIsRight == NowIsRight /\ PrebootIsRight /\ HeartbeatsInTime
================================================================================
