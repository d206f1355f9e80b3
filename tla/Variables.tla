------------------------------ MODULE Variables ------------------------------
(***************************************************************************)
(* Model/Variables (OCPP 2.0.1): the VariableService with its containers,    *)
(* the operations SetVariables, GetVariables, and GetBaseReport with the     *)
(* NotifyReport that follows.                                              *)
(*                                                                         *)
(* The internal containers are buckets, each with a file of its own.  Whether *)
(* a file is written again is told from the write counts of its variables.    *)
(* The one attribute of a variable that is modelled is the actual value.     *)
(***************************************************************************)
EXTENDS Integers, Sequences, FiniteSets, FiniteSetsExt

CONSTANTS
    Buckets,          \* the buckets: to each its variables, in the order of declaration
    Persistent, ReadOnly, WriteOnly, RebootRequired,   \* subsets of the variables
    Default,          \* the factory default of each variable
    Valid,            \* the values that the type of the variable and its validator admit
    WriteMod,         \* 2^16, the range of write counts and of their sum
    MaxSet,           \* bound: writes by the server and the firmware
    Torn, None

Bucket == DOMAIN Buckets
VarsOf(b) == {Buckets[b][i] : i \in DOMAIN Buckets[b]}
Variable == UNION {VarsOf(b) : b \in Bucket}

VARIABLES
    value,            \* Variable -> its value
    writeCount,       \* Variable -> Nat
    trackWriteCount,  \* Bucket -> the sum at the last check
    file,             \* Bucket -> the stored values, None if missing, or Torn
    sets,
    accepted          \* history: what SetVariables has accepted and nothing replaced

vaVars == <<value, writeCount, trackWriteCount, file, sets, accepted>>

-----------------------------------------------------------------------------
(* Variables and containers.                                               *)

\* setInt(), setBool() and setString() count every write.
Written(st, v, x) ==
    [st EXCEPT !.value[v] = x, !.count[v] = (@ + 1) % WriteMod]

\* declareVariable(): the factory default, written once.
Declared(v) ==
    Written([value |-> [u \in {v} |-> None], count |-> [u \in {v} |-> 0]], v, Default[v])

\* getVariable(), for load(): the variable in the bucket of that file, if it is there.
StoredIn(files, v) ==
    {b \in Bucket : files[b] # None /\ files[b] # Torn /\ v \in VarsOf(b) \cap DOMAIN files[b]}

\* checkWriteCountUpdated()
Sum16(counts, b) == MapThenSumSet(LAMBDA v : counts[v], VarsOf(b)) % WriteMod

\* commit() of a bucket: the room is counted for the persistent variables, and then that
\* many of the first variables are gone through.
Stored(vals, b) ==
    LET capacity == Cardinality(VarsOf(b) \cap Persistent)
        room == {v \in VarsOf(b) : \E i \in 1 .. capacity : Buckets[b][i] = v}
    IN  [v \in room \cap Persistent |-> vals[v]]

Updated(counts, b) == Sum16(counts, b) # trackWriteCount[b]

\* commit() of all containers.  The sum is taken over before the file is written, so a write
\* that fails is not made up for.
Commit(vals, counts, failed) ==
    /\ trackWriteCount' = [b \in Bucket |-> Sum16(counts, b)]
    /\ file' = [b \in Bucket |-> IF ~Updated(counts, b) THEN file[b]
                                 ELSE IF b \in failed THEN Torn
                                 ELSE Stored(vals, b)]

\* declareVariable() of all, and load(): without a file there, commit() makes one; the values
\* of a file that cannot be read stay the defaults.
Load(files) ==
    LET st == [v \in Variable |->
                  IF StoredIn(files, v) = {} THEN Declared(v)
                  ELSE Written(Declared(v), v, files[CHOOSE b \in StoredIn(files, v) : TRUE][v])]
        vals == [v \in Variable |-> st[v].value[v]]
        counts == [v \in Variable |-> st[v].count[v]]
    IN  /\ value' = vals
        /\ writeCount' = counts
        /\ trackWriteCount' =
              [b \in Bucket |-> IF files[b] = Torn THEN 0 ELSE Sum16(counts, b)]
        /\ file' = [b \in Bucket |-> IF files[b] = None THEN Stored(vals, b) ELSE files[b]]

Reboot ==
    /\ Load(file)
    /\ accepted' = [v \in Variable |-> IF v \in Persistent THEN accepted[v] ELSE None]
    /\ UNCHANGED sets

-----------------------------------------------------------------------------
(* The operations.                                                         *)

\* VariableService::setVariable()
SetStatus(v, x) ==
    IF v \notin Variable THEN "UnknownVariable"
    ELSE IF v \in ReadOnly \/ x \notin Valid[v] THEN "Rejected"
    ELSE IF v \in RebootRequired THEN "RebootRequired"
    ELSE "Accepted"
IsSet(v, x) == SetStatus(v, x) \in {"Accepted", "RebootRequired"}
Processed(st, v, x) ==
    IF IsSet(v, x) THEN [Written(st, v, x) EXCEPT !.accepted[v] = x] ELSE st

\* SetVariables: two queries, one after the other, and one commit().  If a file cannot be
\* written, the request fails, and the values stay in memory.
SetVariables ==
    /\ sets < MaxSet
    /\ sets' = sets + 1
    /\ \E v \in Variable, w \in Variable :
       \E x \in Valid[v], y \in Valid[w], failed \in {{}} \cup {{b} : b \in Bucket} :
          LET st0 == [value |-> value, count |-> writeCount, accepted |-> accepted]
              st == Processed(Processed(st0, v, x), w, y)
              lost == {b \in failed : Updated(st.count, b)}
          IN  /\ value' = st.value
              /\ writeCount' = st.count
              /\ Commit(st.value, st.count, failed)
              /\ accepted' = IF lost = {} THEN st.accepted
                             ELSE [u \in Variable |->
                                      IF u \in {v, w} \/ \E b \in lost : u \in VarsOf(b)
                                      THEN None ELSE accepted[u]]

\* The firmware sets a variable by itself; it is stored with the next commit().
SetByFirmware ==
    /\ sets < MaxSet
    /\ sets' = sets + 1
    /\ \E v \in Variable : \E x \in Valid[v] :
          /\ LET st == Written([value |-> value, count |-> writeCount], v, x)
             IN  value' = st.value /\ writeCount' = st.count
          /\ accepted' = [accepted EXCEPT ![v] = None]
    /\ UNCHANGED <<trackWriteCount, file>>

\* The power fails in the commit() of SetVariables: a file is torn.
RebootInCommit ==
    /\ sets < MaxSet
    /\ sets' = sets + 1
    /\ \E b \in Bucket :
          /\ Load([file EXCEPT ![b] = Torn])
          /\ accepted' = [v \in Variable |-> IF v \in VarsOf(b) \/ v \notin Persistent
                                             THEN None ELSE accepted[v]]

\* VariableService::getVariable(), as GetVariables reports it.
GetStatus(v) ==
    IF v \notin Variable THEN "UnknownVariable"
    ELSE IF v \in WriteOnly THEN "Rejected" ELSE "Accepted"
GetVariables(v) ==
    [status |-> GetStatus(v), value |-> IF GetStatus(v) = "Accepted" THEN value[v] ELSE None]

\* getBaseReport(): the variables that NotifyReport tells of, with their values at the time
\* it is sent.
Inventory(reportBase) ==
    CASE reportBase = "FullInventory" -> Variable
      [] reportBase = "ConfigurationInventory" -> Variable \ ReadOnly
      [] reportBase = "SummaryInventory" -> {}
GetBaseReport(reportBase) ==
    CASE reportBase = "SummaryInventory" -> "NotSupported"
      [] Inventory(reportBase) = {} -> "EmptyResultSet"
      [] OTHER -> "Accepted"
NotifyReport(reportBase) == [v \in Inventory(reportBase) \ WriteOnly |-> value[v]]

Init ==
    /\ value = Default
    /\ writeCount = [v \in Variable |-> Declared(v).count[v]]
    /\ trackWriteCount = [b \in Bucket |-> Sum16(writeCount, b)]
    /\ file = [b \in Bucket |-> Stored(value, b)]
    /\ sets = 0 /\ accepted = [v \in Variable |-> None]

Next == Reboot \/ SetVariables \/ SetByFirmware \/ RebootInCommit

-----------------------------------------------------------------------------
TypeOK ==
    /\ \A v \in Variable : value[v] \in Valid[v] /\ writeCount[v] \in 0 .. WriteMod - 1
    /\ \A b \in Bucket : trackWriteCount[b] \in 0 .. WriteMod - 1

\* What SetVariables has accepted for a persistent variable is what GetVariables and the
\* report tell, over all reboots, until it is changed again or its file could not be
\* written.  Assumed: in each bucket the persistent variables are declared first; the last
\* ones are not stored otherwise.
AcceptedSurvives ==
    \A v \in Variable :
        accepted[v] # None /\ GetStatus(v) = "Accepted" =>
            /\ GetVariables(v).value = accepted[v]
            /\ GetBaseReport("ConfigurationInventory") = "Accepted"
            /\ NotifyReport("ConfigurationInventory")[v] = accepted[v]
==============================================================================
