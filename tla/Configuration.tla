---------------------------- MODULE Configuration ----------------------------
(***************************************************************************)
(* Core/Configuration with the ConfigurationContainerFlash, and the         *)
(* operations ChangeConfiguration and GetConfiguration on it.               *)
(*                                                                         *)
(* The firmware declares its keys with a type and a default, and then the   *)
(* file overrides the values.  Whether the file has to be written again is  *)
(* told from the sum of the revisions of all values.  A key is identified   *)
(* by the file alone until the firmware declares it: its name is "pooled".  *)
(***************************************************************************)
EXTENDS Integers, FiniteSets, FiniteSetsExt

CONSTANTS
    Key,
    Versions,        \* of the firmware
    Declares,        \* what each version declares: a default for some keys, or None
    ReadOnly,        \* keys declared as read-only
    Numeral, Text,   \* the values: those that denote an int, and other strings
    RevisionMod,     \* 2^16, the range of revisions and of their sum
    MaxChange,       \* bound: changes of values
    Torn, None

\* The type of a key is that of its default.
Value == Numeral \cup Text
Empty == "empty"     \* in Text: the empty string, which a new string has already

VARIABLES
    version,         \* of the firmware that runs
    config,          \* the container: an entry for each key, or None
    revisionSum,
    file,            \* what is stored for each key; None if missing or empty, or Torn
    cleaned,         \* removeUnused() has run since the boot
    changes,         \* how many values have been changed
    accepted         \* history: what ChangeConfiguration has accepted and nothing replaced

cfVars == <<version, config, revisionSum, file, cleaned, changes, accepted>>

TypeOf(v) == IF v \in Numeral THEN "int" ELSE "string"

-----------------------------------------------------------------------------
(* Values and revisions.                                                   *)

\* Mutant: the revision only tells whether the value was ever written.
SetChanged(c, v) ==
    [c EXCEPT !.val = v, !.rev = 1]

\* setInt() counts every write, setString() those that change the value.
SetInt(c, v) == [c EXCEPT !.val = v, !.rev = (@ + 1) % RevisionMod]
SetString(c, v) ==
    IF v = c.val THEN c ELSE [c EXCEPT !.val = v, !.rev = (@ + 1) % RevisionMod]
Set(c, v) == IF c.type = "int" THEN SetInt(c, v) ELSE SetString(c, v)

NewConfig(type) ==
    [type |-> type, val |-> IF type = "int" THEN "0" ELSE Empty, rev |-> 0, pooled |-> FALSE]

\* declareConfiguration() before load(): an entry with the default.
Declared(v) ==
    [k \in Key |-> IF Declares[v][k] = None THEN None
                   ELSE Set(NewConfig(TypeOf(Declares[v][k])), Declares[v][k])]

\* load(): an entry of another type is replaced, and is not the declared one any more.
Loaded(cs, f) ==
    [k \in Key |->
        IF f[k] = None THEN cs[k]
        ELSE IF cs[k] # None /\ cs[k].type = TypeOf(f[k]) THEN Set(cs[k], f[k])
        ELSE [Set(NewConfig(TypeOf(f[k])), f[k]) EXCEPT !.pooled = TRUE]]

Sum16(cs) ==
    MapThenSumSet(LAMBDA k : IF cs[k] = None THEN 0 ELSE cs[k].rev, Key) % RevisionMod
Stored(cs) == [k \in Key |-> IF cs[k] = None THEN None ELSE cs[k].val]

\* save(): writes the file if the sum is another one.
Save(cs) ==
    /\ revisionSum' = Sum16(cs)
    /\ file' = IF Sum16(cs) # revisionSum THEN Stored(cs) ELSE file

-----------------------------------------------------------------------------
\* Initialization: the declarations, and load().  Without a file there, save() makes one; a
\* file that cannot be read is left to the next save().
Boot(v, f) ==
    /\ version' = v
    /\ cleaned' = FALSE
    /\ config' = IF f \in {None, Torn} THEN Declared(v) ELSE Loaded(Declared(v), f)
    /\ revisionSum' = IF f = Torn THEN 0 ELSE Sum16(config')
    /\ file' = IF f = None /\ Sum16(config') # 0 THEN Stored(config') ELSE f

Reboot ==
    /\ \E v \in Versions : Boot(v, file)
    /\ UNCHANGED <<changes, accepted>>

\* removeUnused() at the first loop(), and save(): what no declaration has claimed goes.
RemoveUnused ==
    LET unused == {k \in Key : config[k] # None /\ config[k].pooled}
        cs == [k \in Key |-> IF k \in unused THEN None ELSE config[k]]
    IN  /\ ~cleaned
        /\ cleaned' = TRUE
        /\ config' = cs
        /\ Save(cs)
        /\ accepted' = [k \in Key |-> IF k \in unused THEN None ELSE accepted[k]]
        /\ UNCHANGED <<version, changes>>

\* The firmware sets a value by itself, without saving it.  Assumed: not before the first
\* loop() has removed the unused keys, whose revisions would make up for the new one.
SetByFirmware ==
    /\ cleaned
    /\ changes < MaxChange
    /\ \E k \in Key, v \in Value :
          /\ config[k] # None /\ config[k].type = TypeOf(v)
          /\ config' = [config EXCEPT ![k] = Set(@, v)]
          /\ accepted' = [accepted EXCEPT ![k] = None]
    /\ changes' = changes + 1
    /\ UNCHANGED <<version, revisionSum, file, cleaned>>

\* ChangeConfiguration: unknown and read-only keys are refused, and what the validator or
\* the conversion to the type of the key refuses.
Accepts(k, v) == config[k] # None /\ k \notin ReadOnly /\ config[k].type = TypeOf(v)
ChangeConfiguration ==
    /\ changes < MaxChange
    /\ \E k \in Key, v \in Value :
          /\ Accepts(k, v)
          /\ LET cs == [config EXCEPT ![k] = Set(@, v)]
             IN  config' = cs /\ Save(cs)
          /\ accepted' = [accepted EXCEPT ![k] = v]
    /\ changes' = changes + 1
    /\ UNCHANGED <<version, cleaned>>

\* GetConfiguration: the readable entries of the container.
GetConfiguration(keys) ==
    [configurationKey |-> {k \in keys : config[k] # None},
     unknownKey |-> {k \in keys : config[k] = None}]

\* The power fails while the file is being written: it is empty or of no use, and the
\* defaults are back.
RebootInSave ==
    /\ changes < MaxChange /\ \E k \in Key, v \in Value : Accepts(k, v)
    /\ \E v \in Versions, f \in {None, Torn} : Boot(v, f)
    /\ accepted' = [k \in Key |-> None]
    /\ changes' = changes + 1

Init ==
    /\ version \in Versions
    /\ config = Declared(version)
    /\ revisionSum = Sum16(Declared(version))
    /\ file = Stored(Declared(version))
    /\ cleaned = FALSE /\ changes = 0 /\ accepted = [k \in Key |-> None]

Next == Reboot \/ RemoveUnused \/ SetByFirmware \/ ChangeConfiguration \/ RebootInSave

-----------------------------------------------------------------------------
TypeOK ==
    /\ version \in Versions /\ revisionSum \in 0 .. RevisionMod - 1
    /\ \A k \in Key : config[k] # None => config[k].val \in Value

\* What ChangeConfiguration has accepted is the value of the key over all reboots, and
\* firmware versions with other keys, until it is changed again, no declaration claims
\* it, or a write of the file was interrupted.  Assumed of Declares: one type, one default;
\* a default that is confirmed by ChangeConfiguration is not written to the file.
AcceptedSurvives ==
    \A k \in Key :
        /\ accepted[k] # None /\ k \in GetConfiguration(Key).configurationKey
        /\ config[k].type = TypeOf(accepted[k])
        => config[k].val = accepted[k]
==============================================================================
