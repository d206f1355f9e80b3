--------------------------- MODULE AuthorizationList ---------------------------
(***************************************************************************)
(* AuthorizationService and AuthorizationList: the local authorization list,   *)
(* which the server sends in full or updates entry by entry (SendLocalList),    *)
(* its copy in localauth.jsn, and its uses when a transaction begins and when    *)
(* the server answers Authorize.                                            *)
(*                                                                         *)
(* An idTag is a natural number, compared as strcmp() compares the strings; 0   *)
(* is the empty one, which marks an entry for removal.  parentIdTag is left out. *)
(***************************************************************************)
EXTENDS Integers, Sequences, FiniteSets, SequencesExt, TLC

CONSTANTS
    IdTags,           \* positive
    Statuses,         \* of the entries that the server sends
    ExpiryDates,      \* 0 for none
    MaxLength,        \* MO_LocalAuthListMaxLength
    SendMaxLength,    \* MO_SendLocalListMaxLength
    CarefulServer,    \* an update removes at most one idTag, at its end
    MaxVersion, LastTime,
    None

VARIABLES
    list, listVersion,   \* localAuthorizationList and its version, in memory
    file,                \* localauth.jsn, [version, list] or None
    enabled,             \* LocalAuthListEnabled
    clock,               \* the time; 0 while the charge point does not know it
    conflicts,           \* the conflicts with the server that were found, by idTag
    server               \* the server's view: the entry of every idTag or None; None as a
                         \* whole after a failure, when only a full list comes next

lists == <<list, listVersion, file>>
alVars == <<list, listVersion, file, enabled, clock, conflicts, server>>

Entry(t, s, e) == [idTag |-> t, status |-> s, expiry |-> e]
NoEntry == Entry(0, "UNDEFINED", 0)

\* An element of a SendLocalList: an entry, or just an idTag.  An expiry matters only to an
\* entry that is Accepted.
Removal(t) == Entry(t, None, 0)
IsRemoval(c) == c.status = None
Commands == {c \in {Entry(t, s, e) : t \in IdTags, s \in Statuses, e \in ExpiryDates} :
                c.status = "Accepted" \/ c.expiry = 0}
            \union {Removal(t) : t \in IdTags}

-----------------------------------------------------------------------------
(* AuthorizationList.                                                       *)

\* get(): binary search, the index of an idTag or 0.
get(l, t) ==
    LET search[i \in 1 .. Len(l) + 1, j \in 0 .. Len(l)] ==
            LET m == (i + j) \div 2
            IN  IF i > j THEN 0
                ELSE IF l[m].idTag < t THEN search[m + 1, j]
                ELSE IF l[m].idTag > t THEN search[i, m - 1]
                ELSE m
    IN  search[1, Len(l)]

\* Looks every command up, in order; what is to be removed is marked on the way.
Indexed(l, cmds) ==
    FoldLeft(LAMBDA s, c :
                LET found == get(s.list, c.idTag)
                    x == [s EXCEPT !.index = Append(@, found)]
                IN  IF found > 0 /\ IsRemoval(c)
                    THEN [x EXCEPT !.list[found] = NoEntry, !.removed = Append(@, found),
                                   !.length = @ - 1]
                    ELSE IF found = 0 /\ ~IsRemoval(c) THEN [x EXCEPT !.length = @ + 1]
                    ELSE x,
             [list |-> l, index |-> <<>>, removed |-> <<>>, length |-> Len(l)], cmds)

\* Updates the entries found and inserts the others, where one was removed or at the end.
Applied(s, cmds) ==
    FoldLeft(LAMBDA x, i :
                IF IsRemoval(cmds[i]) THEN x
                ELSE IF s.index[i] > 0 THEN [x EXCEPT !.list[s.index[i]] = cmds[i]]
                ELSE IF x.removed # <<>>
                     THEN [x EXCEPT !.list[Last(x.removed)] = cmds[i], !.removed = Front(@)]
                ELSE [x EXCEPT !.list = Append(@, cmds[i])],
             s, [i \in 1 .. Len(cmds) |-> i]).list

\* Mutant: the new entries stay at the end.
SortedNot(l) == SelectSeq(l, LAMBDA x : x.idTag # 0)

Sorted(l) ==
    SortSeq(SelectSeq(l, LAMBDA x : x.idTag # 0), LAMBDA x, y : x.idTag < y.idTag)

\* Mutant: only the length of what is sent is checked.
readJsonUnchecked(l, cmds, differential) ==
    LET s == Indexed(l, cmds)
    IN  IF Len(cmds) > MaxLength THEN [ok |-> FALSE, list |-> s.list]
        ELSE [ok |-> TRUE,
              list |-> Sorted(IF differential THEN Applied(s, cmds)
                              ELSE SelectSeq(cmds, LAMBDA c : ~IsRemoval(c)))]

\* readJson() of a SendLocalList: whether it fits, and the list it leaves.
readJson(l, cmds, differential) ==
    LET s == Indexed(l, cmds)
    IN  IF differential
        THEN IF s.length > MaxLength THEN [ok |-> FALSE, list |-> s.list]
             ELSE [ok |-> TRUE, list |-> Sorted(Applied(s, cmds))]
        ELSE IF Len(cmds) > MaxLength THEN [ok |-> FALSE, list |-> l]
             ELSE [ok |-> TRUE, list |-> Sorted(SelectSeq(cmds, LAMBDA c : ~IsRemoval(c)))]

VersionOf(l, version) == IF l = <<>> THEN 0 ELSE version

\* loadLists() from a file, with a list to keep if there is none.
Loaded(f, l, version) ==
    /\ list' = IF f = None THEN l ELSE f.list
    /\ listVersion' = IF f = None THEN version ELSE VersionOf(f.list, f.version)

-----------------------------------------------------------------------------
(* AuthorizationService.                                                    *)

\* What an update means to the server that sends it.
Update(view, cmds, differential) ==
    LET base == IF differential THEN view ELSE [t \in IdTags |-> None]
    IN  FoldLeft(LAMBDA v, c : [v EXCEPT ![c.idTag] = IF IsRemoval(c) THEN None ELSE c],
                 base, cmds)

Careful(cmds, differential) ==
    \A i \in 1 .. Len(cmds) : IsRemoval(cmds[i]) => differential /\ i = Len(cmds)

\* The lists that are sent; an idTag is not in one twice.
Messages ==
    {m \in BoundedSeq(Commands, SendMaxLength) :
        \A i, j \in 1 .. Len(m) : m[i].idTag = m[j].idTag => i = j}

\* SendLocalList.  The file may not open, and is removed if nothing could be written; then
\* the list comes back from the file there is, if any.
SendLocalList ==
    /\ enabled
    /\ \E cmds \in Messages, differential \in BOOLEAN :
          LET read == readJson(list, cmds, differential) IN
          /\ CarefulServer => Careful(cmds, differential)
          /\ \E version \in 1 .. MaxVersion, left \in {"written", "kept", "removed"} :
             /\ differential => listVersion < version /\ server # None
             /\ IF ~read.ok
                THEN list' = read.list /\ server' = None /\ UNCHANGED <<listVersion, file>>
                ELSE IF left = "written"
                THEN /\ list' = read.list /\ listVersion' = VersionOf(read.list, version)
                     /\ file' = [version |-> version, list |-> read.list]
                     /\ server' = Update(server, cmds, differential)
                ELSE /\ file' = IF left = "removed" THEN None ELSE file
                     /\ Loaded(file', read.list, VersionOf(read.list, version))
                     /\ server' = None
    /\ UNCHANGED <<enabled, clock, conflicts>>

\* notifyAuthorization(), of the answer to Authorize.
LocalStatus(x) ==
    IF x.status = "Accepted" /\ x.expiry # 0 /\ clock > x.expiry THEN "Expired" ELSE x.status
notifyAuthorization ==
    /\ \E t \in IdTags, s \in Statuses \union {"ConcurrentTx"} :
          LET i == get(list, t)
              incoming == IF s = "ConcurrentTx" THEN "Accepted" ELSE s
          IN  conflicts' = IF enabled /\ i > 0 /\ LocalStatus(list[i]) # incoming
                           THEN conflicts \union {t} ELSE conflicts \ {t}
    /\ UNCHANGED <<list, listVersion, file, enabled, clock, server>>

\* The check of beginTransaction(): "found", "blocked", or nothing.
LocalAuthorization(t) ==
    LET i == get(list, t)
    IN  IF ~enabled \/ i = 0 THEN "unknown"
        ELSE IF list[i].status # "Accepted" \/ (list[i].expiry # 0 /\ list[i].expiry < clock)
             THEN "blocked" ELSE "found"

SetEnabled ==
    /\ enabled' = ~enabled
    /\ UNCHANGED <<list, listVersion, file, clock, conflicts, server>>

Tick ==
    /\ clock < LastTime /\ clock' = clock + 1
    /\ UNCHANGED <<list, listVersion, file, enabled, conflicts, server>>

Reboot ==
    /\ Loaded(file, <<>>, 0)
    /\ clock' = 0 /\ conflicts' = {}
    /\ UNCHANGED <<file, enabled, server>>

Init ==
    /\ list = <<>> /\ listVersion = 0 /\ file = None /\ enabled = TRUE /\ clock = 0
    /\ conflicts = {} /\ server = [t \in IdTags |-> None]

Next == SendLocalList \/ notifyAuthorization \/ SetEnabled \/ Tick \/ Reboot

-----------------------------------------------------------------------------
(* Properties.                                                             *)

TypeOK ==
    /\ Len(list) <= MaxLength /\ listVersion \in 0 .. MaxVersion
    /\ enabled \in BOOLEAN /\ clock \in 0 .. LastTime /\ conflicts \subseteq IdTags
    /\ file # None => file.version \in 1 .. MaxVersion

\* The lookup of every idTag gives what the server thinks the charge point has: after any
\* updates, in whatever order the idTags came, and after any reboot.  So a transaction is
\* authorized locally just if the server's entry is Accepted and has not expired.
LocalListAgrees ==
    server # None => \A t \in IdTags :
        LET i == get(list, t) x == server[t]
        IN  /\ IF x = None THEN i = 0 ELSE i > 0 /\ list[i] = x
            /\ (LocalAuthorization(t) = "found") <=>
                  enabled /\ x # None /\ x.status = "Accepted" /\ (x.expiry = 0 \/ clock <= x.expiry)

\* No idTag is in the list twice: an update of one that is there never inserts another.
NoIdTagTwice ==
    \A i, j \in DOMAIN list : list[i].idTag = list[j].idTag => i = j
===============================================================================
