------------------------- MODULE BootService_proof --------------------------
(***************************************************************************)
(* For boot numbers of any width, any number of tolerated failures, any    *)
(* state files and firmware versions: the safety properties of BootService *)
(* over a number of runs in which the boot numbers wrap around once.       *)
(***************************************************************************)
EXTENDS BootService, TLAPS

-----------------------------------------------------------------------------
(* The inductive invariant.                                                *)

Known == bootstats \in BootStats
Initializing == phase \in {"load", "recover", "migrate", "store"}
Afresh == cause \in {"lost", "failures"}

\* What is on the flash: the counters agree with the history.  A run that will come
\* can still be numbered.
FlashIsRight ==
    /\ Known => /\ getBootFailureCount(bootstats) = failedBoots
                /\ bootstats.version = lastVersion
    /\ phase = "running" => Known /\ bootstats.bootNr = bootNr
    /\ phase = "off" => run < MaxRun
    /\ Initializing => failedBoots < run

\* What mocpp_initialize() works on: the statistics that it has found, or new ones.
LocalIsRight ==
    /\ phase = "recover" => cause = "failures"
    /\ phase = "recover" => Known
    /\ phase \in {"migrate", "store"} =>
          IF Afresh THEN stats.bootNr = 0 /\ stats.lastBootSuccess = 0
          ELSE /\ Known
               /\ stats.bootNr = bootstats.bootNr
               /\ stats.lastBootSuccess = bootstats.lastBootSuccess
               /\ AutoRecover => failedBoots <= MaxFailures
    /\ phase = "migrate" =>
          /\ stats.version = IF Afresh THEN NoVersion ELSE lastVersion
          /\ cause = "none" => lastVersion = version
    /\ phase = "store" => stats.version = version

\* A file has suffered in no more runs than have failed, the present one not counted.
SufferingIsCounted ==
    /\ \A f \in StateFile :
          /\ files[f] = NoFile => suffered[f] = 0
          /\ suffered[f] <= failedBoots
          /\ phase = "running" => suffered[f] + (IF longTime THEN 0 ELSE 1) <= failedBoots
    /\ longTime => phase = "running" /\ failedBoots = 0
    /\ AutoRecover /\ phase = "running" => failedBoots <= MaxFailures + 1

\* After a recovery and after a loss of the statistics nothing is left that counts.
CleanedUp ==
    /\ cause = "lost" /\ phase \in {"migrate", "store"} =>
          \A f \in StateFile : suffered[f] = 0
    /\ cause = "failures" /\ phase \in {"migrate", "store"} =>
          \A f \in RecoverFile : suffered[f] = 0
    /\ Afresh /\ phase = "store" => \A f \in MigrateFile : files[f] = NoFile

\* The boots since a file was written, as its boot number tells.
Since(f) == (bootstats.bootNr + Width - files[f].bootNr) % Width

\* They are at least one for a file of an earlier run, and not more than the runs since.
DatesAreRight ==
    Known => \A f \in MigrateFile : files[f] # NoFile =>
        LET age == run - files[f].run
        IN  /\ age >= 0 /\ Since(f) <= age
            /\ Initializing => Since(f) < age
            /\ phase = "running" /\ age > 0 => Since(f) > 0

Inv == /\ TypeOK /\ FlashIsRight /\ LocalIsRight /\ SufferingIsCounted /\ CleanedUp
       /\ DatesAreRight

-----------------------------------------------------------------------------
(* Arithmetic of the boot numbers.                                         *)

\* The number of boots from the one numbered b to the one numbered a, without the modulo.
LEMMA DistanceIs ==
    ASSUME NEW a \in BootNr, NEW b \in BootNr
    PROVE  (a + Width - b) % Width = IF a >= b THEN a - b ELSE a + Width - b
  BY BootAssumption, SMT DEF BootNr

\* It is below Width, and zero for the boot itself only.
LEMMA DistanceRange ==
    ASSUME NEW a \in BootNr, NEW b \in BootNr
    PROVE  /\ (a + Width - b) % Width \in 0 .. Width - 1
           /\ (a + Width - b) % Width = 0 <=> a = b
  BY DistanceIs, BootAssumption DEF BootNr

\* The next boot is one further away, unless the numbers have gone round.
LEMMA NextDistance ==
    ASSUME NEW a \in BootNr, NEW b \in BootNr, ((a + Width - b) % Width) + 1 < Width
    PROVE  /\ (a + 1) % Width \in BootNr
           /\ (((a + 1) % Width) + Width - b) % Width = ((a + Width - b) % Width) + 1
<1> DEFINE n == (a + 1) % Width
<1>1. n = IF a + 1 < Width THEN a + 1 ELSE 0
  BY BootAssumption, SMT DEF BootNr
<1>2. n \in BootNr
  BY <1>1, BootAssumption DEF BootNr
<1> HIDE DEF n
<1>3. (n + Width - b) % Width = IF n >= b THEN n - b ELSE n + Width - b
  BY <1>2, DistanceIs
<1>4. (a + Width - b) % Width = IF a >= b THEN a - b ELSE a + Width - b
  BY DistanceIs
<1>5. (n + Width - b) % Width = ((a + Width - b) % Width) + 1
  BY <1>1, <1>3, <1>4, BootAssumption DEF BootNr
<1>6. QED
  BY <1>2, <1>5 DEF n

-----------------------------------------------------------------------------
\* Neither NoFile nor Damaged can be taken for the contents of a file.
LEMMA NotAFile == /\ NoFile \notin BootStats /\ Damaged \notin BootStats
                  /\ NoFile \notin [run : 0 .. MaxRun, bootNr : BootNr]
<1>1. ASSUME NEW x \in BootStats PROVE x \notin {NoFile, Damaged}
  <2>1. x = [bootNr |-> x.bootNr, lastBootSuccess |-> x.lastBootSuccess, version |-> x.version]
    BY <1>1 DEF BootStats
  <2>2. /\ x.bootNr \in 0 .. Width - 1 /\ x.lastBootSuccess \in 0 .. Width - 1
        /\ x.version \in Firmware \cup {NoVersion}
    BY <1>1 DEF BootStats, BootNr
  <2>3. QED
    BY <2>1, <2>2, NoFileAssumption, Zenon
<1>2. ASSUME NEW x \in [run : 0 .. MaxRun, bootNr : BootNr] PROVE x # NoFile
  <2>1. x = [run |-> x.run, bootNr |-> x.bootNr]
    BY <1>2
  <2>2. x.run \in 0 .. MaxRun /\ x.bootNr \in 0 .. Width - 1
    BY <1>2 DEF BootNr
  <2>3. QED
    BY <2>1, <2>2, NoFileAssumption, Zenon
<1>3. QED
  BY <1>1, <1>2

-----------------------------------------------------------------------------
(* The initial states, and the steps that do not touch what Inv is about.  *)

\* Every initial state satisfies Inv: a new charger, and one shut down cleanly.
LEMMA InitInv == Init => Inv
<1> SUFFICES ASSUME Init PROVE Inv
  OBVIOUS
<1>1. PICK old \in {[bootNr |-> Width - 2, lastBootSuccess |-> Width - 2, version |-> v]
                        : v \in Firmware} :
          \/ /\ bootstats = NoFile /\ lastVersion = NoVersion
             /\ files = [f \in StateFile |-> NoFile]
          \/ /\ bootstats = old /\ lastVersion = old.version
             /\ files = [f \in StateFile |-> [run |-> 0, bootNr |-> old.bootNr]]
  BY DEF Init
<1>2. Width - 2 \in BootNr /\ 0 \in BootNr
  BY BootAssumption DEF BootNr
<1>3. ((Width - 2) + Width - (Width - 2)) % Width = 0
  BY <1>2, DistanceIs, BootAssumption
<1>4. old \in BootStats /\ old.bootNr = Width - 2 /\ old.lastBootSuccess = Width - 2
  BY <1>1, <1>2 DEF BootStats
<1>5. files \in [StateFile -> [run : 0 .. MaxRun, bootNr : BootNr] \cup {NoFile}]
  <2>1. CASE files = [f \in StateFile |-> NoFile]
    BY <2>1
  <2>2. CASE files = [f \in StateFile |-> [run |-> 0, bootNr |-> old.bootNr]]
    BY <2>2, <1>2, <1>4, BootAssumption
  <2>3. QED
    BY <1>1, <2>1, <2>2
<1>6. TypeOK
  <2>1. stats \in BootStats /\ bootstats \in BootStats \cup {NoFile, Damaged}
    BY <1>1, <1>2, <1>4 DEF Init, NewStats, BootStats
  <2>2. {longTime, accepted, intervalOver, asked, triggered, activated} \subseteq BOOLEAN
    BY DEF Init
  <2>3. suffered \in [StateFile -> 0 .. MaxRun] /\ run \in 0 .. MaxRun /\ failedBoots \in 0 .. run
    BY BootAssumption DEF Init
  <2>4. lastVersion \in Firmware \cup {NoVersion}
    BY <1>1
  <2>5. QED
    BY <1>2, <1>5, <2>1, <2>2, <2>3, <2>4 DEF Init, TypeOK
<1>7. FlashIsRight /\ LocalIsRight
  <2>1. bootstats = old => getBootFailureCount(bootstats) = 0
    BY <1>3, <1>4 DEF getBootFailureCount
  <2>2. FlashIsRight
    BY <1>1, <2>1, NotAFile, BootAssumption DEF Init, FlashIsRight, Known, Initializing
  <2>3. LocalIsRight
    BY DEF Init, LocalIsRight
  <2>4. QED
    BY <2>2, <2>3
<1>8. SufferingIsCounted /\ CleanedUp
  BY <1>1, BootAssumption DEF Init, SufferingIsCounted, CleanedUp, StateFile
<1>9. DatesAreRight
  BY <1>1, <1>3, <1>4, NotAFile, BootAssumption
  DEF Init, DatesAreRight, Known, Initializing, Since, StateFile
<1>10. QED
  BY <1>6, <1>7, <1>8, <1>9 DEF Inv

\* Registration, and stuttering.
LEMMA RegistrationInv ==
    ASSUME Inv, UNCHANGED <<flashVars, phase, initVars, longTime, history>>,
           {accepted', intervalOver', asked', triggered', activated'} \subseteq BOOLEAN
    PROVE  Inv'
<1>1. TypeOK'
  BY DEF Inv, TypeOK, flashVars, initVars, history
<1>2. FlashIsRight' /\ LocalIsRight' /\ SufferingIsCounted' /\ CleanedUp'
  BY DEF Inv, FlashIsRight, LocalIsRight, SufferingIsCounted, CleanedUp, Known, Initializing,
         Afresh, getBootFailureCount, flashVars, initVars, history
<1>3. DatesAreRight'
  BY DEF Inv, DatesAreRight, Known, Initializing, Since, flashVars, initVars, history
<1>4. QED
  BY <1>1, <1>2, <1>3 DEF Inv

-----------------------------------------------------------------------------
(* mocpp_initialize().                                                     *)

\* A run begins: every file is one run older.
LEMMA PowerUpInv == ASSUME Inv, PowerUp PROVE Inv'
<1>1. phase = "off" /\ phase' = "load" /\ run' = run + 1 /\ run \in Nat /\ failedBoots \in 0 .. run
  BY DEF Inv, TypeOK, PowerUp
<1>2. TypeOK'
  BY <1>1, BootAssumption DEF Inv, TypeOK, FlashIsRight, PowerUp, flashVars, regVars
<1>3. FlashIsRight' /\ LocalIsRight'
  BY <1>1 DEF Inv, FlashIsRight, LocalIsRight, Known, Initializing, PowerUp, flashVars,
         getBootFailureCount
<1>4. SufferingIsCounted' /\ CleanedUp'
  BY <1>1 DEF Inv, SufferingIsCounted, CleanedUp, PowerUp, flashVars
<1>5. DatesAreRight'
  <2>1. phase' = "load" /\ run' = run + 1 /\ files' = files /\ bootstats' = bootstats
    BY DEF PowerUp, flashVars
  <2> SUFFICES ASSUME Known', NEW f \in MigrateFile, files'[f] # NoFile
               PROVE  LET age == run' - files'[f].run
                      IN  /\ age >= 0 /\ Since(f)' <= age
                          /\ Initializing' => Since(f)' < age
                          /\ phase' = "running" /\ age > 0 => Since(f)' > 0
    BY DEF DatesAreRight
  <2>2. Known /\ Since(f)' = Since(f)
    BY <2>1 DEF Known, Since
  <2>3. files[f].run \in Nat /\ Since(f) <= run - files[f].run /\ run - files[f].run >= 0
    BY <2>1, <2>2 DEF Inv, TypeOK, DatesAreRight, StateFile
  <2>4. Since(f) \in Nat
    BY <2>1, <2>2, DistanceRange DEF Inv, TypeOK, Known, Since, StateFile, BootStats
  <2>5. QED
    BY <1>1, <2>1, <2>2, <2>3, <2>4
<1>6. QED
  BY <1>2, <1>3, <1>4, <1>5 DEF Inv

\* The statistics are found, or they are lost and everything is counted from zero.
LEMMA LoadInv == ASSUME Inv, loadBootStats PROVE Inv'
<1>1. NewStats \in BootStats /\ getBootFailureCount(NewStats) = 0
  BY DistanceIs, BootAssumption DEF NewStats, BootStats, BootNr, getBootFailureCount
<1>2. phase = "load" /\ phase' \in {"recover", "migrate"}
  BY DEF loadBootStats
<1>3. CASE Known
  <2>1. /\ stats' = bootstats /\ bootstats' = bootstats /\ suffered' = suffered
        /\ UNCHANGED <<files, bootNr, version, longTime, regVars, run, failedBoots, lastVersion>>
    BY <1>3 DEF loadBootStats, Known
  <2>2. failedBoots = getBootFailureCount(bootstats) /\ bootstats.version = lastVersion
    BY <1>3 DEF Inv, FlashIsRight
  <2>3. /\ cause' = IF AutoRecover /\ failedBoots > MaxFailures THEN "failures"
                    ELSE IF lastVersion # version THEN "update" ELSE "none"
        /\ phase' = IF AutoRecover /\ failedBoots > MaxFailures THEN "recover" ELSE "migrate"
    BY <1>3, <2>2 DEF loadBootStats, Known
  <2>4. TypeOK'
    BY <1>2, <1>3, <2>1, <2>3 DEF Inv, TypeOK, Known, regVars
  <2>5. FlashIsRight'
    BY <1>2, <2>1 DEF Inv, FlashIsRight, Known, Initializing
  <2>6. LocalIsRight'
    BY <1>2, <1>3, <2>1, <2>2, <2>3, BootAssumption
    DEF LocalIsRight, Known, Afresh, Inv, TypeOK
  <2>7. SufferingIsCounted' /\ CleanedUp'
    BY <1>2, <2>1, <2>3 DEF Inv, SufferingIsCounted, CleanedUp, Afresh
  <2>8. DatesAreRight'
    BY <1>2, <2>1 DEF Inv, DatesAreRight, Known, Initializing, Since
  <2>9. QED
    BY <2>4, <2>5, <2>6, <2>7, <2>8 DEF Inv
<1>4. CASE ~Known
  <2>1. /\ stats' = NewStats /\ bootstats' = NoFile /\ cause' = "lost" /\ phase' = "migrate"
        /\ suffered' = [f \in StateFile |-> 0]
        /\ UNCHANGED <<files, bootNr, version, longTime, regVars, run, failedBoots, lastVersion>>
    BY <1>1, <1>4, BootAssumption DEF loadBootStats, Known
  <2>2. ~Known'
    BY <2>1, NotAFile DEF Known
  <2>3. TypeOK'
    BY <1>1, <2>1, BootAssumption DEF Inv, TypeOK, regVars
  <2>4. FlashIsRight' /\ LocalIsRight'
    BY <1>2, <2>1, <2>2 DEF Inv, FlashIsRight, LocalIsRight, Initializing, Afresh, NewStats
  <2>5. \A f \in StateFile : suffered'[f] = 0
    BY <2>1
  <2>6. SufferingIsCounted' /\ CleanedUp'
    BY <1>2, <2>1, <2>5 DEF Inv, TypeOK, SufferingIsCounted, CleanedUp, Afresh, StateFile
  <2>7. DatesAreRight'
    BY <2>2 DEF DatesAreRight
  <2>8. QED
    BY <2>3, <2>4, <2>7, <2>6 DEF Inv
<1>5. QED
  BY <1>3, <1>4

\* A state file is removed: what is said of the others stays true.
LEMMA RemoveInv ==
    ASSUME Inv, NEW f \in StateFile, Remove(f),
           UNCHANGED <<bootstats, phase, initVars, longTime, regVars, run, failedBoots,
                       lastVersion, cause>>
    PROVE  Inv'
<1>1. /\ files' = [files EXCEPT ![f] = NoFile]
      /\ suffered' = [suffered EXCEPT ![f] = 0]
  BY DEF Remove
<1>2. TypeOK'
  BY <1>1, BootAssumption DEF Inv, TypeOK, initVars, regVars
<1>3. FlashIsRight' /\ LocalIsRight'
  BY DEF Inv, FlashIsRight, LocalIsRight, Known, Initializing, Afresh, getBootFailureCount, initVars
<1>4. SufferingIsCounted'
  BY <1>1 DEF Inv, TypeOK, FlashIsRight, SufferingIsCounted
<1>5. CleanedUp'
  BY <1>1 DEF Inv, TypeOK, CleanedUp, Afresh, StateFile
<1>6. DatesAreRight'
  <2> SUFFICES ASSUME Known, NEW g \in MigrateFile, files'[g] # NoFile
               PROVE  LET age == run - files'[g].run
                      IN  /\ age >= 0 /\ Since(g)' <= age
                          /\ Initializing => Since(g)' < age
                          /\ phase = "running" /\ age > 0 => Since(g)' > 0
    BY DEF DatesAreRight, Known, Initializing
  <2>1. files'[g] = files[g]
    BY <1>1 DEF Inv, TypeOK, StateFile
  <2>2. Since(g)' = Since(g)
    BY <2>1 DEF Since
  <2>3. QED
    BY <2>1, <2>2 DEF Inv, DatesAreRight
<1>7. QED
  BY <1>2, <1>3, <1>4, <1>5, <1>6 DEF Inv

\* recover() removes another file, or leaves none of its files behind.
LEMMA RecoverInv == ASSUME Inv, recover PROVE Inv'
<1>1. CASE RemoveOne(RecoverFile) /\ UNCHANGED <<phase, stats>>
  <2>1. PICK f \in RecoverFile : Remove(f)
    BY <1>1 DEF RemoveOne
  <2>2. UNCHANGED <<bootstats, phase, initVars, longTime, regVars, run, failedBoots,
                    lastVersion, cause>>
    BY <1>1 DEF recover, initVars
  <2>3. QED
    BY <2>1, <2>2, RemoveInv DEF StateFile
<1>2. CASE NoneLeft(RecoverFile) /\ stats' = NewStats /\ phase' = "migrate"
  <2>1. /\ phase = "recover" /\ cause = "failures" /\ Known
        /\ \A f \in RecoverFile : suffered[f] = 0
    BY <1>2 DEF Inv, recover, LocalIsRight, SufferingIsCounted, NoneLeft, StateFile
  <2>2. UNCHANGED <<bootstats, files, suffered, bootNr, version, longTime, regVars, run,
                    failedBoots, lastVersion, cause>>
    BY <1>2 DEF recover, NoneLeft
  <2>3. TypeOK'
    BY <1>2, <2>2, BootAssumption DEF Inv, TypeOK, regVars, NewStats, BootStats, BootNr
  <2>4. FlashIsRight'
    BY <1>2, <2>1, <2>2 DEF Inv, FlashIsRight, Known, Initializing, getBootFailureCount
  <2>5. LocalIsRight'
    BY <1>2, <2>1, <2>2 DEF LocalIsRight, Afresh, NewStats
  <2>6. SufferingIsCounted' /\ CleanedUp'
    BY <1>2, <2>1, <2>2 DEF Inv, SufferingIsCounted, CleanedUp
  <2>7. DatesAreRight'
    BY <1>2, <2>1, <2>2 DEF Inv, DatesAreRight, Known, Initializing, Since
  <2>8. QED
    BY <2>3, <2>4, <2>5, <2>6, <2>7 DEF Inv
<1>3. QED
  BY <1>1, <1>2 DEF recover

\* migrate() removes another file, or leaves none of its files behind if the version is new.
LEMMA MigrateInv == ASSUME Inv, migrate PROVE Inv'
<1>1. CASE RemoveOne(MigrateFile) /\ UNCHANGED <<phase, stats>>
  <2>1. PICK f \in MigrateFile : Remove(f)
    BY <1>1 DEF RemoveOne
  <2>2. UNCHANGED <<bootstats, phase, initVars, longTime, regVars, run, failedBoots,
                    lastVersion, cause>>
    BY <1>1 DEF migrate, initVars
  <2>3. QED
    BY <2>1, <2>2, RemoveInv DEF StateFile
<1>2. CASE /\ \/ stats.version = version /\ UNCHANGED <<files, suffered>>
              \/ NoneLeft(MigrateFile)
           /\ stats' = [stats EXCEPT !.version = version]
           /\ phase' = "store"
  <2>1. phase = "migrate"
    BY DEF migrate
  <2>2. UNCHANGED <<bootstats, files, suffered, bootNr, version, longTime, regVars, run,
                    failedBoots, lastVersion, cause>>
    BY <1>2 DEF migrate, NoneLeft
  <2>3. stats \in BootStats /\ version \in Firmware
    BY DEF Inv, TypeOK
  <2>4. /\ stats'.bootNr = stats.bootNr /\ stats'.lastBootSuccess = stats.lastBootSuccess
        /\ stats'.version = version /\ stats' \in BootStats
    BY <1>2, <2>3 DEF BootStats
  <2>5. Afresh => \A f \in MigrateFile : files[f] = NoFile
    BY <1>2, <2>1, <2>3, BootAssumption DEF Inv, LocalIsRight, NoneLeft
  <2>6. TypeOK'
    BY <1>2, <2>2, <2>4 DEF Inv, TypeOK, regVars
  <2>7. FlashIsRight'
    BY <1>2, <2>1, <2>2 DEF Inv, FlashIsRight, Known, Initializing, getBootFailureCount
  <2>8. LocalIsRight'
    BY <1>2, <2>1, <2>2, <2>4 DEF Inv, LocalIsRight, Afresh, Known
  <2>9. SufferingIsCounted' /\ CleanedUp'
    BY <1>2, <2>1, <2>2, <2>5 DEF Inv, SufferingIsCounted, CleanedUp, Afresh
  <2>10. DatesAreRight'
    BY <1>2, <2>1, <2>2 DEF Inv, DatesAreRight, Known, Initializing, Since
  <2>11. QED
    BY <2>6, <2>7, <2>8, <2>9, <2>10 DEF Inv
<1>3. QED
  BY <1>1, <1>2 DEF migrate

\* The next boot number is stored: one more boot is counted, every file with a time is
\* one boot older and no file has suffered in the boot that begins.
LEMMA NextBoot ==
    ASSUME Inv, phase = "store", bootstats' = NextStats, Counted,
           UNCHANGED <<files, version, run, cause>>
    PROVE  /\ NextStats \in BootStats /\ NextStats.version = version
           /\ getBootFailureCount(NextStats) = failedBoots'
           /\ failedBoots' \in 1 .. run
           /\ AutoRecover => failedBoots' <= MaxFailures + 1
           /\ \A f \in StateFile : suffered[f] + 1 <= failedBoots'
           /\ \A f \in MigrateFile : files[f] # NoFile =>
                 /\ run - files[f].run > 0
                 /\ Since(f)' <= run - files[f].run /\ Since(f)' > 0
<1>1. stats \in BootStats /\ version \in Firmware /\ run \in 0 .. MaxRun /\ failedBoots \in 0 .. run
  BY DEF Inv, TypeOK
<1>2. stats.bootNr \in BootNr /\ stats.lastBootSuccess \in BootNr /\ stats.version = version
  BY <1>1 DEF Inv, LocalIsRight, BootStats
<1>3. failedBoots < run /\ run < Width
  BY <1>1, BootAssumption DEF Inv, FlashIsRight, Initializing
<1>4. (stats.bootNr + 1) % Width \in BootNr
  BY <1>2, BootAssumption DEF BootNr
<1>5. /\ NextStats \in BootStats /\ NextStats.version = version
      /\ NextStats.bootNr = (stats.bootNr + 1) % Width
      /\ NextStats.lastBootSuccess = stats.lastBootSuccess
  BY <1>1, <1>2, <1>4 DEF NextStats, BootStats
<1>6. CASE Afresh
  <2>1. failedBoots' = 1
    BY <1>6 DEF Counted, Afresh
  <2>2. stats.bootNr = 0 /\ stats.lastBootSuccess = 0
    BY <1>6 DEF Inv, LocalIsRight
  <2>3. (0 + 1) % Width = 1 /\ 1 \in BootNr /\ 0 \in BootNr
    BY BootAssumption DEF BootNr
  <2>4. (1 + Width - 0) % Width = 1
    BY <2>3, DistanceIs
  <2>5. getBootFailureCount(NextStats) = 1
    BY <1>5, <2>2, <2>3, <2>4 DEF getBootFailureCount
  <2>6. \A f \in MigrateFile : files[f] = NoFile
    BY <1>6 DEF Inv, CleanedUp
  <2>7. \A f \in StateFile : suffered[f] = 0
    BY <1>6, <2>6 DEF Inv, CleanedUp, SufferingIsCounted, StateFile, Afresh
  <2>8. QED
    BY <1>1, <1>3, <1>5, <2>1, <2>5, <2>6, <2>7, BootAssumption
<1>7. CASE ~Afresh
  <2>1. failedBoots' = failedBoots + 1
    BY <1>7 DEF Counted, Afresh
  <2>2. /\ Known /\ stats.bootNr = bootstats.bootNr
        /\ stats.lastBootSuccess = bootstats.lastBootSuccess
        /\ AutoRecover => failedBoots <= MaxFailures
    BY <1>7 DEF Inv, LocalIsRight
  <2>3. (stats.bootNr + Width - stats.lastBootSuccess) % Width = failedBoots
    BY <2>2 DEF Inv, FlashIsRight, getBootFailureCount
  <2>4. getBootFailureCount(NextStats) = failedBoots + 1
    <3>1. failedBoots + 1 < Width
      BY <1>1, <1>3, BootAssumption
    <3>2. (((stats.bootNr + 1) % Width) + Width - stats.lastBootSuccess) % Width = failedBoots + 1
      BY <1>2, <2>3, <3>1, NextDistance
    <3>3. QED
      BY <1>5, <3>2 DEF getBootFailureCount
  <2>5. \A f \in StateFile : suffered[f] \in Nat /\ suffered[f] <= failedBoots
    BY DEF Inv, SufferingIsCounted, TypeOK
  <2>6. ASSUME NEW f \in MigrateFile, files[f] # NoFile
        PROVE  /\ run - files[f].run > 0
               /\ Since(f)' <= run - files[f].run /\ Since(f)' > 0
    <3>1. files[f].bootNr \in BootNr /\ files[f].run \in 0 .. MaxRun
      BY <2>6 DEF Inv, TypeOK, StateFile
    <3>2. Since(f) < run - files[f].run /\ run - files[f].run >= 0
      BY <2>2, <2>6 DEF Inv, DatesAreRight, Initializing
    <3>3. Since(f) = (stats.bootNr + Width - files[f].bootNr) % Width
      BY <2>2 DEF Since
    <3>4. Since(f) \in Nat
      BY <1>2, <3>1, <3>3, DistanceRange
    <3>5. Since(f) + 1 < Width
      BY <1>1, <1>3, <3>1, <3>2, <3>4, BootAssumption
    <3>6. (((stats.bootNr + 1) % Width) + Width - files[f].bootNr) % Width = Since(f) + 1
      BY <1>2, <3>1, <3>3, <3>5, NextDistance
    <3>7. Since(f)' = Since(f) + 1
      BY <1>5, <3>6 DEF Since
    <3>8. QED
      BY <1>1, <3>1, <3>2, <3>4, <3>7
  <2>7. QED
    BY <1>1, <1>3, <1>5, <2>1, <2>2, <2>4, <2>5, <2>6, BootAssumption
<1>8. QED
  BY <1>6, <1>7

\* The run begins.
LEMMA AssignInv == ASSUME Inv, assignBootNr PROVE Inv'
<1>1. /\ phase = "store" /\ bootstats' = NextStats /\ stats' = NextStats
      /\ bootNr' = NextStats.bootNr /\ phase' = "running" /\ lastVersion' = version
      /\ UNCHANGED <<files, version, longTime, regVars, run, suffered, cause>>
  BY DEF assignBootNr, Counted
<1>2. /\ NextStats \in BootStats /\ NextStats.version = version
      /\ getBootFailureCount(NextStats) = failedBoots'
      /\ failedBoots' \in 1 .. run
      /\ AutoRecover => failedBoots' <= MaxFailures + 1
      /\ \A f \in StateFile : suffered[f] + 1 <= failedBoots'
      /\ \A f \in MigrateFile : files[f] # NoFile =>
            /\ run - files[f].run > 0
            /\ Since(f)' <= run - files[f].run /\ Since(f)' > 0
  BY <1>1, NextBoot DEF assignBootNr
<1>3. TypeOK'
  BY <1>1, <1>2 DEF Inv, TypeOK, regVars, BootStats
<1>4. FlashIsRight'
  <2>1. getBootFailureCount(bootstats)' = failedBoots'
    BY <1>1, <1>2 DEF getBootFailureCount
  <2>2. QED
    BY <1>1, <1>2, <2>1 DEF FlashIsRight, Known, Initializing
<1>5. LocalIsRight' /\ CleanedUp'
  BY <1>1 DEF LocalIsRight, CleanedUp
<1>6. SufferingIsCounted'
  BY <1>1, <1>2 DEF Inv, SufferingIsCounted, TypeOK
<1>7. DatesAreRight'
  <2> SUFFICES ASSUME Known', NEW f \in MigrateFile, files'[f] # NoFile
               PROVE  LET age == run' - files'[f].run
                      IN  /\ age >= 0 /\ Since(f)' <= age
                          /\ Initializing' => Since(f)' < age
                          /\ phase' = "running" /\ age > 0 => Since(f)' > 0
    BY DEF DatesAreRight
  <2>1. run' - files'[f].run > 0 /\ Since(f)' <= run' - files'[f].run /\ Since(f)' > 0
    BY <1>1, <1>2
  <2>2. ~Initializing'
    BY <1>1 DEF Initializing
  <2>3. run' - files'[f].run >= 0
    BY <1>1, <2>1 DEF Inv, TypeOK, StateFile
  <2>4. QED
    BY <2>1, <2>2, <2>3
<1>8. QED
  BY <1>3, <1>4, <1>5, <1>6, <1>7 DEF Inv

-----------------------------------------------------------------------------
(* The run.                                                                *)

\* A file that is written carries the number of the present boot.
LEMMA WriteInv == ASSUME Inv, NEW f \in StateFile, WriteStateFile(f) PROVE Inv'
<1>1. /\ phase = "running"
      /\ files' = [files EXCEPT ![f] = [run |-> run, bootNr |-> bootNr]]
      /\ suffered' = IF files[f] = NoFile THEN [suffered EXCEPT ![f] = 0] ELSE suffered
      /\ UNCHANGED <<bootstats, phase, initVars, longTime, regVars, run, failedBoots,
                     lastVersion, cause>>
  BY DEF WriteStateFile
<1>2. [run |-> run, bootNr |-> bootNr] \in [run : 0 .. MaxRun, bootNr : BootNr]
  BY DEF Inv, TypeOK
<1>3. /\ files'[f] = [run |-> run, bootNr |-> bootNr] /\ files'[f] # NoFile
      /\ \A g \in StateFile \ {f} : files'[g] = files[g] /\ suffered'[g] = suffered[g]
      /\ suffered'[f] \in {0, suffered[f]}
  BY <1>1, <1>2, NotAFile DEF Inv, TypeOK
<1>4. TypeOK'
  BY <1>1, <1>2, BootAssumption DEF Inv, TypeOK, initVars, regVars
<1>5. FlashIsRight' /\ LocalIsRight' /\ CleanedUp'
  BY <1>1 DEF Inv, FlashIsRight, LocalIsRight, CleanedUp, Known, Initializing,
              getBootFailureCount, initVars
<1>6. SufferingIsCounted'
  <2>1. \A g \in StateFile : suffered[g] \in Nat
    BY DEF Inv, TypeOK
  <2>2. QED
    BY <1>1, <1>3, <2>1 DEF Inv, SufferingIsCounted
<1>7. DatesAreRight'
  <2> SUFFICES ASSUME Known', NEW g \in MigrateFile, files'[g] # NoFile
               PROVE  LET age == run - files'[g].run
                      IN  /\ age >= 0 /\ Since(g)' <= age
                          /\ age > 0 => Since(g)' > 0
    BY <1>1 DEF DatesAreRight, Initializing
  <2>1. Known /\ bootstats.bootNr = bootNr /\ bootNr \in BootNr /\ run \in Nat
    BY <1>1 DEF Inv, FlashIsRight, TypeOK
  <2>2. CASE g = f
    <3>1. Since(g)' = (bootNr + Width - bootNr) % Width
      BY <1>1, <1>3, <2>1, <2>2 DEF Since
    <3>2. Since(g)' = 0
      BY <2>1, <3>1, DistanceRange
    <3>3. QED
      BY <1>3, <2>1, <2>2, <3>2
  <2>3. CASE g # f
    <3>1. files'[g] = files[g] /\ Since(g)' = Since(g)
      BY <1>1, <1>3, <2>3 DEF Since, StateFile
    <3>2. QED
      BY <1>1, <2>1, <3>1 DEF Inv, DatesAreRight
  <2>4. QED
    BY <2>2, <2>3
<1>8. QED
  BY <1>4, <1>5, <1>6, <1>7 DEF Inv

\* A success is stored: the count of failures is zero, the boot number stays.
LEMMA SuccessInv ==
    ASSUME Inv, phase = "running", Success, phase' \in {"running", "off"},
           phase' = "running" => longTime' /\ bootNr' = bootNr,
           phase' = "off" => ~longTime' /\ run < MaxRun,
           UNCHANGED <<files, version, run, lastVersion, cause>>,
           stats' \in BootStats, bootNr' \in BootNr,
           {longTime', accepted', intervalOver', asked', triggered', activated'} \subseteq BOOLEAN
    PROVE  Inv'
<1>1. Known /\ bootstats.bootNr = bootNr /\ bootNr \in BootNr
  BY DEF Inv, FlashIsRight, TypeOK
<1>2. /\ bootstats' \in BootStats /\ bootstats'.bootNr = bootstats.bootNr
      /\ bootstats'.lastBootSuccess = bootstats.bootNr
      /\ bootstats'.version = bootstats.version
  BY <1>1 DEF Success, Succeeded, Known, BootStats
<1>3. getBootFailureCount(bootstats)' = 0
  <2>1. (bootNr + Width - bootNr) % Width = 0
    BY <1>1, DistanceRange
  <2>2. QED
    BY <1>1, <1>2, <2>1 DEF getBootFailureCount
<1>4. failedBoots' = 0 /\ suffered' = [f \in StateFile |-> 0]
  BY DEF Success
<1>5. TypeOK'
  BY <1>2, <1>4, BootAssumption DEF Inv, TypeOK
<1>6. FlashIsRight'
  BY <1>1, <1>2, <1>3, <1>4 DEF Inv, FlashIsRight, Known, Initializing
<1>7. LocalIsRight' /\ CleanedUp'
  BY DEF LocalIsRight, CleanedUp
<1>8. SufferingIsCounted'
  <2>1. \A f \in StateFile : suffered'[f] = 0
    BY <1>4
  <2>2. phase' = "running" => longTime'
    OBVIOUS
  <2>3. longTime' => phase' = "running"
    OBVIOUS
  <2>4. QED
    BY <1>4, <2>1, <2>2, <2>3, BootAssumption DEF SufferingIsCounted
<1>9. DatesAreRight'
  <2>1. \A f \in MigrateFile : Since(f)' = Since(f)
    BY <1>2 DEF Since
  <2>2. QED
    BY <1>1, <2>1 DEF Inv, DatesAreRight, Initializing
<1>10. QED
  BY <1>5, <1>6, <1>7, <1>8, <1>9 DEF Inv

\* The charger is off, what is on the flash is as before.
LEMMA OffInv ==
    ASSUME Inv, Off, NEW s, suffered' = s, s \in [StateFile -> 0 .. MaxRun],
           UNCHANGED <<failedBoots, lastVersion>>,
           bootstats' \in {bootstats, Damaged},
           \A f \in StateFile : s[f] <= failedBoots /\ (files[f] = NoFile => s[f] = 0)
    PROVE  Inv'
<1>1. /\ phase' = "off" /\ run < MaxRun /\ stats' = NewStats /\ bootNr' = 0 /\ ~longTime'
      /\ UNCHANGED <<files, version, run, cause>>
      /\ {longTime', accepted', intervalOver', asked', triggered', activated'} \subseteq BOOLEAN
  BY DEF Off, Fresh
<1>2. 0 \in BootNr /\ NewStats \in BootStats
  BY BootAssumption DEF BootNr, NewStats, BootStats
<1>3. Known' => bootstats' = bootstats /\ Known
  BY NotAFile DEF Known
<1>4. TypeOK'
  BY <1>1, <1>2 DEF Inv, TypeOK
<1>5. FlashIsRight'
  BY <1>1, <1>3 DEF Inv, FlashIsRight, Initializing, getBootFailureCount
<1>6. LocalIsRight' /\ CleanedUp' /\ SufferingIsCounted'
  BY <1>1 DEF LocalIsRight, CleanedUp, SufferingIsCounted
<1>7. DatesAreRight'
  <2>1. ASSUME Known' PROVE Known /\ \A f \in MigrateFile : Since(f)' = Since(f)
    BY <1>1, <1>3, <2>1 DEF Since
  <2>2. QED
    BY <1>1, <2>1 DEF Inv, DatesAreRight, Initializing
<1>8. QED
  BY <1>4, <1>5, <1>6, <1>7 DEF Inv

\* A run that is cut off counts for the files that exist, unless it has been a success.
LEMMA PowerFailureInv == ASSUME Inv, PowerFailure PROVE Inv'
<1> DEFINE s == [f \in StateFile |->
                   IF phase = "running" /\ ~longTime /\ files[f] # NoFile
                   THEN suffered[f] + 1 ELSE suffered[f]]
<1>1. failedBoots \in 0 .. MaxRun /\ \A f \in StateFile : suffered[f] \in 0 .. MaxRun
  BY BootAssumption DEF Inv, TypeOK
<1>2. \A f \in StateFile : s[f] \in Nat /\ s[f] <= failedBoots /\ (files[f] = NoFile => s[f] = 0)
  BY <1>1 DEF Inv, SufferingIsCounted
<1>3. s \in [StateFile -> 0 .. MaxRun]
  BY <1>1, <1>2, BootAssumption
<1>4. Off /\ suffered' = s /\ UNCHANGED <<bootstats, failedBoots, lastVersion>>
  BY DEF PowerFailure
<1> HIDE DEF s
<1>5. QED
  BY <1>2, <1>3, <1>4, OffInv

\* A write that is cut off is the old file, the new one or a damaged one.
LEMMA PowerFailureStoringInv == ASSUME Inv, PowerFailureStoring PROVE Inv'
<1>1. Off /\ suffered \in [StateFile -> 0 .. MaxRun]
  BY DEF PowerFailureStoring, Inv, TypeOK
<1>2. /\ phase' = "off" /\ run < MaxRun /\ stats' = NewStats /\ bootNr' = 0 /\ ~longTime'
      /\ UNCHANGED <<files, version, run, cause>>
      /\ {longTime', accepted', intervalOver', asked', triggered', activated'} \subseteq BOOLEAN
  BY <1>1 DEF Off, Fresh
<1>3. 0 \in BootNr /\ NewStats \in BootStats
  BY BootAssumption DEF BootNr, NewStats, BootStats
<1>4. CASE bootstats' = Damaged /\ UNCHANGED <<suffered, failedBoots, lastVersion>>
  BY <1>1, <1>4, OffInv DEF Inv, SufferingIsCounted
<1>5. CASE phase = "store" /\ bootstats' = NextStats /\ Counted /\ UNCHANGED suffered
  <2>1. /\ NextStats \in BootStats /\ NextStats.version = version
        /\ getBootFailureCount(NextStats) = failedBoots'
        /\ failedBoots' \in 1 .. run
        /\ \A f \in StateFile : suffered[f] + 1 <= failedBoots'
        /\ \A f \in MigrateFile : files[f] # NoFile =>
              /\ run - files[f].run > 0
              /\ Since(f)' <= run - files[f].run /\ Since(f)' > 0
    BY <1>2, <1>5, NextBoot
  <2>2. lastVersion' = version
    BY <1>5 DEF Counted
  <2>3. TypeOK'
    BY <1>2, <1>3, <1>5, <2>1, <2>2 DEF Inv, TypeOK
  <2>4. getBootFailureCount(bootstats)' = failedBoots'
    BY <1>5, <2>1 DEF getBootFailureCount
  <2>5. FlashIsRight'
    BY <1>2, <1>5, <2>1, <2>2, <2>4 DEF FlashIsRight, Initializing
  <2>6. LocalIsRight' /\ CleanedUp'
    BY <1>2 DEF LocalIsRight, CleanedUp
  <2>7. SufferingIsCounted'
    BY <1>2, <1>5, <2>1 DEF Inv, SufferingIsCounted, TypeOK
  <2>8. DatesAreRight'
    BY <1>2, <2>1 DEF DatesAreRight, Initializing, Inv, TypeOK, StateFile
  <2>9. QED
    BY <2>3, <2>5, <2>6, <2>7, <2>8 DEF Inv
<1>6. CASE phase = "running" /\ Success /\ UNCHANGED lastVersion
  BY <1>2, <1>3, <1>6, SuccessInv
<1>7. QED
  BY <1>4, <1>5, <1>6 DEF PowerFailureStoring

\* A long run and an orderly end are successes.
LEMMA LongTimeInv == ASSUME Inv, loopLongTime \/ mocpp_deinitialize PROVE Inv'
<1>1. CASE loopLongTime
  BY <1>1, SuccessInv DEF loopLongTime, Inv, TypeOK, initVars, regVars
<1>2. CASE mocpp_deinitialize
  <2>1. 0 \in BootNr /\ NewStats \in BootStats
    BY BootAssumption DEF BootNr, NewStats, BootStats
  <2>2. QED
    BY <1>2, <2>1, SuccessInv DEF mocpp_deinitialize, Fresh
<1>3. QED
  BY <1>1, <1>2

-----------------------------------------------------------------------------
(* The theorems.                                                           *)

\* Inv is inductive: every step preserves it.
LEMMA NextInv == Inv /\ [Next]_vars => Inv'
<1> SUFFICES ASSUME Inv, [Next]_vars PROVE Inv'
  OBVIOUS
<1>1. CASE PowerUp
  BY <1>1, PowerUpInv
<1>2. CASE Initialize
  BY <1>2, LoadInv, RecoverInv, MigrateInv, AssignInv DEF Initialize
<1>3. ASSUME NEW f \in StateFile, WriteStateFile(f) \/ RemoveStateFile(f) PROVE Inv'
  BY <1>3, WriteInv, RemoveInv DEF RemoveStateFile
<1>4. CASE loopLongTime \/ mocpp_deinitialize
  BY <1>4, LongTimeInv
<1>5. CASE PowerFailure \/ PowerFailureStoring
  BY <1>5, PowerFailureInv, PowerFailureStoringInv
<1>6. CASE IntervalPasses \/ loop \/ TriggerMessage \/ TriggeredLost
  <2>1. {accepted, intervalOver, asked, triggered, activated} \subseteq BOOLEAN
    BY DEF Inv, TypeOK
  <2>2. {accepted', intervalOver', asked', triggered', activated'} \subseteq BOOLEAN
    BY <1>6, <2>1 DEF IntervalPasses, loop, TriggerMessage, TriggeredLost
  <2>3. UNCHANGED <<flashVars, phase, initVars, longTime, history>>
    BY <1>6 DEF IntervalPasses, loop, TriggerMessage, TriggeredLost
  <2>4. QED
    BY <2>2, <2>3, RegistrationInv
<1>7. ASSUME NEW status \in {"Accepted", "Pending", "invalid"}, Answered(status) PROVE Inv'
  <2>1. {accepted, intervalOver, asked, triggered, activated} \subseteq BOOLEAN
    BY DEF Inv, TypeOK
  <2>2. {accepted', intervalOver', asked', triggered', activated'} \subseteq BOOLEAN
    BY <1>7, <2>1 DEF Answered
  <2>3. UNCHANGED <<flashVars, phase, initVars, longTime, history>>
    BY <1>7 DEF Answered
  <2>4. QED
    BY <2>2, <2>3, RegistrationInv
<1>8. CASE UNCHANGED vars
  <2>1. {accepted, intervalOver, asked, triggered, activated} \subseteq BOOLEAN
    BY DEF Inv, TypeOK
  <2>2. QED
    BY <1>8, <2>1, RegistrationInv DEF vars, regVars
<1>9. QED
  BY <1>1, <1>2, <1>3, <1>4, <1>5, <1>6, <1>7, <1>8 DEF Next

\* In every behaviour, whatever is cut off by a power failure.
THEOREM Invariance == Spec => []Inv
<1>1. Init => Inv
  BY InitInv
<1>2. Inv /\ [Next]_vars => Inv'
  BY NextInv
<1>3. QED
  BY <1>1, <1>2, PTL DEF Spec

\* Every variable keeps its type: the counters do not leave the range of the boot
\* numbers, and there are never more failures than runs.
THEOREM TypeCorrect == Spec => []TypeOK
<1>1. Inv => TypeOK
  BY DEF Inv
<1>2. QED
  BY <1>1, Invariance, PTL

\* The boot number in a time tells whether it was taken in this run, for boot numbers of
\* any width that is not exceeded by the number of runs.
THEOREM BootNrIsUnique == Spec => []BootNrIdentifiesRun
<1>1. Inv => BootNrIdentifiesRun
  <2> SUFFICES ASSUME Inv, phase = "running", NEW f \in MigrateFile,
                      files[f] # NoFile, files[f].bootNr = bootNr
               PROVE  files[f].run = run
    BY DEF BootNrIdentifiesRun
  <2>1. Known /\ bootstats.bootNr = bootNr /\ bootNr \in BootNr /\ run \in Nat
    BY DEF Inv, FlashIsRight, TypeOK
  <2>2. Since(f) = 0
    BY <2>1, DistanceRange DEF Since
  <2>3. files[f].run \in Nat
    BY DEF Inv, TypeOK, StateFile
  <2>4. ~(run - files[f].run > 0) /\ run - files[f].run >= 0
    BY <2>1, <2>2 DEF Inv, DatesAreRight
  <2>5. QED
    BY <2>1, <2>3, <2>4
<1>2. QED
  BY <1>1, Invariance, PTL

\* A file that makes the firmware fail is gone after MaxFailures + 1 runs, for every
\* limit, every number of files and every interruption of the recovery.
THEOREM BootLoopsEnd == Spec => []BootLoopBroken
<1>1. Inv => BootLoopBroken
  <2> SUFFICES ASSUME Inv, AutoRecover, phase = "running", NEW f \in StateFile
               PROVE  suffered[f] <= MaxFailures
    BY DEF BootLoopBroken
  <2>1. failedBoots \in Nat /\ suffered[f] \in Nat
    BY DEF Inv, TypeOK
  <2>2. suffered[f] + (IF longTime THEN 0 ELSE 1) <= failedBoots /\ failedBoots <= MaxFailures + 1
    BY DEF Inv, SufferingIsCounted
  <2>3. longTime => failedBoots = 0
    BY DEF Inv, SufferingIsCounted
  <2>4. QED
    BY <2>1, <2>2, <2>3, BootAssumption
<1>2. QED
  BY <1>1, Invariance, PTL

\* mocpp_initialize() deletes no file without a cause: a series of failed boots, an
\* update, or the loss of the statistics.
THEOREM DeletionsHaveACause == Spec => DeletedForCause
<1> DEFINE Del == \A f \in StateFile :
                     phase # "running" /\ files[f] # NoFile /\ files'[f] = NoFile
                     => /\ cause # "none"
                        /\ cause = "update" => f \in MigrateFile
<1>1. Inv /\ [Next]_vars => [Del]_vars
  <2> SUFFICES ASSUME Inv, [Next]_vars, NEW f \in StateFile,
                      phase # "running", files[f] # NoFile, files'[f] = NoFile
               PROVE  /\ cause # "none"
                      /\ cause = "update" => f \in MigrateFile
    OBVIOUS
  <2>1. recover \/ migrate
    BY DEF Next, vars, flashVars, PowerUp, Initialize, loadBootStats, assignBootNr,
           WriteStateFile, RemoveStateFile, loopLongTime, mocpp_deinitialize, PowerFailure,
           PowerFailureStoring, Off, IntervalPasses, loop, TriggerMessage, TriggeredLost, Answered
  <2>2. CASE recover
    BY <2>2 DEF recover, Inv, LocalIsRight
  <2>3. CASE migrate
    <3>1. phase = "migrate"
      BY <2>3 DEF migrate
    <3>2. PICK g \in MigrateFile : stats.version # version /\ Remove(g)
      BY <2>3 DEF migrate, RemoveOne, NoneLeft
    <3>3. f = g
      BY <3>2 DEF Remove, Inv, TypeOK, StateFile
    <3>4. cause # "none"
      BY <3>1, <3>2 DEF Inv, LocalIsRight, Afresh
    <3>5. QED
      BY <3>3, <3>4
  <2>4. QED
    BY <2>1, <2>2, <2>3
<1>2. QED
  BY <1>1, Invariance, PTL DEF Spec, DeletedForCause
=============================================================================
