---------------------------- MODULE Metering_proof ----------------------------
(***************************************************************************)
(* For any sizes of the journal, the records and the cache: a               *)
(* StopTransaction carries the samples of its own session.  IInv says which *)
(* of the files belong to which transaction of the journal, and when the    *)
(* object in memory agrees with them.                                       *)
(***************************************************************************)
EXTENDS Metering, SequenceTheorems, WellFoundedInduction, TLAPS

-----------------------------------------------------------------------------
(* Sets of numbers.                                                         *)

Below == {p \in Nat \X Nat : p[1] < p[2]}

LEMMA BelowWellFounded == IsWellFoundedOn(Below, Nat)
<1>1. OpToRel(<, Nat) = Below
  BY DEF OpToRel, Below
<1>2. QED
  BY <1>1, NatLessThanWellFounded

\* A set of numbers has a least element, and a bounded one a greatest.
LEMMA Least ==
    ASSUME NEW S, S \subseteq Nat, S # {}
    PROVE  \E x \in S : \A y \in S : x <= y
<1>1. PICK x \in S : \A y \in S : ~(<<y, x>> \in Below)
  BY BelowWellFounded, WFMin
<1>2. ASSUME NEW y \in S PROVE x <= y
  <2>1. x \in Nat /\ y \in Nat
    OBVIOUS
  <2>2. y < x => <<y, x>> \in Below
    BY <2>1 DEF Below
  <2>3. QED
    BY <1>1, <2>1, <2>2
<1>3. QED
  BY <1>2

LEMMA Greatest ==
    ASSUME NEW n \in Nat, NEW S, S \subseteq 0 .. n, S # {}
    PROVE  \E x \in S : \A y \in S : y <= x
<1> DEFINE D == {n - x : x \in S}
<1>1. D \subseteq Nat /\ D # {}
  <2>1. \A x \in S : n - x \in Nat
    OBVIOUS
  <2>2. PICK x \in S : TRUE
    OBVIOUS
  <2>3. n - x \in D
    OBVIOUS
  <2>4. QED
    BY <2>1, <2>3
<1>2. PICK d \in D : \A y \in D : d <= y
  BY <1>1, Least
<1>3. PICK x \in S : d = n - x
  BY <1>2
<1>4. \A y \in S : y <= x
  <2>1. TAKE y \in S
  <2>2. n - x <= n - y
    BY <1>2, <1>3
  <2>3. QED
    BY <2>2
<1>5. QED
  BY <1>4

-----------------------------------------------------------------------------
(* The inductive invariant.                                                 *)

\* The number j numbers before n, and the one that was given out j numbers ago.
Before(n, j) == (n + MaxTxCnt - j) % MaxTxCnt
Ago(j) == Before(nrEnd, j)

\* The transactions of the journal have consecutive numbers, the last ones given out.
Numbered ==
    \A k \in 1 .. Len(journal) : journal[k].nr = Ago(Len(journal) + 1 - k)

\* Only the last one can be the current one, and one that goes silent does not stop.
Phases ==
    \A k \in 1 .. Len(journal) :
        /\ k < Len(journal) => journal[k].phase \in {"stopped", "done"}
        /\ journal[k].phase = "stopped" => ~journal[k].silent

\* The files of a transaction are the first n, with samples of its session.
Files(f, n, s) ==
    \A i \in Index : IF i < n THEN f[i] \in Samples /\ f[i].session = s ELSE f[i] = None

\* The first one is of the begin, as soon as it has started, and the last one of the end.
OwnFiles(e, f) ==
    \E n \in 0 .. StopTxDataLen :
        /\ Files(f, n, e.session)
        /\ n > 0 => f[0].kind = "begin"
        /\ e.phase # "preparing" => n > 0
        /\ e.phase = "stopped" => f[n - 1].kind = "end"

Live(e) == ~e.silent /\ e.phase \in {"preparing", "running", "stopped"}
FilesOwn == \A k \in 1 .. Len(journal) : Live(journal[k]) => OwnFiles(journal[k], sd[journal[k].nr])

\* The object in memory is that of the current transaction, and agrees with its files.
DataAgrees ==
    stopTxnData # None =>
        /\ HasCurrent /\ Current.phase # "preparing" /\ stopTxnData.nr = Current.nr
        /\ ~Current.silent => Current.phase = "running" /\ stopTxnData = Restored(Current.nr)

IInv == TypeOK /\ Numbered /\ Phases /\ FilesOwn /\ DataAgrees /\ StopDataIsOwn

-----------------------------------------------------------------------------
(* The store.                                                               *)

\* The count of entries is beyond all files.
LEMMA MvCountIs ==
    ASSUME NEW f
    PROVE  MvCount(f) \in 0 .. StopTxDataLen /\ \A i \in Index : f[i] # None => i < MvCount(f)
<1>1. CASE Paths(f) = {}
  <2>1. MvCount(f) = 0
    BY <1>1 DEF MvCount
  <2>2. \A i \in Index : f[i] = None
    BY <1>1 DEF Paths
  <2>3. QED
    BY <2>1, <2>2, ConstantsAssumption
<1>2. CASE Paths(f) # {}
  <2> DEFINE last == CHOOSE i \in Paths(f) : \A j \in Paths(f) : j <= i
  <2>1. StopTxDataLen \in Nat /\ StopTxDataLen >= 2
    BY ConstantsAssumption
  <2>2. Paths(f) \subseteq 0 .. StopTxDataLen - 1
    BY DEF Paths, Index
  <2>3. \E i \in Paths(f) : \A j \in Paths(f) : j <= i
    BY <1>2, <2>1, <2>2, Greatest
  <2>4. last \in Paths(f) /\ \A j \in Paths(f) : j <= last
    BY <2>3
  <2>5. MvCount(f) = 1 + last
    BY <1>2 DEF MvCount
  <2> HIDE DEF last
  <2>6. \A i \in Index : f[i] # None => i \in Paths(f)
    BY DEF Paths
  <2>7. QED
    BY <2>1, <2>2, <2>4, <2>5, <2>6 DEF Index
<1>3. QED
  BY <1>1, <1>2

LEMMA MvCountOfFiles ==
    ASSUME NEW f, NEW n \in 0 .. StopTxDataLen, NEW s, Files(f, n, s)
    PROVE  MvCount(f) = n
<1>1. StopTxDataLen \in Nat
  BY ConstantsAssumption
<1>2. MvCount(f) \in 0 .. StopTxDataLen /\ \A i \in Index : f[i] # None => i < MvCount(f)
  BY MvCountIs
<1>3. \A i \in Index : f[i] # None <=> i < n
  BY NoneAssumption DEF Files
<1>4. n <= MvCount(f)
  <2>1. CASE n = 0
    BY <1>2, <2>1
  <2>2. CASE n > 0
    <3>1. n - 1 \in Index /\ n - 1 < n
      BY <1>1, <2>2 DEF Index
    <3>2. n - 1 < MvCount(f)
      BY <1>2, <1>3, <3>1
    <3>3. QED
      BY <1>2, <3>2
  <2>3. QED
    BY <2>1, <2>2
<1>5. MvCount(f) <= n
  <2>1. CASE Paths(f) = {}
    BY <2>1 DEF MvCount
  <2>2. CASE Paths(f) # {}
    <3>1. \A i \in Paths(f) : i \in Index /\ i < n
      BY <1>3 DEF Paths
    <3>2. \E i \in Paths(f) : \A j \in Paths(f) : j <= i
      <4>1. Paths(f) \subseteq 0 .. StopTxDataLen
        BY <1>1 DEF Paths, Index
      <4>2. QED
        BY <1>1, <2>2, <4>1, Greatest
    <3>3. PICK i \in Paths(f) : MvCount(f) = 1 + i
      BY <2>2, <3>2 DEF MvCount
    <3>4. QED
      BY <1>1, <3>1, <3>3 DEF Index
  <2>3. QED
    BY <2>1, <2>2
<1>6. QED
  BY <1>1, <1>2, <1>4, <1>5

\* The first m files, as a sequence and in an object.
Content(f, m) == [k \in 1 .. m |-> f[k - 1]]
Loaded(nr, f, m) == [nr |-> nr, data |-> Content(f, m), mvCount |-> m, finalized |-> FALSE]

LEMMA LoadedType ==
    ASSUME NEW nr \in TxNr, NEW f, NEW n \in 0 .. StopTxDataLen, NEW s, Files(f, n, s)
    PROVE  /\ Content(f, n) \in Seq(Samples) /\ Len(Content(f, n)) = n
           /\ \A k \in 1 .. n : Content(f, n)[k] = f[k - 1] /\ f[k - 1].session = s
           /\ Loaded(nr, f, n) \in MeterData /\ Loaded(nr, f, n) # None
<1>1. StopTxDataLen \in Nat
  BY ConstantsAssumption
<1>2. \A k \in 1 .. n : f[k - 1] \in Samples /\ f[k - 1].session = s
  <2>1. TAKE k \in 1 .. n
  <2>2. k - 1 \in Index /\ k - 1 < n
    BY <1>1 DEF Index
  <2>3. QED
    BY <2>2 DEF Files
<1>3. Content(f, n) \in [1 .. n -> Samples]
  BY <1>2 DEF Content
<1>4. Content(f, n) \in Seq(Samples) /\ Len(Content(f, n)) = n
  <2>1. n \in Nat
    BY <1>1
  <2>2. Content(f, n) \in Seq(Samples)
    BY <1>3, <2>1, SeqDef
  <2>3. DOMAIN Content(f, n) = 1 .. Len(Content(f, n)) /\ Len(Content(f, n)) \in Nat
    BY <2>2, LenProperties
  <2>4. PICK l : l = Len(Content(f, n))
    OBVIOUS
  <2>5. 1 .. n = 1 .. l /\ l \in Nat
    BY <1>3, <2>3, <2>4
  <2>6. (n > 0 => n \in 1 .. l) /\ (l > 0 => l \in 1 .. n)
    BY <2>1, <2>5
  <2>7. n = l
    BY <2>1, <2>5, <2>6
  <2>8. QED
    BY <2>2, <2>4, <2>7
<1>5. Loaded(nr, f, n) \in MeterData
  BY <1>4 DEF Loaded, MeterData
<1>6. QED
  BY <1>2, <1>4, <1>5, NoneAssumption DEF Content

LEMMA RestoredIs ==
    ASSUME NEW nr \in TxNr, NEW n \in 0 .. StopTxDataLen, NEW s, Files(sd[nr], n, s)
    PROVE  Restored(nr) = Loaded(nr, sd[nr], n)
<1>1. MvCount(sd[nr]) = n
  BY MvCountOfFiles
<1>2. QED
  BY <1>1 DEF Restored, Loaded, Content

\* A further sample: in a file of its own, or, with a full record, in the last one.
LEMMA AddedIs ==
    ASSUME sd \in [TxNr -> [Index -> Samples \cup {None}]],
           NEW nr \in TxNr, NEW n \in 0 .. StopTxDataLen, NEW s, Files(sd[nr], n, s),
           NEW mv \in Samples, mv.session = s
    PROVE  \E m \in 1 .. StopTxDataLen : \E f \in [Index -> Samples \cup {None}] :
              /\ AddedFile(Restored(nr), mv) = [sd EXCEPT ![nr] = f]
              /\ Added(Restored(nr), mv) = Loaded(nr, f, m)
              /\ Files(f, m, s) /\ f[m - 1] = mv
              /\ n > 0 => m > 1 /\ f[0] = sd[nr][0]
              /\ n = 0 => m = 1
<1>1. StopTxDataLen \in Nat /\ StopTxDataLen >= 2 /\ n \in Nat /\ n <= StopTxDataLen
  BY ConstantsAssumption
<1>2. PICK d : d = Loaded(nr, sd[nr], n)
  OBVIOUS
<1>3. /\ d \in MeterData /\ d # None /\ d = Restored(nr)
      /\ d.data \in Seq(Samples) /\ Len(d.data) = n
      /\ \A k \in 1 .. n : d.data[k] = sd[nr][k - 1]
      /\ d.nr = nr /\ d.mvCount = n /\ ~d.finalized
  BY <1>2, LoadedType, RestoredIs DEF Loaded
<1>4. PICK a : a = IF n >= StopTxDataLen THEN n - 1 ELSE n
  OBVIOUS
<1>5. a \in Index /\ a = AddedAt(d)
  BY <1>1, <1>3, <1>4 DEF Index, AddedAt
<1>6. PICK m : m = a + 1
  OBVIOUS
<1>7. m \in 1 .. StopTxDataLen /\ m >= n
  BY <1>1, <1>4, <1>6
<1>8. PICK f : f = [sd[nr] EXCEPT ![a] = mv]
  OBVIOUS
<1>9. f \in [Index -> Samples \cup {None}] /\ \A i \in Index : f[i] = IF i = a THEN mv ELSE sd[nr][i]
  BY <1>5, <1>8
<1>10. AddedFile(Restored(nr), mv) = [sd EXCEPT ![nr] = f]
  BY <1>3, <1>5, <1>8 DEF AddedFile
<1>11. Files(f, m, s)
  <2>1. SUFFICES ASSUME NEW i \in Index
                 PROVE  IF i < m THEN f[i] \in Samples /\ f[i].session = s ELSE f[i] = None
    BY DEF Files
  <2>2. CASE i = a
    BY <1>1, <1>4, <1>6, <1>9, <2>2
  <2>3. CASE i # a
    <3>1. i < m <=> i < n
      BY <1>1, <1>4, <1>6, <2>3 DEF Index
    <3>2. f[i] = sd[nr][i]
      BY <1>9, <2>3
    <3>3. QED
      BY <3>1, <3>2 DEF Files
  <2>4. QED
    BY <2>2, <2>3
<1>12. Added(d, mv) = Loaded(nr, f, m)
  <2>1. Content(f, m) \in Seq(Samples) /\ Len(Content(f, m)) = m
        /\ \A k \in 1 .. m : Content(f, m)[k] = f[k - 1]
    <3>1. m \in 0 .. StopTxDataLen
      BY <1>1, <1>7
    <3>2. QED
      BY <1>11, <3>1, LoadedType
  <2>2. \A k \in 1 .. m : f[k - 1] = IF k = m THEN mv ELSE sd[nr][k - 1]
    <3>1. TAKE k \in 1 .. m
    <3>2. k - 1 \in Index /\ (k - 1 = a <=> k = m)
      BY <1>1, <1>5, <1>6, <1>7 DEF Index
    <3>3. QED
      BY <1>9, <3>2
  <2>3. CASE n >= StopTxDataLen
    <3>1. m = n /\ m \in 1 .. Len(d.data)
      BY <1>1, <1>3, <1>4, <1>6, <2>3
    <3>2. PICK t : t = [d.data EXCEPT ![m] = mv]
      OBVIOUS
    <3>3. /\ t \in Seq(Samples) /\ Len(t) = m
          /\ \A k \in 1 .. m : t[k] = IF k = m THEN mv ELSE d.data[k]
      BY <1>3, <3>1, <3>2, ExceptSeq
    <3>4. t = Content(f, m)
      <4>1. \A k \in 1 .. m : t[k] = Content(f, m)[k]
        BY <1>3, <2>1, <2>2, <3>1, <3>3
      <4>2. QED
        BY <2>1, <3>3, <4>1, SeqEqual
    <3>5. Added(d, mv) = [d EXCEPT !.data = t]
      <4>1. Added(d, mv) = [d EXCEPT !.data[Len(d.data)] = mv]
        BY <1>3, <2>3 DEF Added
      <4>2. QED
        BY <1>3, <3>1, <3>2, <4>1
    <3>6. QED
      BY <1>2, <3>1, <3>4, <3>5 DEF Loaded
  <2>4. CASE n < StopTxDataLen
    <3>1. m = n + 1
      BY <1>1, <1>4, <1>6, <2>4
    <3>2. PICK t : t = Append(d.data, mv)
      OBVIOUS
    <3>3. /\ t \in Seq(Samples) /\ Len(t) = m
          /\ \A k \in 1 .. m : t[k] = IF k = m THEN mv ELSE d.data[k]
      <4>1. /\ t \in Seq(Samples) /\ Len(t) = n + 1
            /\ \A k \in 1 .. n : t[k] = d.data[k]
            /\ t[n + 1] = mv
        BY <1>3, <3>2, AppendProperties
      <4>2. QED
        BY <1>1, <3>1, <4>1
    <3>4. t = Content(f, m)
      <4>1. \A k \in 1 .. m : t[k] = Content(f, m)[k]
        <5>1. TAKE k \in 1 .. m
        <5>2. k # m => k \in 1 .. n
          BY <1>1, <3>1
        <5>3. QED
          BY <1>3, <2>1, <2>2, <3>3, <5>2
      <4>2. QED
        BY <2>1, <3>3, <4>1, SeqEqual
    <3>5. Added(d, mv) = [d EXCEPT !.data = t, !.mvCount = m]
      <4>1. ~(n >= StopTxDataLen)
        BY <1>1, <2>4
      <4>2. QED
        BY <1>3, <3>1, <3>2, <4>1 DEF Added
    <3>6. QED
      BY <1>2, <3>4, <3>5 DEF Loaded
  <2>5. QED
    BY <1>1, <2>3, <2>4
<1>13. f[m - 1] = mv
  BY <1>1, <1>4, <1>5, <1>6, <1>9
<1>14. n > 0 => m > 1 /\ f[0] = sd[nr][0]
  <2>1. HAVE n > 0
  <2>2. a > 0 /\ 0 \in Index
    BY <1>1, <1>4, <2>1 DEF Index
  <2>3. QED
    BY <1>1, <1>4, <1>6, <1>9, <2>2
<1>15. n = 0 => m = 1
  BY <1>1, <1>4, <1>6
<1>16. QED
  BY <1>3, <1>7, <1>9, <1>10, <1>11, <1>12, <1>13, <1>14, <1>15

-----------------------------------------------------------------------------
(* The journal.                                                             *)

LEMMA JournalType ==
    ASSUME TypeOK
    PROVE  /\ Len(journal) \in Nat /\ Len(journal) <= RecordSize
           /\ \A k \in 1 .. Len(journal) : journal[k] \in Entry
           /\ journal # <<>> => Len(journal) \in 1 .. Len(journal)
<1>1. journal \in Seq(Entry)
  BY DEF TypeOK
<1>2. Len(journal) \in Nat
  BY <1>1, LenProperties
<1>3. \A k \in 1 .. Len(journal) : journal[k] \in Entry
  BY <1>1, ElementOfSeq
<1>4. journal # <<>> => Len(journal) > 0
  BY <1>1, EmptySeq
<1>5. QED
  BY <1>2, <1>3, <1>4 DEF TypeOK

LEMMA BeforeIs ==
    ASSUME NEW n \in TxNr, NEW j \in 1 .. MaxTxCnt
    PROVE  /\ Before(n, j) = IF j <= n THEN n - j ELSE n + MaxTxCnt - j
           /\ Before(n, j) \in TxNr /\ (Before(n, j) = n <=> j = MaxTxCnt)
<1>1. MaxTxCnt \in Nat /\ MaxTxCnt > 0 /\ n \in 0 .. MaxTxCnt - 1
  BY ConstantsAssumption DEF TxNr
<1>2. Before(n, j) = IF j <= n THEN n - j ELSE n + MaxTxCnt - j
  BY <1>1, SMT DEF Before
<1>3. QED
  BY <1>1, <1>2 DEF TxNr

LEMMA AgoIs ==
    ASSUME nrEnd \in TxNr, NEW j \in 1 .. MaxTxCnt
    PROVE  /\ Ago(j) = IF j <= nrEnd THEN nrEnd - j ELSE nrEnd + MaxTxCnt - j
           /\ Ago(j) \in TxNr /\ (Ago(j) = nrEnd <=> j = MaxTxCnt)
  BY BeforeIs DEF Ago

\* A number is given out, or the last one is given back.
LEMMA NumberGiven ==
    ASSUME NEW n \in TxNr, NEW m, m = (n + 1) % MaxTxCnt
    PROVE  /\ m \in TxNr /\ Before(m, 1) = n
           /\ \A j \in 1 .. MaxTxCnt - 1 : Before(m, j + 1) = Before(n, j)
<1>1. MaxTxCnt \in Nat /\ MaxTxCnt > 0 /\ n \in 0 .. MaxTxCnt - 1
  BY ConstantsAssumption DEF TxNr
<1>2. m = (IF n = MaxTxCnt - 1 THEN 0 ELSE n + 1) /\ m \in TxNr
  BY <1>1, SMT DEF TxNr
<1>3. Before(m, 1) = n
  <2>1. 1 \in 1 .. MaxTxCnt
    BY <1>1
  <2>2. Before(m, 1) = IF 1 <= m THEN m - 1 ELSE m + MaxTxCnt - 1
    BY <1>2, <2>1, BeforeIs
  <2>3. QED
    BY <1>1, <1>2, <2>2
<1>4. ASSUME NEW j \in 1 .. MaxTxCnt - 1 PROVE Before(m, j + 1) = Before(n, j)
  <2>1. j \in 1 .. MaxTxCnt /\ j + 1 \in 1 .. MaxTxCnt
    BY <1>1
  <2>2. Before(n, j) = IF j <= n THEN n - j ELSE n + MaxTxCnt - j
    BY <2>1, BeforeIs
  <2>3. Before(m, j + 1) = IF j + 1 <= m THEN m - (j + 1) ELSE m + MaxTxCnt - (j + 1)
    BY <1>2, <2>1, BeforeIs
  <2>4. QED
    BY <1>1, <1>2, <2>1, <2>2, <2>3
<1>5. QED
  BY <1>2, <1>3, <1>4

LEMMA NumberGivenBack ==
    ASSUME NEW n \in TxNr, NEW m, m = Before(n, 1)
    PROVE  m \in TxNr /\ \A j \in 1 .. MaxTxCnt - 1 : Before(m, j) = Before(n, j + 1)
<1>1. MaxTxCnt \in Nat /\ MaxTxCnt > 0 /\ n \in 0 .. MaxTxCnt - 1
  BY ConstantsAssumption DEF TxNr
<1>2. m = (IF 1 <= n THEN n - 1 ELSE n + MaxTxCnt - 1) /\ m \in TxNr
  BY <1>1, BeforeIs
<1>3. ASSUME NEW j \in 1 .. MaxTxCnt - 1 PROVE Before(m, j) = Before(n, j + 1)
  <2>1. j \in 1 .. MaxTxCnt /\ j + 1 \in 1 .. MaxTxCnt
    BY <1>1
  <2>2. Before(m, j) = IF j <= m THEN m - j ELSE m + MaxTxCnt - j
    BY <1>2, <2>1, BeforeIs
  <2>3. Before(n, j + 1) = IF j + 1 <= n THEN n - (j + 1) ELSE n + MaxTxCnt - (j + 1)
    BY <2>1, BeforeIs
  <2>4. QED
    BY <1>1, <1>2, <2>1, <2>2, <2>3
<1>4. QED
  BY <1>2, <1>3

LEMMA AgoInjective ==
    ASSUME nrEnd \in TxNr, NEW i \in 1 .. MaxTxCnt, NEW j \in 1 .. MaxTxCnt, Ago(i) = Ago(j)
    PROVE  i = j
  BY AgoIs, ConstantsAssumption DEF TxNr

\* No two transactions of the journal have the same number.
LEMMA NumbersDiffer ==
    ASSUME TypeOK, Numbered, NEW i \in 1 .. Len(journal), NEW k \in 1 .. Len(journal), i # k
    PROVE  journal[i].nr # journal[k].nr
<1>1. Len(journal) \in Nat /\ Len(journal) <= MaxTxCnt /\ MaxTxCnt \in Nat
  BY JournalType, ConstantsAssumption
<1>2. Len(journal) + 1 - i \in 1 .. MaxTxCnt /\ Len(journal) + 1 - k \in 1 .. MaxTxCnt
  BY <1>1
<1>3. Len(journal) + 1 - i # Len(journal) + 1 - k
  BY <1>1
<1>4. nrEnd \in TxNr
  BY DEF TypeOK
<1>5. Ago(Len(journal) + 1 - i) # Ago(Len(journal) + 1 - k)
  BY <1>2, <1>3, <1>4, AgoInjective
<1>6. QED
  BY <1>5 DEF Numbered

\* An entry of the journal changes, and maybe the files of its number.
LEMMA EntryChanges ==
    ASSUME IInv, NEW k \in 1 .. Len(journal), NEW e \in Entry, e.nr = journal[k].nr,
           k < Len(journal) => e.phase \in {"stopped", "done"},
           e.phase = "stopped" => ~e.silent,
           journal' = [journal EXCEPT ![k] = e], nrEnd' = nrEnd,
           NEW f \in [Index -> Samples \cup {None}], sd' = [sd EXCEPT ![e.nr] = f],
           Live(e) => OwnFiles(e, f)
    PROVE  /\ journal' \in Seq(Entry) /\ Len(journal') = Len(journal)
           /\ \A i \in 1 .. Len(journal) : journal'[i] = IF i = k THEN e ELSE journal[i]
           /\ sd' \in [TxNr -> [Index -> Samples \cup {None}]]
           /\ Numbered' /\ Phases' /\ FilesOwn'
<1>1. /\ journal \in Seq(Entry) /\ nrEnd \in TxNr
      /\ sd \in [TxNr -> [Index -> Samples \cup {None}]]
  BY DEF IInv, TypeOK
<1>2. /\ journal' \in Seq(Entry) /\ Len(journal') = Len(journal)
      /\ \A i \in 1 .. Len(journal) : journal'[i] = IF i = k THEN e ELSE journal[i]
  BY <1>1, ExceptSeq
<1>3. e.nr \in TxNr
  BY DEF Entry
<1>4. /\ sd' \in [TxNr -> [Index -> Samples \cup {None}]]
      /\ \A n \in TxNr : sd'[n] = IF n = e.nr THEN f ELSE sd[n]
  BY <1>1, <1>3
<1>5. \A i \in 1 .. Len(journal) : journal'[i].nr = journal[i].nr
  BY <1>2
<1>6. Numbered'
  BY <1>2, <1>5 DEF IInv, Numbered, Ago, Before
<1>7. Phases'
  BY <1>2 DEF IInv, Phases
<1>8. FilesOwn'
  <2>1. SUFFICES ASSUME NEW i \in 1 .. Len(journal), Live(journal'[i])
                 PROVE  OwnFiles(journal'[i], sd'[journal'[i].nr])
    BY <1>2 DEF FilesOwn
  <2>2. CASE i = k
    BY <1>2, <1>3, <1>4, <2>1, <2>2
  <2>3. CASE i # k
    <3>1. journal'[i] = journal[i]
      BY <1>2, <2>3
    <3>2. journal[i].nr # e.nr
      BY <2>3, NumbersDiffer DEF IInv
    <3>3. journal[i].nr \in TxNr
      BY JournalType DEF IInv, Entry
    <3>4. OwnFiles(journal[i], sd[journal[i].nr])
      BY <2>1, <3>1 DEF IInv, FilesOwn
    <3>5. QED
      BY <1>4, <3>1, <3>2, <3>3, <3>4
  <2>4. QED
    BY <2>2, <2>3
<1>9. QED
  BY <1>2, <1>4, <1>6, <1>7, <1>8

\* The current transaction is the last one.
LEMMA CurrentIs ==
    ASSUME IInv, HasCurrent
    PROVE  /\ Len(journal) \in 1 .. Len(journal) /\ Len(journal) \in Nat
           /\ Current = journal[Len(journal)] /\ Current \in Entry /\ Current.nr \in TxNr
           /\ Current.session \in 1 .. MaxSession
           /\ sd[Current.nr] \in [Index -> Samples \cup {None}]
           /\ Live(Current) => OwnFiles(Current, sd[Current.nr])
<1>1. Len(journal) \in 1 .. Len(journal) /\ Len(journal) \in Nat
  BY JournalType DEF IInv, HasCurrent
<1>2. Current = journal[Len(journal)] /\ Current \in Entry
  BY <1>1, JournalType DEF IInv, Current
<1>3. Current.nr \in TxNr /\ Current.session \in 1 .. MaxSession
  BY <1>2 DEF Entry
<1>4. sd[Current.nr] \in [Index -> Samples \cup {None}]
  BY <1>3 DEF IInv, TypeOK
<1>5. Live(Current) => OwnFiles(Current, sd[Current.nr])
  BY <1>1, <1>2 DEF IInv, FilesOwn
<1>6. QED
  BY <1>1, <1>2, <1>3, <1>4, <1>5

\* What getTxMeterData() returns for it, and that its files have all been written for it.
LEMMA CurrentData ==
    ASSUME IInv, HasCurrent, ~Current.silent, Current.phase \in {"preparing", "running"}
    PROVE  /\ getTxMeterData(Current) = Restored(Current.nr)
           /\ stopTxnData # None => stopTxnData = Restored(Current.nr)
           /\ stopTxnData # None => stopTxnData.nr = Current.nr
  BY DEF IInv, DataAgrees, getTxMeterData

\* A sample of the current transaction: one that is in memory and on the flash.
LEMMA SampleAdded ==
    ASSUME IInv, HasCurrent, ~Current.silent, Current.phase \in {"preparing", "running"},
           NEW mv \in Samples, mv.session = Current.session,
           Current.phase = "preparing" => mv.kind = "begin"
    PROVE  \E m \in 1 .. StopTxDataLen : \E f \in [Index -> Samples \cup {None}] :
              /\ AddedFile(Restored(Current.nr), mv) = [sd EXCEPT ![Current.nr] = f]
              /\ Added(Restored(Current.nr), mv) = Loaded(Current.nr, f, m)
              /\ Files(f, m, Current.session) /\ f[0].kind = "begin" /\ f[m - 1] = mv
<1>1. OwnFiles(Current, sd[Current.nr]) /\ Current.nr \in TxNr
  BY CurrentIs DEF Live
<1>2. PICK n \in 0 .. StopTxDataLen :
          /\ Files(sd[Current.nr], n, Current.session)
          /\ n > 0 => sd[Current.nr][0].kind = "begin"
          /\ Current.phase # "preparing" => n > 0
  BY <1>1 DEF OwnFiles
<1>3. sd \in [TxNr -> [Index -> Samples \cup {None}]]
  BY DEF IInv, TypeOK
<1>r. PICK nr \in TxNr : nr = Current.nr
  BY <1>1
<1>s. PICK s : s = Current.session
  OBVIOUS
<1>4. \E m \in 1 .. StopTxDataLen : \E f \in [Index -> Samples \cup {None}] :
          /\ AddedFile(Restored(nr), mv) = [sd EXCEPT ![nr] = f]
          /\ Added(Restored(nr), mv) = Loaded(nr, f, m)
          /\ Files(f, m, s) /\ f[m - 1] = mv
          /\ n > 0 => m > 1 /\ f[0] = sd[nr][0]
          /\ n = 0 => m = 1
  <2>1. Files(sd[nr], n, s)
    BY <1>2, <1>r, <1>s
  <2>2. mv.session = s
    BY <1>s
  <2>3. QED
    BY <1>3, <2>1, <2>2, AddedIs
<1>5. PICK m \in 1 .. StopTxDataLen, f \in [Index -> Samples \cup {None}] :
          /\ AddedFile(Restored(Current.nr), mv) = [sd EXCEPT ![Current.nr] = f]
          /\ Added(Restored(Current.nr), mv) = Loaded(Current.nr, f, m)
          /\ Files(f, m, Current.session) /\ f[m - 1] = mv
          /\ n > 0 => m > 1 /\ f[0] = sd[Current.nr][0]
          /\ n = 0 => m = 1
  BY <1>4, <1>r, <1>s
<1>6. f[0].kind = "begin"
  <2>1. CASE n > 0
    BY <1>2, <1>5, <2>1
  <2>2. CASE n = 0
    <3>1. f[0] = mv
      BY <1>5, <2>2
    <3>2. Current.phase = "preparing"
      BY <1>2, <2>2
    <3>3. QED
      BY <3>1, <3>2
  <2>3. QED
    BY <1>2, <2>1, <2>2
<1>7. QED
  BY <1>5, <1>6

LEMMA SampleType ==
    ASSUME IInv, HasCurrent, NEW kind \in {"begin", "periodic", "end"}
    PROVE  /\ Sample(Current.session, kind) \in Samples
           /\ Sample(Current.session, kind).session = Current.session
           /\ Sample(Current.session, kind).kind = kind
  BY CurrentIs DEF Sample, Samples

-----------------------------------------------------------------------------
(* What the actions share.                                                  *)

\* The last transaction changes, and maybe its files.
LEMMA LastChanges ==
    ASSUME IInv, HasCurrent, NEW e \in Entry, e.nr = Current.nr,
           e.phase = "stopped" => ~e.silent,
           journal' = [journal EXCEPT ![Len(journal)] = e], nrEnd' = nrEnd,
           NEW f \in [Index -> Samples \cup {None}], sd' = [sd EXCEPT ![e.nr] = f],
           Live(e) => OwnFiles(e, f)
    PROVE  /\ journal' \in Seq(Entry) /\ Len(journal') <= RecordSize
           /\ sd' \in [TxNr -> [Index -> Samples \cup {None}]] /\ sd'[e.nr] = f
           /\ Numbered' /\ Phases' /\ FilesOwn'
           /\ Current' = e /\ (e.phase \in {"preparing", "running", "aborted"} => HasCurrent')
<1>1. Len(journal) \in 1 .. Len(journal) /\ Len(journal) \in Nat /\ Current = journal[Len(journal)]
  BY CurrentIs
<1>2. PICK k \in 1 .. Len(journal) : k = Len(journal)
  BY <1>1
<1>3. /\ journal' \in Seq(Entry) /\ Len(journal') = Len(journal)
      /\ \A i \in 1 .. Len(journal) : journal'[i] = IF i = k THEN e ELSE journal[i]
      /\ sd' \in [TxNr -> [Index -> Samples \cup {None}]]
      /\ Numbered' /\ Phases' /\ FilesOwn'
  <2>1. e.nr = journal[k].nr /\ ~(k < Len(journal)) /\ journal' = [journal EXCEPT ![k] = e]
    BY <1>1, <1>2
  <2>2. QED
    BY <2>1, EntryChanges
<1>4. Len(journal') <= RecordSize
  BY <1>3, JournalType DEF IInv
<1>5. sd'[e.nr] = f
  BY DEF IInv, TypeOK, Entry
<1>6. Current' = e
  BY <1>1, <1>2, <1>3 DEF Current
<1>7. journal' # <<>>
  <2>1. k > 0
    BY <1>1, <1>2
  <2>2. journal' \in Seq(Entry) /\ Len(journal') = k
    BY <1>2, <1>3
  <2>3. QED
    BY <2>1, <2>2, EmptySeq
<1>8. QED
  BY <1>3, <1>4, <1>5, <1>6, <1>7 DEF HasCurrent

\* It stays, and only its files change.
LEMMA LastStays ==
    ASSUME IInv, HasCurrent
    PROVE  /\ [journal EXCEPT ![Len(journal)] = Current] = journal
           /\ Current.phase = "stopped" => ~Current.silent
<1>1. journal \in Seq(Entry) /\ Current = journal[Len(journal)] /\ Current.phase # "stopped"
  BY CurrentIs DEF IInv, TypeOK, HasCurrent
<1>2. journal \in [1 .. Len(journal) -> Entry]
  BY <1>1
<1>3. QED
  BY <1>1, <1>2

LEMMA FilesStay ==
    ASSUME IInv, NEW nr \in TxNr
    PROVE  sd[nr] \in [Index -> Samples \cup {None}] /\ sd = [sd EXCEPT ![nr] = sd[nr]]
  BY DEF IInv, TypeOK

\* The object that is restored from the files of a step.
LEMMA RestoredNext ==
    ASSUME NEW nr, NEW f, NEW m \in 0 .. StopTxDataLen, NEW s, Files(f, m, s), sd'[nr] = f
    PROVE  Restored(nr)' = Loaded(nr, f, m)
<1>1. MvCount(f) = m
  BY MvCountOfFiles
<1>2. QED
  BY <1>1 DEF Restored, Loaded, Content

LEMMA LoadedIsData ==
    ASSUME NEW nr \in TxNr, NEW f, NEW m \in 0 .. StopTxDataLen, NEW s, Files(f, m, s)
    PROVE  /\ Loaded(nr, f, m) \in MeterData /\ Loaded(nr, f, m).nr = nr
           /\ Len(Loaded(nr, f, m).data) = Loaded(nr, f, m).mvCount
  BY LoadedType DEF Loaded

LEMMA FinalizedIs ==
    ASSUME TypeOK, NEW nr
    PROVE  /\ Finalized(nr) \in MeterData \cup {None}
           /\ Finalized(nr) # None => Finalized(nr).finalized \/ Len(Finalized(nr).data) = Finalized(nr).mvCount
           /\ stopTxnData = None => Finalized(nr) = None
           /\ stopTxnData # None => Finalized(nr).nr = stopTxnData.nr
           /\ stopTxnData # None /\ stopTxnData.nr # nr => Finalized(nr) = stopTxnData
  BY NoneAssumption DEF TypeOK, Finalized, MeterData

\* All files go, when the object in use has not an older count of them.
LEMMA RemovedIs ==
    ASSUME TypeOK, NEW nr \in TxNr
    PROVE  /\ \E f \in [Index -> Samples \cup {None}] : Removed(nr) = [sd EXCEPT ![nr] = f]
           /\ stopTxnData = None => Removed(nr) = [sd EXCEPT ![nr] = NoSample]
<1>1. sd \in [TxNr -> [Index -> Samples \cup {None}]]
  BY DEF TypeOK
<1>2. PICK f : f = [i \in Index |-> IF i < RemovedCount(nr) THEN None ELSE sd[nr][i]]
  OBVIOUS
<1>3. f \in [Index -> Samples \cup {None}] /\ Removed(nr) = [sd EXCEPT ![nr] = f]
  BY <1>1, <1>2 DEF Removed
<1>4. stopTxnData = None => f = NoSample
  <2>1. HAVE stopTxnData = None
  <2>2. RemovedCount(nr) = MvCount(sd[nr])
    BY <2>1 DEF RemovedCount
  <2>3. \A i \in Index : sd[nr][i] # None => i < RemovedCount(nr)
    BY <2>2, MvCountIs
  <2>4. QED
    BY <1>2, <2>3 DEF NoSample
<1>5. QED
  BY <1>3, <1>4

\* The journal and the files stay.
LEMMA NothingStored ==
    ASSUME IInv, UNCHANGED <<journal, nrEnd, sd>>
    PROVE  /\ Numbered' /\ Phases' /\ FilesOwn'
           /\ UNCHANGED stopTxnData => DataAgrees'
  BY DEF IInv, Numbered, Ago, Phases, FilesOwn, DataAgrees, HasCurrent, Current, Restored, MvCount, Paths

-----------------------------------------------------------------------------
(* The actions of the current transaction.                                  *)

\* Between preparing and running, no object is in use but that of the running transaction.
LEMMA NoneBefore ==
    ASSUME IInv, ~HasCurrent \/ Current.phase = "preparing"
    PROVE  stopTxnData = None
  BY DEF IInv, DataAgrees

LEMMA StartStep ==
    ASSUME IInv, Start
    PROVE  IInv'
<1>1. HasCurrent /\ Current.phase = "preparing" /\ Current \in Entry /\ Current.nr \in TxNr
  BY CurrentIs DEF Start
<1>2. PICK e : e = [Current EXCEPT !.phase = "running"]
  OBVIOUS
<1>3. /\ e \in Entry /\ e.nr = Current.nr /\ e.phase = "running"
      /\ e.session = Current.session /\ e.silent = Current.silent
  BY <1>1, <1>2 DEF Entry
<1>4. journal' = [journal EXCEPT ![Len(journal)] = e] /\ nrEnd' = nrEnd
  BY <1>2 DEF Start, InPhase, Current
<1>5. CASE Current.silent
  <2>1. sd' = sd /\ stopTxnData' = None
    BY <1>1, <1>5, NoneBefore DEF Start
  <2>2. sd[e.nr] \in [Index -> Samples \cup {None}] /\ sd' = [sd EXCEPT ![e.nr] = sd[e.nr]]
    BY <1>1, <1>3, <2>1, FilesStay
  <2>3. ~Live(e)
    BY <1>3, <1>5 DEF Live
  <2>4. /\ journal' \in Seq(Entry) /\ Len(journal') <= RecordSize
        /\ sd' \in [TxNr -> [Index -> Samples \cup {None}]]
        /\ Numbered' /\ Phases' /\ FilesOwn'
    BY <1>1, <1>3, <1>4, <2>2, <2>3, LastChanges
  <2>5. TypeOK'
    BY <2>1, <2>4 DEF IInv, TypeOK, Start
  <2>6. DataAgrees' /\ StopDataIsOwn'
    BY <2>1 DEF IInv, DataAgrees, StopDataIsOwn, Start
  <2>7. QED
    BY <2>4, <2>5, <2>6 DEF IInv
<1>6. CASE ~Current.silent
  <2>1. PICK mv \in Samples : mv = Sample(Current.session, "begin")
    BY <1>1, SampleType
  <2>2. mv.session = Current.session /\ mv.kind = "begin"
    BY <1>1, <2>1, SampleType
  <2>3. PICK m \in 1 .. StopTxDataLen, f \in [Index -> Samples \cup {None}] :
            /\ AddedFile(Restored(Current.nr), mv) = [sd EXCEPT ![Current.nr] = f]
            /\ Added(Restored(Current.nr), mv) = Loaded(Current.nr, f, m)
            /\ Files(f, m, Current.session) /\ f[0].kind = "begin"
    BY <1>1, <1>6, <2>2, SampleAdded
  <2>4. sd' = [sd EXCEPT ![e.nr] = f] /\ stopTxnData' = Loaded(e.nr, f, m)
    BY <1>1, <1>3, <1>6, <2>1, <2>3, CurrentData DEF Start
  <2>5. m \in 0 .. StopTxDataLen /\ m > 0
    BY ConstantsAssumption
  <2>6. OwnFiles(e, f)
    BY <1>3, <2>3, <2>5 DEF OwnFiles
  <2>7. /\ journal' \in Seq(Entry) /\ Len(journal') <= RecordSize
        /\ sd' \in [TxNr -> [Index -> Samples \cup {None}]] /\ sd'[e.nr] = f
        /\ Numbered' /\ Phases' /\ FilesOwn' /\ Current' = e /\ HasCurrent'
    BY <1>1, <1>3, <1>4, <2>4, <2>6, LastChanges
  <2>8. /\ stopTxnData' \in MeterData /\ stopTxnData'.nr = e.nr
        /\ Len(stopTxnData'.data) = stopTxnData'.mvCount
    BY <1>1, <1>3, <2>3, <2>4, <2>5, LoadedIsData
  <2>9. TypeOK'
    BY <2>7, <2>8 DEF IInv, TypeOK, Start
  <2>10. PICK nr : nr = e.nr
    OBVIOUS
  <2>11. Restored(nr)' = Loaded(nr, f, m)
    BY <2>3, <2>5, <2>7, <2>10, RestoredNext
  <2>12. stopTxnData' = Restored(Current.nr)'
    BY <2>4, <2>7, <2>10, <2>11
  <2>13. DataAgrees'
    BY <1>3, <2>7, <2>8, <2>12 DEF DataAgrees
  <2>14. StopDataIsOwn'
    BY DEF IInv, StopDataIsOwn, Start
  <2>15. QED
    BY <2>7, <2>9, <2>13, <2>14 DEF IInv
<1>7. QED
  BY <1>5, <1>6

LEMMA StopStep ==
    ASSUME IInv, Stop
    PROVE  IInv'
<1>1. HasCurrent /\ Current.phase = "running" /\ Current \in Entry /\ Current.nr \in TxNr
  BY CurrentIs DEF Stop
<1>2. PICK e : e = [Current EXCEPT !.phase = IF Current.silent THEN "aborted" ELSE "stopped"]
  OBVIOUS
<1>3. /\ e \in Entry /\ e.nr = Current.nr
      /\ e.phase = IF Current.silent THEN "aborted" ELSE "stopped"
      /\ e.session = Current.session /\ e.silent = Current.silent
  BY <1>1, <1>2 DEF Entry
<1>4. journal' = [journal EXCEPT ![Len(journal)] = e] /\ nrEnd' = nrEnd
  BY <1>2 DEF Stop, InPhase, Current
<1>5. StopDataIsOwn'
  BY DEF IInv, StopDataIsOwn, Stop
<1>6. CASE Current.silent
  <2>1. sd' = sd /\ stopTxnData' = stopTxnData
    BY <1>6 DEF Stop
  <2>2. sd[e.nr] \in [Index -> Samples \cup {None}] /\ sd' = [sd EXCEPT ![e.nr] = sd[e.nr]]
    BY <1>1, <1>3, <2>1, FilesStay
  <2>3. ~Live(e) /\ e.phase = "aborted"
    BY <1>3, <1>6 DEF Live
  <2>4. /\ journal' \in Seq(Entry) /\ Len(journal') <= RecordSize
        /\ sd' \in [TxNr -> [Index -> Samples \cup {None}]]
        /\ Numbered' /\ Phases' /\ FilesOwn' /\ Current' = e /\ HasCurrent'
    BY <1>1, <1>3, <1>4, <2>2, <2>3, LastChanges
  <2>5. TypeOK'
    BY <2>1, <2>4 DEF IInv, TypeOK, Stop
  <2>6. DataAgrees'
    BY <1>3, <1>6, <2>1, <2>3, <2>4 DEF IInv, DataAgrees
  <2>7. QED
    BY <1>5, <2>4, <2>5, <2>6 DEF IInv
<1>7. CASE ~Current.silent
  <2>1. PICK mv \in Samples : mv = Sample(Current.session, "end")
    BY <1>1, SampleType
  <2>2. mv.session = Current.session /\ mv.kind = "end"
    BY <1>1, <2>1, SampleType
  <2>3. PICK m \in 1 .. StopTxDataLen, f \in [Index -> Samples \cup {None}] :
            /\ AddedFile(Restored(Current.nr), mv) = [sd EXCEPT ![Current.nr] = f]
            /\ Files(f, m, Current.session) /\ f[0].kind = "begin" /\ f[m - 1] = mv
    BY <1>1, <1>7, <2>2, SampleAdded
  <2>4. sd' = [sd EXCEPT ![e.nr] = f] /\ stopTxnData' = None
    BY <1>1, <1>3, <1>7, <2>1, <2>3, CurrentData DEF Stop
  <2>5. m \in 0 .. StopTxDataLen /\ m > 0
    BY ConstantsAssumption
  <2>6. OwnFiles(e, f)
    BY <1>3, <2>2, <2>3, <2>5 DEF OwnFiles
  <2>7. /\ journal' \in Seq(Entry) /\ Len(journal') <= RecordSize
        /\ sd' \in [TxNr -> [Index -> Samples \cup {None}]]
        /\ Numbered' /\ Phases' /\ FilesOwn'
    BY <1>1, <1>3, <1>4, <1>7, <2>4, <2>6, LastChanges
  <2>8. TypeOK'
    BY <2>4, <2>7 DEF IInv, TypeOK, Stop
  <2>9. DataAgrees'
    BY <2>4 DEF DataAgrees
  <2>10. QED
    BY <1>5, <2>7, <2>8, <2>9 DEF IInv
<1>8. QED
  BY <1>6, <1>7

LEMMA GiveUpStartStep ==
    ASSUME IInv, GiveUpStart
    PROVE  IInv'
<1>1. HasCurrent /\ Current.phase = "running" /\ Current \in Entry /\ Current.nr \in TxNr
  BY CurrentIs DEF GiveUpStart
<1>2. PICK e : e = [Current EXCEPT !.silent = TRUE]
  OBVIOUS
<1>3. e \in Entry /\ e.nr = Current.nr /\ e.phase = "running" /\ e.silent
  BY <1>1, <1>2 DEF Entry
<1>4. journal' = [journal EXCEPT ![Len(journal)] = e] /\ nrEnd' = nrEnd
  BY <1>2 DEF GiveUpStart, Current
<1>5. PICK f \in [Index -> Samples \cup {None}] : sd' = [sd EXCEPT ![e.nr] = f]
  BY <1>1, <1>3, RemovedIs DEF IInv, GiveUpStart
<1>6. ~Live(e)
  BY <1>3 DEF Live
<1>7. /\ journal' \in Seq(Entry) /\ Len(journal') <= RecordSize
      /\ sd' \in [TxNr -> [Index -> Samples \cup {None}]]
      /\ Numbered' /\ Phases' /\ FilesOwn' /\ Current' = e /\ HasCurrent'
  BY <1>1, <1>3, <1>4, <1>5, <1>6, LastChanges
<1>8. /\ stopTxnData' \in MeterData \cup {None}
      /\ stopTxnData' # None => stopTxnData'.finalized \/ Len(stopTxnData'.data) = stopTxnData'.mvCount
      /\ stopTxnData = None => stopTxnData' = None
      /\ stopTxnData # None => stopTxnData'.nr = stopTxnData.nr
  BY FinalizedIs DEF IInv, GiveUpStart
<1>9. TypeOK'
  BY <1>7, <1>8 DEF IInv, TypeOK, GiveUpStart
<1>10. DataAgrees'
  BY <1>3, <1>7, <1>8 DEF IInv, DataAgrees
<1>11. StopDataIsOwn'
  BY DEF IInv, StopDataIsOwn, GiveUpStart
<1>12. QED
  BY <1>7, <1>9, <1>10, <1>11 DEF IInv

LEMMA AbortStep ==
    ASSUME IInv, Abort
    PROVE  IInv'
<1>1. HasCurrent /\ Current.phase = "preparing" /\ Current \in Entry /\ Current.nr \in TxNr
  BY CurrentIs DEF Abort
<1>2. PICK e : e = [Current EXCEPT !.phase = "aborted"]
  OBVIOUS
<1>3. e \in Entry /\ e.nr = Current.nr /\ e.phase = "aborted"
  BY <1>1, <1>2 DEF Entry
<1>4. journal' = [journal EXCEPT ![Len(journal)] = e] /\ nrEnd' = nrEnd
  BY <1>2 DEF Abort, InPhase, Current
<1>5. sd[e.nr] \in [Index -> Samples \cup {None}] /\ sd' = [sd EXCEPT ![e.nr] = sd[e.nr]]
  BY <1>1, <1>3, FilesStay DEF Abort
<1>6. ~Live(e)
  BY <1>3 DEF Live
<1>7. /\ journal' \in Seq(Entry) /\ Len(journal') <= RecordSize
      /\ sd' \in [TxNr -> [Index -> Samples \cup {None}]]
      /\ Numbered' /\ Phases' /\ FilesOwn'
  BY <1>1, <1>3, <1>4, <1>5, <1>6, LastChanges
<1>8. stopTxnData' = None
  BY <1>1, NoneBefore DEF Abort
<1>9. TypeOK'
  BY <1>7, <1>8 DEF IInv, TypeOK, Abort
<1>10. DataAgrees' /\ StopDataIsOwn'
  BY <1>8 DEF IInv, DataAgrees, StopDataIsOwn, Abort
<1>11. QED
  BY <1>7, <1>9, <1>10 DEF IInv

-----------------------------------------------------------------------------
(* The metering loop and the power failures.                                *)

LEMMA LoopSampleStep ==
    ASSUME IInv, LoopSample
    PROVE  IInv'
<1>1. /\ HasCurrent /\ Current.phase = "running" /\ ~Current.silent
      /\ Current \in Entry /\ Current.nr \in TxNr
  BY CurrentIs DEF LoopSample, Running
<1>2. PICK mv \in Samples : mv = Sample(Current.session, "periodic")
  BY <1>1, SampleType
<1>3. /\ mv.session = Current.session
      /\ Current.phase \in {"preparing", "running"} /\ (Current.phase = "preparing" => mv.kind = "begin")
  BY <1>1, <1>2, SampleType
<1>4. PICK m \in 1 .. StopTxDataLen, f \in [Index -> Samples \cup {None}] :
          /\ AddedFile(Restored(Current.nr), mv) = [sd EXCEPT ![Current.nr] = f]
          /\ Added(Restored(Current.nr), mv) = Loaded(Current.nr, f, m)
          /\ Files(f, m, Current.session) /\ f[0].kind = "begin"
  BY <1>1, <1>3, SampleAdded
<1>5. (IF reload THEN getTxMeterData(Current) ELSE stopTxnData) = Restored(Current.nr)
  BY <1>1, CurrentData DEF reload
<1>6. sd' = [sd EXCEPT ![Current.nr] = f] /\ stopTxnData' = Loaded(Current.nr, f, m)
  BY <1>2, <1>4, <1>5 DEF LoopSample
<1>7. PICK e \in Entry : e = Current
  BY <1>1
<1>8. m \in 0 .. StopTxDataLen /\ m > 0
  BY ConstantsAssumption
<1>9. OwnFiles(e, f)
  BY <1>1, <1>4, <1>7, <1>8 DEF OwnFiles
<1>10. /\ journal' \in Seq(Entry) /\ Len(journal') <= RecordSize
       /\ sd' \in [TxNr -> [Index -> Samples \cup {None}]] /\ sd'[e.nr] = f
       /\ Numbered' /\ Phases' /\ FilesOwn' /\ Current' = e /\ HasCurrent'
  <2>1. journal' = [journal EXCEPT ![Len(journal)] = e] /\ nrEnd' = nrEnd
    BY <1>1, <1>7, LastStays DEF LoopSample
  <2>2. sd' = [sd EXCEPT ![e.nr] = f] /\ e.nr = Current.nr /\ e.phase = "running"
    BY <1>1, <1>6, <1>7
  <2>3. QED
    BY <1>1, <1>9, <2>1, <2>2, LastChanges
<1>11. /\ stopTxnData' \in MeterData /\ stopTxnData'.nr = e.nr
       /\ Len(stopTxnData'.data) = stopTxnData'.mvCount
  BY <1>1, <1>4, <1>6, <1>7, <1>8, LoadedIsData
<1>12. meterData' \in Seq(Message) /\ Len(meterData') <= CacheSize
  <2>1. meterData \in Seq(Message) /\ Len(meterData) <= CacheSize /\ CacheSize \in Nat \ {0}
    BY ConstantsAssumption DEF IInv, TypeOK
  <2>2. PICK kept : kept = IF Len(meterData) >= CacheSize THEN Tail(meterData) ELSE meterData
    OBVIOUS
  <2>3. kept \in Seq(Message) /\ Len(kept) < CacheSize
    <3>1. CASE Len(meterData) >= CacheSize
      <4>1. meterData # <<>>
        BY <2>1, <3>1
      <4>2. Tail(meterData) \in Seq(Message) /\ Len(Tail(meterData)) = Len(meterData) - 1
        BY <2>1, <4>1, HeadTailProperties
      <4>3. QED
        BY <2>1, <2>2, <3>1, <4>2
    <3>2. CASE ~(Len(meterData) >= CacheSize)
      BY <2>1, <2>2, <3>2
    <3>3. QED
      BY <3>1, <3>2
  <2>4. PICK msg \in Message : msg = [nr |-> Current.nr, attemptNr |-> 0]
    <3>1. 0 \in 0 .. MessageAttempts
      BY ConstantsAssumption
    <3>2. [nr |-> Current.nr, attemptNr |-> 0] \in Message
      BY <1>1, <3>1 DEF Message
    <3>3. QED
      BY <3>2
  <2>5. meterData' = Append(kept, msg)
    BY <2>2, <2>4 DEF LoopSample
  <2>6. QED
    BY <2>1, <2>3, <2>5, AppendProperties
<1>13. TypeOK'
  BY <1>10, <1>11, <1>12 DEF IInv, TypeOK, LoopSample
<1>14. DataAgrees'
  <2>1. PICK nr : nr = e.nr
    OBVIOUS
  <2>2. Restored(nr)' = Loaded(nr, f, m)
    BY <1>4, <1>8, <1>10, <2>1, RestoredNext
  <2>3. stopTxnData' = Restored(Current.nr)'
    BY <1>6, <1>7, <1>10, <2>1, <2>2
  <2>4. QED
    BY <1>1, <1>7, <1>10, <1>11, <2>3 DEF DataAgrees
<1>15. StopDataIsOwn'
  BY DEF IInv, StopDataIsOwn, LoopSample
<1>16. QED
  BY <1>10, <1>13, <1>14, <1>15 DEF IInv

\* After a reboot nothing is in memory; what is on the flash has to be right.
LEMMA ResetStep ==
    ASSUME IInv, Reset, journal' = journal, Numbered', Phases', FilesOwn',
           sd' \in [TxNr -> [Index -> Samples \cup {None}]]
    PROVE  IInv'
<1>1. stopTxnData' = None /\ meterData' = <<>> /\ meterDataFront' = None
      /\ UNCHANGED <<nrEnd, sessions, sentStop>>
  BY DEF Reset
<1>2. meterData' \in Seq(Message) /\ Len(meterData') <= CacheSize
  BY <1>1, ConstantsAssumption
<1>3. TypeOK'
  BY <1>1, <1>2 DEF IInv, TypeOK
<1>4. DataAgrees' /\ StopDataIsOwn'
  BY <1>1 DEF IInv, DataAgrees, StopDataIsOwn
<1>5. QED
  BY <1>3, <1>4 DEF IInv

LEMMA RebootStep ==
    ASSUME IInv, Reboot
    PROVE  IInv'
<1>1. Numbered' /\ Phases' /\ FilesOwn'
  BY NothingStored DEF Reboot, Reset
<1>2. sd' \in [TxNr -> [Index -> Samples \cup {None}]]
  BY DEF IInv, TypeOK, Reboot
<1>3. QED
  BY <1>1, <1>2, ResetStep DEF Reboot

\* The sample is on the flash, and the transaction has not been committed.
LEMMA RebootInSampleStep ==
    ASSUME IInv, Reset, journal' = journal,
           HasCurrent, Current.phase \in {"preparing", "running"}, ~Current.silent,
           NEW kind \in {"begin", "periodic", "end"},
           Current.phase = "preparing" => kind = "begin",
           sd' = AddedFile(getTxMeterData(Current), Sample(Current.session, kind))
    PROVE  IInv'
<1>1. Current \in Entry /\ Current.nr \in TxNr
  BY CurrentIs
<1>2. PICK mv \in Samples : mv = Sample(Current.session, kind)
  BY SampleType
<1>3. mv.session = Current.session /\ mv.kind = kind
  BY <1>2, SampleType
<1>4. PICK m \in 1 .. StopTxDataLen, f \in [Index -> Samples \cup {None}] :
          /\ AddedFile(Restored(Current.nr), mv) = [sd EXCEPT ![Current.nr] = f]
          /\ Files(f, m, Current.session) /\ f[0].kind = "begin"
  BY <1>3, SampleAdded
<1>5. sd' = [sd EXCEPT ![Current.nr] = f]
  BY <1>2, <1>4, CurrentData
<1>6. PICK e \in Entry : e = Current
  BY <1>1
<1>7. m \in 0 .. StopTxDataLen /\ m > 0
  BY ConstantsAssumption
<1>8. OwnFiles(e, f)
  BY <1>4, <1>6, <1>7 DEF OwnFiles
<1>9. journal' = [journal EXCEPT ![Len(journal)] = e] /\ nrEnd' = nrEnd
  BY <1>6, LastStays DEF Reset
<1>10. /\ sd' = [sd EXCEPT ![e.nr] = f] /\ e.nr = Current.nr
       /\ e.phase = "stopped" => ~e.silent
  BY <1>5, <1>6
<1>11. /\ sd' \in [TxNr -> [Index -> Samples \cup {None}]]
       /\ Numbered' /\ Phases' /\ FilesOwn'
  BY <1>8, <1>9, <1>10, LastChanges
<1>12. QED
  BY <1>11, ResetStep

LEMMA RebootInStartStep ==
    ASSUME IInv, RebootInStart
    PROVE  IInv'
  BY RebootInSampleStep DEF RebootInStart

LEMMA RebootInStopStep ==
    ASSUME IInv, RebootInStop
    PROVE  IInv'
  BY RebootInSampleStep DEF RebootInStop, Running

LEMMA RebootInRemoveStep ==
    ASSUME IInv, RebootInRemove
    PROVE  IInv'
<1>1. HasCurrent /\ Current.phase = "aborted" /\ Current \in Entry /\ Current.nr \in TxNr
  BY CurrentIs DEF RebootInRemove
<1>2. PICK k \in Index : sd' = RemovedDownTo(Current.nr, k)
  BY DEF RebootInRemove
<1>3. PICK e \in Entry : e = Current
  BY <1>1
<1>4. PICK f : f = [i \in Index |-> IF k <= i /\ i < RemovedCount(e.nr) THEN None ELSE sd[e.nr][i]]
  OBVIOUS
<1>5. f \in [Index -> Samples \cup {None}] /\ sd' = [sd EXCEPT ![e.nr] = f]
  BY <1>1, <1>2, <1>3, <1>4 DEF RemovedDownTo, IInv, TypeOK
<1>6. ~Live(e) /\ e.nr = Current.nr /\ e.phase # "stopped"
  BY <1>1, <1>3 DEF Live
<1>7. journal' = [journal EXCEPT ![Len(journal)] = e] /\ nrEnd' = nrEnd
  BY <1>1, <1>3, LastStays DEF RebootInRemove, Reset
<1>8. /\ sd' \in [TxNr -> [Index -> Samples \cup {None}]]
      /\ Numbered' /\ Phases' /\ FilesOwn'
  BY <1>1, <1>5, <1>6, <1>7, LastChanges
<1>9. QED
  BY <1>8, ResetStep DEF RebootInRemove

-----------------------------------------------------------------------------
(* The messages.                                                            *)

\* A transaction that has been stopped is not the one whose object is in use.
LEMMA StoppedIsNotInUse ==
    ASSUME IInv, NEW k \in 1 .. Len(journal), journal[k].phase = "stopped", stopTxnData # None
    PROVE  HasCurrent /\ k < Len(journal) /\ stopTxnData.nr = Current.nr /\ journal[k].nr # Current.nr
<1>1. HasCurrent /\ stopTxnData.nr = Current.nr
  BY DEF IInv, DataAgrees
<1>2. Len(journal) \in 1 .. Len(journal) /\ Current = journal[Len(journal)]
  BY <1>1, CurrentIs
<1>3. k # Len(journal)
  BY <1>1, <1>2 DEF HasCurrent
<1>4. journal[k].nr # Current.nr
  BY <1>2, <1>3, NumbersDiffer DEF IInv
<1>5. k < Len(journal)
  BY <1>2, <1>3
<1>6. QED
  BY <1>1, <1>4, <1>5

LEMMA SendStopStep ==
    ASSUME IInv, SendStop
    PROVE  IInv'
<1>1. PICK k \in 1 .. Len(journal) :
          /\ journal[k].phase = "stopped"
          /\ sentStop' = [session |-> journal[k].session, data |-> getTxMeterData(journal[k]).data]
  BY DEF SendStop
<1>2. PICK e \in Entry : e = journal[k]
  BY JournalType DEF IInv
<1>3. ~e.silent /\ e.phase = "stopped"
  BY <1>1, <1>2 DEF IInv, Phases
<1>4. PICK nr \in TxNr : nr = e.nr
  BY DEF Entry
<1>5. PICK s \in 1 .. MaxSession : s = e.session
  BY DEF Entry
<1>6. PICK n \in 0 .. StopTxDataLen :
          Files(sd[nr], n, s) /\ n > 0 /\ sd[nr][0].kind = "begin" /\ sd[nr][n - 1].kind = "end"
  <2>1. OwnFiles(e, sd[nr])
    BY <1>2, <1>3, <1>4 DEF IInv, FilesOwn, Live
  <2>2. QED
    BY <1>3, <1>5, <2>1 DEF OwnFiles
<1>7. PICK c : c = Content(sd[nr], n)
  OBVIOUS
<1>8. sentStop' = [session |-> s, data |-> c]
  <2>1. getTxMeterData(e) = Restored(nr)
    BY <1>1, <1>2, <1>3, <1>4, StoppedIsNotInUse DEF getTxMeterData
  <2>2. Restored(nr) = Loaded(nr, sd[nr], n)
    BY <1>6, RestoredIs
  <2>3. QED
    BY <1>1, <1>2, <1>5, <1>7, <2>1, <2>2 DEF Loaded
<1>9. /\ c \in Seq(Samples) /\ Len(c) = n
      /\ \A i \in 1 .. n : c[i] = sd[nr][i - 1] /\ c[i].session = s
  <2>1. PICK f : f = sd[nr]
    OBVIOUS
  <2>2. Files(f, n, s)
    BY <1>6, <2>1
  <2>3. /\ Content(f, n) \in Seq(Samples) /\ Len(Content(f, n)) = n
        /\ \A i \in 1 .. n : Content(f, n)[i] = f[i - 1] /\ f[i - 1].session = s
    BY <2>2, LoadedType
  <2>4. c = Content(f, n)
    BY <1>7, <2>1
  <2>5. QED
    BY <2>1, <2>3, <2>4
<1>10. n \in Nat /\ 1 \in 1 .. n /\ n \in 1 .. n
  BY <1>6, ConstantsAssumption
<1>11. c # <<>> /\ c[1].kind = "begin" /\ c[Len(c)].kind = "end"
  <2>1. c # <<>>
    BY <1>9, <1>10
  <2>2. c[1] = sd[nr][0] /\ c[n] = sd[nr][n - 1]
    <3>1. c[1] = sd[nr][1 - 1] /\ c[n] = sd[nr][n - 1]
      BY <1>9, <1>10
    <3>2. QED
      BY <3>1
  <2>3. QED
    BY <1>6, <1>9, <2>1, <2>2
<1>12. StopDataIsOwn'
  BY <1>8, <1>9, <1>11 DEF StopDataIsOwn
<1>13. sentStop'.session \in 1 .. MaxSession /\ sentStop'.data \in Seq(Samples)
  BY <1>8, <1>9
<1>14. TypeOK'
  BY <1>13 DEF IInv, TypeOK, SendStop
<1>15. Numbered' /\ Phases' /\ FilesOwn' /\ DataAgrees'
  BY NothingStored DEF SendStop
<1>16. QED
  BY <1>12, <1>14, <1>15 DEF IInv

LEMMA EndStopStep ==
    ASSUME IInv, EndStop
    PROVE  IInv'
<1>1. PICK k \in 1 .. Len(journal) :
          /\ journal[k].phase = "stopped"
          /\ \/ journal' = [journal EXCEPT ![k].phase = "done"] /\ UNCHANGED <<sd, stopTxnData>>
             \/ /\ journal' = [journal EXCEPT ![k].phase = "done", ![k].silent = TRUE]
                /\ sd' = Removed(journal[k].nr)
                /\ stopTxnData' = Finalized(journal[k].nr)
  BY DEF EndStop
<1>2. PICK tx \in Entry : tx = journal[k]
  BY JournalType DEF IInv
<1>3. PICK e \in Entry : /\ e.nr = tx.nr /\ e.phase = "done"
                         /\ journal' = [journal EXCEPT ![k] = e]
  <2>1. CASE journal' = [journal EXCEPT ![k].phase = "done"]
    <3>1. PICK e : e = [tx EXCEPT !.phase = "done"]
      OBVIOUS
    <3>2. e \in Entry /\ e.nr = tx.nr /\ e.phase = "done"
      BY <3>1 DEF Entry
    <3>3. journal' = [journal EXCEPT ![k] = e]
      BY <1>2, <2>1, <3>1
    <3>4. QED
      BY <3>2, <3>3
  <2>2. CASE journal' = [journal EXCEPT ![k].phase = "done", ![k].silent = TRUE]
    <3>1. PICK e : e = [tx EXCEPT !.phase = "done", !.silent = TRUE]
      OBVIOUS
    <3>2. e \in Entry /\ e.nr = tx.nr /\ e.phase = "done"
      BY <3>1 DEF Entry
    <3>3. journal' = [journal EXCEPT ![k] = e]
      <4>1. journal \in [1 .. Len(journal) -> Entry]
        BY LenProperties DEF IInv, TypeOK
      <4>2. QED
        BY <1>2, <2>2, <3>1, <4>1
    <3>4. QED
      BY <3>2, <3>3
  <2>3. QED
    BY <1>1, <2>1, <2>2
<1>4. PICK f \in [Index -> Samples \cup {None}] : sd' = [sd EXCEPT ![e.nr] = f]
  <2>1. tx.nr \in TxNr
    BY DEF Entry
  <2>2. CASE UNCHANGED sd
    BY <1>3, <2>1, <2>2, FilesStay
  <2>3. CASE sd' = Removed(journal[k].nr)
    BY <1>2, <1>3, <2>1, <2>3, RemovedIs DEF IInv
  <2>4. QED
    BY <1>1, <2>2, <2>3
<1>5. /\ journal' \in Seq(Entry) /\ Len(journal') = Len(journal)
      /\ \A i \in 1 .. Len(journal) : journal'[i] = IF i = k THEN e ELSE journal[i]
      /\ sd' \in [TxNr -> [Index -> Samples \cup {None}]]
      /\ Numbered' /\ Phases' /\ FilesOwn'
  <2>1. ~Live(e) /\ nrEnd' = nrEnd /\ e.nr = journal[k].nr
    BY <1>2, <1>3 DEF Live, EndStop
  <2>2. QED
    BY <1>3, <1>4, <2>1, EntryChanges
<1>6. /\ stopTxnData' \in MeterData \cup {None}
      /\ stopTxnData' # None => stopTxnData'.finalized \/ Len(stopTxnData'.data) = stopTxnData'.mvCount
      /\ stopTxnData = None => stopTxnData' = None
      /\ stopTxnData # None => stopTxnData' = stopTxnData
  <2>1. stopTxnData # None => stopTxnData.nr # journal[k].nr
    BY <1>1, StoppedIsNotInUse
  <2>2. CASE UNCHANGED stopTxnData
    BY <2>2 DEF IInv, TypeOK
  <2>3. CASE stopTxnData' = Finalized(journal[k].nr)
    BY <2>1, <2>3, FinalizedIs DEF IInv
  <2>4. QED
    BY <1>1, <2>2, <2>3
<1>7. TypeOK'
  <2>1. Len(journal') <= RecordSize
    BY <1>5 DEF IInv, TypeOK
  <2>2. QED
    BY <1>5, <1>6, <2>1 DEF IInv, TypeOK, EndStop
<1>8. DataAgrees'
  <2>1. SUFFICES ASSUME stopTxnData # None
                 PROVE  DataAgrees'
    BY <1>6 DEF DataAgrees
  <2>2. HasCurrent /\ k < Len(journal) /\ journal[k].nr # Current.nr
    BY <1>1, <2>1, StoppedIsNotInUse
  <2>3. Len(journal) \in 1 .. Len(journal) /\ Current = journal[Len(journal)] /\ Current.nr \in TxNr
    BY <2>2, CurrentIs
  <2>4. PICK l \in 1 .. Len(journal) : l = Len(journal) /\ l # k
    BY <2>2, <2>3
  <2>5. Current' = Current
    BY <1>5, <2>3, <2>4 DEF Current
  <2>6. HasCurrent'
    <3>1. journal' # <<>>
      <4>1. journal' \in Seq(Entry) /\ Len(journal') = l /\ l > 0
        BY <1>5, <2>3, <2>4
      <4>2. QED
        BY <4>1, EmptySeq
    <3>2. QED
      BY <2>2, <2>5, <3>1 DEF HasCurrent
  <2>7. PICK nr \in TxNr : nr = Current.nr
    BY <2>3
  <2>8. sd'[nr] = sd[nr]
    BY <1>2, <1>3, <1>4, <2>2, <2>7 DEF IInv, TypeOK
  <2>9. Restored(nr)' = Restored(nr)
    BY <2>8 DEF Restored
  <2>10. Restored(Current.nr)' = Restored(Current.nr)
    BY <2>5, <2>7, <2>9
  <2>11. QED
    BY <1>6, <2>1, <2>5, <2>6, <2>10 DEF IInv, DataAgrees
<1>9. StopDataIsOwn'
  BY DEF IInv, StopDataIsOwn, EndStop
<1>10. QED
  BY <1>5, <1>7, <1>8, <1>9 DEF IInv

LEMMA FrontStep ==
    ASSUME IInv, getFrontRequestOpNr
    PROVE  IInv'
<1>1. /\ meterData \in Seq(Message) /\ meterData # <<>> /\ Len(meterData) <= CacheSize
      /\ CacheSize \in Nat
  BY ConstantsAssumption DEF IInv, TypeOK, getFrontRequestOpNr
<1>2. /\ Head(meterData) \in Message /\ Tail(meterData) \in Seq(Message)
      /\ Len(Tail(meterData)) = Len(meterData) - 1
  BY <1>1, HeadTailProperties
<1>3. Len(Tail(meterData)) <= CacheSize
  <2>1. Len(meterData) \in Nat
    BY <1>1
  <2>2. QED
    BY <1>1, <1>2, <2>1
<1>4. TypeOK'
  BY <1>2, <1>3 DEF IInv, TypeOK, getFrontRequestOpNr
<1>5. Numbered' /\ Phases' /\ FilesOwn' /\ DataAgrees' /\ StopDataIsOwn'
  <2>1. Numbered' /\ Phases' /\ FilesOwn' /\ DataAgrees'
    BY NothingStored DEF getFrontRequestOpNr
  <2>2. QED
    BY <2>1 DEF IInv, StopDataIsOwn, getFrontRequestOpNr
<1>6. QED
  BY <1>4, <1>5 DEF IInv

LEMMA FetchStep ==
    ASSUME IInv, fetchFrontRequest
    PROVE  IInv'
<1>1. meterDataFront \in Message
  BY DEF IInv, TypeOK, fetchFrontRequest
<1>2. meterDataFront' \in Message \cup {None}
  <2>1. CASE meterDataFront' = None
    BY <2>1
  <2>2. CASE /\ meterDataFront.attemptNr < MessageAttempts
             /\ meterDataFront' = [meterDataFront EXCEPT !.attemptNr = @ + 1]
    <3>1. meterDataFront.attemptNr + 1 \in 0 .. MessageAttempts
      BY <1>1, <2>2, ConstantsAssumption DEF Message
    <3>2. QED
      BY <1>1, <2>2, <3>1 DEF Message
  <2>3. meterDataFront.attemptNr \in Nat /\ MessageAttempts \in Nat
    BY <1>1, ConstantsAssumption DEF Message
  <2>4. QED
    BY <2>1, <2>2, <2>3 DEF fetchFrontRequest
<1>3. TypeOK'
  BY <1>2 DEF IInv, TypeOK, fetchFrontRequest
<1>4. Numbered' /\ Phases' /\ FilesOwn' /\ DataAgrees' /\ StopDataIsOwn'
  <2>1. Numbered' /\ Phases' /\ FilesOwn' /\ DataAgrees'
    BY NothingStored DEF fetchFrontRequest
  <2>2. QED
    BY <2>1 DEF IInv, StopDataIsOwn, fetchFrontRequest
<1>5. QED
  BY <1>3, <1>4 DEF IInv

-----------------------------------------------------------------------------
(* Transactions come and go.                                                *)

LEMMA CollectStep ==
    ASSUME IInv, Collect
    PROVE  IInv'
<1>1. /\ HasCurrent /\ Current.nr \in TxNr /\ Current = journal[Len(journal)]
      /\ Len(journal) \in 1 .. Len(journal) /\ Len(journal) \in Nat
  BY CurrentIs DEF Collect
<1>2. PICK l \in Nat : l = Len(journal)
  BY <1>1
<1>3. /\ l > 0 /\ l <= RecordSize /\ RecordSize <= MaxTxCnt /\ MaxTxCnt \in Nat /\ RecordSize \in Nat
      /\ journal \in Seq(Entry) /\ nrEnd \in TxNr
  BY <1>1, <1>2, ConstantsAssumption DEF IInv, TypeOK
<1>4. \A i \in 1 .. l : journal[i] \in Entry
  BY <1>2, JournalType DEF IInv
<1>5. /\ journal' \in Seq(Entry) /\ Len(journal') = l - 1
      /\ \A i \in 1 .. l - 1 : journal'[i] = journal[i]
  <2>1. journal' = SubSeq(journal, 1, l - 1)
    BY <1>2 DEF Collect
  <2>2. \A i \in 1 .. l - 1 : journal[i] \in Entry
    BY <1>4
  <2>3. /\ SubSeq(journal, 1, l - 1) \in Seq(Entry)
        /\ Len(SubSeq(journal, 1, l - 1)) = IF 1 <= l - 1 THEN (l - 1) - 1 + 1 ELSE 0
        /\ \A i \in 1 .. (l - 1) - 1 + 1 : SubSeq(journal, 1, l - 1)[i] = journal[1 + i - 1]
    <3>1. 1 \in Int /\ l - 1 \in Int
      OBVIOUS
    <3>2. QED
      BY <2>2, <3>1, SubSeqProperties
  <2>4. \A i \in 1 .. l - 1 : i \in 1 .. (l - 1) - 1 + 1 /\ 1 + i - 1 = i
    OBVIOUS
  <2>5. QED
    BY <1>3, <2>1, <2>3, <2>4
<1>6. \A i \in 1 .. l : journal[i].nr = Before(nrEnd, l + 1 - i)
  BY <1>2 DEF IInv, Numbered, Ago
<1>7. nrEnd' = Before(nrEnd, 1)
  <2>1. l \in 1 .. l /\ l + 1 - l = 1
    BY <1>3
  <2>2. journal[l].nr = Before(nrEnd, 1)
    BY <1>6, <2>1
  <2>3. QED
    BY <1>1, <1>2, <2>2 DEF Collect
<1>8. nrEnd' \in TxNr /\ \A j \in 1 .. MaxTxCnt - 1 : Before(nrEnd', j) = Before(nrEnd, j + 1)
  BY <1>3, <1>7, NumberGivenBack
<1>9. Numbered'
  <2>1. SUFFICES ASSUME NEW i \in 1 .. l - 1
                 PROVE  journal'[i].nr = Before(nrEnd', (l - 1) + 1 - i)
    BY <1>5 DEF Numbered, Ago
  <2>2. (l - 1) + 1 - i \in 1 .. MaxTxCnt - 1 /\ (l - 1) + 1 - i + 1 = l + 1 - i /\ i \in 1 .. l
    BY <1>3
  <2>3. Before(nrEnd', (l - 1) + 1 - i) = Before(nrEnd, (l - 1) + 1 - i + 1)
    BY <1>8, <2>2
  <2>4. QED
    BY <1>5, <1>6, <2>2, <2>3
<1>10. Phases'
  <2>1. SUFFICES ASSUME NEW i \in 1 .. l - 1
                 PROVE  /\ i < l - 1 => journal'[i].phase \in {"stopped", "done"}
                        /\ journal'[i].phase = "stopped" => ~journal'[i].silent
    BY <1>5 DEF Phases
  <2>2. i \in 1 .. l /\ i < l
    OBVIOUS
  <2>3. QED
    BY <1>2, <1>5, <2>2 DEF IInv, Phases
<1>11. sd' \in [TxNr -> [Index -> Samples \cup {None}]]
       /\ \A n \in TxNr : n # Current.nr => sd'[n] = sd[n]
  BY <1>1 DEF IInv, TypeOK, Collect
<1>12. FilesOwn'
  <2>1. SUFFICES ASSUME NEW i \in 1 .. l - 1, Live(journal[i])
                 PROVE  OwnFiles(journal[i], sd'[journal[i].nr])
    BY <1>5 DEF FilesOwn
  <2>2. i \in 1 .. l /\ l \in 1 .. l /\ i # l
    BY <1>3
  <2>3. journal[i].nr # Current.nr
    BY <1>1, <1>2, <2>2, NumbersDiffer DEF IInv
  <2>4. journal[i].nr \in TxNr
    BY <1>4, <2>2 DEF Entry
  <2>5. OwnFiles(journal[i], sd[journal[i].nr])
    BY <1>2, <2>1, <2>2 DEF IInv, FilesOwn
  <2>6. QED
    BY <1>11, <2>3, <2>4, <2>5
<1>13. TypeOK'
  <2>1. Len(journal') <= RecordSize
    BY <1>3, <1>5
  <2>2. QED
    BY <1>5, <1>8, <1>11, <2>1 DEF IInv, TypeOK, Collect
<1>14. DataAgrees' /\ StopDataIsOwn'
  BY DEF IInv, DataAgrees, StopDataIsOwn, Collect
<1>15. QED
  BY <1>9, <1>10, <1>12, <1>13, <1>14 DEF IInv

\* The transactions that stay when a new one begins, and the files.
LEMMA Kept ==
    ASSUME IInv, Begin
    PROVE  \E o \in {0, 1} : \E kept \in Seq(Entry) : \E e \in Entry :
              /\ Len(kept) = Len(journal) - o /\ Len(kept) < RecordSize
              /\ \A i \in 1 .. Len(kept) : kept[i] = journal[i + o]
              /\ journal' = Append(kept, e)
              /\ e.nr = nrEnd /\ e.phase = "preparing"
              /\ sd' \in [TxNr -> [Index -> Samples \cup {None}]] /\ sd'[nrEnd] = NoSample
              /\ \A n \in TxNr : n # nrEnd /\ (o = 1 => n # journal[1].nr) => sd'[n] = sd[n]
<1>1. /\ journal \in Seq(Entry) /\ nrEnd \in TxNr /\ Len(journal) <= RecordSize
      /\ sd \in [TxNr -> [Index -> Samples \cup {None}]] /\ RecordSize \in Nat \ {0}
  BY ConstantsAssumption DEF IInv, TypeOK
<1>2. stopTxnData = None
  BY NoneBefore DEF Begin
<1>3. Removed(nrEnd)[nrEnd] = NoSample /\ NoSample \in [Index -> Samples \cup {None}]
  BY <1>1, <1>2, RemovedIs DEF IInv, NoSample
<1>4. PICK o \in {0, 1} : o = IF Len(journal) >= RecordSize THEN 1 ELSE 0
  OBVIOUS
<1>5. PICK kept : kept = IF Len(journal) >= RecordSize THEN Tail(journal) ELSE journal
  OBVIOUS
<1>6. PICK sd1 : sd1 = IF Len(journal) >= RecordSize THEN Removed(journal[1].nr) ELSE sd
  OBVIOUS
<1>7. PICK silent \in BOOLEAN :
          journal' = Append(kept, [session |-> sessions + 1, nr |-> nrEnd,
                                   phase |-> "preparing", silent |-> silent])
  BY <1>5 DEF Begin
<1>8. PICK e \in Entry : /\ e = [session |-> sessions + 1, nr |-> nrEnd,
                                 phase |-> "preparing", silent |-> silent]
  <2>1. sessions + 1 \in 1 .. MaxSession
    BY ConstantsAssumption DEF IInv, TypeOK, Begin
  <2>2. [session |-> sessions + 1, nr |-> nrEnd, phase |-> "preparing", silent |-> silent] \in Entry
    BY <1>1, <2>1 DEF Entry
  <2>3. QED
    BY <2>2
<1>9. sd' = [sd1 EXCEPT ![nrEnd] = NoSample]
  BY <1>3, <1>6 DEF Begin
<1>10. CASE Len(journal) >= RecordSize
  <2>1. o = 1 /\ kept = Tail(journal) /\ sd1 = Removed(journal[1].nr)
    BY <1>4, <1>5, <1>6, <1>10
  <2>2. journal # <<>>
    BY <1>1, <1>10
  <2>3. /\ kept \in Seq(Entry) /\ Len(kept) = Len(journal) - 1
        /\ \A i \in 1 .. Len(kept) : kept[i] = journal[i + 1]
    BY <1>1, <2>1, <2>2, HeadTailProperties
  <2>4. Len(kept) < RecordSize
    BY <1>1, <2>3
  <2>5. journal[1].nr \in TxNr
    <3>1. Len(journal) \in Nat /\ Len(journal) > 0
      BY <1>1, <2>2, EmptySeq
    <3>2. 1 \in 1 .. Len(journal)
      BY <3>1
    <3>3. QED
      BY <3>2, JournalType DEF IInv, Entry
  <2>6. /\ sd1 \in [TxNr -> [Index -> Samples \cup {None}]]
        /\ \A n \in TxNr : n # journal[1].nr => sd1[n] = sd[n]
    BY <1>1, <2>1, <2>5, RemovedIs DEF IInv
  <2>7. /\ sd' \in [TxNr -> [Index -> Samples \cup {None}]] /\ sd'[nrEnd] = NoSample
        /\ \A n \in TxNr : n # nrEnd /\ n # journal[1].nr => sd'[n] = sd[n]
    BY <1>1, <1>3, <1>9, <2>6
  <2>8. QED
    BY <1>7, <1>8, <2>1, <2>3, <2>4, <2>7
<1>11. CASE ~(Len(journal) >= RecordSize)
  <2>1. o = 0 /\ kept = journal /\ sd1 = sd
    BY <1>4, <1>5, <1>6, <1>11
  <2>2. /\ kept \in Seq(Entry) /\ Len(kept) = Len(journal) - 0 /\ Len(kept) < RecordSize
        /\ \A i \in 1 .. Len(kept) : kept[i] = journal[i + 0]
    BY <1>1, <1>11, <2>1
  <2>3. /\ sd' \in [TxNr -> [Index -> Samples \cup {None}]] /\ sd'[nrEnd] = NoSample
        /\ \A n \in TxNr : n # nrEnd => sd'[n] = sd[n]
    BY <1>1, <1>3, <1>9, <2>1
  <2>4. QED
    BY <1>7, <1>8, <2>1, <2>2, <2>3
<1>12. QED
  BY <1>10, <1>11

LEMMA BeginStep ==
    ASSUME IInv, Begin
    PROVE  IInv'
<1>1. PICK o \in {0, 1}, kept \in Seq(Entry), e \in Entry :
          /\ Len(kept) = Len(journal) - o /\ Len(kept) < RecordSize
          /\ \A i \in 1 .. Len(kept) : kept[i] = journal[i + o]
          /\ journal' = Append(kept, e)
          /\ e.nr = nrEnd /\ e.phase = "preparing"
          /\ sd' \in [TxNr -> [Index -> Samples \cup {None}]] /\ sd'[nrEnd] = NoSample
          /\ \A n \in TxNr : n # nrEnd /\ (o = 1 => n # journal[1].nr) => sd'[n] = sd[n]
  BY Kept
<1>2. PICK l \in Nat : l = Len(kept)
  OBVIOUS
<1>3. /\ RecordSize <= MaxTxCnt /\ MaxTxCnt \in Nat /\ RecordSize \in Nat /\ l < RecordSize
      /\ nrEnd \in TxNr /\ Len(journal) \in Nat /\ Len(journal) = l + o
  BY <1>1, <1>2, JournalType, ConstantsAssumption DEF IInv, TypeOK
<1>4. /\ journal' \in Seq(Entry) /\ Len(journal') = l + 1
      /\ \A i \in 1 .. l : journal'[i] = journal[i + o]
      /\ journal'[l + 1] = e
  BY <1>1, <1>2, AppendProperties
<1>5. \A i \in 1 .. l : i + o \in 1 .. Len(journal)
  BY <1>3
<1>6. /\ nrEnd' \in TxNr /\ Before(nrEnd', 1) = nrEnd
      /\ \A j \in 1 .. MaxTxCnt - 1 : Before(nrEnd', j + 1) = Before(nrEnd, j)
  BY <1>3, NumberGiven DEF Begin
<1>7. \A i \in 1 .. l : /\ l + 1 - i \in 1 .. MaxTxCnt - 1
                        /\ journal[i + o].nr = Before(nrEnd, l + 1 - i)
  <2>1. TAKE i \in 1 .. l
  <2>2. Len(journal) + 1 - (i + o) = l + 1 - i /\ l + 1 - i \in 1 .. MaxTxCnt - 1
    BY <1>3
  <2>3. journal[i + o].nr = Before(nrEnd, Len(journal) + 1 - (i + o))
    BY <1>5 DEF IInv, Numbered, Ago
  <2>4. QED
    BY <2>2, <2>3
<1>8. Numbered'
  <2>1. SUFFICES ASSUME NEW i \in 1 .. l + 1
                 PROVE  journal'[i].nr = Before(nrEnd', (l + 1) + 1 - i)
    BY <1>4 DEF Numbered, Ago
  <2>2. CASE i = l + 1
    <3>1. (l + 1) + 1 - i = 1
      BY <2>2
    <3>2. QED
      BY <1>1, <1>4, <1>6, <2>2, <3>1
  <2>3. CASE i \in 1 .. l
    <3>1. (l + 1) + 1 - i = (l + 1 - i) + 1
      BY <2>3
    <3>2. Before(nrEnd', (l + 1 - i) + 1) = Before(nrEnd, l + 1 - i)
      BY <1>6, <1>7, <2>3
    <3>3. QED
      BY <1>4, <1>7, <2>3, <3>1, <3>2
  <2>4. QED
    BY <2>2, <2>3
<1>9. \A i \in 1 .. l : journal[i + o] \in Entry /\ journal[i + o].phase \in {"stopped", "done"}
  <2>1. TAKE i \in 1 .. l
  <2>2. journal[i + o] \in Entry
    BY <1>5, JournalType DEF IInv
  <2>3. CASE i + o < Len(journal)
    BY <1>5, <2>2, <2>3 DEF IInv, Phases
  <2>4. CASE i + o = Len(journal)
    <3>1. journal # <<>>
      BY <1>3
    <3>2. Current = journal[i + o] /\ ~HasCurrent
      BY <2>4 DEF Current, Begin
    <3>3. QED
      BY <2>2, <3>1, <3>2 DEF HasCurrent, Entry
  <2>5. QED
    BY <1>3, <1>5, <2>3, <2>4
<1>10. Phases'
  <2>1. SUFFICES ASSUME NEW i \in 1 .. l + 1
                 PROVE  /\ i < l + 1 => journal'[i].phase \in {"stopped", "done"}
                        /\ journal'[i].phase = "stopped" => ~journal'[i].silent
    BY <1>4 DEF Phases
  <2>2. CASE i = l + 1
    BY <1>1, <1>4, <2>2
  <2>3. CASE i \in 1 .. l
    <3>1. journal[i + o].phase = "stopped" => ~journal[i + o].silent
      BY <1>5, <2>3 DEF IInv, Phases
    <3>2. QED
      BY <1>4, <1>9, <2>3, <3>1
  <2>4. QED
    BY <2>2, <2>3
<1>11. FilesOwn'
  <2>1. SUFFICES ASSUME NEW i \in 1 .. l + 1, Live(journal'[i])
                 PROVE  OwnFiles(journal'[i], sd'[journal'[i].nr])
    BY <1>4 DEF FilesOwn
  <2>2. CASE i = l + 1
    <3>1. journal'[i] = e /\ sd'[e.nr] = NoSample
      BY <1>1, <1>4, <2>2
    <3>2. Files(NoSample, 0, e.session) /\ 0 \in 0 .. StopTxDataLen
      BY ConstantsAssumption DEF Files, NoSample, Index
    <3>3. OwnFiles(e, NoSample)
      BY <1>1, <3>2 DEF OwnFiles
    <3>4. QED
      BY <3>1, <3>3
  <2>3. CASE i \in 1 .. l
    <3>1. PICK tx \in Entry : tx = journal[i + o]
      BY <1>9, <2>3
    <3>2. tx.nr \in TxNr
      BY DEF Entry
    <3>3. tx.nr # nrEnd
      <4>1. l + 1 - i \in 1 .. MaxTxCnt /\ l + 1 - i # MaxTxCnt
        BY <1>3, <1>7, <2>3
      <4>2. QED
        BY <1>3, <1>7, <2>3, <3>1, <4>1, BeforeIs
    <3>4. o = 1 => tx.nr # journal[1].nr
      <4>1. HAVE o = 1
      <4>2. 1 \in 1 .. Len(journal) /\ i + o # 1
        BY <1>3, <2>3, <4>1
      <4>3. QED
        BY <1>5, <2>3, <3>1, <4>2, NumbersDiffer DEF IInv
    <3>5. sd'[tx.nr] = sd[tx.nr]
      BY <1>1, <3>2, <3>3, <3>4
    <3>6. journal'[i] = tx
      BY <1>4, <2>3, <3>1
    <3>7. OwnFiles(tx, sd[tx.nr])
      BY <1>5, <2>1, <2>3, <3>1, <3>6 DEF IInv, FilesOwn
    <3>8. QED
      BY <3>5, <3>6, <3>7
  <2>4. QED
    BY <2>2, <2>3
<1>12. stopTxnData' = None
  <2>1. stopTxnData = None
    BY NoneBefore DEF Begin
  <2>2. QED
    BY <2>1, FinalizedIs DEF IInv, Begin
<1>13. TypeOK'
  <2>1. Len(journal') <= RecordSize
    BY <1>3, <1>4
  <2>2. sessions' \in 0 .. MaxSession
    BY ConstantsAssumption DEF IInv, TypeOK, Begin
  <2>3. QED
    BY <1>1, <1>4, <1>6, <1>12, <2>1, <2>2 DEF IInv, TypeOK, Begin
<1>14. DataAgrees' /\ StopDataIsOwn'
  BY <1>12 DEF IInv, DataAgrees, StopDataIsOwn, Begin
<1>15. QED
  BY <1>8, <1>10, <1>11, <1>13, <1>14 DEF IInv

-----------------------------------------------------------------------------
(* The theorems.                                                            *)

LEMMA InitIInv ==
    ASSUME Init
    PROVE  IInv
<1>1. nrEnd \in TxNr /\ sessions \in 0 .. MaxSession /\ RecordSize >= 0 /\ CacheSize >= 0
  BY ConstantsAssumption DEF Init, TxNr
<1>2. journal \in Seq(Entry) /\ Len(journal) = 0 /\ meterData \in Seq(Message) /\ Len(meterData) = 0
  BY DEF Init
<1>3. sd \in [TxNr -> [Index -> Samples \cup {None}]]
  BY DEF Init, NoSample
<1>4. TypeOK
  BY <1>1, <1>2, <1>3 DEF Init, TypeOK
<1>5. Numbered /\ Phases /\ FilesOwn /\ DataAgrees /\ StopDataIsOwn
  BY <1>2 DEF Init, Numbered, Phases, FilesOwn, DataAgrees, StopDataIsOwn
<1>6. QED
  BY <1>4, <1>5 DEF IInv

LEMMA StepIInv ==
    ASSUME IInv, [Next]_mtVars
    PROVE  IInv'
<1>1. CASE Begin
  BY <1>1, BeginStep
<1>2. CASE Start
  BY <1>2, StartStep
<1>3. CASE Stop
  BY <1>3, StopStep
<1>4. CASE GiveUpStart
  BY <1>4, GiveUpStartStep
<1>5. CASE Abort
  BY <1>5, AbortStep
<1>6. CASE Collect
  BY <1>6, CollectStep
<1>7. CASE SendStop
  BY <1>7, SendStopStep
<1>8. CASE EndStop
  BY <1>8, EndStopStep
<1>9. CASE LoopSample
  BY <1>9, LoopSampleStep
<1>10. CASE getFrontRequestOpNr
  BY <1>10, FrontStep
<1>11. CASE fetchFrontRequest
  BY <1>11, FetchStep
<1>12. CASE Reboot
  BY <1>12, RebootStep
<1>13. CASE RebootInStart
  BY <1>13, RebootInStartStep
<1>14. CASE RebootInStop
  BY <1>14, RebootInStopStep
<1>15. CASE RebootInRemove
  BY <1>15, RebootInRemoveStep
<1>16. CASE UNCHANGED mtVars
  <2>1. Numbered' /\ Phases' /\ FilesOwn' /\ DataAgrees'
    BY <1>16, NothingStored DEF mtVars
  <2>2. TypeOK' /\ StopDataIsOwn'
    BY <1>16 DEF mtVars, IInv, TypeOK, StopDataIsOwn
  <2>3. QED
    BY <2>1, <2>2 DEF IInv
<1>17. QED
  BY <1>1, <1>2, <1>3, <1>4, <1>5, <1>6, <1>7, <1>8, <1>9, <1>10, <1>11, <1>12, <1>13, <1>14,
     <1>15, <1>16 DEF Next

\* The files and the object in memory are those of the transactions of the journal, in
\* every reachable state.
THEOREM Invariance == Spec => []IInv
<1>1. Init => IInv
  BY InitIInv
<1>2. IInv /\ [Next]_mtVars => IInv'
  BY StepIInv
<1>3. QED
  BY <1>1, <1>2, PTL DEF Spec

\* addTxData() never writes a file beyond the record, whatever the power failures, and the
\* cache of MeterValues stays within its limit.
THEOREM TypeCorrect == Spec => []TypeOK
<1>1. IInv => TypeOK
  BY DEF IInv
<1>2. QED
  BY <1>1, Invariance, PTL

\* StopTransaction carries the samples of its own transaction, from that of its begin to
\* that of its end, for journals, records and caches of any size.
THEOREM StopDataBelongs == Spec => []StopDataIsOwn
<1>1. IInv => StopDataIsOwn
  BY DEF IInv
<1>2. QED
  BY <1>1, Invariance, PTL
=============================================================================
