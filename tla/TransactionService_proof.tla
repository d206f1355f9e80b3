---------------------- MODULE TransactionService_proof ----------------------
(***************************************************************************)
(* Theorems about TransactionService, for journals and records of any size,  *)
(* any number of attempts, sessions and boots, and any start and stop points. *)
(***************************************************************************)
EXTENDS TransactionService, FiniteSetTheorems, WellFoundedInduction, TLAPS

-----------------------------------------------------------------------------
(* Numbers of transactions, modulo MaxTxCnt.                                *)

\* What the sizes of the journal and of a record have to do with each other.
LEMMA Sizes ==
    /\ MaxTxCnt \in Nat /\ MaxTxCnt >= 4 /\ RecordSize \in Nat \ {0}
    /\ MaxTxCnt >= 2 * RecordSize + 2
    /\ EventRecordSize \in Nat /\ EventRecordSize >= 3
    /\ LastSeqNo \in Nat /\ LastSeqNo >= 2
<1>1. RecordSize \in Nat \ {0} /\ MaxTxCnt \in Nat /\ MaxTxCnt >= 2 * RecordSize + 2
  BY ConstantsAssumption
<1>2. EventRecordSize \in Nat /\ EventRecordSize >= 3 /\ LastSeqNo \in Nat /\ LastSeqNo >= 2
  BY ConstantsAssumption
<1>3. QED
  BY <1>1, <1>2

\* The distance of m from n, without the modulo.
LEMMA MinusIs ==
    ASSUME NEW m \in TxNr, NEW n \in TxNr
    PROVE  Minus(m, n) = IF m >= n THEN m - n ELSE m + MaxTxCnt - n
  BY Sizes, SMT DEF TxNr, Minus

\* It is a number below MaxTxCnt, zero for the same number only.
LEMMA MinusType ==
    ASSUME NEW m \in TxNr, NEW n \in TxNr
    PROVE  Minus(m, n) \in 0 .. MaxTxCnt - 1 /\ (Minus(m, n) = 0 <=> m = n)
  BY MinusIs, Sizes DEF TxNr

\* Distances tell the numbers apart.
LEMMA MinusInjective ==
    ASSUME NEW b \in TxNr, NEW m \in TxNr, NEW n \in TxNr, Minus(m, b) = Minus(n, b)
    PROVE  m = n
  BY MinusIs, Sizes DEF TxNr

\* Distances from another number, by those from b.
LEMMA MinusFrom ==
    ASSUME NEW b \in TxNr, NEW m \in TxNr, NEW n \in TxNr
    PROVE  Minus(m, n) = IF Minus(m, b) >= Minus(n, b) THEN Minus(m, b) - Minus(n, b)
                         ELSE Minus(m, b) + MaxTxCnt - Minus(n, b)
<1>1. /\ Minus(m, b) = IF m >= b THEN m - b ELSE m + MaxTxCnt - b
      /\ Minus(n, b) = IF n >= b THEN n - b ELSE n + MaxTxCnt - b
      /\ Minus(m, n) = IF m >= n THEN m - n ELSE m + MaxTxCnt - n
  BY MinusIs
<1>2. QED
  BY <1>1, Sizes DEF TxNr

\* The number k places before e.
LEMMA BackIs ==
    ASSUME NEW b \in TxNr, NEW e \in TxNr, NEW k \in 0 .. Minus(e, b)
    PROVE  Minus(e, k) \in TxNr /\ Minus(Minus(e, k), b) = Minus(e, b) - k
<1>1. Minus(e, b) = IF e >= b THEN e - b ELSE e + MaxTxCnt - b
  BY MinusIs
<1>2. Minus(e, b) \in 0 .. MaxTxCnt - 1 /\ k \in 0 .. MaxTxCnt - 1
  <2>1. Minus(e, b) \in 0 .. MaxTxCnt - 1
    BY MinusType
  <2>2. QED
    BY <2>1, Sizes
<1>3. Minus(e, k) = IF e >= k THEN e - k ELSE e + MaxTxCnt - k
  BY <1>2, MinusIs DEF TxNr
<1>4. Minus(e, k) \in TxNr
  BY <1>2, <1>3, Sizes DEF TxNr
<1>5. Minus(Minus(e, k), b) = IF Minus(e, k) >= b THEN Minus(e, k) - b
                              ELSE Minus(e, k) + MaxTxCnt - b
  BY <1>4, MinusIs
<1>6. QED
  BY <1>1, <1>2, <1>3, <1>4, <1>5, Sizes DEF TxNr

\* The number k places after f.
LEMMA ForthIs ==
    ASSUME NEW b \in TxNr, NEW f \in TxNr, NEW k \in Nat, Minus(f, b) + k < MaxTxCnt
    PROVE  (f + k) % MaxTxCnt \in TxNr /\ Minus((f + k) % MaxTxCnt, b) = Minus(f, b) + k
<1> DEFINE g == (f + k) % MaxTxCnt
<1>1. Minus(f, b) = IF f >= b THEN f - b ELSE f + MaxTxCnt - b
  BY MinusIs
<1>2. f + k < 2 * MaxTxCnt /\ f + k >= 0
  BY MinusType, Sizes DEF TxNr
<1>3. g = IF f + k < MaxTxCnt THEN f + k ELSE f + k - MaxTxCnt
  BY <1>2, Sizes, SMT DEF TxNr
<1>4. g \in TxNr
  BY <1>2, <1>3, Sizes DEF TxNr
<1> HIDE DEF g
<1>5. Minus(g, b) = IF g >= b THEN g - b ELSE g + MaxTxCnt - b
  BY <1>4, MinusIs
<1>6. Minus(g, b) = Minus(f, b) + k
  BY <1>1, <1>3, <1>4, <1>5, Sizes DEF TxNr
<1>7. QED
  BY <1>4, <1>6 DEF g

\* The next number.
LEMMA Next1Is ==
    ASSUME NEW b \in TxNr, NEW n \in TxNr
    PROVE  /\ Next1(n) \in TxNr
           /\ Minus(n, b) < MaxTxCnt - 1 => Minus(Next1(n), b) = Minus(n, b) + 1
           /\ Minus(n, Next1(b)) = IF n = b THEN MaxTxCnt - 1 ELSE Minus(n, b) - 1
<1>1. Next1(n) = IF n = MaxTxCnt - 1 THEN 0 ELSE n + 1
  BY Sizes, SMT DEF TxNr, Next1
<1>2. Next1(b) = IF b = MaxTxCnt - 1 THEN 0 ELSE b + 1
  BY Sizes, SMT DEF TxNr, Next1
<1>3. Next1(n) \in TxNr /\ Next1(b) \in TxNr
  BY <1>1, <1>2, Sizes DEF TxNr
<1>4. /\ Minus(n, b) = IF n >= b THEN n - b ELSE n + MaxTxCnt - b
      /\ Minus(Next1(n), b) = IF Next1(n) >= b THEN Next1(n) - b ELSE Next1(n) + MaxTxCnt - b
      /\ Minus(n, Next1(b)) = IF n >= Next1(b) THEN n - Next1(b) ELSE n + MaxTxCnt - Next1(b)
  BY <1>3, MinusIs
<1>5. QED
  BY <1>1, <1>2, <1>3, <1>4, Sizes DEF TxNr

\* The order of the numbers.
Below == {p \in Nat \X Nat : p[1] < p[2]}

LEMMA BelowWellFounded == IsWellFoundedOn(Below, Nat)
<1>1. OpToRel(<, Nat) = Below
  BY DEF OpToRel, Below
<1>2. QED
  BY <1>1, NatLessThanWellFounded

\* Each set of numbers has a least one.
LEMMA Least ==
    ASSUME NEW S, S \subseteq Nat, S # {}
    PROVE  \E x \in S : \A y \in S : x <= y
<1>1. PICK x \in S : \A y \in S : ~(<<y, x>> \in Below)
  BY BelowWellFounded, WFMin
<1>2. ASSUME NEW y \in S PROVE x <= y
  <2>1. x \in Nat /\ y \in Nat
    OBVIOUS
  <2>2. y < x => <<y, x>> \in Below
    BY <2>1 DEF Below
  <2>3. QED
    BY <1>1, <2>1, <2>2
<1>3. QED
  BY <1>2

\* A bounded set of numbers has a greatest one.
LEMMA Greatest ==
    ASSUME NEW n \in Nat, NEW S, S \subseteq 0 .. n, S # {}
    PROVE  \E x \in S : \A y \in S : y <= x
<1> DEFINE D == {n - x : x \in S}
<1>1. D \subseteq Nat /\ D # {}
  <2>1. \A x \in S : n - x \in Nat
    OBVIOUS
  <2>2. PICK x \in S : TRUE
    OBVIOUS
  <2>3. n - x \in D
    OBVIOUS
  <2>4. QED
    BY <2>1, <2>3
<1>2. PICK d \in D : \A y \in D : d <= y
  BY <1>1, Least
<1>3. PICK x \in S : d = n - x
  BY <1>2
<1>4. \A y \in S : y <= x
  <2>1. TAKE y \in S
  <2>2. n - x <= n - y
    BY <1>2, <1>3
  <2>3. QED
    BY <2>2
<1>5. QED
  BY <1>4

-----------------------------------------------------------------------------
(* Numbers of events.                                                      *)

\* The last and the first one of a set.
LEMMA MaxIs ==
    ASSUME NEW S, S \subseteq SeqNo, S # {}
    PROVE  MaxOf(S) \in S /\ \A n \in S : n <= MaxOf(S)
<1>1. \E x \in S : \A y \in S : y <= x
  BY Sizes, Greatest DEF SeqNo
<1>2. QED
  BY <1>1 DEF MaxOf

\* The least number of a set.
LEMMA MinIs ==
    ASSUME NEW S, S \subseteq SeqNo, S # {}
    PROVE  FrontSeqNo(S) \in S /\ \A n \in S : FrontSeqNo(S) <= n
<1>1. S \subseteq Nat
  BY Sizes DEF SeqNo
<1>2. \E x \in S : \A y \in S : x <= y
  BY <1>1, Least
<1>3. QED
  BY <1>2 DEF FrontSeqNo

\* No other number is the greatest one.
LEMMA MaxUnique ==
    ASSUME NEW S, S \subseteq SeqNo, NEW x \in S, \A n \in S : n <= x
    PROVE  MaxOf(S) = x
<1>1. MaxOf(S) \in S /\ \A n \in S : n <= MaxOf(S)
  BY MaxIs
<1>2. MaxOf(S) \in SeqNo /\ x \in SeqNo
  BY <1>1
<1>3. MaxOf(S) <= x /\ x <= MaxOf(S)
  BY <1>1
<1>4. QED
  BY <1>2, <1>3, Sizes DEF SeqNo

\* A set of numbers of events can be counted.
LEMMA SeqNosFinite ==
    ASSUME NEW S, S \subseteq SeqNo
    PROVE  IsFiniteSet(S) /\ Cardinality(S) \in Nat
<1>1. IsFiniteSet(SeqNo)
  BY Sizes, FS_Interval DEF SeqNo
<1>2. IsFiniteSet(S)
  BY <1>1, FS_Subset
<1>3. QED
  BY <1>2, FS_CardinalityType

\* A number that is neither the first nor the last one.
Between(S, n) == \E a, b \in S : a < n /\ n < b

\* A record of three events or more has one that lies between two others.
LEMMA DroppableIs ==
    ASSUME NEW S, S \subseteq SeqNo, Cardinality(S) >= 3
    PROVE  /\ Droppable(S) # {} /\ Droppable(S) \subseteq S
           /\ \A n \in Droppable(S) : Between(S, n)
<1>1. IsFiniteSet(S)
  BY SeqNosFinite
<1>2. S # {}
  BY FS_EmptySet
<1> DEFINE a == FrontSeqNo(S)
           b == MaxOf(S)
<1>3. a \in S /\ b \in S /\ \A n \in S : a <= n /\ n <= b
  BY <1>2, MinIs, MaxIs
<1>4. Droppable(S) = S \ {b, a}
  BY DEF Droppable, FrontSeqNo
<1> HIDE DEF a, b
<1>5. Droppable(S) # {}
  <2>1. SUFFICES ASSUME S \ {b, a} = {} PROVE FALSE
    BY <1>4
  <2>2. IsFiniteSet({b}) /\ Cardinality({b}) = 1
    BY FS_Singleton
  <2>3. IsFiniteSet({b} \cup {a}) /\ Cardinality({b} \cup {a}) <= 2
    BY <2>2, FS_AddElement
  <2>4. S \in SUBSET ({b} \cup {a})
    BY <2>1
  <2>5. Cardinality(S) <= Cardinality({b} \cup {a})
    BY <2>3, <2>4, FS_Subset
  <2>6. Cardinality(S) \in Nat /\ Cardinality({b} \cup {a}) \in Nat
    BY <1>1, <2>3, FS_CardinalityType
  <2>7. QED
    BY <2>3, <2>5, <2>6
<1>6. ASSUME NEW n \in S, n # a, n # b PROVE a < n /\ n < b
  <2>1. a \in Int /\ b \in Int /\ n \in Int
    BY <1>3, Sizes DEF SeqNo
  <2>2. QED
    BY <1>3, <1>6, <2>1
<1>7. \A n \in Droppable(S) : Between(S, n)
  BY <1>3, <1>4, <1>6 DEF Between
<1>8. QED
  BY <1>4, <1>5, <1>7

\* The neighbours of an event between two others are some numbers apart.
LEMMA GapIs ==
    ASSUME NEW S, S \subseteq SeqNo, NEW n \in S, Between(S, n)
    PROVE  Gap(S, n) \in Nat
<1> DEFINE after == {m \in S : m > n}
           before == {m \in S : m < n}
<1>1. after \subseteq SeqNo /\ before \subseteq SeqNo
  OBVIOUS
<1>2. after # {} /\ before # {}
  BY DEF Between
<1>3. FrontSeqNo(after) \in after /\ MaxOf(before) \in before
  BY <1>1, <1>2, MinIs, MaxIs
<1>4. Gap(S, n) = FrontSeqNo(after) - MaxOf(before)
  BY <1>2 DEF Gap, FrontSeqNo
<1> DEFINE x == FrontSeqNo(after)
           y == MaxOf(before)
<1>5. x \in S /\ x > n /\ y \in S /\ y < n
  BY <1>3
<1>6. Gap(S, n) = x - y
  BY <1>4
<1> HIDE DEF x, y, after, before
<1>7. QED
  BY <1>5, <1>6, Sizes DEF SeqNo

\* A full record gives up one event, between two others.
LEMMA DroppedIs ==
    ASSUME NEW S, S \subseteq SeqNo, Cardinality(S) >= 3
    PROVE  \E n \in S : Dropped(S) = {n} /\ Between(S, n)
<1> DEFINE D == Droppable(S)
           G == {Gap(S, n) : n \in D}
           E == {n \in D : \A m \in D : Gap(S, n) <= Gap(S, m)}
<1>1. D # {} /\ D \subseteq S /\ \A n \in D : Between(S, n)
  BY DroppableIs
<1> HIDE DEF D
<1>2. \A n \in D : Gap(S, n) \in Nat
  BY <1>1, GapIs
<1>3. G \subseteq Nat /\ G # {}
  BY <1>1, <1>2
<1>4. PICK g \in G : \A h \in G : g <= h
  BY <1>3, Least
<1>5. PICK n \in D : g = Gap(S, n)
  BY <1>4
<1>6. n \in E
  BY <1>4, <1>5
<1>7. E \subseteq SeqNo /\ E \subseteq D
  BY <1>1
<1>8. MaxOf(E) \in E
  BY <1>6, <1>7, MaxIs
<1>9. Dropped(S) = {MaxOf(E)}
  BY DEF Dropped, D
<1>10. QED
  BY <1>1, <1>7, <1>8, <1>9

-----------------------------------------------------------------------------
(* A transaction and its files.                                            *)

\* Nothing else comes of it for the server.
Done(t) == t.silent \/ isAborted(t) \/ isReported(t)

Pairs == [session : Session, tx : Tx, files : TxFiles]

\* The files of p: one for each event, and none beyond the numbers given out but the one
\* with the state of the transaction.
Laid(p) ==
    /\ p \in Pairs
    /\ \A n \in SeqNo : p.files[n] # None => p.files[n].session = p.session
    /\ \A n \in SeqNo : n \in p.tx.seqNos <=> p.files[n] # None /\ p.files[n].event # None
    /\ \A n \in p.tx.seqNos : n < p.tx.seqNoEnd
    /\ \A n \in SeqNo : p.files[n] # None => n \in p.tx.seqNos \/ n = p.tx.seqNoEnd
    /\ Cardinality(p.tx.seqNos) <= EventRecordSize
    /\ p.tx.stopped => p.tx.started
    /\ ~p.tx.started => p.tx.seqNos = {} /\ p.tx.seqNoEnd = 0

\* The last file, which restores the transaction.
LastFile(p) == IF p.files[p.tx.seqNoEnd] # None THEN p.tx.seqNoEnd ELSE p.tx.seqNoEnd - 1

\* What the file knows of the transaction is what the object knows, up to a decision of
\* the server against it.
Restores(t, saved) ==
    /\ saved # None
    /\ saved.silent = t.silent /\ saved.started = t.started /\ saved.stopped = t.stopped
    /\ saved.active = t.active \/ t.started

Sound(p) ==
    /\ Laid(p)
    /\ p.files[p.tx.seqNoEnd] = None => p.tx.seqNoEnd - 1 \in p.tx.seqNos
    /\ Restores(p.tx, p.files[LastFile(p)].tx)

\* The parts of a pair.
LEMMA PairIs ==
    ASSUME NEW p \in Pairs
    PROVE  /\ p = [session |-> p.session, tx |-> p.tx, files |-> p.files]
           /\ p.session \in Session /\ p.tx \in Tx /\ p.files \in TxFiles
           /\ p.tx.seqNos \subseteq SeqNo /\ p.tx.seqNoEnd \in SeqNo /\ p.tx.nr \in TxNr
           /\ p.tx.stopped \in BOOLEAN /\ p.tx.started \in BOOLEAN
           /\ p.tx.silent \in BOOLEAN /\ p.tx.active \in BOOLEAN
<1>1. /\ p = [session |-> p.session, tx |-> p.tx, files |-> p.files]
      /\ p.session \in Session /\ p.tx \in Tx /\ p.files \in TxFiles
  BY DEF Pairs
<1>2. QED
  BY <1>1 DEF Tx

\* Two pairs of a session that differ in the events that are left, where only events
\* between others are missing.
SameTx(t, u) ==
    /\ u.nr = t.nr /\ u.silent = t.silent /\ u.active = t.active
    /\ u.started = t.started /\ u.stopped = t.stopped /\ u.seqNoEnd = t.seqNoEnd
Thinned(p, q) ==
    /\ q.session = p.session /\ SameTx(p.tx, q.tx)
    /\ q.tx.seqNos \subseteq p.tx.seqNos
    /\ \A m \in p.tx.seqNos \ q.tx.seqNos : Between(q.tx.seqNos, m)

\* Events go, with their files.
LEMMA WithoutIs ==
    ASSUME NEW p \in Pairs, NEW out
    PROVE  LET q == Without(p, out)
           IN  /\ q \in Pairs /\ q.session = p.session /\ SameTx(p.tx, q.tx)
               /\ q.tx.seqNos = p.tx.seqNos \ out
               /\ out = {} => q = p
               /\ \A k \in SeqNo : q.files[k] = IF k \in out THEN None ELSE p.files[k]
<1> DEFINE u == [p.tx EXCEPT !.seqNos = p.tx.seqNos \ out]
           fs == [k \in SeqNo |-> IF k \in out THEN None ELSE p.files[k]]
           q == Without(p, out)
<1>1. p.tx \in Tx /\ p.tx.seqNos \subseteq SeqNo /\ p.files \in TxFiles /\ p.session \in Session
  BY PairIs
<1>2. u \in Tx /\ u.seqNos = p.tx.seqNos \ out
  BY <1>1 DEF Tx
<1>3. fs \in TxFiles
  BY <1>1 DEF TxFiles
<1>4. SameTx(p.tx, u)
  BY <1>1 DEF SameTx, Tx
<1>5. out = {} => u = p.tx
  BY <1>1 DEF Tx
<1>6. out = {} => fs = p.files
  BY <1>1 DEF TxFiles
<1>7. q = Pair(p.session, u, fs)
  BY DEF Without
<1>8. \A k \in SeqNo : fs[k] = IF k \in out THEN None ELSE p.files[k]
  OBVIOUS
<1> HIDE DEF u, fs
<1>9. q = [session |-> p.session, tx |-> u, files |-> fs]
  BY <1>7 DEF Pair
<1>10. q \in Pairs /\ q.session = p.session /\ q.tx = u /\ q.files = fs
  BY <1>1, <1>2, <1>3, <1>9 DEF Pairs
<1>11. out = {} => q = p
  BY <1>5, <1>6, <1>9, PairIs
<1> HIDE DEF q
<1>12. QED
  BY <1>2, <1>4, <1>8, <1>10, <1>11 DEF q

\* What is left is laid out as before.
LEMMA WithoutLaid ==
    ASSUME NEW p, Laid(p), NEW out, out \subseteq p.tx.seqNos
    PROVE  Laid(Without(p, out))
<1> DEFINE q == Without(p, out)
<1>1. p \in Pairs
  BY DEF Laid
<1>2. /\ q \in Pairs /\ q.session = p.session /\ SameTx(p.tx, q.tx)
      /\ q.tx.seqNos = p.tx.seqNos \ out
      /\ \A k \in SeqNo : q.files[k] = IF k \in out THEN None ELSE p.files[k]
  BY <1>1, WithoutIs
<1> HIDE DEF q
<1>3. /\ q.tx.seqNoEnd = p.tx.seqNoEnd
      /\ q.tx.started = p.tx.started /\ q.tx.stopped = p.tx.stopped
  BY <1>2 DEF SameTx
<1>4. /\ \A k \in SeqNo : p.files[k] # None => p.files[k].session = p.session
      /\ \A k \in SeqNo : k \in p.tx.seqNos <=> p.files[k] # None /\ p.files[k].event # None
      /\ \A k \in p.tx.seqNos : k < p.tx.seqNoEnd
      /\ \A k \in SeqNo : p.files[k] # None => k \in p.tx.seqNos \/ k = p.tx.seqNoEnd
      /\ Cardinality(p.tx.seqNos) <= EventRecordSize
      /\ p.tx.stopped => p.tx.started
      /\ ~p.tx.started => p.tx.seqNos = {} /\ p.tx.seqNoEnd = 0
  BY DEF Laid
<1>5. ASSUME NEW k \in SeqNo
      PROVE  /\ q.files[k] # None => q.files[k].session = q.session
             /\ k \in q.tx.seqNos <=> q.files[k] # None /\ q.files[k].event # None
             /\ q.files[k] # None => k \in q.tx.seqNos \/ k = q.tx.seqNoEnd
  <2>1. CASE k \in out
    BY <1>2, <1>3, <1>4, <2>1
  <2>2. CASE k \notin out
    BY <1>2, <1>3, <1>4, <2>2
  <2>3. QED
    BY <2>1, <2>2
<1>6. Cardinality(q.tx.seqNos) <= EventRecordSize
  <2>1. p.tx.seqNos \subseteq SeqNo
    BY <1>1, PairIs
  <2>2. IsFiniteSet(p.tx.seqNos) /\ Cardinality(p.tx.seqNos) \in Nat
    BY <2>1, SeqNosFinite
  <2>3. q.tx.seqNos \in SUBSET p.tx.seqNos
    BY <1>2
  <2>4. IsFiniteSet(q.tx.seqNos) /\ Cardinality(q.tx.seqNos) <= Cardinality(p.tx.seqNos)
    BY <2>2, <2>3, FS_Subset
  <2>5. Cardinality(q.tx.seqNos) \in Nat
    BY <2>4, FS_CardinalityType
  <2>6. QED
    BY <1>4, <2>2, <2>4, <2>5, Sizes
<1>7. q.tx.seqNos \subseteq p.tx.seqNos
  BY <1>2
<1>8. Laid(q)
  BY <1>2, <1>3, <1>4, <1>5, <1>6, <1>7 DEF Laid
<1>9. QED
  BY <1>8 DEF q

\* The state of the transaction must be left.
LEMMA WithoutSound ==
    ASSUME NEW p, Sound(p), NEW out, out \subseteq p.tx.seqNos,
           p.files[p.tx.seqNoEnd] # None \/ p.tx.seqNoEnd - 1 \notin out
    PROVE  Sound(Without(p, out))
<1> DEFINE q == Without(p, out)
           n == p.tx.seqNoEnd
<1>1. p \in Pairs /\ Laid(p) /\ n \in SeqNo
  BY PairIs DEF Sound, Laid
<1>2. /\ SameTx(p.tx, q.tx) /\ q.tx.seqNos = p.tx.seqNos \ out
      /\ \A k \in SeqNo : q.files[k] = IF k \in out THEN None ELSE p.files[k]
  BY <1>1, WithoutIs
<1>3. Laid(q)
  BY <1>1, WithoutLaid
<1> HIDE DEF q
<1>4. q.tx.seqNoEnd = n
  BY <1>2 DEF SameTx
<1>5. n \notin out
  <2>1. \A k \in p.tx.seqNos : k < n
    BY <1>1 DEF Laid
  <2>2. QED
    BY <1>1, <2>1, Sizes DEF SeqNo
<1>6. q.files[n] = p.files[n]
  BY <1>1, <1>2, <1>5
<1>7. LastFile(q) = LastFile(p)
  BY <1>4, <1>6 DEF LastFile
<1>8. q.files[LastFile(q)] = p.files[LastFile(p)]
  <2>1. CASE p.files[n] # None
    BY <1>6, <1>7, <2>1 DEF LastFile
  <2>2. CASE p.files[n] = None
    <3>1. n - 1 \in p.tx.seqNos /\ n - 1 \notin out
      BY <2>2 DEF Sound
    <3>2. n - 1 \in SeqNo
      BY <1>1, <3>1, PairIs
    <3>3. QED
      BY <1>2, <1>7, <2>2, <3>1, <3>2 DEF LastFile
  <2>3. QED
    BY <2>1, <2>2
<1>9. Restores(q.tx, q.files[LastFile(q)].tx)
  BY <1>2, <1>8 DEF Sound, Restores, SameTx
<1>10. q.files[n] = None => n - 1 \in q.tx.seqNos
  BY <1>2, <1>6 DEF Sound
<1>11. Sound(q)
  BY <1>3, <1>4, <1>9, <1>10 DEF Sound
<1>12. QED
  BY <1>11 DEF q

\* A pair is its own thinning.
LEMMA ThinnedItself ==
    ASSUME NEW p
    PROVE  Thinned(p, p)
  BY DEF Thinned, SameTx

\* A full record makes room.
LEMMA ShrunkIs ==
    ASSUME NEW p, Laid(p), NEW n \in SeqNo, n \in p.tx.seqNos \/ n = p.tx.seqNoEnd
    PROVE  LET q == Shrunk(p, n)
           IN  /\ Laid(q) /\ Thinned(p, q) /\ (Sound(p) => Sound(q))
               /\ n \in p.tx.seqNos => q = p
               /\ n \notin p.tx.seqNos => Cardinality(q.tx.seqNos) + 1 <= EventRecordSize
<1>1. p \in Pairs
  BY DEF Laid
<1>2. p.tx.seqNos \subseteq SeqNo /\ p.tx.seqNoEnd \in SeqNo
  BY <1>1, PairIs
<1>3. /\ Cardinality(p.tx.seqNos) <= EventRecordSize /\ Cardinality(p.tx.seqNos) \in Nat
      /\ IsFiniteSet(p.tx.seqNos)
  BY <1>2, SeqNosFinite DEF Laid
<1>4. CASE ~(n \notin p.tx.seqNos /\ Cardinality(p.tx.seqNos) + 1 > EventRecordSize)
  <2>1. Shrunk(p, n) = p
    BY <1>4 DEF Shrunk
  <2>2. n \notin p.tx.seqNos => Cardinality(p.tx.seqNos) + 1 <= EventRecordSize
    BY <1>3, <1>4, Sizes
  <2>3. QED
    BY <1>1, <2>1, <2>2, ThinnedItself
<1>5. CASE n \notin p.tx.seqNos /\ Cardinality(p.tx.seqNos) + 1 > EventRecordSize
  <2>1. Cardinality(p.tx.seqNos) = EventRecordSize /\ Cardinality(p.tx.seqNos) >= 3
    BY <1>3, <1>5, Sizes
  <2>2. PICK d \in p.tx.seqNos : Dropped(p.tx.seqNos) = {d} /\ Between(p.tx.seqNos, d)
    BY <1>2, <2>1, DroppedIs
  <2> DEFINE q == Without(p, {d})
  <2>3. Shrunk(p, n) = q
    BY <1>5, <2>2 DEF Shrunk
  <2>4. /\ q.session = p.session /\ SameTx(p.tx, q.tx)
        /\ q.tx.seqNos = p.tx.seqNos \ {d}
    BY <1>1, WithoutIs
  <2>5. PICK a, b \in p.tx.seqNos : a < d /\ d < b
    BY <2>2 DEF Between
  <2>6. a # d /\ b # d /\ d # p.tx.seqNoEnd - 1
    <3>1. b < p.tx.seqNoEnd
      BY DEF Laid
    <3>2. a \in SeqNo /\ b \in SeqNo /\ d \in SeqNo
      BY <1>2
    <3>3. QED
      BY <1>2, <2>5, <3>1, <3>2, Sizes DEF SeqNo
  <2>7. Laid(q) /\ (Sound(p) => Sound(q))
    BY <2>6, WithoutLaid, WithoutSound
  <2> HIDE DEF q
  <2>8. Thinned(p, q)
    <3>1. Between(q.tx.seqNos, d)
      BY <2>4, <2>5, <2>6 DEF Between
    <3>2. \A m \in p.tx.seqNos \ q.tx.seqNos : m = d
      BY <2>4
    <3>3. QED
      BY <2>4, <3>1, <3>2 DEF Thinned
  <2>9. Cardinality(q.tx.seqNos) + 1 = EventRecordSize
    <3>1. Cardinality(q.tx.seqNos) = Cardinality(p.tx.seqNos) - 1
      BY <1>3, <2>4, FS_RemoveElement
    <3>2. QED
      BY <1>3, <2>1, <3>1
  <2>10. QED
    BY <1>5, <2>3, <2>7, <2>8, <2>9, Sizes
<1>6. QED
  BY <1>4, <1>5

\* What is written of the state restores it.
LEMMA SavedIs ==
    ASSUME NEW t \in Tx, t.stopped => t.started
    PROVE  Saved(t) \in Tx /\ Restores(t, Saved(t))
<1>1. None \notin Tx
  BY NoneAssumption
<1>2. 0 \in SeqNo
  BY Sizes DEF SeqNo
<1>3. CASE t.stopped
  <2> DEFINE u == [nr |-> t.nr, silent |-> t.silent, active |-> FALSE, started |-> TRUE,
                   stopped |-> TRUE, auth |-> FALSE, authorized |-> FALSE,
                   deauthorized |-> FALSE, seqNos |-> {}, seqNoEnd |-> 0]
  <2>1. Saved(t) = u
    BY <1>3 DEF Saved, NewTx
  <2>2. u \in Tx
    BY <1>2 DEF Tx
  <2>3. u.silent = t.silent /\ u.started /\ u.stopped /\ u.started = TRUE /\ u.stopped = TRUE
    OBVIOUS
  <2>4. t.stopped = TRUE /\ t.started = TRUE
    BY <1>3 DEF Tx
  <2> HIDE DEF u
  <2>5. QED
    BY <1>1, <2>1, <2>2, <2>3, <2>4 DEF Restores
<1>4. CASE ~t.stopped
  <2> DEFINE u == [t EXCEPT !.seqNos = {}]
             v == [u EXCEPT !.seqNoEnd = 0]
  <2>1. Saved(t) = v
    BY <1>4 DEF Saved
  <2>2. u \in Tx /\ u.silent = t.silent /\ u.started = t.started /\ u.stopped = t.stopped
        /\ u.active = t.active
    BY DEF Tx
  <2> HIDE DEF u
  <2>3. v \in Tx /\ v.silent = u.silent /\ v.started = u.started /\ v.stopped = u.stopped
        /\ v.active = u.active
    BY <1>2, <2>2 DEF Tx
  <2> HIDE DEF v
  <2>4. QED
    BY <1>1, <2>1, <2>2, <2>3 DEF Restores
<1>5. QED
  BY <1>3, <1>4

\* A file is written.
LEMMA WrittenIs ==
    ASSUME NEW p \in Pairs, NEW n \in SeqNo, NEW e \in TxEvent \cup {None},
           p.tx.stopped => p.tx.started
    PROVE  LET q == Written(p, n, e)
           IN  /\ q \in Pairs /\ q.session = p.session /\ q.tx = p.tx
               /\ q.files[n] # None /\ q.files[n].session = p.session /\ q.files[n].event = e
               /\ \A k \in SeqNo : k # n =>
                     /\ q.files[k] = None <=> p.files[k] = None
                     /\ p.files[k] # None => /\ q.files[k].session = p.files[k].session
                                             /\ q.files[k].event = p.files[k].event
               /\ (\E m \in Found(p.files) : m > n) =>
                     \A k \in SeqNo : k # n => q.files[k] = p.files[k]
               /\ ~(\E m \in Found(p.files) : m > n) => q.files[n].tx = Saved(p.tx)
<1>1. /\ p.tx \in Tx /\ p.files \in TxFiles /\ p.session \in Session
      /\ p = [session |-> p.session, tx |-> p.tx, files |-> p.files]
  BY PairIs
<1>2. Saved(p.tx) \in Tx
  BY <1>1, SavedIs
<1>3. None \notin TxFile
  BY NoneAssumption
<1> DEFINE q == Written(p, n, e)
<1>4. CASE \E m \in Found(p.files) : m > n
  <2> DEFINE f == [session |-> p.session, tx |-> None, event |-> e]
             fs == [p.files EXCEPT ![n] = f]
  <2>1. f \in TxFile /\ f.session = p.session /\ f.event = e
    BY <1>1 DEF TxFile
  <2>2. q = [p EXCEPT !.files = fs]
    BY <1>4 DEF Written
  <2> HIDE DEF f
  <2>3. fs \in TxFiles /\ fs[n] = f /\ \A k \in SeqNo : k # n => fs[k] = p.files[k]
    BY <1>1, <2>1 DEF TxFiles
  <2> HIDE DEF fs, q
  <2>4. q = [session |-> p.session, tx |-> p.tx, files |-> fs]
    BY <2>2 DEF Pairs
  <2>5. q \in Pairs /\ q.session = p.session /\ q.tx = p.tx /\ q.files = fs
    BY <1>1, <2>3, <2>4 DEF Pairs
  <2>6. QED
    BY <1>3, <1>4, <2>1, <2>3, <2>5 DEF q
<1>5. CASE ~(\E m \in Found(p.files) : m > n)
  <2> DEFINE f == [session |-> p.session, tx |-> Saved(p.tx), event |-> e]
             g(k) == [p.files[k] EXCEPT !.tx = None]
             fs == [k \in SeqNo |-> IF k = n THEN f ELSE IF p.files[k] = None THEN None ELSE g(k)]
  <2>1. f \in TxFile /\ f.session = p.session /\ f.event = e /\ f.tx = Saved(p.tx)
    BY <1>1, <1>2 DEF TxFile
  <2>2. ASSUME NEW k \in SeqNo, p.files[k] # None
        PROVE  g(k) \in TxFile /\ g(k).session = p.files[k].session /\ g(k).event = p.files[k].event
    <3>1. p.files[k] \in TxFile
      BY <1>1, <2>2 DEF TxFiles
    <3>2. QED
      BY <3>1 DEF TxFile
  <2>3. q = [p EXCEPT !.files = fs]
    BY <1>5 DEF Written
  <2> HIDE DEF f, g
  <2>4. /\ fs \in TxFiles /\ fs[n] = f
        /\ \A k \in SeqNo : k # n => fs[k] = IF p.files[k] = None THEN None ELSE g(k)
    BY <2>1, <2>2 DEF TxFiles
  <2> HIDE DEF fs, q
  <2>5. q = [session |-> p.session, tx |-> p.tx, files |-> fs]
    BY <2>3 DEF Pairs
  <2>6. q \in Pairs /\ q.session = p.session /\ q.tx = p.tx /\ q.files = fs
    BY <1>1, <2>4, <2>5 DEF Pairs
  <2>7. ASSUME NEW k \in SeqNo, k # n
        PROVE  /\ q.files[k] = None <=> p.files[k] = None
               /\ p.files[k] # None => /\ q.files[k].session = p.files[k].session
                                       /\ q.files[k].event = p.files[k].event
    BY <1>3, <2>2, <2>4, <2>6, <2>7
  <2>8. QED
    BY <1>3, <1>5, <2>1, <2>4, <2>6, <2>7 DEF q
<1>6. QED
  BY <1>4, <1>5

\* No file follows the one with the state of the transaction.
LEMMA LastOfLaid ==
    ASSUME NEW p, Laid(p), NEW m \in Found(p.files)
    PROVE  m \in SeqNo /\ m <= p.tx.seqNoEnd /\ (m = p.tx.seqNoEnd \/ m \in p.tx.seqNos)
<1>1. m \in SeqNo /\ p.files[m] # None
  BY DEF Found
<1>2. m \in p.tx.seqNos \/ m = p.tx.seqNoEnd
  BY <1>1 DEF Laid
<1>3. p.tx.seqNoEnd \in SeqNo
  BY PairIs DEF Laid
<1>4. m \in p.tx.seqNos => m < p.tx.seqNoEnd
  BY DEF Laid
<1>5. QED
  BY <1>1, <1>2, <1>3, <1>4, Sizes DEF SeqNo

\* What is thinned of the events stays so when files are written.
LEMMA ThinnedTwice ==
    ASSUME NEW p, NEW q, NEW r, Thinned(p, q), r.session = q.session, r.tx = q.tx
    PROVE  Thinned(p, r)
  BY DEF Thinned

\* The state of the transaction is saved.
LEMMA CommitTxIs ==
    ASSUME NEW p, Laid(p)
    PROVE  LET q == CommitTx(p)
           IN  Sound(q) /\ Thinned(p, q) /\ q.files[q.tx.seqNoEnd] # None
<1> DEFINE n == p.tx.seqNoEnd
           r == Shrunk(p, n)
           q == Written(r, n, None)
<1>1. n \in SeqNo
  BY PairIs DEF Laid
<1>2. Laid(r) /\ Thinned(p, r)
  BY <1>1, ShrunkIs
<1>3. q = CommitTx(p)
  BY DEF CommitTx
<1> HIDE DEF r
<1>4. r \in Pairs /\ r.tx.seqNoEnd = n /\ (r.tx.stopped => r.tx.started) /\ r.tx \in Tx
  BY <1>2, PairIs DEF Laid, Thinned, SameTx
<1>5. ~(\E m \in Found(r.files) : m > n)
  <2>1. SUFFICES ASSUME NEW m \in Found(r.files), m > n PROVE FALSE
    OBVIOUS
  <2>2. m \in SeqNo /\ m <= n
    BY <1>2, <1>4, LastOfLaid
  <2>3. QED
    BY <1>1, <2>1, <2>2, Sizes DEF SeqNo
<1>6. /\ q \in Pairs /\ q.session = r.session /\ q.tx = r.tx
      /\ q.files[n] # None /\ q.files[n].session = r.session /\ q.files[n].event = None
      /\ \A k \in SeqNo : k # n =>
            /\ q.files[k] = None <=> r.files[k] = None
            /\ r.files[k] # None => /\ q.files[k].session = r.files[k].session
                                    /\ q.files[k].event = r.files[k].event
      /\ q.files[n].tx = Saved(r.tx)
  BY <1>1, <1>4, <1>5, WrittenIs
<1> HIDE DEF q
<1>7. n \notin r.tx.seqNos
  <2>1. n \in r.tx.seqNos => n < n
    BY <1>2, <1>4 DEF Laid
  <2>2. QED
    BY <1>1, <2>1, Sizes DEF SeqNo
<1>8. Laid(q)
  <2>1. /\ \A k \in SeqNo : r.files[k] # None => r.files[k].session = r.session
        /\ \A k \in SeqNo : k \in r.tx.seqNos <=> r.files[k] # None /\ r.files[k].event # None
        /\ \A k \in SeqNo : r.files[k] # None => k \in r.tx.seqNos \/ k = n
    BY <1>2, <1>4 DEF Laid
  <2>2. ASSUME NEW k \in SeqNo
        PROVE  /\ q.files[k] # None => q.files[k].session = q.session
               /\ k \in r.tx.seqNos <=> q.files[k] # None /\ q.files[k].event # None
               /\ q.files[k] # None => k \in r.tx.seqNos \/ k = n
    <3>1. CASE k = n
      BY <1>6, <1>7, <3>1
    <3>2. CASE k # n
      BY <1>6, <2>1, <3>2
    <3>3. QED
      BY <3>1, <3>2
  <2>3. QED
    BY <1>2, <1>4, <1>6, <2>2 DEF Laid
<1>9. LastFile(q) = n
  BY <1>4, <1>6 DEF LastFile
<1>10. Restores(q.tx, q.files[LastFile(q)].tx)
  BY <1>4, <1>6, <1>9, SavedIs
<1>11. Sound(q)
  BY <1>4, <1>6, <1>8, <1>10 DEF Sound
<1>12. Thinned(p, q)
  BY <1>2, <1>6, ThinnedTwice
<1>13. QED
  BY <1>3, <1>4, <1>6, <1>11, <1>12

\* A new event is committed.
LEMMA CommitEventIs ==
    ASSUME NEW p, Laid(p), p.tx.started, p.tx.seqNoEnd + 1 \in SeqNo, NEW e \in TxEvent
    PROVE  LET n == p.tx.seqNoEnd
               q == CommitEvent(p, n, e)
           IN  /\ Sound(q) /\ q.session = p.session
               /\ q.tx.nr = p.tx.nr /\ q.tx.silent = p.tx.silent /\ q.tx.active = p.tx.active
               /\ q.tx.started = p.tx.started /\ q.tx.stopped = p.tx.stopped
               /\ q.tx.seqNoEnd = n + 1
               /\ n \in q.tx.seqNos /\ q.tx.seqNos \subseteq p.tx.seqNos \cup {n}
               /\ \A m \in p.tx.seqNos \ q.tx.seqNos : Between(q.tx.seqNos, m)
<1> DEFINE n == p.tx.seqNoEnd
           r == Shrunk(p, n)
           w == Written(r, n, e)
           q == CommitEvent(p, n, e)
<1>1. n \in SeqNo /\ p \in Pairs
  BY PairIs DEF Laid
<1>2. n \notin p.tx.seqNos
  <2>1. n \in p.tx.seqNos => n < n
    BY DEF Laid
  <2>2. QED
    BY <1>1, <2>1, Sizes DEF SeqNo
<1>3. Laid(r) /\ Thinned(p, r) /\ Cardinality(r.tx.seqNos) + 1 <= EventRecordSize
  BY <1>1, <1>2, ShrunkIs
<1>4. q = IF n = r.tx.seqNoEnd
          THEN [w EXCEPT !.tx.seqNos = @ \cup {n}, !.tx.seqNoEnd = @ + 1] ELSE w
  BY DEF CommitEvent
<1> HIDE DEF r
<1>5. /\ r \in Pairs /\ r.tx.seqNoEnd = n /\ (r.tx.stopped => r.tx.started) /\ r.tx \in Tx
      /\ r.tx.seqNos \subseteq SeqNo
  BY <1>3, PairIs DEF Laid, Thinned, SameTx
<1>6. ~(\E m \in Found(r.files) : m > n)
  <2>1. SUFFICES ASSUME NEW m \in Found(r.files), m > n PROVE FALSE
    OBVIOUS
  <2>2. m \in SeqNo /\ m <= n
    BY <1>3, <1>5, LastOfLaid
  <2>3. QED
    BY <1>1, <2>1, <2>2, Sizes DEF SeqNo
<1>7. /\ w \in Pairs /\ w.session = r.session /\ w.tx = r.tx
      /\ w.files[n] # None /\ w.files[n].session = r.session /\ w.files[n].event = e
      /\ \A k \in SeqNo : k # n =>
            /\ w.files[k] = None <=> r.files[k] = None
            /\ r.files[k] # None => /\ w.files[k].session = r.files[k].session
                                    /\ w.files[k].event = r.files[k].event
      /\ w.files[n].tx = Saved(r.tx)
  BY <1>1, <1>5, <1>6, WrittenIs
<1> HIDE DEF w, q
<1> DEFINE u == [w.tx EXCEPT !.seqNos = @ \cup {n}, !.seqNoEnd = n + 1]
<1>8. q = [w EXCEPT !.tx.seqNos = @ \cup {n}, !.tx.seqNoEnd = @ + 1]
  BY <1>4, <1>5
<1>9. /\ u \in Tx /\ u.seqNos = r.tx.seqNos \cup {n} /\ u.seqNoEnd = n + 1
      /\ u.nr = r.tx.nr /\ u.silent = r.tx.silent /\ u.active = r.tx.active
      /\ u.started = r.tx.started /\ u.stopped = r.tx.stopped
  <2> DEFINE v == [r.tx EXCEPT !.seqNos = r.tx.seqNos \cup {n}]
  <2>1. /\ v \in Tx /\ v.seqNos = r.tx.seqNos \cup {n}
        /\ v.nr = r.tx.nr /\ v.silent = r.tx.silent /\ v.active = r.tx.active
        /\ v.started = r.tx.started /\ v.stopped = r.tx.stopped
    BY <1>1, <1>5 DEF Tx
  <2>2. u = [v EXCEPT !.seqNoEnd = n + 1]
    BY <1>7
  <2> HIDE DEF v, u
  <2>3. QED
    BY <2>1, <2>2 DEF Tx
<1>10. q = [session |-> w.session, tx |-> u, files |-> w.files]
  <2>1. w.tx.seqNoEnd = n
    BY <1>5, <1>7
  <2>2. q = [w EXCEPT !.tx = u]
    BY <1>8, <2>1
  <2> HIDE DEF u
  <2>3. QED
    BY <1>7, <2>2 DEF Pairs
<1> HIDE DEF u
<1>11. q \in Pairs /\ q.session = r.session /\ q.tx = u /\ q.files = w.files
  <2>1. w.session \in Session /\ w.files \in TxFiles
    BY <1>7, PairIs
  <2>2. QED
    BY <1>7, <1>9, <1>10, <2>1 DEF Pairs
<1>12. q.files[n + 1] = None
  <2>1. n + 1 # n /\ n + 1 \notin r.tx.seqNos
    <3>1. \A k \in r.tx.seqNos : k < n
      BY <1>3, <1>5 DEF Laid
    <3>2. QED
      BY <1>1, <3>1, Sizes DEF SeqNo
  <2>2. r.files[n + 1] = None
    BY <1>3, <1>5, <2>1 DEF Laid
  <2>3. QED
    BY <1>7, <1>11, <2>1, <2>2
<1>13. Laid(q)
  <2>1. /\ \A k \in SeqNo : r.files[k] # None => r.files[k].session = r.session
        /\ \A k \in SeqNo : k \in r.tx.seqNos <=> r.files[k] # None /\ r.files[k].event # None
        /\ \A k \in SeqNo : r.files[k] # None => k \in r.tx.seqNos \/ k = n
        /\ \A k \in r.tx.seqNos : k < n
    BY <1>3, <1>5 DEF Laid
  <2>2. ASSUME NEW k \in SeqNo
        PROVE  /\ q.files[k] # None => q.files[k].session = q.session
               /\ k \in q.tx.seqNos <=> q.files[k] # None /\ q.files[k].event # None
               /\ q.files[k] # None => k \in q.tx.seqNos
    <3>1. CASE k = n
      BY <1>7, <1>9, <1>11, <3>1, NoneAssumption
    <3>2. CASE k # n
      BY <1>7, <1>9, <1>11, <2>1, <3>2
    <3>3. QED
      BY <3>1, <3>2
  <2>3. \A k \in q.tx.seqNos : k < q.tx.seqNoEnd
    <3>1. \A k \in r.tx.seqNos : k \in Int /\ k < n /\ n \in Int
      BY <1>1, <1>5, <2>1, Sizes DEF SeqNo
    <3>2. n < n + 1 /\ n \in Int
      BY <1>1, Sizes DEF SeqNo
    <3>3. \A k \in r.tx.seqNos : k < n + 1
      BY <3>1
    <3>4. QED
      BY <1>9, <1>11, <3>2, <3>3
  <2>4. Cardinality(q.tx.seqNos) <= EventRecordSize
    <3>1. n \notin r.tx.seqNos
      BY <1>2, <1>3 DEF Thinned
    <3>2. IsFiniteSet(r.tx.seqNos)
      BY <1>5, SeqNosFinite
    <3>3. Cardinality(q.tx.seqNos) = Cardinality(r.tx.seqNos) + 1
      BY <1>9, <1>11, <3>1, <3>2, FS_AddElement
    <3>4. QED
      BY <1>3, <3>3
  <2>5. q.tx.started
    BY <1>3, <1>9, <1>11 DEF Thinned, SameTx
  <2>6. QED
    BY <1>11, <2>2, <2>3, <2>4, <2>5 DEF Laid
<1>14. LastFile(q) = n /\ q.tx.seqNoEnd - 1 = n
  BY <1>1, <1>9, <1>11, <1>12, Sizes DEF LastFile, SeqNo
<1>15. Restores(q.tx, q.files[LastFile(q)].tx)
  <2>1. Restores(r.tx, Saved(r.tx))
    BY <1>5, SavedIs
  <2>2. QED
    BY <1>7, <1>9, <1>11, <1>14, <2>1 DEF Restores
<1>16. Sound(q)
  BY <1>9, <1>11, <1>13, <1>14, <1>15 DEF Sound
<1>17. ASSUME NEW m \in p.tx.seqNos \ q.tx.seqNos PROVE Between(q.tx.seqNos, m)
  <2>1. m \in p.tx.seqNos \ r.tx.seqNos
    BY <1>9, <1>11
  <2>2. Between(r.tx.seqNos, m)
    BY <1>3, <2>1 DEF Thinned
  <2>3. QED
    BY <1>9, <1>11, <2>2 DEF Between
<1>18. QED
  BY <1>3, <1>9, <1>11, <1>16, <1>17 DEF q, Thinned, SameTx

\* The last file is there.
LEMMA LastFileIs ==
    ASSUME NEW p, Sound(p)
    PROVE  /\ LastFile(p) \in SeqNo /\ p.files[LastFile(p)] # None
           /\ p.files[p.tx.seqNoEnd] = None => LastFile(p) \in p.tx.seqNos
           /\ p.files[p.tx.seqNoEnd] # None => LastFile(p) = p.tx.seqNoEnd
           /\ \A m \in Found(p.files) : m <= LastFile(p)
<1> DEFINE n == p.tx.seqNoEnd
<1>1. Laid(p) /\ n \in SeqNo /\ p.tx.seqNos \subseteq SeqNo
  BY PairIs DEF Sound, Laid
<1>2. CASE p.files[n] # None
  <2>1. LastFile(p) = n
    BY <1>2 DEF LastFile
  <2>2. QED
    BY <1>1, <1>2, <2>1, LastOfLaid
<1>3. CASE p.files[n] = None
  <2>1. LastFile(p) = n - 1 /\ n - 1 \in p.tx.seqNos
    BY <1>3 DEF LastFile, Sound
  <2>2. p.files[n - 1] # None /\ n - 1 \in SeqNo
    BY <1>1, <2>1 DEF Laid
  <2>3. ASSUME NEW m \in Found(p.files) PROVE m <= n - 1
    <3>1. m \in SeqNo /\ m <= n /\ m # n
      BY <1>1, <1>3, LastOfLaid DEF Found
    <3>2. QED
      BY <1>1, <3>1, Sizes DEF SeqNo
  <2>4. QED
    BY <1>3, <2>1, <2>2, <2>3
<1>4. QED
  BY <1>2, <1>3

\* An attempt is written into the file of an event.
LEMMA CommitAgainIs ==
    ASSUME NEW p, Sound(p), NEW n \in p.tx.seqNos, NEW e \in TxEvent
    PROVE  LET q == CommitEvent(p, n, e)
           IN  Sound(q) /\ q.session = p.session /\ q.tx = p.tx
<1> DEFINE q == Written(p, n, e)
<1>1. /\ Laid(p) /\ p \in Pairs /\ p.tx \in Tx /\ p.tx.seqNoEnd \in SeqNo /\ n \in SeqNo
      /\ (p.tx.stopped => p.tx.started)
  BY PairIs DEF Sound, Laid
<1>2. n < p.tx.seqNoEnd
  BY <1>1 DEF Laid
<1>3. CommitEvent(p, n, e) = q
  <2>1. Shrunk(p, n) = p
    BY DEF Shrunk
  <2>2. n # p.tx.seqNoEnd
    BY <1>1, <1>2, Sizes DEF SeqNo
  <2>3. QED
    BY <2>1, <2>2 DEF CommitEvent
<1>4. e # None /\ e \in TxEvent \cup {None}
  BY NoneAssumption
<1>5. /\ q \in Pairs /\ q.session = p.session /\ q.tx = p.tx
      /\ q.files[n] # None /\ q.files[n].session = p.session /\ q.files[n].event = e
      /\ \A k \in SeqNo : k # n =>
            /\ q.files[k] = None <=> p.files[k] = None
            /\ p.files[k] # None => /\ q.files[k].session = p.files[k].session
                                    /\ q.files[k].event = p.files[k].event
      /\ (\E m \in Found(p.files) : m > n) =>
            \A k \in SeqNo : k # n => q.files[k] = p.files[k]
      /\ ~(\E m \in Found(p.files) : m > n) => q.files[n].tx = Saved(p.tx)
  BY <1>1, <1>4, WrittenIs
<1> HIDE DEF q
<1>6. p.files[n] # None
  BY <1>1 DEF Laid
<1>7. Laid(q)
  <2>1. /\ \A k \in SeqNo : p.files[k] # None => p.files[k].session = p.session
        /\ \A k \in SeqNo : k \in p.tx.seqNos <=> p.files[k] # None /\ p.files[k].event # None
        /\ \A k \in SeqNo : p.files[k] # None => k \in p.tx.seqNos \/ k = p.tx.seqNoEnd
    BY <1>1 DEF Laid
  <2>2. ASSUME NEW k \in SeqNo
        PROVE  /\ q.files[k] # None => q.files[k].session = q.session
               /\ k \in p.tx.seqNos <=> q.files[k] # None /\ q.files[k].event # None
               /\ q.files[k] # None => k \in p.tx.seqNos \/ k = p.tx.seqNoEnd
    <3>1. CASE k = n
      BY <1>4, <1>5, <3>1
    <3>2. CASE k # n
      BY <1>5, <2>1, <3>2
    <3>3. QED
      BY <3>1, <3>2
  <2>3. QED
    BY <1>1, <1>5, <2>2 DEF Laid
<1>8. q.files[p.tx.seqNoEnd] = None <=> p.files[p.tx.seqNoEnd] = None
  BY <1>1, <1>2, <1>5, Sizes DEF SeqNo
<1>9. LastFile(q) = LastFile(p)
  BY <1>5, <1>8 DEF LastFile
<1>10. Restores(q.tx, q.files[LastFile(q)].tx)
  <2>1. /\ LastFile(p) \in SeqNo /\ LastFile(p) \in Found(p.files)
        /\ \A m \in Found(p.files) : m <= LastFile(p)
    BY LastFileIs DEF Found
  <2>2. CASE LastFile(p) = n
    <3>1. ~(\E m \in Found(p.files) : m > n)
      <4>1. SUFFICES ASSUME NEW m \in Found(p.files), m > n PROVE FALSE
        OBVIOUS
      <4>2. m \in SeqNo /\ m <= n
        BY <2>1, <2>2 DEF Found
      <4>3. QED
        BY <1>1, <4>1, <4>2, Sizes DEF SeqNo
    <3>2. QED
      BY <1>1, <1>5, <1>9, <2>2, <3>1, SavedIs
  <2>3. CASE LastFile(p) # n
    <3>1. n \in Found(p.files)
      BY <1>1, <1>6 DEF Found
    <3>2. LastFile(p) > n
      BY <1>1, <2>1, <2>3, <3>1, Sizes DEF SeqNo
    <3>3. q.files[LastFile(p)] = p.files[LastFile(p)]
      BY <1>5, <2>1, <2>3, <3>2
    <3>4. QED
      BY <1>5, <1>9, <3>3 DEF Sound
  <2>4. QED
    BY <2>2, <2>3
<1>11. Sound(q)
  BY <1>5, <1>7, <1>8, <1>10 DEF Sound
<1>12. QED
  BY <1>3, <1>5, <1>11

\* Where nothing is between, nothing is given up.
LEMMA ThinnedBoth ==
    ASSUME NEW p, NEW q, p.tx.seqNos \subseteq SeqNo, NEW n, p.tx.seqNos = {n}, Thinned(p, q)
    PROVE  q.tx.seqNos = p.tx.seqNos
<1>1. SUFFICES ASSUME n \notin q.tx.seqNos PROVE FALSE
  BY DEF Thinned
<1>2. Between(q.tx.seqNos, n)
  BY <1>1 DEF Thinned
<1>3. PICK a \in q.tx.seqNos : a < n
  BY <1>2 DEF Between
<1>4. QED
  BY <1>1, <1>3 DEF Thinned

\* The state of the transaction is kept before its oldest event goes.
LEMMA KeptStateIs ==
    ASSUME NEW p, Sound(p), NEW n \in p.tx.seqNos, \A m \in p.tx.seqNos : n <= m
    PROVE  LET q == KeptState(p, n)
           IN  /\ Sound(q) /\ q.session = p.session /\ SameTx(p.tx, q.tx)
               /\ q.tx.seqNos = p.tx.seqNos
               /\ q.files[q.tx.seqNoEnd] # None \/ q.tx.seqNoEnd - 1 # n
<1> DEFINE q == KeptState(p, n)
<1>1. /\ Laid(p) /\ p \in Pairs /\ p.tx.seqNoEnd \in SeqNo /\ n \in SeqNo
      /\ p.tx.seqNos \subseteq SeqNo
  BY PairIs DEF Sound, Laid
<1>2. CASE n = MaxOf(p.tx.seqNos) /\ p.files[p.tx.seqNoEnd] = None
  <2>1. q = CommitTx(p)
    BY <1>2 DEF KeptState
  <2> HIDE DEF q
  <2>2. Sound(q) /\ Thinned(p, q) /\ q.files[q.tx.seqNoEnd] # None
    BY <1>1, <2>1, CommitTxIs
  <2>3. p.tx.seqNos = {n}
    <3>1. \A m \in p.tx.seqNos : m <= n
      BY <1>1, <1>2, MaxIs
    <3>2. ASSUME NEW m \in p.tx.seqNos PROVE m = n
      <4>1. m \in SeqNo /\ m <= n /\ n <= m
        BY <1>1, <3>1
      <4>2. QED
        BY <1>1, <4>1, Sizes DEF SeqNo
    <3>3. QED
      BY <3>2
  <2>4. q.tx.seqNos = p.tx.seqNos
    BY <1>1, <2>2, <2>3, ThinnedBoth
  <2>5. QED
    BY <2>2, <2>4 DEF Thinned, q
<1>3. CASE ~(n = MaxOf(p.tx.seqNos) /\ p.files[p.tx.seqNoEnd] = None)
  <2>1. q = p
    BY <1>3 DEF KeptState
  <2>2. p.files[p.tx.seqNoEnd] # None \/ p.tx.seqNoEnd - 1 # n
    <3>1. SUFFICES ASSUME p.tx.seqNoEnd - 1 = n PROVE n = MaxOf(p.tx.seqNos)
      BY <1>3
    <3>2. ASSUME NEW m \in p.tx.seqNos PROVE m <= n
      <4>1. m < p.tx.seqNoEnd /\ m \in SeqNo
        BY <1>1 DEF Laid
      <4>2. QED
        BY <1>1, <3>1, <4>1, Sizes DEF SeqNo
    <3>3. QED
      BY <1>1, <3>2, MaxUnique
  <2>3. QED
    BY <2>1, <2>2 DEF SameTx
<1>4. QED
  BY <1>2, <1>3

\* The oldest event goes.
LEMMA RemoveEventIs ==
    ASSUME NEW p, Sound(p), NEW n \in p.tx.seqNos, \A m \in p.tx.seqNos : n <= m
    PROVE  LET q == RemoveEvent(p, n)
           IN  /\ Sound(q) /\ q.session = p.session /\ SameTx(p.tx, q.tx)
               /\ q.tx.seqNos = p.tx.seqNos \ {n}
<1> DEFINE r == KeptState(p, n)
           q == Without(r, {n})
<1>1. q = RemoveEvent(p, n)
  BY DEF RemoveEvent
<1>2. /\ Sound(r) /\ r.session = p.session /\ SameTx(p.tx, r.tx)
      /\ r.tx.seqNos = p.tx.seqNos
      /\ r.files[r.tx.seqNoEnd] # None \/ r.tx.seqNoEnd - 1 # n
  BY KeptStateIs
<1> HIDE DEF r
<1>3. {n} \subseteq r.tx.seqNos
  BY <1>2
<1>4. Sound(q)
  BY <1>2, <1>3, WithoutSound
<1>5. q.session = r.session /\ SameTx(r.tx, q.tx) /\ q.tx.seqNos = r.tx.seqNos \ {n}
  BY <1>2, WithoutIs DEF Sound, Laid
<1>6. SameTx(p.tx, q.tx)
  BY <1>2, <1>5 DEF SameTx
<1>7. QED
  BY <1>1, <1>2, <1>4, <1>5, <1>6

\* What a boot restores of p.
Alike(p, q) ==
    /\ q.session = p.session /\ q.files = p.files
    /\ q.tx.nr = p.tx.nr /\ q.tx.silent = p.tx.silent /\ q.tx.started = p.tx.started
    /\ q.tx.stopped = p.tx.stopped
    /\ q.tx.active = p.tx.active \/ p.tx.started
    /\ q.tx.seqNos = p.tx.seqNos /\ q.tx.seqNoEnd = p.tx.seqNoEnd

\* loadTransaction() restores a transaction from its files.
LEMMA LoadIs ==
    ASSUME NEW p, Sound(p)
    PROVE  LET q == Load(p.tx.nr, p.files)
           IN  Sound(q) /\ Alike(p, q)
<1> DEFINE fs == p.files
           last == LastFile(p)
           n == p.tx.seqNoEnd
           t == fs[last].tx
           q == Load(p.tx.nr, fs)
<1>1. /\ Laid(p) /\ p \in Pairs /\ p.tx \in Tx /\ n \in SeqNo /\ fs \in TxFiles
      /\ p.tx.seqNos \subseteq SeqNo /\ p.session \in Session /\ p.tx.nr \in TxNr
  BY PairIs DEF Sound, Laid
<1>2. /\ last \in SeqNo /\ fs[last] # None
      /\ fs[n] = None => last \in p.tx.seqNos
      /\ fs[n] # None => last = n
      /\ \A m \in Found(fs) : m <= last
  BY LastFileIs
<1>3. MaxOf(Found(fs)) = last
  <2>1. last \in Found(fs) /\ Found(fs) \subseteq SeqNo
    BY <1>2 DEF Found
  <2>2. QED
    BY <1>2, <2>1, MaxUnique
<1>4. fs[last].session = p.session
  BY <1>1, <1>2 DEF Laid
<1>5. n \notin p.tx.seqNos
  <2>1. n \in p.tx.seqNos => n < n
    BY <1>1 DEF Laid
  <2>2. QED
    BY <1>1, <2>1, Sizes DEF SeqNo
<1>6. fs[last].event = None <=> fs[n] # None
  <2>1. \A k \in SeqNo : k \in p.tx.seqNos <=> fs[k] # None /\ fs[k].event # None
    BY <1>1 DEF Laid
  <2>2. QED
    BY <1>1, <1>2, <1>5, <2>1
<1>7. p.tx.seqNos = IF fs[last].event = None THEN Found(fs) \ {last} ELSE Found(fs)
  <2>1. \A k \in SeqNo : k \in p.tx.seqNos => fs[k] # None
    BY <1>1 DEF Laid
  <2>2. \A k \in SeqNo : fs[k] # None => k \in p.tx.seqNos \/ k = n
    BY <1>1 DEF Laid
  <2>3. \A k \in SeqNo : k \in Found(fs) <=> fs[k] # None
    BY DEF Found
  <2>4. CASE fs[n] # None
    <3>1. p.tx.seqNos = Found(fs) \ {n}
      <4>1. Found(fs) \subseteq SeqNo
        BY DEF Found
      <4>2. QED
        BY <1>1, <1>5, <2>1, <2>2, <2>3, <4>1
    <3>2. QED
      BY <1>2, <1>6, <2>4, <3>1
  <2>5. CASE fs[n] = None
    <3>1. Found(fs) \subseteq SeqNo
      BY DEF Found
    <3>2. p.tx.seqNos = Found(fs)
      BY <1>1, <2>1, <2>2, <2>3, <2>5, <3>1
    <3>3. QED
      BY <1>6, <2>5, <3>2
  <2>6. QED
    BY <2>4, <2>5
<1>8. n = IF fs[last].event = None THEN last ELSE last + 1
  <2>1. CASE fs[n] # None
    BY <1>2, <1>6, <2>1
  <2>2. CASE fs[n] = None
    <3>1. last = n - 1
      BY <2>2 DEF LastFile
    <3>2. QED
      BY <1>1, <1>6, <2>2, <3>1, Sizes DEF SeqNo
  <2>3. QED
    BY <2>1, <2>2
<1>9. Restores(p.tx, t)
  BY DEF Sound
<1>10. t \in Tx
  <2>1. fs[last] \in TxFile
    BY <1>1, <1>2 DEF TxFiles
  <2>2. t # None
    BY <1>9 DEF Restores
  <2>3. QED
    BY <2>1, <2>2 DEF TxFile
<1> DEFINE u == [t EXCEPT !.nr = p.tx.nr, !.seqNos = p.tx.seqNos, !.seqNoEnd = n]
<1>11. q = Pair(p.session, u, fs)
  <2>1. q = Pair(fs[last].session,
                 [t EXCEPT !.nr = p.tx.nr,
                           !.seqNos = IF fs[last].event = None THEN Found(fs) \ {last}
                                      ELSE Found(fs),
                           !.seqNoEnd = IF fs[last].event = None THEN last ELSE last + 1], fs)
    BY <1>3 DEF Load
  <2>2. QED
    BY <1>4, <1>7, <1>8, <2>1
<1> HIDE DEF t, q
<1>12. /\ u \in Tx /\ u.nr = p.tx.nr /\ u.seqNos = p.tx.seqNos /\ u.seqNoEnd = n
       /\ u.silent = t.silent /\ u.started = t.started /\ u.stopped = t.stopped
       /\ u.active = t.active
  <2> DEFINE v == [t EXCEPT !.nr = p.tx.nr]
             w == [v EXCEPT !.seqNos = p.tx.seqNos]
  <2>1. /\ v \in Tx /\ v.nr = p.tx.nr
        /\ v.silent = t.silent /\ v.started = t.started /\ v.stopped = t.stopped
        /\ v.active = t.active
    BY <1>1, <1>10 DEF Tx
  <2> HIDE DEF v
  <2>2. /\ w \in Tx /\ w.nr = v.nr /\ w.seqNos = p.tx.seqNos
        /\ w.silent = v.silent /\ w.started = v.started /\ w.stopped = v.stopped
        /\ w.active = v.active
    BY <1>1, <2>1 DEF Tx
  <2>3. u = [w EXCEPT !.seqNoEnd = n]
    BY DEF v
  <2> HIDE DEF w, u
  <2>4. QED
    BY <1>1, <2>1, <2>2, <2>3 DEF Tx
<1> HIDE DEF u
<1>13. q = [session |-> p.session, tx |-> u, files |-> fs]
  BY <1>11 DEF Pair
<1>14. q \in Pairs /\ q.session = p.session /\ q.tx = u /\ q.files = fs
  BY <1>1, <1>12, <1>13 DEF Pairs
<1>15. Alike(p, q)
  BY <1>9, <1>12, <1>14 DEF Alike, Restores
<1>16. Laid(q)
  BY <1>1, <1>14, <1>15 DEF Laid, Alike
<1>17. LastFile(q) = last
  BY <1>15 DEF LastFile, Alike
<1>18. Restores(q.tx, q.files[LastFile(q)].tx)
  BY <1>9, <1>12, <1>14, <1>17 DEF Restores, t
<1>19. q.files[q.tx.seqNoEnd] = None => q.tx.seqNoEnd - 1 \in q.tx.seqNos
  BY <1>15 DEF Alike, Sound
<1>20. Sound(q)
  BY <1>16, <1>18, <1>19 DEF Sound
<1>21. QED
  BY <1>15, <1>20 DEF q

-----------------------------------------------------------------------------
(* The journal.                                                            *)

Filed(flash, k) == Load(k, flash[k])

\* The numbers from begin on, and the files of each.
Journal(begin, size, flash, next) ==
    /\ begin \in TxNr /\ size \in 1 .. RecordSize + 1 /\ flash \in [TxNr -> TxFiles]
    /\ \A k \in TxNr : Minus(k, begin) < size =>
          /\ Sound(Filed(flash, k)) /\ Filed(flash, k).tx.nr = k /\ Filed(flash, k).session < next
    /\ \A k \in TxNr : Minus(k, begin) >= size => Found(flash[k]) = {}
    /\ \A j, k \in TxNr : Minus(j, begin) < Minus(k, begin) /\ Minus(k, begin) < size =>
          Filed(flash, j).session < Filed(flash, k).session
    /\ \A k \in TxNr : Minus(k, begin) = RecordSize /\ Minus(k, begin) < size =>
          Filed(flash, k).tx.silent

\* What is owed to the server of a transaction.
Owes(t, n) ==
    /\ ~t.silent
    /\ IF n = ToEnd THEN t.started /\ ~t.stopped
       ELSE n \in t.seqNos /\ (n = 0 \/ (t.stopped /\ n = t.seqNoEnd - 1))

Owed(debts, begin, size, flash) ==
    \A m \in debts : \E k \in TxNr :
        /\ Minus(k, begin) < size
        /\ Filed(flash, k).session = m[1] /\ Owes(Filed(flash, k).tx, m[2])
        /\ m[2] = ToEnd => Minus(k, begin) = size - 1

\* What is still to come is not older than what the server has received.
NotBefore(last, p) ==
    \/ last[1] < p.session
    \/ /\ last[1] = p.session
       /\ last[2] < p.tx.seqNoEnd /\ \A n \in p.tx.seqNos : last[2] <= n

InOrder(last, begin, size, flash) ==
    \A k \in TxNr : Minus(k, begin) < size /\ ~Done(Filed(flash, k).tx) =>
        NotBefore(last, Filed(flash, k))

\* What the invariant says of p, it says of what a boot restores of p.
LEMMA AlikeSame ==
    ASSUME NEW p, NEW q, Alike(p, q)
    PROVE  /\ Done(q.tx) <=> Done(p.tx)
           /\ \A n : Owes(q.tx, n) <=> Owes(p.tx, n)
           /\ \A last : NotBefore(last, q) <=> NotBefore(last, p)
<1>1. Done(q.tx) <=> Done(p.tx)
  BY DEF Alike, Done, isAborted, isReported
<1>2. ASSUME NEW n PROVE Owes(q.tx, n) <=> Owes(p.tx, n)
  BY DEF Alike, Owes
<1>3. ASSUME NEW last PROVE NotBefore(last, q) <=> NotBefore(last, p)
  BY DEF Alike, NotBefore
<1>4. QED
  BY <1>1, <1>2, <1>3

\* k is a number of the journal.
InWindow(begin, size, k) == k \in TxNr /\ Minus(k, begin) < size

\* No two entries have the same session.
LEMMA SessionsDiffer ==
    ASSUME NEW begin, NEW size, NEW flash, NEW next, Journal(begin, size, flash, next),
           NEW j, InWindow(begin, size, j), NEW k, InWindow(begin, size, k),
           Filed(flash, j).session = Filed(flash, k).session
    PROVE  j = k
<1>1. begin \in TxNr /\ j \in TxNr /\ k \in TxNr
  BY DEF Journal, InWindow
<1>2. Filed(flash, j).session \in Int
  <2>1. Sound(Filed(flash, j))
    BY <1>1 DEF Journal, InWindow
  <2>2. Filed(flash, j).session \in Session
    BY <2>1, PairIs DEF Sound, Laid
  <2>3. QED
    BY <2>2 DEF Session
<1>3. ~(Minus(j, begin) < Minus(k, begin)) /\ ~(Minus(k, begin) < Minus(j, begin))
  <2>1. Minus(j, begin) < Minus(k, begin) => Filed(flash, j).session < Filed(flash, k).session
    BY <1>1 DEF Journal, InWindow
  <2>2. Minus(k, begin) < Minus(j, begin) => Filed(flash, k).session < Filed(flash, j).session
    BY <1>1 DEF Journal, InWindow
  <2>3. QED
    BY <1>2, <2>1, <2>2
<1>4. Minus(j, begin) \in Int /\ Minus(k, begin) \in Int
  BY <1>1, MinusType, Sizes
<1>5. Minus(j, begin) = Minus(k, begin)
  BY <1>3, <1>4
<1>6. QED
  BY <1>1, <1>5, MinusInjective

\* p is the entry of its number.
EntryOf(p, begin, size, flash) ==
    Sound(p) /\ InWindow(begin, size, p.tx.nr) /\ Alike(p, Filed(flash, p.tx.nr))

\* What has the files of an entry is that entry.
LEMMA EntryFrom ==
    ASSUME NEW p, Sound(p), NEW begin, NEW size, InWindow(begin, size, p.tx.nr),
           NEW flash, flash[p.tx.nr] = p.files
    PROVE  EntryOf(p, begin, size, flash)
  BY LoadIs DEF EntryOf, Filed

Put(flash, p) == [flash EXCEPT ![p.tx.nr] = p.files]

\* An entry is written: what has become of p is q.
Follows(p, q) ==
    /\ q.session = p.session /\ q.tx.nr = p.tx.nr
    /\ p.tx.silent => q.tx.silent
    /\ Done(p.tx) => Done(q.tx)

\* The journal stays one when an entry is replaced by what follows it.
LEMMA JournalWritten ==
    ASSUME NEW begin, NEW size, NEW flash, NEW next, Journal(begin, size, flash, next),
           NEW p, EntryOf(p, begin, size, flash), NEW q, Sound(q), Follows(p, q),
           NEW flash1, flash1 = Put(flash, q)
    PROVE  /\ Journal(begin, size, flash1, next)
           /\ EntryOf(q, begin, size, flash1)
           /\ \A k \in TxNr : k # q.tx.nr => Filed(flash1, k) = Filed(flash, k)
<1> DEFINE n == q.tx.nr
<1>1. n \in TxNr /\ InWindow(begin, size, n) /\ q.files \in TxFiles /\ flash \in [TxNr -> TxFiles]
  BY PairIs DEF EntryOf, Follows, InWindow, Sound, Laid, Journal
<1>2. flash1 \in [TxNr -> TxFiles] /\ flash1[n] = q.files
      /\ \A k \in TxNr : k # n => flash1[k] = flash[k]
  BY <1>1 DEF Put
<1>3. EntryOf(q, begin, size, flash1)
  BY <1>1, <1>2, EntryFrom
<1>4. \A k \in TxNr : k # n => Filed(flash1, k) = Filed(flash, k)
  BY <1>2 DEF Filed
<1>5. /\ Filed(flash1, n).session = Filed(flash, n).session
      /\ Sound(Filed(flash1, n)) /\ Filed(flash1, n).tx.nr = n
      /\ Filed(flash, n).tx.silent => Filed(flash1, n).tx.silent
  <2>1. Alike(p, Filed(flash, n)) /\ Alike(q, Filed(flash1, n))
    BY <1>3 DEF EntryOf, Follows
  <2>2. Sound(Filed(flash1, n))
    BY <1>2, LoadIs DEF Filed
  <2>3. QED
    BY <2>1, <2>2 DEF Alike, Follows
<1>6. \A k \in TxNr : Filed(flash1, k).session = Filed(flash, k).session
  BY <1>4, <1>5
<1>7. \A k \in TxNr : Minus(k, begin) < size =>
         /\ Sound(Filed(flash1, k)) /\ Filed(flash1, k).tx.nr = k
         /\ Filed(flash1, k).session < next
  <2>1. TAKE k \in TxNr
  <2>2. HAVE Minus(k, begin) < size
  <2>3. Sound(Filed(flash, k)) /\ Filed(flash, k).tx.nr = k /\ Filed(flash, k).session < next
    BY <2>2 DEF Journal
  <2>4. QED
    BY <1>4, <1>5, <2>3
<1>8. \A k \in TxNr : Minus(k, begin) >= size => Found(flash1[k]) = {}
  <2>1. TAKE k \in TxNr
  <2>2. HAVE Minus(k, begin) >= size
  <2>3. k # n
    <3>1. Minus(n, begin) \in Int /\ size \in Int /\ Minus(n, begin) < size
      BY <1>1, MinusType, Sizes DEF InWindow, Journal
    <3>2. QED
      BY <2>2, <3>1
  <2>4. Found(flash[k]) = {}
    BY <2>2 DEF Journal
  <2>5. QED
    BY <1>2, <2>3, <2>4
<1>9. \A j, k \in TxNr : Minus(j, begin) < Minus(k, begin) /\ Minus(k, begin) < size =>
         Filed(flash1, j).session < Filed(flash1, k).session
  <2>1. TAKE j, k \in TxNr
  <2>2. HAVE Minus(j, begin) < Minus(k, begin) /\ Minus(k, begin) < size
  <2>3. Filed(flash, j).session < Filed(flash, k).session
    BY <2>2 DEF Journal
  <2>4. QED
    BY <1>6, <2>3
<1>10. \A k \in TxNr : Minus(k, begin) = RecordSize /\ Minus(k, begin) < size =>
          Filed(flash1, k).tx.silent
  <2>1. TAKE k \in TxNr
  <2>2. HAVE Minus(k, begin) = RecordSize /\ Minus(k, begin) < size
  <2>3. Filed(flash, k).tx.silent
    BY <2>2 DEF Journal
  <2>4. QED
    BY <1>4, <1>5, <2>3
<1>11. Journal(begin, size, flash1, next)
  <2>1. begin \in TxNr /\ size \in 1 .. RecordSize + 1
    BY DEF Journal
  <2>2. QED
    BY <1>2, <1>7, <1>8, <1>9, <1>10, <2>1 DEF Journal
<1>12. QED
  BY <1>3, <1>4, <1>11

\* The debts of an entry.
LEMMA OwedOf ==
    ASSUME NEW begin, NEW size, NEW flash, NEW next, Journal(begin, size, flash, next),
           NEW debts, Owed(debts, begin, size, flash),
           NEW p, EntryOf(p, begin, size, flash), NEW m \in debts, m[1] = p.session
    PROVE  Owes(p.tx, m[2]) /\ (m[2] = ToEnd => Minus(p.tx.nr, begin) = size - 1)
<1>1. PICK k \in TxNr : /\ Minus(k, begin) < size
                        /\ Filed(flash, k).session = m[1] /\ Owes(Filed(flash, k).tx, m[2])
                        /\ m[2] = ToEnd => Minus(k, begin) = size - 1
  BY DEF Owed
<1>2. Alike(p, Filed(flash, p.tx.nr)) /\ InWindow(begin, size, p.tx.nr)
  BY DEF EntryOf
<1>3. Filed(flash, p.tx.nr).session = m[1]
  BY <1>2 DEF Alike
<1>4. k = p.tx.nr
  BY <1>1, <1>2, <1>3, SessionsDiffer DEF InWindow
<1>5. QED
  BY <1>1, <1>2, <1>4, AlikeSame

\* The debts of the other entries do not change.
LEMMA OwedWritten ==
    ASSUME NEW begin, NEW size, NEW flash, NEW flash1,
           NEW q, EntryOf(q, begin, size, flash1),
           q.session = Filed(flash, q.tx.nr).session,
           \A k \in TxNr : k # q.tx.nr => Filed(flash1, k) = Filed(flash, k),
           NEW debts, Owed(debts, begin, size, flash), NEW debts1,
           \A m \in debts1 : \/ m \in debts /\ m[1] # q.session
                             \/ /\ m[1] = q.session /\ Owes(q.tx, m[2])
                                /\ m[2] = ToEnd => Minus(q.tx.nr, begin) = size - 1
    PROVE  Owed(debts1, begin, size, flash1)
<1>1. SUFFICES ASSUME NEW m \in debts1
               PROVE  \E k \in TxNr :
                         /\ Minus(k, begin) < size
                         /\ Filed(flash1, k).session = m[1] /\ Owes(Filed(flash1, k).tx, m[2])
                         /\ m[2] = ToEnd => Minus(k, begin) = size - 1
  BY DEF Owed
<1>2. CASE m \in debts /\ m[1] # q.session
  <2>1. PICK k \in TxNr : /\ Minus(k, begin) < size
                          /\ Filed(flash, k).session = m[1] /\ Owes(Filed(flash, k).tx, m[2])
                          /\ m[2] = ToEnd => Minus(k, begin) = size - 1
    BY <1>2 DEF Owed
  <2>2. k # q.tx.nr
    BY <1>2, <2>1
  <2>3. Filed(flash1, k) = Filed(flash, k)
    BY <2>2
  <2>4. QED
    BY <2>1, <2>3
<1>3. CASE /\ m[1] = q.session /\ Owes(q.tx, m[2])
           /\ m[2] = ToEnd => Minus(q.tx.nr, begin) = size - 1
  <2>1. Alike(q, Filed(flash1, q.tx.nr)) /\ q.tx.nr \in TxNr /\ Minus(q.tx.nr, begin) < size
    BY DEF EntryOf, InWindow
  <2>2. Filed(flash1, q.tx.nr).session = m[1]
    BY <1>3, <2>1 DEF Alike
  <2>3. Owes(Filed(flash1, q.tx.nr).tx, m[2])
    BY <1>3, <2>1, AlikeSame
  <2>4. QED
    BY <1>3, <2>1, <2>2, <2>3
<1>4. QED
  BY <1>2, <1>3

\* What is still to come from the other entries does not change.
LEMMA InOrderWritten ==
    ASSUME NEW begin, NEW size, NEW flash, NEW flash1,
           NEW q, EntryOf(q, begin, size, flash1),
           \A k \in TxNr : k # q.tx.nr => Filed(flash1, k) = Filed(flash, k),
           NEW last, InOrder(last, begin, size, flash), ~Done(q.tx) => NotBefore(last, q)
    PROVE  InOrder(last, begin, size, flash1)
<1>1. SUFFICES ASSUME NEW k \in TxNr, Minus(k, begin) < size, ~Done(Filed(flash1, k).tx)
               PROVE  NotBefore(last, Filed(flash1, k))
  BY DEF InOrder
<1>2. CASE k = q.tx.nr
  <2>1. Alike(q, Filed(flash1, k))
    BY <1>2 DEF EntryOf
  <2>2. QED
    BY <1>1, <2>1, AlikeSame
<1>3. CASE k # q.tx.nr
  BY <1>1, <1>3 DEF InOrder
<1>4. QED
  BY <1>2, <1>3

\* The server has received an event of the first entry that is not done with.
LEMMA InOrderReceived ==
    ASSUME NEW begin, NEW size, NEW flash, NEW next, Journal(begin, size, flash, next),
           NEW p, EntryOf(p, begin, size, flash),
           \A k \in TxNr : Minus(k, begin) < Minus(p.tx.nr, begin) => Done(Filed(flash, k).tx),
           NEW n, NotBefore(<<p.session, n>>, p)
    PROVE  InOrder(<<p.session, n>>, begin, size, flash)
<1>1. SUFFICES ASSUME NEW k \in TxNr, Minus(k, begin) < size, ~Done(Filed(flash, k).tx)
               PROVE  NotBefore(<<p.session, n>>, Filed(flash, k))
  BY DEF InOrder
<1>2. Alike(p, Filed(flash, p.tx.nr)) /\ p.tx.nr \in TxNr
  BY DEF EntryOf, InWindow
<1>3. CASE k = p.tx.nr
  BY <1>2, <1>3, AlikeSame
<1>4. CASE k # p.tx.nr
  <2>1. ~(Minus(k, begin) < Minus(p.tx.nr, begin))
    BY <1>1
  <2>2. begin \in TxNr
    BY DEF Journal
  <2>3. Minus(k, begin) # Minus(p.tx.nr, begin)
    BY <1>2, <1>4, <2>2, MinusInjective
  <2>4. Minus(k, begin) \in Int /\ Minus(p.tx.nr, begin) \in Int
    BY <1>2, <2>2, MinusType, Sizes
  <2>5. Minus(p.tx.nr, begin) < Minus(k, begin)
    BY <2>1, <2>3, <2>4
  <2>6. Filed(flash, p.tx.nr).session < Filed(flash, k).session
    BY <1>1, <1>2, <2>5 DEF Journal
  <2>7. p.session < Filed(flash, k).session
    BY <1>2, <2>6 DEF Alike
  <2>8. QED
    BY <2>7 DEF NotBefore
<1>5. QED
  BY <1>3, <1>4

-----------------------------------------------------------------------------
(* The inductive invariant.                                                *)

\* The objects in use are those of the last entry, and of the one at the front.
Objects ==
    /\ transaction # None => txMem[transaction].nr = Back(1) /\ Sound(Current)
    /\ txFront # None => txMem[txFront].nr = txNrFront /\ Pending > 0 /\ Sound(Front)

\* What the queue has passed by is done with.
Passed ==
    /\ Minus(txNrFront, txNrBegin) <= Size
    /\ \A k \in TxNr : Minus(k, txNrBegin) < Minus(txNrFront, txNrBegin) =>
          Done(Filed(txFlash, k).tx)

\* The event at the front is the oldest one of its transaction.
FrontIsFirst ==
    /\ txEventFront # None /\ ~txMem[txFront].silent =>
          /\ txEventFront.seqNo \in txMem[txFront].seqNos
          /\ \A n \in txMem[txFront].seqNos : txEventFront.seqNo <= n
    /\ requested => ~txMem[txFront].silent

IInv ==
    /\ TypeOK
    /\ Journal(txNrBegin, Size, txFlash, nextSession)
    /\ Objects /\ Passed /\ FrontIsFirst
    /\ Owed(owed, txNrBegin, Size, txFlash)
    /\ \A m \in owed : m[2] = ToEnd => transaction = m[1]
    /\ InOrder(received, txNrBegin, Size, txFlash) /\ received[1] < nextSession

-----------------------------------------------------------------------------
(* The numbers and the objects of the invariant.                           *)

\* The numbers and their distances.
LEMMA NumbersAre ==
    ASSUME IInv
    PROVE  /\ txNrBegin \in TxNr /\ txNrFront \in TxNr /\ txNrEnd \in TxNr
           /\ Size \in 1 .. RecordSize + 1 /\ Size < MaxTxCnt
           /\ Pending = Size - Minus(txNrFront, txNrBegin)
           /\ Minus(txNrFront, txNrBegin) \in 0 .. Size
<1>1. txNrBegin \in TxNr /\ txNrFront \in TxNr /\ txNrEnd \in TxNr
  BY DEF IInv, TypeOK
<1>2. Size \in 1 .. RecordSize + 1
  BY DEF IInv, Journal
<1>3. Minus(txNrFront, txNrBegin) <= Size
  BY DEF IInv, Passed
<1>4. Minus(txNrFront, txNrBegin) \in 0 .. MaxTxCnt - 1
  BY <1>1, MinusType
<1>5. Pending = IF Size >= Minus(txNrFront, txNrBegin) THEN Size - Minus(txNrFront, txNrBegin)
                ELSE Size + MaxTxCnt - Minus(txNrFront, txNrBegin)
  BY <1>1, MinusFrom DEF Pending, Size
<1>6. Size \in Int /\ Size < MaxTxCnt
  BY <1>2, Sizes
<1>7. Minus(txNrFront, txNrBegin) \in 0 .. Size
  BY <1>3, <1>4, <1>6, Sizes
<1>8. QED
  BY <1>1, <1>2, <1>3, <1>5, <1>6, <1>7

\* The current transaction is the last entry, txFront the one at the front.
LEMMA CurrentIs ==
    ASSUME IInv, transaction # None
    PROVE  /\ transaction \in Session
           /\ Current.session = transaction /\ Current.tx = txMem[transaction]
           /\ EntryOf(Current, txNrBegin, Size, txFlash)
           /\ Minus(Current.tx.nr, txNrBegin) = Size - 1
<1>1. transaction \in Session
  BY DEF IInv, TypeOK
<1>2. Current.session = transaction /\ Current.tx = txMem[transaction]
      /\ Current.files = txFlash[txMem[transaction].nr]
  BY DEF Current, Pair
<1>3. Sound(Current) /\ Current.tx.nr = Back(1)
  BY <1>2 DEF IInv, Objects
<1>4. Back(1) \in TxNr /\ Minus(Back(1), txNrBegin) = Size - 1
  <2>1. 1 \in 0 .. Minus(txNrEnd, txNrBegin)
    BY NumbersAre DEF Size
  <2>2. QED
    BY <2>1, NumbersAre, BackIs DEF Back, Size
<1>5. InWindow(txNrBegin, Size, Current.tx.nr)
  BY <1>3, <1>4, NumbersAre DEF InWindow
<1>6. EntryOf(Current, txNrBegin, Size, txFlash)
  BY <1>2, <1>3, <1>5, EntryFrom
<1>7. QED
  BY <1>1, <1>2, <1>3, <1>4, <1>6

\* The object at the front is the entry at the front.
LEMMA FrontIs ==
    ASSUME IInv, txFront # None
    PROVE  /\ txFront \in Session
           /\ Front.session = txFront /\ Front.tx = txMem[txFront]
           /\ EntryOf(Front, txNrBegin, Size, txFlash)
           /\ Front.tx.nr = txNrFront /\ Pending > 0
<1>1. txFront \in Session
  BY DEF IInv, TypeOK
<1>2. Front.session = txFront /\ Front.tx = txMem[txFront]
      /\ Front.files = txFlash[txMem[txFront].nr]
  BY DEF Front, Pair
<1>3. Sound(Front) /\ Front.tx.nr = txNrFront /\ Pending > 0
  BY <1>2 DEF IInv, Objects
<1>4. InWindow(txNrBegin, Size, Front.tx.nr)
  BY <1>3, NumbersAre DEF InWindow
<1>5. EntryOf(Front, txNrBegin, Size, txFlash)
  BY <1>2, <1>3, <1>4, EntryFrom
<1>6. QED
  BY <1>1, <1>2, <1>3, <1>5

\* p is one of them.
Held(p) == (transaction # None /\ p = Current) \/ (txFront # None /\ p = Front)

\* An object is an entry of the journal.
LEMMA HeldIs ==
    ASSUME IInv, NEW p, Held(p)
    PROVE  /\ p.session \in Session /\ p.tx = txMem[p.session]
           /\ EntryOf(p, txNrBegin, Size, txFlash) /\ Sound(p) /\ p.files = txFlash[p.tx.nr]
           /\ p.session = transaction \/ p.session = txFront
<1>1. p.files = txFlash[p.tx.nr]
  BY DEF Held, Current, Front, Pair
<1>2. QED
  BY <1>1, CurrentIs, FrontIs DEF Held, EntryOf

\* An object is the one of its number.
LEMMA HeldBoth ==
    ASSUME IInv, NEW p, Held(p), NEW q, Held(q), p.tx.nr = q.tx.nr
    PROVE  p.session = q.session
<1>1. Alike(p, Filed(txFlash, p.tx.nr)) /\ Alike(q, Filed(txFlash, q.tx.nr))
  BY HeldIs DEF EntryOf
<1>2. QED
  BY <1>1 DEF Alike

-----------------------------------------------------------------------------
(* A transaction is changed, in memory and on the flash.                   *)

Applied(p, q) ==
    /\ Apply(q)
    /\ UNCHANGED <<txNrBegin, txNrFront, txNrEnd, transaction, nextSession>>
    /\ txFront' = txFront \/ (txFront' = q.session /\ q.tx.nr = txNrFront)

\* The objects and the flash after a change.
LEMMA ObjectsAfter ==
    ASSUME IInv, NEW p, Held(p), NEW q, Sound(q), Follows(p, q), Applied(p, q)
    PROVE  /\ txMem' \in [Session -> Tx] /\ txFlash' \in [TxNr -> TxFiles]
           /\ \A s \in Session : Cardinality(txMem'[s].seqNos) <= EventRecordSize
           /\ txMem'[q.session] = q.tx
           /\ \A s \in Session : s # q.session => txMem'[s] = txMem[s]
           /\ txFlash' = Put(txFlash, q)
           /\ Objects'
<1>1. /\ p.session \in Session /\ p.tx = txMem[p.session] /\ EntryOf(p, txNrBegin, Size, txFlash)
      /\ p.session = transaction \/ p.session = txFront
  BY HeldIs
<1>2. q.session = p.session /\ q.tx.nr = p.tx.nr /\ q.session \in Session
  BY <1>1 DEF Follows
<1>3. /\ q \in Pairs /\ q.tx \in Tx /\ q.files \in TxFiles /\ q.tx.nr \in TxNr
      /\ q = [session |-> q.session, tx |-> q.tx, files |-> q.files]
      /\ Cardinality(q.tx.seqNos) <= EventRecordSize
  BY PairIs DEF Sound, Laid
<1>4. /\ txMem \in [Session -> Tx] /\ txFlash \in [TxNr -> TxFiles]
      /\ \A s \in Session : Cardinality(txMem[s].seqNos) <= EventRecordSize
  BY DEF IInv, TypeOK
<1>5. /\ txMem' = [txMem EXCEPT ![q.session] = q.tx]
      /\ txFlash' = Put(txFlash, q)
  BY DEF Applied, Apply, Put
<1>6. /\ txMem' \in [Session -> Tx] /\ txMem'[q.session] = q.tx
      /\ \A s \in Session : s # q.session => txMem'[s] = txMem[s]
  BY <1>2, <1>3, <1>4, <1>5
<1>7. /\ txFlash' \in [TxNr -> TxFiles] /\ txFlash'[q.tx.nr] = q.files
      /\ \A k \in TxNr : k # q.tx.nr => txFlash'[k] = txFlash[k]
  BY <1>3, <1>4, <1>5 DEF Put
<1>8. \A s \in Session : Cardinality(txMem'[s].seqNos) <= EventRecordSize
  BY <1>3, <1>4, <1>6
<1>9. Pair(q.session, txMem'[q.session], txFlash'[txMem'[q.session].nr]) = q
  BY <1>3, <1>6, <1>7 DEF Pair
\* The other object and its files are left alone.
<1>10. ASSUME NEW r, Held(r), r.session # q.session
       PROVE  Pair(r.session, txMem'[r.session], txFlash'[txMem'[r.session].nr]) = r
  <2>1. r.session \in Session /\ r.tx = txMem[r.session] /\ r.files = txFlash[r.tx.nr]
        /\ Sound(r)
    BY <1>10, HeldIs
  <2>2. r.tx.nr # p.tx.nr
    BY <1>2, <1>10, HeldBoth
  <2>3. r.tx.nr \in TxNr /\ r = [session |-> r.session, tx |-> r.tx, files |-> r.files]
    BY <2>1, PairIs DEF Sound, Laid
  <2>4. txMem'[r.session] = r.tx /\ txFlash'[r.tx.nr] = r.files
    BY <1>2, <1>6, <1>7, <1>10, <2>1, <2>2, <2>3
  <2>5. QED
    BY <2>3, <2>4 DEF Pair
<1>11. UNCHANGED <<txNrBegin, txNrFront, txNrEnd, transaction, nextSession>>
  BY DEF Applied
<1>12. ASSUME transaction # None
       PROVE  txMem'[transaction].nr = Back(1) /\ Sound(Current')
  <2>1. Held(Current) /\ Current.session = transaction /\ Current.tx = txMem[transaction]
        /\ txMem[transaction].nr = Back(1) /\ Sound(Current) /\ transaction \in Session
    BY <1>12, CurrentIs DEF Held, IInv, Objects
  <2>2. Current' = Pair(transaction, txMem'[transaction], txFlash'[txMem'[transaction].nr])
    BY <1>11 DEF Current
  <2>3. CASE transaction = q.session
    <3>1. Held(p) /\ p.tx.nr = Back(1)
      BY <1>1, <1>2, <2>1, <2>3
    <3>2. QED
      BY <1>2, <1>6, <1>9, <2>2, <2>3, <3>1
  <2>4. CASE transaction # q.session
    <3>1. Current' = Current
      BY <1>10, <2>1, <2>2, <2>4
    <3>2. QED
      BY <1>6, <2>1, <2>4, <3>1
  <2>5. QED
    BY <2>3, <2>4
<1>13. ASSUME txFront' # None
       PROVE  txMem'[txFront'].nr = txNrFront /\ Pending > 0 /\ Sound(Front')
  <2>1. Front' = Pair(txFront', txMem'[txFront'], txFlash'[txMem'[txFront'].nr])
    BY DEF Front
  <2>2. CASE txFront' = q.session
    <3>1. q.tx.nr = txNrFront
      <4>1. CASE txFront' = txFront
        <5>1. Held(Front) /\ Front.session = txFront /\ Front.tx = txMem[txFront]
              /\ Front.tx.nr = txNrFront
          BY <1>13, <4>1, FrontIs DEF Held
        <5>2. QED
          BY <1>1, <1>2, <2>2, <4>1, <5>1
      <4>2. CASE txFront' # txFront
        BY <4>2 DEF Applied
      <4>3. QED
        BY <4>1, <4>2
    <3>2. Pending > 0
      <4>1. InWindow(txNrBegin, Size, q.tx.nr)
        BY <1>1, <1>2 DEF EntryOf
      <4>2. QED
        BY <3>1, <4>1, NumbersAre DEF InWindow
    <3>3. QED
      BY <1>6, <1>9, <2>1, <2>2, <3>1, <3>2
  <2>3. CASE txFront' # q.session
    <3>1. txFront' = txFront
      BY <2>3 DEF Applied
    <3>2. Held(Front) /\ Front.session = txFront /\ Front.tx = txMem[txFront]
          /\ Front.tx.nr = txNrFront /\ Pending > 0 /\ Sound(Front) /\ txFront \in Session
      BY <1>13, <3>1, FrontIs DEF Held, EntryOf
    <3>3. Front' = Front
      BY <1>10, <2>1, <2>3, <3>1, <3>2
    <3>4. QED
      BY <1>6, <2>3, <3>1, <3>2, <3>3
  <2>4. QED
    BY <2>2, <2>3
<1>14. Back(1)' = Back(1) /\ Pending' = Pending
  BY <1>11 DEF Back, Pending
<1>15. Objects'
  BY <1>11, <1>12, <1>13, <1>14 DEF Objects
<1>16. QED
  BY <1>5, <1>6, <1>7, <1>8, <1>15

\* The types of what is not in the journal.
FrontTypes ==
    /\ txEventFront \in FrontTxEvent \cup {None} /\ (txEventFront # None => txFront # None)
    /\ {requested, authorizing, timed} \subseteq BOOLEAN
    /\ (requested => txEventFront # None) /\ (authorizing => transaction # None)

\* What is owed after q has been written.
OwedAfter(q) ==
    /\ owed' \subseteq Session \X (SeqNo \cup {ToEnd})
    /\ \A m \in owed' : \/ m \in owed /\ m[1] # q.session
                        \/ /\ m[1] = q.session /\ Owes(q.tx, m[2])
                           /\ m[2] = ToEnd => transaction = q.session

\* What the server has received by then: an event of the front, if it is a new one.
ReceivedAfter(q) ==
    \/ received' = received /\ (~Done(q.tx) => NotBefore(received, q))
    \/ /\ txFront # None /\ q.session = txFront
       /\ \E n \in SeqNo : received' = <<q.session, n>> /\ NotBefore(received', q)

\* A change of an object keeps the invariant if what is owed and received fits it.
LEMMA ApplyStep ==
    ASSUME IInv, NEW p, Held(p), NEW q, Sound(q), Follows(p, q), Applied(p, q),
           boots' = boots, FrontTypes', FrontIsFirst', OwedAfter(q), ReceivedAfter(q)
    PROVE  IInv'
<1>1. /\ p.session \in Session /\ p.tx = txMem[p.session] /\ EntryOf(p, txNrBegin, Size, txFlash)
  BY HeldIs
<1>2. q.session = p.session /\ q.tx.nr = p.tx.nr /\ q.session \in Session
  BY <1>1 DEF Follows
<1>3. /\ txMem' \in [Session -> Tx] /\ txFlash' \in [TxNr -> TxFiles]
      /\ \A s \in Session : Cardinality(txMem'[s].seqNos) <= EventRecordSize
      /\ txFlash' = Put(txFlash, q)
      /\ Objects'
  BY ObjectsAfter
<1>4. Journal(txNrBegin, Size, txFlash, nextSession)
  BY DEF IInv
<1>5. /\ Journal(txNrBegin, Size, txFlash', nextSession)
      /\ EntryOf(q, txNrBegin, Size, txFlash')
      /\ \A k \in TxNr : k # q.tx.nr => Filed(txFlash', k) = Filed(txFlash, k)
  BY <1>1, <1>3, <1>4, JournalWritten
<1>6. UNCHANGED <<txNrBegin, txNrFront, txNrEnd, transaction, nextSession>>
  BY DEF Applied
<1>7. Size' = Size /\ Pending' = Pending
  BY <1>6 DEF Size, Pending
<1>8. Journal(txNrBegin, Size, txFlash, nextSession)'
  BY <1>5, <1>6, <1>7
<1>9. q.session = Filed(txFlash, q.tx.nr).session /\ q.session < nextSession
  <2>1. Alike(p, Filed(txFlash, p.tx.nr)) /\ InWindow(txNrBegin, Size, p.tx.nr)
    BY <1>1 DEF EntryOf
  <2>2. q.session = Filed(txFlash, q.tx.nr).session
    BY <1>2, <2>1 DEF Alike
  <2>3. Filed(txFlash, q.tx.nr).session < nextSession
    BY <1>2, <1>4, <2>1 DEF Journal, InWindow
  <2>4. QED
    BY <2>2, <2>3
<1>10. \A k \in TxNr : Minus(k, txNrBegin) < Minus(txNrFront, txNrBegin) =>
          Done(Filed(txFlash', k).tx)
  <2>1. TAKE k \in TxNr
  <2>2. HAVE Minus(k, txNrBegin) < Minus(txNrFront, txNrBegin)
  <2>3. Done(Filed(txFlash, k).tx)
    BY <2>2 DEF IInv, Passed
  <2>4. CASE k = q.tx.nr
    <3>1. Alike(p, Filed(txFlash, k)) /\ Alike(q, Filed(txFlash', k))
      BY <1>1, <1>2, <1>5, <2>4 DEF EntryOf
    <3>2. Done(p.tx)
      BY <2>3, <3>1, AlikeSame
    <3>3. Done(q.tx)
      BY <3>2 DEF Follows
    <3>4. QED
      BY <3>1, <3>3, AlikeSame
  <2>5. CASE k # q.tx.nr
    BY <1>5, <2>3, <2>5
  <2>6. QED
    BY <2>4, <2>5
<1>11. Passed'
  <2>1. Minus(txNrFront, txNrBegin) <= Size
    BY DEF IInv, Passed
  <2>2. QED
    BY <1>6, <1>7, <1>10, <2>1 DEF Passed
<1>12. Owed(owed', txNrBegin, Size, txFlash')
  <2>1. ASSUME transaction = q.session PROVE Minus(q.tx.nr, txNrBegin) = Size - 1
    <3>1. transaction # None
      BY <1>2, <2>1, NoneAssumption
    <3>2. Current.tx = txMem[q.session] /\ Minus(Current.tx.nr, txNrBegin) = Size - 1
      BY <2>1, <3>1, CurrentIs
    <3>3. QED
      BY <1>1, <1>2, <3>2
  <2>2. \A m \in owed' : \/ m \in owed /\ m[1] # q.session
                         \/ /\ m[1] = q.session /\ Owes(q.tx, m[2])
                            /\ m[2] = ToEnd => Minus(q.tx.nr, txNrBegin) = Size - 1
    BY <2>1 DEF OwedAfter
  <2>3. Owed(owed, txNrBegin, Size, txFlash)
    BY DEF IInv
  <2>4. QED
    BY <1>5, <1>9, <2>2, <2>3, OwedWritten
<1>13. \A m \in owed' : m[2] = ToEnd => transaction = m[1]
  <2>1. \A m \in owed : m[2] = ToEnd => transaction = m[1]
    BY DEF IInv
  <2>2. QED
    BY <2>1 DEF OwedAfter
<1>14. InOrder(received', txNrBegin, Size, txFlash') /\ received' \in Session \X SeqNo
       /\ received'[1] < nextSession
  <2>1. InOrder(received, txNrBegin, Size, txFlash) /\ received \in Session \X SeqNo
        /\ received[1] < nextSession
    BY DEF IInv, TypeOK
  <2>2. CASE received' = received /\ (~Done(q.tx) => NotBefore(received, q))
    BY <1>5, <2>1, <2>2, InOrderWritten
  <2>3. CASE /\ txFront # None /\ q.session = txFront
             /\ \E n \in SeqNo : received' = <<q.session, n>> /\ NotBefore(received', q)
    <3>1. PICK n \in SeqNo : received' = <<q.session, n>> /\ NotBefore(received', q)
      BY <2>3
    <3>2. q.tx.nr = txNrFront
      <4>1. Front.tx = txMem[txFront] /\ Front.tx.nr = txNrFront
        BY <2>3, FrontIs
      <4>2. QED
        BY <1>1, <1>2, <2>3, <4>1
    <3>3. InOrder(<<q.session, n>>, txNrBegin, Size, txFlash')
      BY <1>5, <1>10, <3>1, <3>2, InOrderReceived
    <3>4. QED
      BY <1>2, <1>9, <3>1, <3>3
  <2>4. QED
    BY <2>2, <2>3 DEF ReceivedAfter
<1>15. TypeOK'
  <2>1. /\ {txNrBegin, txNrFront, txNrEnd} \subseteq TxNr
        /\ {transaction, txFront} \subseteq Session \cup {None}
        /\ boots \in 1 .. MaxBoot /\ nextSession \in 2 .. MaxSession + 1
    BY DEF IInv, TypeOK
  <2>2. txFront' \in Session \cup {None}
    BY <1>2, <2>1 DEF Applied
  <2>3. QED
    BY <1>3, <1>6, <1>14, <2>1, <2>2 DEF TypeOK, FrontTypes, OwedAfter
<1>16. Owed(owed, txNrBegin, Size, txFlash)' /\ InOrder(received, txNrBegin, Size, txFlash)'
  BY <1>6, <1>7, <1>12, <1>14
<1>17. (\A m \in owed : m[2] = ToEnd => transaction = m[1])' /\ (received[1] < nextSession)'
  BY <1>6, <1>13, <1>14
<1>18. QED
  BY <1>3, <1>8, <1>11, <1>15, <1>16, <1>17 DEF IInv

-----------------------------------------------------------------------------
(* The transaction of the EVSE.                                            *)

\* It is changed in memory, where it matters to the queue only if it is ended.
Touched(p, q) ==
    /\ q \in Pairs /\ q.session = p.session /\ q.files = p.files
    /\ q.tx.nr = p.tx.nr /\ q.tx.silent = p.tx.silent
    /\ q.tx.started = p.tx.started /\ q.tx.stopped = p.tx.stopped
    /\ q.tx.seqNos = p.tx.seqNos /\ q.tx.seqNoEnd = p.tx.seqNoEnd
    /\ q.tx.active => p.tx.active

\* A pair with another state of its transaction.
LEMMA WithTx ==
    ASSUME NEW p \in Pairs, NEW t \in Tx, NEW q, q = [p EXCEPT !.tx = t]
    PROVE  q \in Pairs /\ q.session = p.session /\ q.tx = t /\ q.files = p.files
<1>1. p.session \in Session /\ p.files \in TxFiles
  BY PairIs
<1>2. q = [session |-> p.session, tx |-> t, files |-> p.files]
  BY DEF Pairs
<1>3. QED
  BY <1>1, <1>2 DEF Pairs

\* The fields that are touched by authorization and by the end.
LEMMA TouchedFields ==
    ASSUME NEW p \in Pairs
    PROVE  /\ \A b \in BOOLEAN : /\ Touched(p, [p EXCEPT !.tx.auth = b])
                                 /\ [p EXCEPT !.tx.auth = b].tx.active = p.tx.active
           /\ Touched(p, [p EXCEPT !.tx.authorized = TRUE])
           /\ Touched(p, [p EXCEPT !.tx.deauthorized = TRUE])
           /\ Touched(p, [p EXCEPT !.tx.active = FALSE])
<1>1. p.tx \in Tx
  BY PairIs
<1>2. ASSUME NEW b \in BOOLEAN
      PROVE  Touched(p, [p EXCEPT !.tx.auth = b]) /\ [p EXCEPT !.tx.auth = b].tx.active = p.tx.active
  <2> DEFINE t == [p.tx EXCEPT !.auth = b]
             q == [p EXCEPT !.tx.auth = b]
  <2>1. /\ t \in Tx /\ t.nr = p.tx.nr /\ t.silent = p.tx.silent /\ t.started = p.tx.started
        /\ t.stopped = p.tx.stopped /\ t.seqNos = p.tx.seqNos /\ t.seqNoEnd = p.tx.seqNoEnd
        /\ t.active = p.tx.active
    BY <1>1 DEF Tx
  <2>2. q = [p EXCEPT !.tx = t]
    OBVIOUS
  <2> HIDE DEF t, q
  <2>3. q \in Pairs /\ q.session = p.session /\ q.tx = t /\ q.files = p.files
    BY <2>1, <2>2, WithTx
  <2>4. QED
    BY <2>1, <2>3 DEF Touched, q
<1>3. Touched(p, [p EXCEPT !.tx.authorized = TRUE])
  <2> DEFINE t == [p.tx EXCEPT !.authorized = TRUE]
             q == [p EXCEPT !.tx.authorized = TRUE]
  <2>1. /\ t \in Tx /\ t.nr = p.tx.nr /\ t.silent = p.tx.silent /\ t.started = p.tx.started
        /\ t.stopped = p.tx.stopped /\ t.seqNos = p.tx.seqNos /\ t.seqNoEnd = p.tx.seqNoEnd
        /\ t.active = p.tx.active
    BY <1>1 DEF Tx
  <2>2. q = [p EXCEPT !.tx = t]
    OBVIOUS
  <2> HIDE DEF t, q
  <2>3. q \in Pairs /\ q.session = p.session /\ q.tx = t /\ q.files = p.files
    BY <2>1, <2>2, WithTx
  <2>4. QED
    BY <2>1, <2>3 DEF Touched, q
<1>4. Touched(p, [p EXCEPT !.tx.deauthorized = TRUE])
  <2> DEFINE t == [p.tx EXCEPT !.deauthorized = TRUE]
             q == [p EXCEPT !.tx.deauthorized = TRUE]
  <2>1. /\ t \in Tx /\ t.nr = p.tx.nr /\ t.silent = p.tx.silent /\ t.started = p.tx.started
        /\ t.stopped = p.tx.stopped /\ t.seqNos = p.tx.seqNos /\ t.seqNoEnd = p.tx.seqNoEnd
        /\ t.active = p.tx.active
    BY <1>1 DEF Tx
  <2>2. q = [p EXCEPT !.tx = t]
    OBVIOUS
  <2> HIDE DEF t, q
  <2>3. q \in Pairs /\ q.session = p.session /\ q.tx = t /\ q.files = p.files
    BY <2>1, <2>2, WithTx
  <2>4. QED
    BY <2>1, <2>3 DEF Touched, q
<1>5. Touched(p, [p EXCEPT !.tx.active = FALSE])
  <2> DEFINE t == [p.tx EXCEPT !.active = FALSE]
             q == [p EXCEPT !.tx.active = FALSE]
  <2>1. /\ t \in Tx /\ t.nr = p.tx.nr /\ t.silent = p.tx.silent /\ t.started = p.tx.started
        /\ t.stopped = p.tx.stopped /\ t.seqNos = p.tx.seqNos /\ t.seqNoEnd = p.tx.seqNoEnd
        /\ t.active = FALSE
    BY <1>1 DEF Tx
  <2>2. q = [p EXCEPT !.tx = t]
    OBVIOUS
  <2> HIDE DEF t, q
  <2>3. q \in Pairs /\ q.session = p.session /\ q.tx = t /\ q.files = p.files
    BY <2>1, <2>2, WithTx
  <2>4. QED
    BY <2>1, <2>3 DEF Touched, q
<1>6. QED
  BY <1>2, <1>3, <1>4, <1>5

\* The files are laid out as before.
LEMMA TouchedLaid ==
    ASSUME NEW p, Laid(p), NEW q, Touched(p, q)
    PROVE  Laid(q)
  BY DEF Laid, Touched

\* The files say the same of it, unless it is aborted.
LEMMA TouchedSound ==
    ASSUME NEW p, Sound(p), NEW q, Touched(p, q), q.tx.active = p.tx.active \/ p.tx.started
    PROVE  Sound(q)
<1>1. Laid(q)
  BY TouchedLaid DEF Sound
<1>2. LastFile(q) = LastFile(p)
  BY DEF LastFile, Touched
<1>3. Restores(q.tx, q.files[LastFile(q)].tx)
  BY <1>2 DEF Restores, Touched, Sound
<1>4. QED
  BY <1>1, <1>3 DEF Sound, Touched

\* Events between others go, too.
Thins(p, q) ==
    /\ q.session = p.session
    /\ q.tx.nr = p.tx.nr /\ q.tx.silent = p.tx.silent
    /\ q.tx.started = p.tx.started /\ q.tx.stopped = p.tx.stopped
    /\ q.tx.seqNoEnd = p.tx.seqNoEnd
    /\ q.tx.active => p.tx.active
    /\ q.tx.seqNos \subseteq p.tx.seqNos
    /\ \A m \in p.tx.seqNos \ q.tx.seqNos : Between(q.tx.seqNos, m)

\* A touched pair is a thinning, also when a commit thins it further.
LEMMA TouchedThins ==
    ASSUME NEW p, NEW q, Touched(p, q)
    PROVE  Thins(p, q) /\ (\A r : Thinned(q, r) => Thins(p, r))
<1>1. Thins(p, q)
  BY DEF Touched, Thins
<1>2. ASSUME NEW r, Thinned(q, r) PROVE Thins(p, r)
  BY <1>2 DEF Touched, Thinned, Thins, SameTx
<1>3. QED
  BY <1>1, <1>2

\* No first event goes, nor the last one.
FirstIn(S, n) == n \in S /\ \A m \in S : n <= m

\* What is owed and what is still to come survive the thinning.
LEMMA ThinsIs ==
    ASSUME NEW p, Laid(p), NEW q, Thins(p, q)
    PROVE  /\ Follows(p, q)
           /\ \A n : Owes(p.tx, n) => Owes(q.tx, n)
           /\ \A last : NotBefore(last, p) => NotBefore(last, q)
           /\ \A n : FirstIn(p.tx.seqNos, n) => FirstIn(q.tx.seqNos, n)
<1>1. /\ p.tx.seqNos \subseteq SeqNo /\ p.tx.seqNoEnd \in SeqNo
      /\ \A n \in p.tx.seqNos : n < p.tx.seqNoEnd
  BY PairIs DEF Laid
<1>2. q.tx.seqNos \subseteq p.tx.seqNos
  BY DEF Thins
<1>3. ASSUME NEW n \in p.tx.seqNos, n \notin q.tx.seqNos
      PROVE  n # 0 /\ n # p.tx.seqNoEnd - 1 /\ ~FirstIn(p.tx.seqNos, n)
  <2>1. Between(q.tx.seqNos, n)
    BY <1>3 DEF Thins
  <2>2. PICK a, b \in q.tx.seqNos : a < n /\ n < b
    BY <2>1 DEF Between
  <2>3. a \in p.tx.seqNos /\ b < p.tx.seqNoEnd /\ a \in SeqNo /\ b \in SeqNo /\ n \in SeqNo
    BY <1>1, <1>2
  <2>4. n # 0 /\ n # p.tx.seqNoEnd - 1 /\ ~(n <= a)
    BY <1>1, <2>2, <2>3, Sizes DEF SeqNo
  <2>5. QED
    BY <2>3, <2>4 DEF FirstIn
<1>4. ASSUME NEW n, Owes(p.tx, n) PROVE Owes(q.tx, n)
  <2>1. CASE n = ToEnd
    BY <1>4, <2>1 DEF Owes, Thins
  <2>2. CASE n # ToEnd
    <3>1. n \in p.tx.seqNos /\ (n = 0 \/ (p.tx.stopped /\ n = p.tx.seqNoEnd - 1)) /\ ~p.tx.silent
      BY <1>4, <2>2 DEF Owes
    <3>2. n \in q.tx.seqNos
      BY <1>3, <3>1
    <3>3. QED
      BY <2>2, <3>1, <3>2 DEF Owes, Thins
  <2>3. QED
    BY <2>1, <2>2
<1>5. ASSUME NEW last, NotBefore(last, p) PROVE NotBefore(last, q)
  BY <1>2, <1>5 DEF NotBefore, Thins
<1>6. ASSUME NEW n, FirstIn(p.tx.seqNos, n) PROVE FirstIn(q.tx.seqNos, n)
  BY <1>2, <1>3, <1>6 DEF FirstIn
<1>7. Done(p.tx) => Done(q.tx)
  BY <1>2 DEF Done, isAborted, isReported, Thins
<1>8. Follows(p, q)
  BY <1>7 DEF Follows, Thins
<1>9. QED
  BY <1>4, <1>5, <1>6, <1>8

\* What is still to come of an object.
LEMMA HeldInOrder ==
    ASSUME IInv, NEW p, Held(p), ~Done(p.tx)
    PROVE  NotBefore(received, p)
<1>1. Alike(p, Filed(txFlash, p.tx.nr)) /\ InWindow(txNrBegin, Size, p.tx.nr)
  BY HeldIs DEF EntryOf
<1>2. ~Done(Filed(txFlash, p.tx.nr).tx)
  BY <1>1, AlikeSame
<1>3. NotBefore(received, Filed(txFlash, p.tx.nr))
  BY <1>1, <1>2 DEF IInv, InOrder, InWindow
<1>4. QED
  BY <1>1, <1>3, AlikeSame

\* What is owed of an object.
LEMMA HeldOwed ==
    ASSUME IInv, NEW p, Held(p), NEW m \in owed, m[1] = p.session
    PROVE  Owes(p.tx, m[2]) /\ (m[2] = ToEnd => transaction = p.session)
<1>1. EntryOf(p, txNrBegin, Size, txFlash)
  BY HeldIs
<1>2. Owes(p.tx, m[2])
  <2>1. Journal(txNrBegin, Size, txFlash, nextSession) /\ Owed(owed, txNrBegin, Size, txFlash)
    BY DEF IInv
  <2>2. QED
    BY <1>1, <2>1, OwedOf
<1>3. m[2] = ToEnd => transaction = m[1]
  BY DEF IInv
<1>4. QED
  BY <1>2, <1>3

\* The event at the front stays the first one.
LEMMA FrontStaysFirst ==
    ASSUME IInv, NEW p, Held(p), NEW q, Sound(q), Follows(p, q), Applied(p, q),
           q.tx.silent = p.tx.silent,
           \A n : FirstIn(p.tx.seqNos, n) => FirstIn(q.tx.seqNos, n),
           txFront' = txFront, txEventFront' = txEventFront, requested' = requested
    PROVE  FrontIsFirst'
<1>1. /\ txMem'[q.session] = q.tx
      /\ \A s \in Session : s # q.session => txMem'[s] = txMem[s]
  BY ObjectsAfter
<1>2. p.tx = txMem[p.session] /\ q.session = p.session
  BY HeldIs DEF Follows
<1>3. CASE txEventFront = None
  <2>1. ~requested
    BY <1>3 DEF IInv, TypeOK
  <2>2. QED
    BY <1>3, <2>1 DEF FrontIsFirst
<1>4. CASE txEventFront # None
  <2>1. txFront \in Session
    <3>1. txFront # None
      BY <1>4 DEF IInv, TypeOK
    <3>2. QED
      BY <3>1, FrontIs
  <2>2. /\ ~txMem[txFront].silent => FirstIn(txMem[txFront].seqNos, txEventFront.seqNo)
        /\ requested => ~txMem[txFront].silent
    BY <1>4 DEF IInv, FrontIsFirst, FirstIn
  <2>3. /\ ~txMem'[txFront].silent => FirstIn(txMem'[txFront].seqNos, txEventFront.seqNo)
        /\ requested => ~txMem'[txFront].silent
    <3>1. CASE txFront = q.session
      BY <1>1, <1>2, <2>2, <3>1
    <3>2. CASE txFront # q.session
      BY <1>1, <2>1, <2>2, <3>2
    <3>3. QED
      BY <3>1, <3>2
  <2>4. QED
    BY <2>3 DEF FrontIsFirst, FirstIn
<1>5. QED
  BY <1>3, <1>4

\* Nothing is announced, and nothing is sent.
LEMMA CurrentStep ==
    ASSUME IInv, transaction # None, NEW q, Sound(q), Thins(Current, q), Apply(q),
           UNCHANGED <<txNrs, frontVars, transaction, txEnv, txHistory>>,
           authorizing' \in BOOLEAN
    PROVE  IInv'
<1> DEFINE p == Current
<1>1. Held(p) /\ Sound(p) /\ Laid(p) /\ p.session = transaction /\ q.session = p.session
  BY CurrentIs DEF Held, EntryOf, Sound, Thins
<1> HIDE DEF p
<1>2. Thins(p, q)
  BY DEF p
<1>3. /\ Follows(p, q)
      /\ \A n : Owes(p.tx, n) => Owes(q.tx, n)
      /\ \A last : NotBefore(last, p) => NotBefore(last, q)
      /\ \A n : FirstIn(p.tx.seqNos, n) => FirstIn(q.tx.seqNos, n)
  BY <1>1, <1>2, ThinsIs
<1>4. /\ UNCHANGED <<txNrBegin, txNrFront, txNrEnd, transaction, nextSession>>
      /\ UNCHANGED <<txFront, txEventFront, requested, timed, boots, owed, received>>
  BY DEF txNrs, frontVars, txEnv, txHistory
<1>5. Applied(p, q)
  BY <1>4 DEF Applied
<1>6. FrontTypes'
  <2>1. /\ txEventFront \in FrontTxEvent \cup {None} /\ (txEventFront # None => txFront # None)
        /\ {requested, authorizing, timed} \subseteq BOOLEAN
        /\ (requested => txEventFront # None)
    BY DEF IInv, TypeOK
  <2>2. QED
    BY <1>4, <2>1 DEF FrontTypes
<1>7. FrontIsFirst'
  <2>1. q.tx.silent = p.tx.silent
    BY <1>2 DEF Thins
  <2>2. QED
    BY <1>1, <1>3, <1>4, <1>5, <2>1, FrontStaysFirst
<1>8. OwedAfter(q)
  <2>1. owed \subseteq Session \X (SeqNo \cup {ToEnd})
    BY DEF IInv, TypeOK
  <2>2. \A m \in owed : m[1] = p.session =>
           Owes(q.tx, m[2]) /\ (m[2] = ToEnd => transaction = p.session)
    BY <1>1, <1>3, HeldOwed
  <2>3. QED
    BY <1>1, <1>4, <2>1, <2>2 DEF OwedAfter
<1>9. ReceivedAfter(q)
  <2>1. ~Done(q.tx) => NotBefore(received, q)
    BY <1>1, <1>3, HeldInOrder DEF Follows
  <2>2. QED
    BY <1>4, <2>1 DEF ReceivedAfter
<1>10. boots' = boots
  BY <1>4
<1>11. QED
  BY <1>1, <1>3, <1>5, <1>6, <1>7, <1>8, <1>9, <1>10, ApplyStep

\* A change that is committed.
LEMMA CommittedIs ==
    ASSUME NEW p, Laid(p), NEW q, Touched(p, q)
    PROVE  Sound(CommitTx(q)) /\ Thins(p, CommitTx(q))
<1>1. Laid(q)
  BY TouchedLaid
<1>2. Sound(CommitTx(q)) /\ Thinned(q, CommitTx(q))
  BY <1>1, CommitTxIs
<1>3. QED
  BY <1>2, TouchedThins

\* The authorization ends.
LEMMA endAuthorizationStep ==
    ASSUME IInv, endAuthorization
    PROVE  IInv'
<1> DEFINE r == [Current EXCEPT !.tx.auth = FALSE]
<1>1. transaction # None /\ Apply(CommitTx(r))
      /\ UNCHANGED <<txNrs, frontVars, transaction, authorizing, txEnv, txHistory>>
  BY DEF endAuthorization
<1>2. Laid(Current) /\ Current \in Pairs
  BY <1>1, CurrentIs DEF EntryOf, Sound, Laid
<1>3. Touched(Current, r)
  BY <1>2, TouchedFields
<1> HIDE DEF r
<1>4. Sound(CommitTx(r)) /\ Thins(Current, CommitTx(r))
  BY <1>2, <1>3, CommittedIs
<1>5. authorizing' \in BOOLEAN
  BY <1>1 DEF IInv, TypeOK
<1>6. QED
  BY <1>1, <1>4, <1>5, CurrentStep

\* The transaction is ended.
LEMMA abortTransactionStep ==
    ASSUME IInv, abortTransaction
    PROVE  IInv'
<1> DEFINE r == [Current EXCEPT !.tx.active = FALSE]
<1>1. transaction # None /\ Apply(CommitTx(r))
      /\ UNCHANGED <<txNrs, frontVars, transaction, authorizing, txEnv, txHistory>>
  BY DEF abortTransaction, Ended
<1>2. Laid(Current) /\ Current \in Pairs
  BY <1>1, CurrentIs DEF EntryOf, Sound, Laid
<1>3. Touched(Current, r)
  BY <1>2, TouchedFields
<1> HIDE DEF r
<1>4. Sound(CommitTx(r)) /\ Thins(Current, CommitTx(r))
  BY <1>2, <1>3, CommittedIs
<1>5. authorizing' \in BOOLEAN
  BY <1>1 DEF IInv, TypeOK
<1>6. QED
  BY <1>1, <1>4, <1>5, CurrentStep

\* The Authorize is answered, or not.
LEMMA AuthorizeEndsStep ==
    ASSUME IInv, AuthorizeEnds
    PROVE  IInv'
<1> DEFINE r1 == [Current EXCEPT !.tx.authorized = TRUE]
           r2 == [Current EXCEPT !.tx.deauthorized = TRUE]
<1>1. /\ transaction # None /\ authorizing' \in BOOLEAN
      /\ Apply(CommitTx(r1)) \/ Apply(CommitTx(r2))
      /\ UNCHANGED <<txNrs, frontVars, transaction, txEnv, txHistory>>
  BY DEF AuthorizeEnds, Authorized, IInv, TypeOK
<1>2. Laid(Current) /\ Current \in Pairs
  BY <1>1, CurrentIs DEF EntryOf, Sound, Laid
<1>3. Touched(Current, r1) /\ Touched(Current, r2)
  BY <1>2, TouchedFields
<1> HIDE DEF r1, r2
<1>4. /\ Sound(CommitTx(r1)) /\ Thins(Current, CommitTx(r1))
      /\ Sound(CommitTx(r2)) /\ Thins(Current, CommitTx(r2))
  BY <1>2, <1>3, CommittedIs
<1>5. QED
  BY <1>1, <1>4, CurrentStep

-----------------------------------------------------------------------------
(* A transaction begins.                                                   *)

\* How many entries are left of the journal, and how many of them are evicted.
Left == Size - Trimmed
Evicted == IF Evicting THEN 1 ELSE 0

\* What comes of nothing is not owed.
LEMMA DoneOwesNothing ==
    ASSUME NEW p, Sound(p), Done(p.tx), NEW n
    PROVE  ~Owes(p.tx, n)
<1>1. ~p.tx.started => p.tx.seqNos = {}
  BY DEF Sound, Laid
<1>2. CASE p.tx.silent
  BY <1>2 DEF Owes
<1>3. CASE isAborted(p.tx)
  BY <1>1, <1>3 DEF Owes, isAborted
<1>4. CASE isReported(p.tx)
  BY <1>4 DEF Owes, isReported
<1>5. QED
  BY <1>2, <1>3, <1>4 DEF Done

\* The last entries go that need not be kept, up to the first one that must be.
LEMMA TrimmedIs ==
    ASSUME IInv
    PROVE  /\ Trimmed \in 0 .. Size
           /\ \A j \in 1 .. Trimmed : Trimmable(Back(j))
           /\ Trimmed = Size \/ ~Trimmable(Back(Trimmed + 1))
<1>1. Size \in Nat
  BY NumbersAre, Sizes
<1> DEFINE Stops(k) == k = Size \/ ~Trimmable(Back(k + 1))
           K == {k \in 0 .. Size : Stops(k)}
<1>2. K \subseteq Nat /\ Size \in K
  BY <1>1
<1>3. PICK k \in K : \A j \in K : k <= j
  BY <1>2, Least
<1>4. \A j \in 1 .. k : Trimmable(Back(j))
  <2>1. SUFFICES ASSUME NEW j \in 1 .. k, ~Trimmable(Back(j)) PROVE FALSE
    OBVIOUS
  <2>2. k \in 0 .. Size
    BY <1>3
  <2>3. j - 1 \in 0 .. Size /\ (j - 1) + 1 = j /\ j - 1 < k
    BY <1>1, <2>2
  <2>4. Stops(j - 1)
    BY <2>1, <2>3
  <2>5. j - 1 \in K
    BY <2>3, <2>4
  <2>6. k <= j - 1
    BY <1>3, <2>5
  <2>7. QED
    BY <2>2, <2>3, <2>6
<1>5. k \in 0 .. Size /\ (k = Size \/ ~Trimmable(Back(k + 1)))
  BY <1>3
<1>6. QED
  BY <1>4, <1>5 DEF Trimmed

\* The numbers that are trimmed are those from newEnd on.
LEMMA LeftIs ==
    ASSUME IInv
    PROVE  /\ newEnd \in TxNr /\ Left \in 0 .. Size /\ Minus(newEnd, txNrBegin) = Left
           /\ \A k \in TxNr : k \in {Back(j) : j \in 1 .. Trimmed} <=>
                  Left <= Minus(k, txNrBegin) /\ Minus(k, txNrBegin) < Size
<1>1. /\ txNrBegin \in TxNr /\ txNrEnd \in TxNr /\ Size \in Nat
      /\ Size = Minus(txNrEnd, txNrBegin)
  BY NumbersAre, Sizes DEF Size
<1>2. Trimmed \in 0 .. Size
  BY TrimmedIs
<1>3. ASSUME NEW j \in 0 .. Size PROVE Back(j) \in TxNr /\ Minus(Back(j), txNrBegin) = Size - j
  BY <1>1, BackIs DEF Back
<1>4. newEnd \in TxNr /\ Minus(newEnd, txNrBegin) = Left
  BY <1>2, <1>3 DEF newEnd, Left
<1>5. Left \in 0 .. Size
  BY <1>1, <1>2 DEF Left
<1>6. ASSUME NEW k \in TxNr
      PROVE  k \in {Back(j) : j \in 1 .. Trimmed} <=>
                Left <= Minus(k, txNrBegin) /\ Minus(k, txNrBegin) < Size
  <2>1. Minus(k, txNrBegin) \in Nat
    BY <1>1, MinusType, Sizes
  <2>2. ASSUME NEW j \in 1 .. Trimmed, k = Back(j)
        PROVE  Left <= Minus(k, txNrBegin) /\ Minus(k, txNrBegin) < Size
    <3>1. j \in 0 .. Size
      BY <1>1, <1>2
    <3>2. Minus(k, txNrBegin) = Size - j
      BY <1>3, <2>2, <3>1
    <3>3. QED
      BY <1>1, <1>2, <3>2 DEF Left
  <2>3. ASSUME Left <= Minus(k, txNrBegin), Minus(k, txNrBegin) < Size
        PROVE  k \in {Back(j) : j \in 1 .. Trimmed}
    <3> DEFINE j == Size - Minus(k, txNrBegin)
    <3>1. j \in 1 .. Trimmed /\ j \in 0 .. Size
      BY <1>1, <1>2, <2>1, <2>3 DEF Left
    <3>2. Minus(Back(j), txNrBegin) = Size - j /\ Back(j) \in TxNr
      BY <1>3, <3>1
    <3>3. Size - j = Minus(k, txNrBegin)
      BY <1>1, <2>1
    <3>4. k = Back(j)
      BY <1>1, <3>2, <3>3, MinusInjective
    <3>5. QED
      BY <3>1, <3>4
  <2>4. QED
    BY <2>2, <2>3
<1>7. QED
  BY <1>4, <1>5, <1>6

\* An object in the queue is not removed, so that what is removed is what the flash says.
LEMMA GoneIsDone ==
    ASSUME IInv, ~BeginEarly, CanBegin, NEW k \in gone, InWindow(txNrBegin, Size, k)
    PROVE  Done(Filed(txFlash, k).tx)
<1>1. ~(txFront # None /\ txMem[txFront].nr = k)
  BY DEF CanBegin, Released
<1>2. TxAt(k) = Filed(txFlash, k).tx
  BY <1>1 DEF TxAt, Filed
<1>3. Known(k)
  <2>1. Sound(Filed(txFlash, k))
    BY DEF IInv, Journal, InWindow
  <2>2. LastFile(Filed(txFlash, k)) \in Found(Filed(txFlash, k).files)
    BY <2>1, LastFileIs DEF Found
  <2>3. Filed(txFlash, k).files = txFlash[k]
    BY DEF Filed, Load, Pair
  <2>4. QED
    BY <2>2, <2>3 DEF Known
<1>4. CASE k \in {Back(j) : j \in 1 .. Trimmed}
  <2>1. Trimmable(k)
    BY <1>4, TrimmedIs
  <2>2. QED
    BY <1>2, <1>3, <2>1 DEF Trimmable, Done
<1>5. CASE Evicting /\ k = txNrBegin
  BY <1>2, <1>3, <1>5 DEF Evicting, Done
<1>6. QED
  BY <1>4, <1>5 DEF gone

\* There is room for the new entry.
LEMMA RoomIs ==
    ASSUME IInv
    PROVE  /\ Left \in 0 .. RecordSize
           /\ HasRoom <=> Left < RecordSize
           /\ Evicted \in 0 .. 1 /\ (Evicting <=> Evicted = 1)
           /\ Evicted = 1 => Left = RecordSize
           /\ Left = RecordSize /\ Evicted = 0 => Silent
<1>1. Size \in 1 .. RecordSize + 1 /\ Left \in 0 .. Size /\ RecordSize \in Nat \ {0}
  BY NumbersAre, LeftIs, Sizes
<1>2. Left # RecordSize + 1
  <2>1. SUFFICES ASSUME Left = RecordSize + 1 PROVE FALSE
    OBVIOUS
  <2>2. Size = RecordSize + 1 /\ Trimmed = 0
    <3>1. Trimmed \in Int
      BY <1>1, TrimmedIs
    <3>2. QED
      BY <1>1, <2>1, <3>1 DEF Left
  <2>3. ~Trimmable(Back(0 + 1))
    BY <1>1, <2>2, TrimmedIs
  <2>4. ~Trimmable(Back(1))
    BY <2>3
  <2> DEFINE k == Back(1)
  <2>5. k \in TxNr /\ Minus(k, txNrBegin) = RecordSize
    <3>1. 1 \in 0 .. Minus(txNrEnd, txNrBegin)
      BY <1>1 DEF Size
    <3>2. Minus(k, txNrBegin) = Size - 1 /\ k \in TxNr
      BY <3>1, NumbersAre, BackIs DEF Back, Size
    <3>3. QED
      BY <1>1, <2>2, <3>2
  <2> HIDE DEF k
  <2>6. Filed(txFlash, k).tx.silent
    BY <1>1, <2>2, <2>5 DEF IInv, Journal
  <2>7. TxAt(k).silent
    <3>1. CASE txFront # None /\ txMem[txFront].nr = k
      <4>1. Alike(Front, Filed(txFlash, k)) /\ Front.tx = txMem[txFront]
        BY <3>1, FrontIs DEF EntryOf
      <4>2. QED
        BY <2>6, <3>1, <4>1 DEF TxAt, Alike
    <3>2. CASE ~(txFront # None /\ txMem[txFront].nr = k)
      BY <2>6, <3>2 DEF TxAt, Filed
    <3>3. QED
      BY <3>1, <3>2
  <2>8. QED
    BY <2>4, <2>7 DEF Trimmable, k
<1>3. Left \in 0 .. RecordSize
  BY <1>1, <1>2
<1>4. HasRoom <=> Left < RecordSize
  BY DEF HasRoom, Left
<1>5. Evicted \in 0 .. 1 /\ (Evicting <=> Evicted = 1)
  BY DEF Evicted
<1>6. Evicting => ~HasRoom
  BY DEF Evicting
<1>7. QED
  BY <1>1, <1>3, <1>4, <1>5, <1>6 DEF Silent

\* The numbers of the journal by then.
LEMMA BegunNumbers ==
    ASSUME IInv, NEW q, beginTransaction(q)
    PROVE  /\ txNrBegin' \in TxNr /\ txNrEnd' \in TxNr
           /\ Size' = Left - Evicted + 1 /\ Size' \in 1 .. RecordSize + 1
           /\ \A k \in TxNr : Minus(k, txNrBegin') =
                 IF Minus(k, txNrBegin) < Evicted THEN MaxTxCnt - 1
                 ELSE Minus(k, txNrBegin) - Evicted
           /\ Back(1)' = newEnd
<1> USE Sizes
<1>1. /\ txNrBegin \in TxNr /\ txNrFront \in TxNr /\ newEnd \in TxNr
      /\ Minus(newEnd, txNrBegin) = Left
  BY NumbersAre, LeftIs
<1>2. /\ Left \in 0 .. RecordSize /\ Evicted \in 0 .. 1 /\ (Evicting <=> Evicted = 1)
      /\ Evicted = 1 => Left = RecordSize
  BY RoomIs
<1>3. /\ txNrEnd' = Next1(newEnd)
      /\ txNrBegin' = IF Evicting THEN Next1(txNrBegin) ELSE txNrBegin
  BY DEF beginTransaction
<1>4. txNrBegin' \in TxNr /\ txNrEnd' \in TxNr
  BY <1>1, <1>3, Next1Is
<1>5. Minus(txNrEnd', txNrBegin) = Left + 1
  <2>1. Left < MaxTxCnt - 1
    BY <1>2
  <2>2. QED
    BY <1>1, <1>3, <2>1, Next1Is
<1>6. ASSUME NEW k \in TxNr
      PROVE  Minus(k, txNrBegin') = IF Minus(k, txNrBegin) < Evicted THEN MaxTxCnt - 1
                                    ELSE Minus(k, txNrBegin) - Evicted
  <2>1. Minus(k, txNrBegin) \in Nat /\ (Minus(k, txNrBegin) = 0 <=> k = txNrBegin)
    BY <1>1, MinusType
  <2>2. CASE Evicting
    <3>1. Minus(k, Next1(txNrBegin)) = IF k = txNrBegin THEN MaxTxCnt - 1
                                       ELSE Minus(k, txNrBegin) - 1
      BY <1>1, Next1Is
    <3>2. Evicted = 1 /\ txNrBegin' = Next1(txNrBegin)
      BY <1>2, <1>3, <2>2
    <3>3. QED
      BY <2>1, <3>1, <3>2
  <2>3. CASE ~Evicting
    <3>1. Evicted = 0 /\ txNrBegin' = txNrBegin
      BY <1>2, <1>3, <2>3
    <3>2. QED
      BY <2>1, <3>1
  <2>4. QED
    BY <2>2, <2>3
<1>7. Size' = Minus(txNrEnd', txNrBegin')
  BY DEF Size
<1>8. Minus(txNrEnd', txNrBegin') = Left - Evicted + 1
  <2>1. Minus(txNrEnd', txNrBegin') = IF Minus(txNrEnd', txNrBegin) < Evicted THEN MaxTxCnt - 1
                                      ELSE Minus(txNrEnd', txNrBegin) - Evicted
    BY <1>4, <1>6
  <2>2. QED
    BY <1>2, <1>5, <2>1
<1>9. Size' \in 1 .. RecordSize + 1
  BY <1>2, <1>7, <1>8
<1>10. Back(1)' = newEnd
  <2>1. Back(1)' = Minus(txNrEnd', 1)
    BY DEF Back
  <2>2. 1 \in 0 .. Minus(txNrEnd', txNrBegin)
    BY <1>2, <1>5
  <2>3. Minus(txNrEnd', 1) \in TxNr /\ Minus(Minus(txNrEnd', 1), txNrBegin) = Left
    <3>1. /\ Minus(txNrEnd', 1) \in TxNr
          /\ Minus(Minus(txNrEnd', 1), txNrBegin) = Minus(txNrEnd', txNrBegin) - 1
      BY <1>1, <1>4, <2>2, BackIs
    <3>2. QED
      BY <1>2, <1>5, <3>1
  <2>4. QED
    BY <1>1, <2>1, <2>3, MinusInjective
<1>11. QED
  BY <1>4, <1>6, <1>7, <1>8, <1>9, <1>10

\* The entries that are left are as before, and newEnd is new.
Stays(k) == k \in TxNr /\ Evicted <= Minus(k, txNrBegin) /\ Minus(k, txNrBegin) < Left

\* The files by then.
LEMMA BegunFlash ==
    ASSUME IInv, NEW q, Sound(q), q.tx.nr = newEnd, beginTransaction(q)
    PROVE  /\ txFlash' \in [TxNr -> TxFiles] /\ txFlash'[newEnd] = q.files
           /\ \A k : Stays(k) => k # newEnd /\ txFlash'[k] = txFlash[k]
           /\ \A k \in TxNr : k # newEnd /\ ~Stays(k) => Found(txFlash'[k]) = {}
           /\ \A k \in TxNr : Minus(k, txNrBegin') < Size' <=> k = newEnd \/ Stays(k)
           /\ \A k : Stays(k) => Minus(k, txNrBegin') = Minus(k, txNrBegin) - Evicted
           /\ Minus(newEnd, txNrBegin') = Left - Evicted
<1> USE Sizes
<1>1. /\ txNrBegin \in TxNr /\ newEnd \in TxNr /\ Minus(newEnd, txNrBegin) = Left
      /\ \A k \in TxNr : k \in {Back(j) : j \in 1 .. Trimmed} <=>
            Left <= Minus(k, txNrBegin) /\ Minus(k, txNrBegin) < Size
      /\ Size \in 1 .. RecordSize + 1
  BY NumbersAre, LeftIs
<1>2. /\ Left \in 0 .. RecordSize /\ Evicted \in 0 .. 1 /\ (Evicting <=> Evicted = 1)
      /\ Evicted = 1 => Left = RecordSize
  BY RoomIs
<1>3. /\ Size' = Left - Evicted + 1
      /\ \A k \in TxNr : Minus(k, txNrBegin') =
            IF Minus(k, txNrBegin) < Evicted THEN MaxTxCnt - 1
            ELSE Minus(k, txNrBegin) - Evicted
  BY BegunNumbers
<1>4. \A k \in TxNr : Minus(k, txNrBegin) \in Nat /\ (Minus(k, txNrBegin) = 0 <=> k = txNrBegin)
  BY <1>1, MinusType
<1>5. q.files \in TxFiles /\ NoFiles \in TxFiles
  BY PairIs DEF Sound, Laid, NoFiles, TxFiles
<1>6. /\ txFlash \in [TxNr -> TxFiles]
      /\ txFlash' = [n \in TxNr |-> IF n = newEnd THEN q.files
                                    ELSE IF n \in gone THEN NoFiles ELSE txFlash[n]]
  BY DEF beginTransaction, IInv, TypeOK
<1>7. txFlash' \in [TxNr -> TxFiles] /\ txFlash'[newEnd] = q.files
  BY <1>1, <1>5, <1>6
<1>8. ASSUME NEW k \in TxNr
      PROVE  k \in gone <=> \/ Left <= Minus(k, txNrBegin) /\ Minus(k, txNrBegin) < Size
                            \/ Minus(k, txNrBegin) < Evicted
  <2>1. k \in gone <=> k \in {Back(j) : j \in 1 .. Trimmed} \/ (Evicting /\ k = txNrBegin)
    BY DEF gone
  <2>2. Evicting /\ k = txNrBegin <=> Minus(k, txNrBegin) < Evicted
    BY <1>2, <1>4
  <2>3. QED
    BY <1>1, <2>1, <2>2
<1>9. ASSUME NEW k, Stays(k)
      PROVE  /\ k # newEnd /\ txFlash'[k] = txFlash[k]
             /\ Minus(k, txNrBegin') = Minus(k, txNrBegin) - Evicted
  <2>1. k \in TxNr /\ Evicted <= Minus(k, txNrBegin) /\ Minus(k, txNrBegin) < Left
    BY <1>9 DEF Stays
  <2>2. k # newEnd /\ k \notin gone
    BY <1>1, <1>2, <1>4, <1>8, <2>1
  <2>3. ~(Minus(k, txNrBegin) < Evicted)
    BY <1>2, <1>4, <2>1
  <2>4. QED
    BY <1>3, <1>6, <2>1, <2>2, <2>3
<1>10. ASSUME NEW k \in TxNr, k # newEnd, ~Stays(k)
       PROVE  Found(txFlash'[k]) = {}
  <2>1. Minus(k, txNrBegin) < Evicted \/ Left <= Minus(k, txNrBegin)
    BY <1>2, <1>4, <1>10 DEF Stays
  <2>2. CASE k \in gone
    <3>1. txFlash'[k] = NoFiles
      BY <1>6, <1>10, <2>2
    <3>2. QED
      BY <3>1 DEF NoFiles, Found
  <2>3. CASE k \notin gone
    <3>1. Minus(k, txNrBegin) >= Size
      BY <1>1, <1>2, <1>4, <1>8, <2>1, <2>3
    <3>2. Found(txFlash[k]) = {}
      BY <3>1 DEF IInv, Journal
    <3>3. txFlash'[k] = txFlash[k]
      BY <1>6, <1>10, <2>3
    <3>4. QED
      BY <3>2, <3>3
  <2>4. QED
    BY <2>2, <2>3
<1>11. Minus(newEnd, txNrBegin') = Left - Evicted
  <2>1. ~(Minus(newEnd, txNrBegin) < Evicted)
    BY <1>1, <1>2
  <2>2. QED
    BY <1>1, <1>3, <2>1
<1>12. ASSUME NEW k \in TxNr
       PROVE  Minus(k, txNrBegin') < Size' <=> k = newEnd \/ Stays(k)
  <2>1. CASE Minus(k, txNrBegin) < Evicted
    <3>1. Minus(k, txNrBegin') = MaxTxCnt - 1
      BY <1>3, <2>1
    <3>2. ~(Minus(k, txNrBegin') < Size')
      BY <1>2, <1>3, <3>1
    <3>3. k # newEnd /\ ~Stays(k)
      BY <1>1, <1>2, <1>4, <2>1 DEF Stays
    <3>4. QED
      BY <3>2, <3>3
  <2>2. CASE ~(Minus(k, txNrBegin) < Evicted)
    <3>1. Minus(k, txNrBegin') = Minus(k, txNrBegin) - Evicted
      BY <1>3, <2>2
    <3>2. Minus(k, txNrBegin') < Size' <=> Minus(k, txNrBegin) <= Left
      BY <1>2, <1>3, <1>4, <3>1
    <3>3. Minus(k, txNrBegin) = Left <=> k = newEnd
      BY <1>1, MinusInjective
    <3>4. Stays(k) <=> Minus(k, txNrBegin) < Left
      BY <1>2, <1>4, <2>2 DEF Stays
    <3>5. QED
      BY <1>2, <1>4, <3>2, <3>3, <3>4
  <2>3. QED
    BY <2>1, <2>2
<1>13. QED
  BY <1>7, <1>9, <1>10, <1>11, <1>12

\* The new entry, and the ones that stay.
LEMMA BegunFiled ==
    ASSUME IInv, NEW q, Sound(q), q.tx.nr = newEnd, beginTransaction(q)
    PROVE  /\ EntryOf(q, txNrBegin', Size', txFlash')
           /\ \A k : Stays(k) => /\ Filed(txFlash', k) = Filed(txFlash, k)
                                 /\ InWindow(txNrBegin, Size, k)
<1>1. /\ txFlash'[newEnd] = q.files
      /\ \A k : Stays(k) => txFlash'[k] = txFlash[k]
      /\ \A k \in TxNr : Minus(k, txNrBegin') < Size' <=> k = newEnd \/ Stays(k)
  BY BegunFlash
<1>2. newEnd \in TxNr /\ txNrBegin \in TxNr /\ Left \in 0 .. Size /\ Size \in Nat
  BY NumbersAre, LeftIs, Sizes
<1>3. InWindow(txNrBegin', Size', q.tx.nr)
  BY <1>1, <1>2 DEF InWindow
<1>4. EntryOf(q, txNrBegin', Size', txFlash')
  BY <1>1, <1>3, EntryFrom
<1>5. ASSUME NEW k, Stays(k)
      PROVE  Filed(txFlash', k) = Filed(txFlash, k) /\ InWindow(txNrBegin, Size, k)
  <2>1. Filed(txFlash', k) = Filed(txFlash, k)
    BY <1>1, <1>5 DEF Filed
  <2>2. k \in TxNr /\ Minus(k, txNrBegin) < Left
    BY <1>5 DEF Stays
  <2>3. Minus(k, txNrBegin) \in Nat
    BY <1>2, <2>2, MinusType, Sizes
  <2>4. QED
    BY <1>2, <2>1, <2>2, <2>3 DEF InWindow
<1>6. QED
  BY <1>4, <1>5

\* The journal by then.
LEMMA BegunJournal ==
    ASSUME IInv, NEW q, Sound(q), q.tx.nr = newEnd, q.session = nextSession,
           Silent => q.tx.silent, beginTransaction(q)
    PROVE  Journal(txNrBegin', Size', txFlash', nextSession')
<1> USE Sizes
<1>1. /\ txFlash' \in [TxNr -> TxFiles]
      /\ \A k \in TxNr : k # newEnd /\ ~Stays(k) => Found(txFlash'[k]) = {}
      /\ \A k \in TxNr : Minus(k, txNrBegin') < Size' <=> k = newEnd \/ Stays(k)
      /\ \A k : Stays(k) => Minus(k, txNrBegin') = Minus(k, txNrBegin) - Evicted
      /\ Minus(newEnd, txNrBegin') = Left - Evicted
  BY BegunFlash
<1>2. /\ \A k : Stays(k) => /\ Filed(txFlash', k) = Filed(txFlash, k)
                            /\ InWindow(txNrBegin, Size, k)
      /\ EntryOf(q, txNrBegin', Size', txFlash')
  BY BegunFiled
<1>3. /\ txNrBegin' \in TxNr /\ Size' = Left - Evicted + 1 /\ Size' \in 1 .. RecordSize + 1
  BY BegunNumbers
<1>4. /\ Left \in 0 .. RecordSize /\ Evicted \in 0 .. 1
      /\ Left = RecordSize /\ Evicted = 0 => Silent
  BY RoomIs
<1>5. /\ newEnd \in TxNr /\ txNrBegin \in TxNr
      /\ \A k \in TxNr : Minus(k, txNrBegin) \in Nat /\ Minus(k, txNrBegin') \in Nat
  BY <1>3, NumbersAre, LeftIs, MinusType
<1>6. nextSession' = nextSession + 1 /\ nextSession \in Int
  BY DEF beginTransaction, IInv, TypeOK
<1>7. Journal(txNrBegin, Size, txFlash, nextSession)
  BY DEF IInv
<1>8. /\ Sound(Filed(txFlash', newEnd)) /\ Filed(txFlash', newEnd).tx.nr = newEnd
      /\ Filed(txFlash', newEnd).session = nextSession
      /\ Silent => Filed(txFlash', newEnd).tx.silent
  <2>1. Alike(q, Filed(txFlash', newEnd))
    BY <1>2 DEF EntryOf
  <2>2. Sound(Filed(txFlash', newEnd))
    <3>1. txFlash'[newEnd] = q.files
      BY BegunFlash
    <3>2. QED
      BY <3>1, LoadIs DEF Filed
  <2>3. QED
    BY <2>1, <2>2 DEF Alike
<1>9. ASSUME NEW k, Stays(k)
      PROVE  /\ Sound(Filed(txFlash', k)) /\ Filed(txFlash', k).tx.nr = k
             /\ Filed(txFlash', k).session < nextSession /\ Filed(txFlash', k).session \in Int
             /\ k \in TxNr /\ Minus(k, txNrBegin') < Left - Evicted
  <2>1. k \in TxNr /\ Minus(k, txNrBegin) < Size /\ Filed(txFlash', k) = Filed(txFlash, k)
    BY <1>2, <1>9 DEF InWindow
  <2>2. /\ Sound(Filed(txFlash, k)) /\ Filed(txFlash, k).tx.nr = k
        /\ Filed(txFlash, k).session < nextSession
    BY <1>7, <2>1 DEF Journal
  <2>3. Filed(txFlash, k).session \in Int
    <3>1. Filed(txFlash, k).session \in Session
      BY <2>2, PairIs DEF Sound, Laid
    <3>2. QED
      BY <3>1 DEF Session
  <2>4. Minus(k, txNrBegin') < Left - Evicted
    <3>1. Minus(k, txNrBegin) < Left /\ Minus(k, txNrBegin') = Minus(k, txNrBegin) - Evicted
      BY <1>1, <1>9 DEF Stays
    <3>2. QED
      BY <1>4, <1>5, <2>1, <3>1
  <2>5. QED
    BY <2>1, <2>2, <2>3, <2>4
<1>10. \A k \in TxNr : Minus(k, txNrBegin') < Size' =>
          /\ Sound(Filed(txFlash', k)) /\ Filed(txFlash', k).tx.nr = k
          /\ Filed(txFlash', k).session < nextSession'
  <2>1. TAKE k \in TxNr
  <2>2. HAVE Minus(k, txNrBegin') < Size'
  <2>3. CASE k = newEnd
    BY <1>6, <1>8, <2>3
  <2>4. CASE Stays(k)
    BY <1>6, <1>9, <2>4
  <2>5. QED
    BY <1>1, <2>2, <2>3, <2>4
<1>11. \A k \in TxNr : Minus(k, txNrBegin') >= Size' => Found(txFlash'[k]) = {}
  <2>1. TAKE k \in TxNr
  <2>2. HAVE Minus(k, txNrBegin') >= Size'
  <2>3. ~(Minus(k, txNrBegin') < Size')
    BY <1>3, <1>5, <2>2
  <2>4. QED
    BY <1>1, <2>3
<1>12. \A j, k \in TxNr : Minus(j, txNrBegin') < Minus(k, txNrBegin') /\ Minus(k, txNrBegin') < Size' =>
          Filed(txFlash', j).session < Filed(txFlash', k).session
  <2>1. TAKE j, k \in TxNr
  <2>2. HAVE Minus(j, txNrBegin') < Minus(k, txNrBegin') /\ Minus(k, txNrBegin') < Size'
  <2>3. Minus(j, txNrBegin') < Size'
    BY <1>3, <1>5, <2>2
  <2>4. (j = newEnd \/ Stays(j)) /\ (k = newEnd \/ Stays(k))
    BY <1>1, <2>2, <2>3
  <2>5. j # newEnd
    <3>1. SUFFICES ASSUME j = newEnd PROVE FALSE
      OBVIOUS
    <3>2. k # newEnd
      BY <1>5, <2>2, <3>1
    <3>3. Minus(k, txNrBegin') < Left - Evicted
      BY <1>9, <2>4, <3>2
    <3>4. QED
      BY <1>1, <1>4, <1>5, <2>2, <3>1, <3>3
  <2>6. CASE k = newEnd
    BY <1>8, <1>9, <2>4, <2>5, <2>6
  <2>7. CASE k # newEnd
    <3>1. Stays(j) /\ Stays(k)
      BY <2>4, <2>5, <2>7
    <3>2. Minus(j, txNrBegin) < Minus(k, txNrBegin) /\ Minus(k, txNrBegin) < Size
      <4>1. Minus(k, txNrBegin) < Size
        BY <1>2, <3>1 DEF InWindow
      <4>2. Minus(j, txNrBegin') = Minus(j, txNrBegin) - Evicted
            /\ Minus(k, txNrBegin') = Minus(k, txNrBegin) - Evicted
        BY <1>1, <3>1
      <4>3. QED
        BY <1>4, <1>5, <2>2, <4>1, <4>2
    <3>3. Filed(txFlash, j).session < Filed(txFlash, k).session
      BY <1>7, <3>2 DEF Journal
    <3>4. QED
      BY <1>2, <3>1, <3>3
  <2>8. QED
    BY <2>6, <2>7
<1>13. \A k \in TxNr : Minus(k, txNrBegin') = RecordSize /\ Minus(k, txNrBegin') < Size' =>
          Filed(txFlash', k).tx.silent
  <2>1. TAKE k \in TxNr
  <2>2. HAVE Minus(k, txNrBegin') = RecordSize /\ Minus(k, txNrBegin') < Size'
  <2>3. Left = RecordSize /\ Evicted = 0
    BY <1>3, <1>4, <2>2
  <2>4. k = newEnd
    <3>1. Stays(k) => Minus(k, txNrBegin') < Left - Evicted
      BY <1>9
    <3>2. ~Stays(k)
      BY <1>4, <2>2, <2>3, <3>1
    <3>3. QED
      BY <1>1, <2>2, <3>2
  <2>5. QED
    BY <1>4, <1>8, <2>3, <2>4
<1>14. QED
  BY <1>1, <1>3, <1>10, <1>11, <1>12, <1>13 DEF Journal

\* What is owed is not removed.
LEMMA OwedStays ==
    ASSUME IInv, ~BeginEarly, CanBegin, NEW m \in owed
    PROVE  /\ m[2] # ToEnd
           /\ \E k : Stays(k) /\ Filed(txFlash, k).session = m[1] /\ Owes(Filed(txFlash, k).tx, m[2])
<1>1. PICK k \in TxNr : /\ Minus(k, txNrBegin) < Size
                        /\ Filed(txFlash, k).session = m[1] /\ Owes(Filed(txFlash, k).tx, m[2])
  BY DEF IInv, Owed
<1>2. m[2] # ToEnd
  <2>1. m[2] = ToEnd => transaction = m[1]
    BY DEF IInv
  <2>2. transaction = None /\ m[1] \in Session
    BY DEF CanBegin, IInv, TypeOK
  <2>3. QED
    BY <2>1, <2>2, NoneAssumption
<1>3. k \notin gone
  <2>1. SUFFICES ASSUME k \in gone PROVE FALSE
    OBVIOUS
  <2>2. Done(Filed(txFlash, k).tx)
    BY <1>1, <2>1, GoneIsDone DEF InWindow
  <2>3. Sound(Filed(txFlash, k))
    BY <1>1 DEF IInv, Journal
  <2>4. QED
    BY <1>1, <2>2, <2>3, DoneOwesNothing
<1>4. Stays(k)
  <2>1. /\ Left \in Int /\ Minus(k, txNrBegin) \in Nat
        /\ (Minus(k, txNrBegin) = 0 <=> k = txNrBegin)
        /\ k \in {Back(j) : j \in 1 .. Trimmed} <=>
              Left <= Minus(k, txNrBegin) /\ Minus(k, txNrBegin) < Size
    BY NumbersAre, LeftIs, MinusType, Sizes
  <2>2. k \notin {Back(j) : j \in 1 .. Trimmed} /\ ~(Evicting /\ k = txNrBegin)
    BY <1>3 DEF gone
  <2>3. Minus(k, txNrBegin) < Left
    BY <1>1, <2>1, <2>2
  <2>4. Evicted <= Minus(k, txNrBegin)
    BY <2>1, <2>2 DEF Evicted
  <2>5. QED
    BY <2>3, <2>4 DEF Stays
<1>5. QED
  BY <1>1, <1>2, <1>4

\* What is owed by then.
LEMMA BegunOwed ==
    ASSUME IInv, ~BeginEarly, CanBegin, NEW q, Sound(q), q.tx.nr = newEnd, q.session = nextSession,
           beginTransaction(q),
           \A m \in owed' : m \in owed \/ (m[1] = q.session /\ Owes(q.tx, m[2]))
    PROVE  /\ Owed(owed', txNrBegin', Size', txFlash')
           /\ \A m \in owed' : m[2] = ToEnd => transaction' = m[1]
<1>1. /\ \A k \in TxNr : Minus(k, txNrBegin') < Size' <=> k = newEnd \/ Stays(k)
      /\ Minus(newEnd, txNrBegin') = Left - Evicted
  BY BegunFlash
<1>2. /\ \A k : Stays(k) => Filed(txFlash', k) = Filed(txFlash, k)
      /\ EntryOf(q, txNrBegin', Size', txFlash')
  BY BegunFiled
<1>3. ASSUME NEW m \in owed', m[1] = q.session, Owes(q.tx, m[2])
      PROVE  \E k \in TxNr : /\ Minus(k, txNrBegin') < Size'
                             /\ Filed(txFlash', k).session = m[1] /\ Owes(Filed(txFlash', k).tx, m[2])
                             /\ m[2] = ToEnd => Minus(k, txNrBegin') = Size' - 1
  <2>1. Alike(q, Filed(txFlash', newEnd)) /\ newEnd \in TxNr
    BY <1>2 DEF EntryOf, InWindow
  <2>2. Filed(txFlash', newEnd).session = m[1] /\ Owes(Filed(txFlash', newEnd).tx, m[2])
    BY <1>3, <2>1, AlikeSame DEF Alike
  <2>3. Minus(newEnd, txNrBegin') = Size' - 1
    <3>1. Size' = Left - Evicted + 1 /\ Left \in Int /\ Evicted \in Int
      BY BegunNumbers, RoomIs, Sizes
    <3>2. QED
      BY <1>1, <3>1
  <2>4. QED
    BY <1>1, <2>1, <2>2, <2>3
<1>4. ASSUME NEW m \in owed'
      PROVE  \E k \in TxNr : /\ Minus(k, txNrBegin') < Size'
                             /\ Filed(txFlash', k).session = m[1] /\ Owes(Filed(txFlash', k).tx, m[2])
                             /\ m[2] = ToEnd => Minus(k, txNrBegin') = Size' - 1
  <2>1. CASE m \in owed
    <3>1. PICK k : Stays(k) /\ Filed(txFlash, k).session = m[1] /\ Owes(Filed(txFlash, k).tx, m[2])
      BY <2>1, OwedStays
    <3>2. m[2] # ToEnd
      BY <2>1, OwedStays
    <3>3. k \in TxNr /\ Minus(k, txNrBegin') < Size' /\ Filed(txFlash', k) = Filed(txFlash, k)
      BY <1>1, <1>2, <3>1 DEF Stays
    <3>4. QED
      BY <3>1, <3>2, <3>3
  <2>2. CASE m[1] = q.session /\ Owes(q.tx, m[2])
    BY <1>3, <2>2
  <2>3. QED
    BY <2>1, <2>2
<1>5. Owed(owed', txNrBegin', Size', txFlash')
  BY <1>4 DEF Owed
<1>6. ASSUME NEW m \in owed', m[2] = ToEnd PROVE transaction' = m[1]
  <2>1. m \notin owed
    BY <1>6, OwedStays
  <2>2. transaction' = nextSession
    BY DEF beginTransaction
  <2>3. QED
    BY <2>1, <2>2
<1>7. QED
  BY <1>5, <1>6

\* The new transaction is younger than what the server has received.
LEMMA BegunInOrder ==
    ASSUME IInv, NEW q, Sound(q), q.tx.nr = newEnd, q.session = nextSession, beginTransaction(q)
    PROVE  InOrder(received, txNrBegin', Size', txFlash') /\ received[1] < nextSession'
<1>1. \A k \in TxNr : Minus(k, txNrBegin') < Size' <=> k = newEnd \/ Stays(k)
  BY BegunFlash
<1>2. /\ \A k : Stays(k) => /\ Filed(txFlash', k) = Filed(txFlash, k)
                            /\ InWindow(txNrBegin, Size, k)
      /\ EntryOf(q, txNrBegin', Size', txFlash')
  BY BegunFiled
<1>3. received[1] < nextSession /\ received[1] \in Int /\ nextSession \in Int
  BY DEF IInv, TypeOK, Session
<1>4. received[1] < nextSession'
  BY <1>3 DEF beginTransaction
<1>5. ASSUME NEW k \in TxNr, Minus(k, txNrBegin') < Size', ~Done(Filed(txFlash', k).tx)
      PROVE  NotBefore(received, Filed(txFlash', k))
  <2>1. CASE k = newEnd
    <3>1. Alike(q, Filed(txFlash', k))
      BY <1>2, <2>1 DEF EntryOf
    <3>2. NotBefore(received, q)
      BY <1>3 DEF NotBefore
    <3>3. QED
      BY <3>1, <3>2, AlikeSame
  <2>2. CASE Stays(k)
    <3>1. Filed(txFlash', k) = Filed(txFlash, k) /\ Minus(k, txNrBegin) < Size
      BY <1>2, <2>2 DEF InWindow
    <3>2. NotBefore(received, Filed(txFlash, k))
      BY <1>5, <3>1 DEF IInv, InOrder
    <3>3. QED
      BY <3>1, <3>2
  <2>3. QED
    BY <1>1, <1>5, <2>1, <2>2
<1>6. QED
  BY <1>4, <1>5 DEF InOrder

\* The front stays where it is, or goes back with the end or on with the beginning.
LEMMA BegunFront ==
    ASSUME IInv, NEW q, beginTransaction(q)
    PROVE  /\ txNrFront' \in TxNr
           /\ \/ Stays(txNrFront) /\ txNrFront' = txNrFront
              \/ ~Stays(txNrFront) /\ txNrFront' = newEnd /\ Minus(txNrFront, txNrBegin) >= Left
              \/ ~Stays(txNrFront) /\ txNrFront' = txNrBegin'
<1> USE Sizes
<1>1. /\ txNrBegin \in TxNr /\ txNrFront \in TxNr /\ newEnd \in TxNr
      /\ Minus(newEnd, txNrBegin) = Left /\ Left \in 0 .. Size /\ Size \in Nat
      /\ Minus(txNrFront, txNrBegin) \in 0 .. Size
      /\ Pending = Size - Minus(txNrFront, txNrBegin)
      /\ (Minus(txNrFront, txNrBegin) = 0 <=> txNrFront = txNrBegin)
  BY NumbersAre, LeftIs, MinusType
<1>2. /\ Evicted \in 0 .. 1 /\ (Evicting <=> Evicted = 1)
      /\ Evicted = 1 => Left = RecordSize
  BY RoomIs
<1>3. /\ txNrBegin' = IF Evicting THEN Next1(txNrBegin) ELSE txNrBegin
      /\ txNrFront' = IF Evicting /\ frontAfterTrim = txNrBegin THEN Next1(txNrBegin)
                      ELSE frontAfterTrim
  BY DEF beginTransaction
<1>4. frontAfterTrim = IF Minus(txNrFront, txNrBegin) >= Left THEN newEnd ELSE txNrFront
  <2>1. Pending <= Trimmed <=> Minus(txNrFront, txNrBegin) >= Left
    <3>1. Trimmed \in 0 .. Size
      BY TrimmedIs
    <3>2. QED
      BY <1>1, <3>1 DEF Left
  <2>2. QED
    BY <2>1 DEF frontAfterTrim, Pending
<1>5. txNrBegin' \in TxNr
  BY BegunNumbers
<1>6. CASE Minus(txNrFront, txNrBegin) >= Left
  <2>1. frontAfterTrim = newEnd
    BY <1>4, <1>6
  <2>2. ~Stays(txNrFront)
    BY <1>1, <1>6 DEF Stays
  <2>3. ~(Evicting /\ newEnd = txNrBegin)
    <3>1. Evicting => Minus(newEnd, txNrBegin) # 0
      BY <1>1, <1>2
    <3>2. QED
      BY <1>1, <3>1, MinusType
  <2>4. txNrFront' = newEnd
    BY <1>3, <2>1, <2>3
  <2>5. QED
    BY <1>1, <1>6, <2>2, <2>4
<1>7. CASE ~(Minus(txNrFront, txNrBegin) >= Left)
  <2>1. frontAfterTrim = txNrFront
    BY <1>4, <1>7
  <2>2. CASE Evicting /\ txNrFront = txNrBegin
    <3>1. txNrFront' = txNrBegin'
      BY <1>3, <2>1, <2>2
    <3>2. ~Stays(txNrFront)
      BY <1>1, <1>2, <2>2 DEF Stays
    <3>3. QED
      BY <1>5, <3>1, <3>2
  <2>3. CASE ~(Evicting /\ txNrFront = txNrBegin)
    <3>1. txNrFront' = txNrFront
      BY <1>3, <2>1, <2>3
    <3>2. Evicted <= Minus(txNrFront, txNrBegin)
      BY <1>1, <1>2, <2>3
    <3>3. Stays(txNrFront)
      BY <1>1, <1>7, <3>2 DEF Stays
    <3>4. QED
      BY <1>1, <3>1, <3>3
  <2>4. QED
    BY <2>2, <2>3
<1>8. QED
  BY <1>6, <1>7

\* What the queue has passed by is still done with.
LEMMA BegunPassed ==
    ASSUME IInv, NEW q, Sound(q), q.tx.nr = newEnd, beginTransaction(q)
    PROVE  Passed'
<1> DEFINE F == Minus(txNrFront, txNrBegin)
           F1 == Minus(txNrFront', txNrBegin')
           Before(k) == Minus(k, txNrBegin) < F
<1>1. /\ Left \in 0 .. RecordSize /\ Evicted \in 0 .. 1 /\ Left \in Nat /\ Evicted \in Nat
      /\ Size' = Left - Evicted + 1 /\ Size' \in 1 .. RecordSize + 1
  BY RoomIs, BegunNumbers, Sizes
<1>2. /\ txNrBegin \in TxNr /\ txNrFront \in TxNr /\ txNrBegin' \in TxNr /\ txNrFront' \in TxNr
      /\ newEnd \in TxNr
  BY NumbersAre, BegunNumbers, BegunFront, LeftIs
<1>3. /\ \A k \in TxNr : Minus(k, txNrBegin) \in Nat /\ Minus(k, txNrBegin') \in Nat
      /\ F \in Nat /\ F1 \in Nat
  BY <1>2, MinusType, Sizes
<1>4. /\ \A k \in TxNr : Minus(k, txNrBegin') < Size' <=> k = newEnd \/ Stays(k)
      /\ \A k : Stays(k) => Minus(k, txNrBegin') = Minus(k, txNrBegin) - Evicted
      /\ Minus(newEnd, txNrBegin') = Left - Evicted
  BY BegunFlash
<1>5. \A k \in TxNr : Before(k) => Done(Filed(txFlash, k).tx)
  BY DEF IInv, Passed
<1>6. \A k : Stays(k) => Filed(txFlash', k) = Filed(txFlash, k)
  BY BegunFiled
<1>7. /\ F1 <= Left - Evicted /\ F1 <= Size'
      /\ \A k : Stays(k) /\ Minus(k, txNrBegin') < F1 => Before(k)
  <2>1. CASE Stays(txNrFront) /\ txNrFront' = txNrFront
    <3>1. F1 = F - Evicted /\ F < Left
      BY <1>4, <2>1 DEF Stays
    <3>2. F1 <= Left - Evicted /\ F1 <= Size'
      BY <1>1, <1>3, <3>1
    <3>3. ASSUME NEW k, Stays(k), Minus(k, txNrBegin') < F1 PROVE Before(k)
      <4>1. k \in TxNr
        BY <3>3 DEF Stays
      <4>2. QED
        BY <1>1, <1>3, <1>4, <3>1, <3>3, <4>1
    <3>4. QED
      BY <3>2, <3>3
  <2>2. CASE txNrFront' = newEnd /\ F >= Left
    <3>1. F1 = Left - Evicted
      BY <1>4, <2>2
    <3>2. F1 <= Left - Evicted /\ F1 <= Size'
      BY <1>1, <1>3, <3>1
    <3>3. ASSUME NEW k, Stays(k) PROVE Before(k)
      <4>1. k \in TxNr /\ Minus(k, txNrBegin) < Left
        BY <3>3 DEF Stays
      <4>2. QED
        BY <1>1, <1>3, <2>2, <4>1
    <3>4. QED
      BY <3>2, <3>3
  <2>3. CASE txNrFront' = txNrBegin'
    <3>1. F1 = 0
      BY <1>2, <2>3, MinusType
    <3>2. Left - Evicted \in Nat
      BY <1>1, <1>2, <1>3, <1>4
    <3>3. QED
      BY <1>1, <1>3, <3>1, <3>2 DEF Stays
  <2>4. QED
    BY <2>1, <2>2, <2>3, BegunFront
<1>8. ASSUME NEW k \in TxNr, Minus(k, txNrBegin') < F1
      PROVE  Done(Filed(txFlash', k).tx)
  <2>1. Stays(k)
    BY <1>1, <1>3, <1>4, <1>7, <1>8
  <2>2. QED
    BY <1>5, <1>6, <1>7, <1>8, <2>1
<1>9. QED
  BY <1>7, <1>8 DEF Passed, Size

\* The object at the front stays in the queue.
LEMMA BegunKeepsFront ==
    ASSUME IInv, ~BeginEarly, CanBegin, NEW q, Sound(q), q.tx.nr = newEnd, beginTransaction(q),
           txFront # None
    PROVE  /\ Stays(txNrFront) /\ txNrFront' = txNrFront /\ txFlash'[txNrFront] = txFlash[txNrFront]
           /\ Front.session < nextSession
<1>1. /\ Front.session = txFront /\ Front.tx.nr = txNrFront
      /\ EntryOf(Front, txNrBegin, Size, txFlash)
  BY FrontIs
<1>2. txNrFront \in TxNr /\ Minus(txNrFront, txNrBegin) < Size
  BY <1>1 DEF EntryOf, InWindow
<1>3. txNrFront \notin gone
  <2>1. txMem[txFront].nr = txNrFront
    BY DEF IInv, Objects
  <2>2. QED
    BY <2>1 DEF CanBegin, Released
<1>4. Stays(txNrFront)
  <2>1. txNrFront \notin {Back(j) : j \in 1 .. Trimmed}
    BY <1>3 DEF gone
  <2>2. ~(Left <= Minus(txNrFront, txNrBegin))
    BY <1>2, <2>1, LeftIs
  <2>3. Minus(txNrFront, txNrBegin) \in 0 .. MaxTxCnt - 1
    BY <1>2, NumbersAre, MinusType
  <2>4. Left \in Nat /\ MaxTxCnt \in Nat
    BY RoomIs, Sizes
  <2>5. Minus(txNrFront, txNrBegin) < Left
    BY <2>2, <2>3, <2>4
  <2>6. Evicted <= Minus(txNrFront, txNrBegin)
    <3>1. CASE Evicting
      <4>1. txNrFront # txNrBegin
        BY <1>3, <3>1 DEF gone
      <4>2. Minus(txNrFront, txNrBegin) # 0
        BY <4>1, <1>2, NumbersAre, MinusType
      <4>3. QED
        BY <4>2, <2>3, <2>4, RoomIs
    <3>2. CASE ~Evicting
      BY <3>2, <2>3, <2>4 DEF Evicted
    <3>3. QED
      BY <3>1, <3>2
  <2>7. QED
    BY <1>2, <2>5, <2>6 DEF Stays
<1>5. txNrFront' = txNrFront
  BY <1>4, BegunFront
<1>6. txFlash'[txNrFront] = txFlash[txNrFront]
  BY <1>4, BegunFlash
<1>7. Front.session < nextSession
  <2>1. Filed(txFlash, txNrFront).session < nextSession
    BY <1>2 DEF IInv, Journal
  <2>2. QED
    BY <1>1, <2>1 DEF EntryOf, Alike
<1>8. QED
  BY <1>4, <1>5, <1>6, <1>7

\* Whether the queue refers to the new transaction.
FrontBegun(q) ==
    txFront' = txFront \/ (txFront = None /\ txFront' = q.session /\ txNrFront' = newEnd)

\* The objects by then.
LEMMA BegunObjects ==
    ASSUME IInv, ~BeginEarly, CanBegin, NEW q, Sound(q), q.tx.nr = newEnd, q.session = nextSession,
           beginTransaction(q), FrontBegun(q)
    PROVE  /\ nextSession \in Session /\ transaction' = nextSession
           /\ txMem' \in [Session -> Tx] /\ txMem'[nextSession] = q.tx
           /\ \A s \in Session : Cardinality(txMem'[s].seqNos) <= EventRecordSize
           /\ txFront # None => txMem'[txFront] = txMem[txFront]
           /\ Objects'
<1>1. q \in Pairs /\ Cardinality(q.tx.seqNos) <= EventRecordSize
  BY DEF Sound, Laid
<1>2. nextSession \in Session /\ q.tx \in Tx /\ q = Pair(q.session, q.tx, q.files)
  BY <1>1, PairIs DEF Pair
<1>3. txMem' = [txMem EXCEPT ![nextSession] = q.tx] /\ transaction' = nextSession
  BY DEF beginTransaction
<1>4. txMem \in [Session -> Tx] /\ \A s \in Session : Cardinality(txMem[s].seqNos) <= EventRecordSize
  BY DEF IInv, TypeOK
<1>5. /\ txMem' \in [Session -> Tx] /\ txMem'[nextSession] = q.tx
      /\ \A s \in Session : s # nextSession => txMem'[s] = txMem[s]
  BY <1>2, <1>3, <1>4
<1>6. \A s \in Session : Cardinality(txMem'[s].seqNos) <= EventRecordSize
  <2>1. TAKE s \in Session
  <2>2. CASE s = nextSession
    BY <1>1, <1>5, <2>2
  <2>3. CASE s # nextSession
    BY <1>4, <1>5, <2>3
  <2>4. QED
    BY <2>2, <2>3
<1>7. txFront # None => txFront \in Session /\ txMem'[txFront] = txMem[txFront]
  <2>1. SUFFICES ASSUME txFront # None PROVE txFront \in Session /\ txMem'[txFront] = txMem[txFront]
    OBVIOUS
  <2>2. Front.session = txFront /\ txFront \in Session
    BY <2>1, FrontIs
  <2>3. txFront < nextSession
    BY <2>1, <2>2, BegunKeepsFront
  <2>4. txFront # nextSession
    BY <2>3, <1>2 DEF Session
  <2>5. QED
    BY <2>2, <2>4, <1>5
<1>8. /\ txFlash'[newEnd] = q.files /\ Minus(newEnd, txNrBegin') = Left - Evicted
      /\ Size' = Left - Evicted + 1 /\ Back(1)' = newEnd
      /\ \A k : Stays(k) => Minus(k, txNrBegin') = Minus(k, txNrBegin) - Evicted
  BY BegunFlash, BegunNumbers
<1>9. Current' = q
  BY <1>2, <1>3, <1>5, <1>8 DEF Current
<1>10. transaction' # None => txMem'[transaction'].nr = Back(1)' /\ Sound(Current')
  BY <1>3, <1>5, <1>8, <1>9
<1>11. /\ txNrBegin' \in TxNr /\ txNrEnd' \in TxNr /\ txNrFront' \in TxNr /\ txNrBegin \in TxNr
       /\ newEnd \in TxNr
  BY NumbersAre, BegunNumbers, BegunFront, LeftIs
<1>12. Minus(txNrFront', txNrBegin') <= Left - Evicted => Pending' > 0
  <2>1. Pending' = Minus(txNrEnd', txNrFront') /\ Size' = Minus(txNrEnd', txNrBegin')
    BY DEF Pending, Size
  <2>2. Pending' = IF Size' >= Minus(txNrFront', txNrBegin') THEN Size' - Minus(txNrFront', txNrBegin')
                   ELSE Size' + MaxTxCnt - Minus(txNrFront', txNrBegin')
    BY <1>11, <2>1, MinusFrom
  <2>3. Minus(txNrFront', txNrBegin') \in Nat /\ Left \in Nat /\ Evicted \in 0 .. 1
    BY <1>11, MinusType, Sizes, RoomIs
  <2>4. QED
    BY <1>8, <2>2, <2>3
<1>13. ASSUME txFront' # None
       PROVE  txMem'[txFront'].nr = txNrFront' /\ Pending' > 0 /\ Sound(Front')
  <2>1. CASE txFront # None /\ txFront' = txFront
    <3>1. /\ Stays(txNrFront) /\ txNrFront' = txNrFront /\ txFlash'[txNrFront] = txFlash[txNrFront]
          /\ txMem'[txFront] = txMem[txFront]
      BY <1>7, <2>1, BegunKeepsFront
    <3>2. txMem[txFront].nr = txNrFront /\ Sound(Front)
      BY <2>1 DEF IInv, Objects
    <3>3. Front' = Front
      BY <2>1, <3>1, <3>2 DEF Front
    <3>4. Minus(txNrFront', txNrBegin') <= Left - Evicted
      <4>1. Minus(txNrFront', txNrBegin') = Minus(txNrFront, txNrBegin) - Evicted
        BY <1>8, <3>1
      <4>2. Minus(txNrFront, txNrBegin) \in Nat /\ Left \in Nat /\ Evicted \in 0 .. 1
        BY NumbersAre, MinusType, Sizes, RoomIs
      <4>3. Minus(txNrFront, txNrBegin) < Left
        BY <3>1 DEF Stays
      <4>4. QED
        BY <4>1, <4>2, <4>3
    <3>5. QED
      BY <1>12, <2>1, <3>1, <3>2, <3>3, <3>4
  <2>2. CASE txFront' = nextSession /\ txNrFront' = newEnd
    <3>1. Front' = q
      BY <1>2, <1>5, <1>8, <2>2 DEF Front
    <3>2. Pending' > 0
      <4>1. Left - Evicted \in Int
        BY RoomIs
      <4>2. QED
        BY <1>8, <1>12, <2>2, <4>1
    <3>3. QED
      BY <1>5, <2>2, <3>1, <3>2
  <2>3. QED
    BY <1>13, <2>1, <2>2 DEF FrontBegun
<1>14. Objects'
  BY <1>10, <1>13 DEF Objects
<1>15. QED
  BY <1>2, <1>3, <1>5, <1>6, <1>7, <1>14

\* The transaction has begun, as q.
LEMMA BeginStep ==
    ASSUME IInv, ~BeginEarly, CanBegin, NEW q, Sound(q), q.tx.nr = newEnd, q.session = nextSession,
           Silent => q.tx.silent, beginTransaction(q), FrontBegun(q),
           timed' = timed, boots' = boots, FrontTypes', FrontIsFirst', received' = received,
           owed' \subseteq Session \X (SeqNo \cup {ToEnd}),
           \A m \in owed' : m \in owed \/ (m[1] = q.session /\ Owes(q.tx, m[2]))
    PROVE  IInv'
<1>1. /\ nextSession \in Session /\ transaction' = nextSession
      /\ txMem' \in [Session -> Tx]
      /\ \A s \in Session : Cardinality(txMem'[s].seqNos) <= EventRecordSize
      /\ Objects'
  BY BegunObjects
<1>2. /\ txNrBegin' \in TxNr /\ txNrEnd' \in TxNr /\ txNrFront' \in TxNr
      /\ txFlash' \in [TxNr -> TxFiles]
  BY BegunNumbers, BegunFront, BegunFlash
<1>3. Journal(txNrBegin', Size', txFlash', nextSession')
  BY BegunJournal
<1>4. Passed'
  BY BegunPassed
<1>5. /\ Owed(owed', txNrBegin', Size', txFlash')
      /\ \A m \in owed' : m[2] = ToEnd => transaction' = m[1]
  BY BegunOwed
<1>6. /\ InOrder(received', txNrBegin', Size', txFlash') /\ received'[1] < nextSession'
  BY BegunInOrder
<1>7. TypeOK'
  <2>1. txFront' \in Session \cup {None}
    <3>1. txFront \in Session \cup {None}
      BY DEF IInv, TypeOK
    <3>2. QED
      BY <1>1, <3>1 DEF FrontBegun
  <2>2. nextSession' \in 2 .. MaxSession + 1
    <3>1. nextSession' = nextSession + 1
      BY DEF beginTransaction
    <3>2. nextSession \in 1 .. MaxSession /\ nextSession \in 2 .. MaxSession + 1
      BY <1>1 DEF Session, IInv, TypeOK
    <3>3. MaxSession \in Nat \ {0}
      BY ConstantsAssumption
    <3>4. QED
      BY <3>1, <3>2, <3>3
  <2>3. /\ boots' \in 1 .. MaxBoot /\ received' \in Session \X SeqNo
    BY DEF IInv, TypeOK
  <2>4. /\ txEventFront' \in FrontTxEvent \cup {None} /\ (txEventFront' # None => txFront' # None)
        /\ {requested', authorizing', timed'} \subseteq BOOLEAN
        /\ (requested' => txEventFront' # None) /\ (authorizing' => transaction' # None)
    BY DEF FrontTypes
  <2>5. {txNrBegin', txNrFront', txNrEnd'} \subseteq TxNr /\ {transaction', txFront'} \subseteq Session \cup {None}
    BY <1>1, <1>2, <2>1
  <2>6. QED
    BY <1>1, <1>2, <2>2, <2>3, <2>4, <2>5 DEF TypeOK
<1>8. (Owed(owed, txNrBegin, Size, txFlash))' /\ (InOrder(received, txNrBegin, Size, txFlash))'
      /\ (Journal(txNrBegin, Size, txFlash, nextSession))'
  BY <1>3, <1>5, <1>6
<1>9. QED
  BY <1>1, <1>4, <1>5, <1>6, <1>7, <1>8 DEF IInv

\* The object and the event at the front are not concerned.
LEMMA BegunFrontIsFirst ==
    ASSUME IInv, ~BeginEarly, CanBegin, NEW q, Sound(q), q.tx.nr = newEnd, q.session = nextSession,
           beginTransaction(q), txFront # None \/ txEventFront = None,
           txFront # None => txFront' = txFront,
           txEventFront' = txEventFront, requested' = requested, FrontBegun(q)
    PROVE  FrontIsFirst'
<1>1. FrontIsFirst
  BY DEF IInv
<1>2. requested => txEventFront # None
  BY DEF IInv, TypeOK
<1>3. CASE txFront # None
  <2>1. txFront' = txFront /\ txMem'[txFront] = txMem[txFront]
    BY <1>3, BegunObjects
  <2>2. QED
    BY <1>1, <2>1 DEF FrontIsFirst
<1>4. CASE txFront = None
  BY <1>2, <1>4 DEF FrontIsFirst
<1>5. QED
  BY <1>3, <1>4

-----------------------------------------------------------------------------
(* What a transaction begins as.                                           *)

\* A new transaction is active and has no events.
LEMMA NewTxIs ==
    ASSUME NEW nr \in TxNr, NEW b \in BOOLEAN
    PROVE  LET t == [NewTx(nr) EXCEPT !.silent = b]
           IN  /\ t \in Tx /\ t.nr = nr /\ t.silent = b /\ t.active /\ ~t.started /\ ~t.stopped
               /\ t.seqNos = {} /\ t.seqNoEnd = 0
<1> DEFINE t == [NewTx(nr) EXCEPT !.silent = b]
<1>1. 0 \in SeqNo /\ {} \in SUBSET SeqNo
  BY Sizes DEF SeqNo
<1>2. /\ NewTx(nr) \in Tx
      /\ NewTx(nr).nr = nr /\ NewTx(nr).active /\ ~NewTx(nr).started /\ ~NewTx(nr).stopped
      /\ NewTx(nr).seqNos = {} /\ NewTx(nr).seqNoEnd = 0
  BY <1>1 DEF NewTx, Tx
<1>3. QED
  BY <1>2 DEF Tx

\* It has no files yet.
LEMMA BegunIs ==
    ASSUME IInv, CanBegin
    PROVE  /\ Laid(Begun) /\ Begun.tx.nr = newEnd /\ Begun.session = nextSession
           /\ Begun.tx.silent = Silent /\ Begun.tx.seqNos = {} /\ Begun.tx.seqNoEnd = 0
           /\ ~Begun.tx.started /\ ~Begun.tx.stopped
           /\ nextSession \in Session
<1>1. newEnd \in TxNr /\ Silent \in BOOLEAN
  BY LeftIs DEF Silent, HasRoom, Evicting
<1> DEFINE t == [NewTx(newEnd) EXCEPT !.silent = Silent]
<1>2. /\ t \in Tx /\ t.nr = newEnd /\ t.silent = Silent /\ t.active /\ ~t.started /\ ~t.stopped
      /\ t.seqNos = {} /\ t.seqNoEnd = 0
  BY <1>1, NewTxIs
<1>3. Begun = Pair(nextSession, t, NoFiles)
  BY DEF Begun
<1> HIDE DEF t
<1>4. nextSession \in Session
  BY DEF IInv, TypeOK, CanBegin, Session
<1>5. NoFiles \in TxFiles /\ \A n \in SeqNo : NoFiles[n] = None
  BY DEF NoFiles, TxFiles
<1>6. Begun \in Pairs /\ Begun.session = nextSession /\ Begun.tx = t /\ Begun.files = NoFiles
  BY <1>2, <1>3, <1>4, <1>5 DEF Pair, Pairs
<1>7. Cardinality({}) = 0
  BY FS_EmptySet
<1>8. Laid(Begun)
  <2>1. Cardinality(Begun.tx.seqNos) <= EventRecordSize
    BY <1>2, <1>6, <1>7, Sizes
  <2> HIDE DEF Begun
  <2>2. QED
    BY <1>2, <1>5, <1>6, <2>1 DEF Laid
<1>9. QED
  BY <1>2, <1>4, <1>6, <1>8

\* The first commit.
LEMMA BegunCommitted ==
    ASSUME IInv, CanBegin
    PROVE  LET p == CommitTx(Begun)
           IN  /\ Sound(p) /\ p.tx.nr = newEnd /\ p.session = nextSession
               /\ p.tx.silent = Silent /\ ~p.tx.started /\ p.tx.seqNoEnd = 0
               /\ ~p.tx.stopped
<1> DEFINE p == CommitTx(Begun)
<1>1. /\ Laid(Begun) /\ Begun.tx.nr = newEnd /\ Begun.session = nextSession
      /\ Begun.tx.silent = Silent /\ Begun.tx.seqNos = {} /\ Begun.tx.seqNoEnd = 0
      /\ ~Begun.tx.started /\ ~Begun.tx.stopped
  BY BegunIs
<1>2. Sound(p) /\ Thinned(Begun, p)
  BY <1>1, CommitTxIs
<1> HIDE DEF p
<1>3. QED
  BY <1>1, <1>2 DEF Thinned, SameTx, p

\* How beginAuthorization() prepares it.
LEMMA PreparedIs ==
    ASSUME NEW p, Sound(p)
    PROVE  LET q == [p EXCEPT !.tx.auth = TRUE]
           IN  Sound(q) /\ Thins(p, q) /\ Sound(Authorized(q)) /\ Thins(p, Authorized(q))
<1>1. Laid(p) /\ p \in Pairs
  BY DEF Sound, Laid
<1>2. PICK q : q = [p EXCEPT !.tx.auth = TRUE]
  OBVIOUS
<1>3. Touched(p, q) /\ q.tx.active = p.tx.active
  BY <1>1, <1>2, TouchedFields
<1>4. Sound(q) /\ Thins(p, q)
  BY <1>3, TouchedSound, TouchedThins
<1>5. Laid(q) /\ q \in Pairs
  BY <1>4 DEF Sound, Laid
<1>6. PICK a : a = [q EXCEPT !.tx.authorized = TRUE]
  OBVIOUS
<1>7. Touched(q, a)
  BY <1>5, <1>6, TouchedFields
<1>8. Sound(CommitTx(a)) /\ Thins(q, CommitTx(a))
  BY <1>5, <1>7, CommittedIs
<1>9. Authorized(q) = CommitTx(a)
  BY <1>6 DEF Authorized
<1>10. Thins(p, CommitTx(a))
  BY <1>3, <1>8 DEF Touched, Thins
<1>11. QED
  BY <1>2, <1>4, <1>8, <1>9, <1>10

\* The authorization begins, with a transaction or for the one that there is.
LEMMA beginAuthorizationStep ==
    ASSUME IInv, ~BeginEarly, beginAuthorization
    PROVE  IInv'
<1>1. PICK validate \in BOOLEAN :
        LET prepared(p) ==
                IF validate THEN [p EXCEPT !.tx.auth = TRUE]
                ELSE Authorized([p EXCEPT !.tx.auth = TRUE])
        IN  /\ \/ CanBegin /\ beginTransaction(prepared(CommitTx(Begun)))
               \/ /\ transaction # None /\ ~Current.tx.auth
                  /\ Apply(prepared(Current))
                  /\ UNCHANGED <<txNrs, transaction, nextSession>>
            /\ authorizing' = (validate \/ authorizing)
            /\ UNCHANGED <<frontVars, timed, boots, txHistory>>
  BY DEF beginAuthorization
<1> DEFINE prepared(p) == IF validate THEN [p EXCEPT !.tx.auth = TRUE]
                          ELSE Authorized([p EXCEPT !.tx.auth = TRUE])
<1>2. \A p : Sound(p) => Sound(prepared(p)) /\ Thins(p, prepared(p))
  BY PreparedIs
<1>3. /\ \/ CanBegin /\ beginTransaction(prepared(CommitTx(Begun)))
         \/ /\ transaction # None /\ Apply(prepared(Current))
            /\ UNCHANGED <<txNrs, transaction, nextSession>>
      /\ authorizing' = (validate \/ authorizing)
      /\ UNCHANGED <<frontVars, timed, boots, txHistory>>
  BY <1>1
<1> HIDE DEF prepared
<1>4. authorizing \in BOOLEAN /\ authorizing' \in BOOLEAN
  BY <1>3 DEF IInv, TypeOK
<1>5. CASE CanBegin /\ beginTransaction(prepared(CommitTx(Begun)))
  <2> DEFINE p == CommitTx(Begun)
             q == prepared(CommitTx(Begun))
  <2>1. /\ Sound(p) /\ p.tx.nr = newEnd /\ p.session = nextSession /\ p.tx.silent = Silent
    BY <1>5, BegunCommitted
  <2>2. Sound(q) /\ Thins(p, q)
    BY <1>2, <2>1
  <2>3. q.tx.nr = newEnd /\ q.session = nextSession /\ q.tx.silent = Silent
    BY <2>1, <2>2 DEF Thins
  <2>4. beginTransaction(q)
    BY <1>5
  <2> HIDE DEF q, p
  <2>5. /\ txFront' = txFront /\ txEventFront' = txEventFront /\ requested' = requested
        /\ timed' = timed /\ boots' = boots /\ owed' = owed /\ received' = received
    BY <1>3 DEF frontVars, txHistory
  <2>6. FrontBegun(q)
    BY <2>5 DEF FrontBegun
  <2>7. txFront # None \/ txEventFront = None
    BY DEF IInv, TypeOK
  <2>8. FrontIsFirst'
    BY <1>5, <2>2, <2>3, <2>4, <2>5, <2>6, <2>7, BegunFrontIsFirst
  <2>9. FrontTypes'
    <3>1. transaction' # None
      <4>1. transaction' = nextSession /\ nextSession \in Session
        BY <1>5, <2>2, <2>3, <2>4, <2>6, BegunObjects
      <4>2. None \notin Session
        BY NoneAssumption
      <4>3. QED
        BY <4>1, <4>2
    <3>2. /\ txEventFront \in FrontTxEvent \cup {None} /\ (txEventFront # None => txFront # None)
          /\ requested \in BOOLEAN /\ timed \in BOOLEAN /\ (requested => txEventFront # None)
      BY DEF IInv, TypeOK
    <3>3. QED
      BY <1>4, <2>5, <3>1, <3>2 DEF FrontTypes
  <2>10. owed' \subseteq Session \X (SeqNo \cup {ToEnd})
    BY <2>5 DEF IInv, TypeOK
  <2>11. QED
    BY <1>5, <2>2, <2>3, <2>4, <2>5, <2>6, <2>8, <2>9, <2>10, BeginStep
<1>6. CASE transaction # None /\ Apply(prepared(Current)) /\ UNCHANGED <<txNrs, transaction, nextSession>>
  <2>1. Sound(Current)
    BY <1>6, CurrentIs DEF EntryOf
  <2>2. Sound(prepared(Current)) /\ Thins(Current, prepared(Current))
    BY <1>2, <2>1
  <2>3. UNCHANGED <<txNrs, frontVars, transaction, txEnv, txHistory>>
    BY <1>3, <1>6 DEF txEnv
  <2>4. QED
    BY <1>4, <1>6, <2>2, <2>3, CurrentStep
<1>7. QED
  BY <1>3, <1>5, <1>6

-----------------------------------------------------------------------------
(* An event is emitted.                                                    *)

EventType == {"Started", "Updated", "Ended"}

\* The first event starts the transaction, and the others follow it.
LEMMA EmittedIs ==
    ASSUME NEW p, Laid(p), p.tx.seqNoEnd + 1 \in SeqNo, NEW type \in EventType,
           type = "Started" <=> ~p.tx.started, timed \in BOOLEAN
    PROVE  LET n == p.tx.seqNoEnd
               q == Emitted(p, type)
           IN  /\ Sound(q) /\ q.session = p.session
               /\ q.tx.nr = p.tx.nr /\ q.tx.silent = p.tx.silent
               /\ q.tx.started /\ (q.tx.stopped <=> p.tx.stopped \/ type = "Ended")
               /\ q.tx.seqNoEnd = n + 1
               /\ n \in q.tx.seqNos /\ q.tx.seqNos \subseteq p.tx.seqNos \cup {n}
               /\ \A m \in p.tx.seqNos \ q.tx.seqNos : Between(q.tx.seqNos, m)
<1> DEFINE n == p.tx.seqNoEnd
           e == [type |-> type, attemptNr |-> 0, timed |-> timed \/ type # "Started"]
<1>1. p \in Pairs /\ p.tx \in Tx /\ p.tx.started \in BOOLEAN /\ p.tx.stopped \in BOOLEAN
  BY PairIs DEF Laid
<1>2. PICK t : t = [p.tx EXCEPT !.started = @ \/ type = "Started", !.stopped = @ \/ type = "Ended"]
  OBVIOUS
<1>3. /\ t \in Tx /\ t.nr = p.tx.nr /\ t.silent = p.tx.silent
      /\ t.seqNos = p.tx.seqNos /\ t.seqNoEnd = p.tx.seqNoEnd
      /\ t.started = (p.tx.started \/ type = "Started")
      /\ t.stopped = (p.tx.stopped \/ type = "Ended")
  BY <1>1, <1>2 DEF Tx
<1>4. t.started /\ (t.stopped <=> p.tx.stopped \/ type = "Ended")
  BY <1>1, <1>3
<1>5. PICK a : a = [p EXCEPT !.tx = t]
  OBVIOUS
<1>6. a \in Pairs /\ a.session = p.session /\ a.tx = t /\ a.files = p.files
  BY <1>1, <1>3, <1>5, WithTx
<1>7. Laid(a)
  BY <1>3, <1>4, <1>6 DEF Laid
<1>8. a = [p EXCEPT !.tx.started = @ \/ type = "Started", !.tx.stopped = @ \/ type = "Ended"]
  BY <1>2, <1>5
<1>9. Emitted(p, type) = CommitEvent(a, n, e)
  BY <1>8 DEF Emitted
<1>10. e \in TxEvent
  <2>1. MessageAttempts \in Nat
    BY ConstantsAssumption
  <2>2. QED
    BY <2>1 DEF TxEvent, EventType
<1> HIDE DEF e
<1>11. a.tx.started /\ a.tx.seqNoEnd = n /\ a.tx.seqNoEnd + 1 \in SeqNo
  BY <1>3, <1>4, <1>6
<1>12. PICK q : q = CommitEvent(a, a.tx.seqNoEnd, e)
  OBVIOUS
<1>13. /\ Sound(q) /\ q.session = a.session
       /\ q.tx.nr = a.tx.nr /\ q.tx.silent = a.tx.silent
       /\ q.tx.started = a.tx.started /\ q.tx.stopped = a.tx.stopped
       /\ q.tx.seqNoEnd = a.tx.seqNoEnd + 1
       /\ a.tx.seqNoEnd \in q.tx.seqNos
       /\ q.tx.seqNos \subseteq a.tx.seqNos \cup {a.tx.seqNoEnd}
       /\ \A m \in a.tx.seqNos \ q.tx.seqNos : Between(q.tx.seqNos, m)
  BY <1>7, <1>10, <1>11, <1>12, CommitEventIs
<1>14. Emitted(p, type) = q
  BY <1>9, <1>11, <1>12
<1>15. QED
  BY <1>3, <1>4, <1>6, <1>13, <1>14

\* The oldest event stays.
LEMMA EmittedFirst ==
    ASSUME NEW S, S \subseteq SeqNo, NEW n \in SeqNo, \A m \in S : m < n,
           NEW R, n \in R, R \subseteq S \cup {n}, \A m \in S \ R : Between(R, m),
           NEW m, FirstIn(S, m)
    PROVE  FirstIn(R, m)
<1>1. m \in S /\ \A k \in S : m <= k
  BY DEF FirstIn
<1>2. m \in SeqNo /\ m < n /\ SeqNo \subseteq Int /\ \A k \in R : k \in Int
  BY <1>1, Sizes DEF SeqNo
<1>3. \A k \in R : m <= k
  BY <1>1, <1>2
<1>4. m \in R
  <2>1. SUFFICES ASSUME m \notin R PROVE FALSE
    OBVIOUS
  <2>2. PICK a \in R, b \in R : a < m /\ m < b
    BY <1>1, <2>1 DEF Between
  <2>3. QED
    BY <1>2, <1>3, <2>2
<1>5. QED
  BY <1>3, <1>4 DEF FirstIn

\* What is owed of a transaction that has an event more.
LEMMA EmittedOwes ==
    ASSUME NEW p, Laid(p), ~p.tx.stopped, p.tx.seqNoEnd + 1 \in SeqNo, NEW type \in EventType,
           type = "Started" <=> ~p.tx.started, timed \in BOOLEAN, ~p.tx.silent
    PROVE  LET q == Emitted(p, type)
           IN  /\ \A n \in SeqNo : Owes(p.tx, n) => Owes(q.tx, n)
               /\ type # "Ended" => Owes(q.tx, ToEnd)
               /\ type # "Updated" => Owes(q.tx, p.tx.seqNoEnd)
<1>1. PICK q : q = Emitted(p, type)
  OBVIOUS
<1> DEFINE n == p.tx.seqNoEnd
<1>2. /\ q.tx.silent = p.tx.silent /\ q.tx.started
      /\ (q.tx.stopped <=> p.tx.stopped \/ type = "Ended") /\ q.tx.seqNoEnd = n + 1
      /\ n \in q.tx.seqNos /\ q.tx.seqNos \subseteq p.tx.seqNos \cup {n}
      /\ \A m \in p.tx.seqNos \ q.tx.seqNos : Between(q.tx.seqNos, m)
  BY <1>1, EmittedIs
<1>3. /\ p.tx.seqNos \subseteq SeqNo /\ n \in SeqNo /\ \A m \in p.tx.seqNos : m < n
      /\ ~p.tx.started => n = 0
  BY PairIs DEF Laid
<1>4. SeqNo \subseteq Nat /\ ToEnd \notin SeqNo
  BY Sizes DEF SeqNo, ToEnd
<1> HIDE DEF n
<1>5. ASSUME NEW m \in SeqNo, Owes(p.tx, m) PROVE Owes(q.tx, m)
  <2>1. m \in p.tx.seqNos /\ m = 0
    BY <1>4, <1>5 DEF Owes
  <2>2. FirstIn(p.tx.seqNos, m)
    <3>1. \A k \in p.tx.seqNos : k \in Nat
      BY <1>3, <1>4
    <3>2. \A k \in p.tx.seqNos : 0 <= k
      BY <3>1
    <3>3. QED
      BY <2>1, <3>2 DEF FirstIn
  <2>3. FirstIn(q.tx.seqNos, m)
    BY <1>2, <1>3, <2>2, EmittedFirst
  <2>4. QED
    BY <1>2, <1>4, <2>1, <2>3 DEF Owes, FirstIn
<1>6. type # "Ended" => Owes(q.tx, ToEnd)
  BY <1>2 DEF Owes
<1>7. type # "Updated" => Owes(q.tx, n)
  <2>1. ASSUME type = "Started" PROVE Owes(q.tx, n)
    <3>1. n = 0 /\ n # ToEnd
      BY <1>3, <2>1 DEF ToEnd
    <3>2. QED
      BY <1>2, <3>1 DEF Owes
  <2>2. ASSUME type = "Ended" PROVE Owes(q.tx, n)
    <3>1. n # ToEnd /\ n = (n + 1) - 1
      BY <1>3, <1>4
    <3>2. n = q.tx.seqNoEnd - 1 /\ q.tx.stopped
      BY <1>2, <2>2, <3>1
    <3>3. QED
      BY <1>2, <3>1, <3>2 DEF Owes
  <2>3. QED
    BY <2>1, <2>2 DEF EventType
<1>8. QED
  BY <1>1, <1>5, <1>6, <1>7 DEF n

\* What is owed once it is announced.
LEMMA AnnouncedOwed ==
    ASSUME IInv, NEW p, Laid(p), ~p.tx.stopped, p.tx.seqNoEnd + 1 \in SeqNo, NEW type \in EventType,
           type = "Started" <=> ~p.tx.started,
           \A m \in owed : m[1] = p.session => Owes(p.tx, m[2]),
           NEW q, q = Emitted(p, type), NEW front, Announce(q, type, p.tx.seqNoEnd, front)
    PROVE  /\ owed' \subseteq Session \X (SeqNo \cup {ToEnd})
           /\ \A m \in owed' : \/ m \in owed /\ m[1] # q.session
                               \/ m[1] = q.session /\ Owes(q.tx, m[2])
<1> DEFINE n == p.tx.seqNoEnd
           D == Session \X (SeqNo \cup {ToEnd})
<1>1. timed \in BOOLEAN /\ owed \subseteq D
  BY DEF IInv, TypeOK
<1>2. /\ q.session = p.session /\ q.tx.silent = p.tx.silent
  BY <1>1, EmittedIs
<1>3. p.session \in Session /\ n \in SeqNo
  BY PairIs DEF Laid
<1>4. ASSUME ~p.tx.silent
      PROVE  /\ \A k \in SeqNo : Owes(p.tx, k) => Owes(q.tx, k)
             /\ type # "Ended" => Owes(q.tx, ToEnd)
             /\ type # "Updated" => Owes(q.tx, n)
  BY <1>1, <1>4, EmittedOwes
<1>5. owed' = IF q.tx.silent \/ type = "Updated" THEN owed
              ELSE (owed \ {<<q.session, ToEnd>>}) \cup {<<q.session, n>>} \cup
                   (IF type = "Started" THEN {<<q.session, ToEnd>>} ELSE {})
  BY DEF Announce
<1> HIDE DEF n
<1>6. owed' \subseteq D
  BY <1>1, <1>2, <1>3, <1>5
<1>7. ASSUME NEW m \in owed', m[1] = q.session PROVE Owes(q.tx, m[2])
  <2>1. m = <<m[1], m[2]>> /\ m[2] \in SeqNo \cup {ToEnd}
    BY <1>6
  <2>2. CASE m \in owed /\ (m[2] # ToEnd \/ q.tx.silent \/ type = "Updated")
    <3>1. Owes(p.tx, m[2])
      BY <1>2, <1>7, <2>2
    <3>2. ~p.tx.silent
      BY <3>1 DEF Owes
    <3>3. CASE m[2] = ToEnd
      BY <1>2, <1>4, <2>2, <3>2, <3>3
    <3>4. CASE m[2] # ToEnd
      BY <1>4, <2>1, <3>1, <3>2, <3>4
    <3>5. QED
      BY <3>3, <3>4
  <2>3. CASE ~(m \in owed /\ (m[2] # ToEnd \/ q.tx.silent \/ type = "Updated"))
    <3>1. ~q.tx.silent /\ type # "Updated"
      BY <1>5, <2>3
    <3>2. /\ ~p.tx.silent
          /\ m = <<q.session, n>> \/ (m = <<q.session, ToEnd>> /\ type = "Started")
      BY <1>2, <1>5, <1>7, <2>1, <2>3, <3>1
    <3>3. CASE m = <<q.session, n>>
      BY <1>4, <3>1, <3>2, <3>3
    <3>4. CASE m = <<q.session, ToEnd>> /\ type = "Started"
      BY <1>4, <3>2, <3>4
    <3>5. QED
      BY <3>2, <3>3, <3>4
  <2>4. QED
    BY <2>2, <2>3
<1>8. ASSUME NEW m \in owed', m[1] # q.session PROVE m \in owed
  BY <1>5, <1>8
<1>9. QED
  BY <1>6, <1>7, <1>8

\* The event becomes the front, or nothing does.
LEMMA AnnouncedFront ==
    ASSUME IInv, NEW q, q.session \in Session, NEW type \in EventType, NEW n \in SeqNo,
           NEW front, Announce(q, type, n, front)
    PROVE  /\ \/ txFront' = txFront /\ txEventFront' = txEventFront
              \/ /\ txEventFront = None /\ q.tx.nr = front /\ q.tx.seqNos = {n}
                 /\ txFront' = IF txFront = None THEN q.session ELSE txFront
                 /\ txEventFront' # None /\ txEventFront'.seqNo = n
           /\ txFront' = txFront \/ (txFront = None /\ txFront' = q.session /\ q.tx.nr = front)
           /\ txEventFront' \in FrontTxEvent \cup {None}
           /\ (txEventFront' # None => txFront' # None)
           /\ txEventFront # None => txEventFront' = txEventFront
<1> DEFINE e == [seqNo |-> n, type |-> type, attemptNr |-> 0, timed |-> timed \/ type # "Started"]
<1>1. /\ timed \in BOOLEAN /\ txEventFront \in FrontTxEvent \cup {None}
      /\ (txEventFront # None => txFront # None)
  BY DEF IInv, TypeOK
<1>2. IF txEventFront = None /\ q.tx.nr = front /\ q.tx.seqNos = {n}
      THEN /\ txFront' = IF txFront = None THEN q.session ELSE txFront
           /\ txEventFront' = e
      ELSE UNCHANGED <<txFront, txEventFront>>
  BY DEF Announce
<1>3. e \in FrontTxEvent /\ e.seqNo = n
  <2>1. MessageAttempts \in Nat
    BY ConstantsAssumption
  <2>2. QED
    BY <1>1, <2>1 DEF FrontTxEvent, EventType
<1>4. e # None
  BY <1>3, NoneAssumption
<1> HIDE DEF e
<1>5. None \notin Session
  BY NoneAssumption
<1>6. CASE txEventFront = None /\ q.tx.nr = front /\ q.tx.seqNos = {n}
  BY <1>2, <1>3, <1>4, <1>5, <1>6
<1>7. CASE ~(txEventFront = None /\ q.tx.nr = front /\ q.tx.seqNos = {n})
  BY <1>1, <1>2, <1>7
<1>8. QED
  BY <1>6, <1>7

\* The event of an iteration is the first one if the transaction has not started.
LEMMA IterationIs ==
    ASSUME NEW t \in Tx, NEW in, NEW it \in Iteration(t, in), it.type # "none"
    PROVE  it.type \in EventType /\ (it.type = "Started" <=> ~t.started)
<1> DEFINE ends == t.active /\ (EndedBeforeStart(t, in) \/ (StopCondition(t, in) /\ t.started))
<1>1. it \in {[ends |-> ends, type |-> type] :
                 type \in EventTypes([t EXCEPT !.active = @ /\ ~ends], in)}
  BY DEF Iteration
<1>2. PICK u : u = [t EXCEPT !.active = @ /\ ~ends]
  OBVIOUS
<1>3. u.started = t.started /\ u.started \in BOOLEAN
  BY <1>2 DEF Tx
<1> HIDE DEF ends
<1>4. PICK type \in EventTypes(u, in) : it = [ends |-> ends, type |-> type]
  BY <1>1, <1>2
<1>5. it.type \in EventTypes(u, in)
  BY <1>4
<1>6. it.type \in EventType /\ (it.type = "Started" <=> ~u.started)
  BY <1>5 DEF EventTypes, EventType, StartCondition
<1>7. QED
  BY <1>3, <1>6

\* The transaction may have been ended in the same iteration.
LEMMA MaybeEnded ==
    ASSUME IInv, transaction # None, NEW p, p = Ended(Current) \/ p = Current
    PROVE  Sound(p) /\ Thins(Current, p)
<1>1. PICK c : c = Current
  OBVIOUS
<1>2. Sound(c) /\ Laid(c) /\ c \in Pairs
  BY <1>1, CurrentIs DEF EntryOf, Sound, Laid
<1>3. PICK a : a = [c EXCEPT !.tx.active = FALSE]
  OBVIOUS
<1>4. Touched(c, a)
  BY <1>2, <1>3, TouchedFields
<1>5. Sound(CommitTx(a)) /\ Thins(c, CommitTx(a))
  BY <1>2, <1>4, CommittedIs
<1>6. Ended(c) = CommitTx(a)
  BY <1>3 DEF Ended
<1>7. Thins(c, c)
  BY DEF Thins
<1>8. QED
  BY <1>1, <1>2, <1>5, <1>6, <1>7

\* An event of the transaction is emitted.
LEMMA EmitStep ==
    ASSUME IInv, transaction # None, ~isAborted(Current.tx), ~Current.tx.stopped,
           NEW p, Sound(p), Thins(Current, p), p.tx.seqNoEnd + 1 \in SeqNo, NEW type \in EventType,
           type = "Started" <=> ~p.tx.started, Apply(Emitted(p, type)),
           Announce(Emitted(p, type), type, p.tx.seqNoEnd, txNrFront),
           UNCHANGED <<txNrs, requested, transaction, authorizing, txEnv, received>>
    PROVE  IInv'
<1> DEFINE n == p.tx.seqNoEnd
<1>1. PICK q : q = Emitted(p, type)
  OBVIOUS
<1>2. PICK c : c = Current
  OBVIOUS
<1>3. /\ Held(c) /\ Sound(c) /\ Laid(c) /\ c.session = transaction /\ c.session \in Session
      /\ c.tx = txMem[transaction]
  BY <1>2, CurrentIs DEF EntryOf, Sound, Laid, Held
<1>4. Laid(p) /\ timed \in BOOLEAN /\ p.tx.seqNos \subseteq SeqNo /\ n \in SeqNo
      /\ p.session = c.session /\ ~p.tx.stopped
  BY <1>2, PairIs DEF Sound, Laid, IInv, TypeOK, Thins
<1>5. /\ Sound(q) /\ q.session = p.session
      /\ q.tx.nr = p.tx.nr /\ q.tx.silent = p.tx.silent
      /\ q.tx.started /\ (q.tx.stopped <=> p.tx.stopped \/ type = "Ended")
      /\ q.tx.seqNoEnd = n + 1
      /\ n \in q.tx.seqNos /\ q.tx.seqNos \subseteq p.tx.seqNos \cup {n}
      /\ \A m \in p.tx.seqNos \ q.tx.seqNos : Between(q.tx.seqNos, m)
  BY <1>1, <1>4, EmittedIs
<1>6. \A m \in p.tx.seqNos : m < n
  BY <1>4 DEF Laid
<1>7. /\ \A k : Owes(c.tx, k) => Owes(p.tx, k)
      /\ \A last : NotBefore(last, c) => NotBefore(last, p)
      /\ \A k : FirstIn(c.tx.seqNos, k) => FirstIn(p.tx.seqNos, k)
  BY <1>2, <1>3, ThinsIs
<1>8. \A k : FirstIn(c.tx.seqNos, k) => FirstIn(q.tx.seqNos, k)
  BY <1>4, <1>5, <1>6, <1>7, EmittedFirst
<1>9. Follows(c, q)
  <2>1. q.session = c.session /\ q.tx.nr = c.tx.nr /\ q.tx.silent = c.tx.silent
    BY <1>2, <1>5 DEF Thins
  <2>2. Done(c.tx) => c.tx.silent
    BY <1>2 DEF Done, isReported
  <2>3. QED
    BY <2>1, <2>2 DEF Follows, Done
<1>10. \A m \in owed : m[1] = p.session => Owes(p.tx, m[2])
  BY <1>3, <1>4, <1>7, HeldOwed
<1>11. /\ owed' \subseteq Session \X (SeqNo \cup {ToEnd})
       /\ \A m \in owed' : \/ m \in owed /\ m[1] # q.session
                           \/ m[1] = q.session /\ Owes(q.tx, m[2])
  BY <1>1, <1>4, <1>10, AnnouncedOwed
<1>12. OwedAfter(q)
  BY <1>3, <1>4, <1>5, <1>11 DEF OwedAfter
<1>13. ReceivedAfter(q)
  <2> HIDE DEF n
  <2>1. received' = received
    OBVIOUS
  <2>2. ASSUME ~Done(q.tx) PROVE NotBefore(received, q)
    <3>1. ~Done(c.tx)
      BY <1>9, <2>2 DEF Follows
    <3>2. NotBefore(received, p)
      BY <1>3, <1>7, <3>1, HeldInOrder
    <3>3. received[2] \in Int /\ n \in Int
      <4>1. received[2] \in SeqNo
        BY DEF IInv, TypeOK
      <4>2. QED
        BY <1>4, <4>1, Sizes DEF SeqNo
    <3>4. CASE received[1] < p.session
      BY <1>5, <3>4 DEF NotBefore
    <3>5. CASE /\ received[1] = p.session /\ received[2] < n
               /\ \A m \in p.tx.seqNos : received[2] <= m
      <4>1. received[2] < n + 1 /\ received[2] <= n
        BY <3>3, <3>5
      <4>2. \A m \in q.tx.seqNos : received[2] <= m
        BY <1>5, <3>5, <4>1
      <4>3. QED
        BY <1>5, <3>5, <4>1, <4>2 DEF NotBefore
    <3>6. QED
      BY <3>2, <3>4, <3>5 DEF NotBefore, n
  <2>3. QED
    BY <2>1, <2>2 DEF ReceivedAfter
<1>14. Announce(q, type, n, txNrFront)
  BY <1>1
<1>15. /\ \/ txFront' = txFront /\ txEventFront' = txEventFront
          \/ /\ txEventFront = None /\ q.tx.nr = txNrFront /\ q.tx.seqNos = {n}
             /\ txFront' = IF txFront = None THEN q.session ELSE txFront
             /\ txEventFront' # None /\ txEventFront'.seqNo = n
       /\ txFront' = txFront \/ (txFront = None /\ txFront' = q.session /\ q.tx.nr = txNrFront)
       /\ txEventFront' \in FrontTxEvent \cup {None}
       /\ (txEventFront' # None => txFront' # None)
       /\ txEventFront # None => txEventFront' = txEventFront
  BY <1>3, <1>4, <1>5, <1>14, AnnouncedFront
<1>16. Applied(c, q)
  BY <1>1, <1>15 DEF Applied, txNrs, txEnv
<1>17. FrontTypes'
  <2>1. /\ {requested, authorizing, timed} \subseteq BOOLEAN
        /\ (requested => txEventFront # None) /\ (authorizing => transaction # None)
    BY DEF IInv, TypeOK
  <2>2. QED
    BY <1>15, <2>1 DEF FrontTypes, txEnv
<1>18. FrontIsFirst'
  <2>1. CASE txFront' = txFront /\ txEventFront' = txEventFront
    <3>1. q.tx.silent = c.tx.silent
      BY <1>2, <1>5 DEF Thins
    <3>2. QED
      BY <1>3, <1>5, <1>8, <1>9, <1>16, <2>1, <3>1, FrontStaysFirst
  <2>2. CASE /\ txEventFront = None /\ q.tx.nr = txNrFront /\ q.tx.seqNos = {n}
             /\ txFront' = IF txFront = None THEN q.session ELSE txFront
             /\ txEventFront' # None /\ txEventFront'.seqNo = n
    <3>1. txFront' = q.session
      <4>1. ASSUME txFront # None PROVE txFront = q.session
        <5>1. Held(Front) /\ Front.tx.nr = txNrFront /\ Front.session = txFront
          BY <4>1, FrontIs DEF Held
        <5>2. c.tx.nr = txNrFront
          BY <1>9, <2>2 DEF Follows
        <5>3. QED
          BY <1>3, <1>4, <1>5, <5>1, <5>2, HeldBoth
      <4>2. QED
        BY <2>2, <4>1
    <3>2. txMem'[q.session] = q.tx
      BY <1>3, <1>5, <1>9, <1>16, ObjectsAfter
    <3>3. ~requested'
      BY <2>2 DEF IInv, TypeOK
    <3>4. n <= n
      BY <1>4, Sizes DEF SeqNo
    <3>5. QED
      BY <2>2, <3>1, <3>2, <3>3, <3>4 DEF FrontIsFirst
  <2>3. QED
    BY <1>15, <2>1, <2>2
<1>19. boots' = boots
  BY DEF txEnv
<1>20. QED
  BY <1>3, <1>5, <1>9, <1>12, <1>13, <1>16, <1>17, <1>18, <1>19, ApplyStep

\* An iteration of the loop with a transaction.
LEMMA LoopTransactionStep ==
    ASSUME IInv, LoopTransaction
    PROVE  IInv'
<1>1. /\ transaction # None /\ ~isAborted(Current.tx) /\ ~Current.tx.stopped
      /\ UNCHANGED <<txNrs, requested, transaction, authorizing, txEnv, received>>
  BY DEF LoopTransaction
<1>2. PICK in \in Input : \E it \in Iteration(Current.tx, in) :
        LET p == IF it.ends THEN Ended(Current) ELSE Current
        IN  IF it.type = "none"
            THEN it.ends /\ Apply(p) /\ UNCHANGED <<owed, txFront, txEventFront>>
            ELSE /\ p.tx.seqNoEnd + (IF it.type = "Updated" THEN 1 ELSE 0) < MaxEvents[transaction]
                 /\ Apply(Emitted(p, it.type))
                 /\ Announce(Emitted(p, it.type), it.type, p.tx.seqNoEnd, txNrFront)
  BY DEF LoopTransaction
<1>3. PICK it \in Iteration(Current.tx, in) : \E p :
        /\ p = IF it.ends THEN Ended(Current) ELSE Current
        /\ IF it.type = "none"
           THEN Apply(p) /\ UNCHANGED <<owed, txFront, txEventFront>>
           ELSE /\ p.tx.seqNoEnd + (IF it.type = "Updated" THEN 1 ELSE 0) < MaxEvents[transaction]
                /\ Apply(Emitted(p, it.type))
                /\ Announce(Emitted(p, it.type), it.type, p.tx.seqNoEnd, txNrFront)
  BY <1>2
<1>4. PICK p :
        /\ p = IF it.ends THEN Ended(Current) ELSE Current
        /\ IF it.type = "none"
           THEN Apply(p) /\ UNCHANGED <<owed, txFront, txEventFront>>
           ELSE /\ p.tx.seqNoEnd + (IF it.type = "Updated" THEN 1 ELSE 0) < MaxEvents[transaction]
                /\ Apply(Emitted(p, it.type))
                /\ Announce(Emitted(p, it.type), it.type, p.tx.seqNoEnd, txNrFront)
  BY <1>3
<1>5. Sound(p) /\ Thins(Current, p)
  BY <1>1, <1>4, MaybeEnded
<1>6. CASE it.type = "none"
  <2>1. UNCHANGED <<txNrs, frontVars, transaction, txEnv, txHistory>> /\ authorizing' \in BOOLEAN
    BY <1>1, <1>4, <1>6 DEF frontVars, txHistory, IInv, TypeOK
  <2>2. QED
    BY <1>1, <1>4, <1>5, <1>6, <2>1, CurrentStep
<1>7. CASE it.type # "none"
  <2>1. Current.tx \in Tx /\ transaction \in Session
    BY <1>1, CurrentIs, PairIs DEF EntryOf, Sound, Laid
  <2>2. it.type \in EventType /\ (it.type = "Started" <=> ~Current.tx.started)
    BY <1>7, <2>1, IterationIs
  <2>3. it.type = "Started" <=> ~p.tx.started
    BY <1>5, <2>2 DEF Thins
  <2>4. p.tx.seqNoEnd + 1 \in SeqNo
    <3>1. p.tx.seqNoEnd \in SeqNo
      BY <1>5, PairIs DEF Sound, Laid
    <3>2. MaxEvents \in [1 .. MaxSession -> 0 .. LastSeqNo] /\ LastSeqNo \in Nat
      BY ConstantsAssumption
    <3>3. MaxEvents[transaction] \in 0 .. LastSeqNo
      BY <2>1, <3>2 DEF Session
    <3>4. p.tx.seqNoEnd < MaxEvents[transaction]
      BY <1>4, <1>7, <3>1, <3>2, <3>3 DEF SeqNo
    <3>5. QED
      BY <3>1, <3>2, <3>3, <3>4 DEF SeqNo
  <2>5. QED
    BY <1>1, <1>4, <1>5, <1>7, <2>2, <2>3, <2>4, EmitStep
<1>8. QED
  BY <1>6, <1>7

\* The loop begins a transaction that starts at once.
LEMMA LoopBeginStep ==
    ASSUME IInv, ~BeginEarly, LoopBegin
    PROVE  IInv'
<1>1. PICK p, q : p = CommitTx(Begun) /\ q = Emitted(p, "Started")
  OBVIOUS
<1>2. /\ CanBegin /\ beginTransaction(q) /\ Announce(q, "Started", 0, txNrFront')
      /\ UNCHANGED <<requested, authorizing, timed, boots, received>>
  BY <1>1 DEF LoopBegin
<1>3. /\ Sound(p) /\ p.tx.nr = newEnd /\ p.session = nextSession /\ p.tx.silent = Silent
      /\ ~p.tx.started /\ p.tx.seqNoEnd = 0 /\ ~p.tx.stopped
  BY <1>1, <1>2, BegunCommitted
<1>4. Laid(p) /\ 0 + 1 \in SeqNo /\ 0 \in SeqNo /\ "Started" \in EventType /\ timed \in BOOLEAN
  BY <1>3, Sizes DEF Sound, SeqNo, EventType, IInv, TypeOK
<1>5. /\ Sound(q) /\ q.session = p.session /\ q.tx.nr = p.tx.nr /\ q.tx.silent = p.tx.silent
  BY <1>1, <1>3, <1>4, EmittedIs
<1>6. /\ q.tx.nr = newEnd /\ q.session = nextSession /\ (Silent => q.tx.silent)
      /\ q.session \in Session
  BY <1>3, <1>4, <1>5, PairIs DEF Laid
<1>7. \A m \in owed : m[1] # p.session
  <2>1. TAKE m \in owed
  <2>2. PICK k \in TxNr : Minus(k, txNrBegin) < Size /\ Filed(txFlash, k).session = m[1]
    BY DEF IInv, Owed
  <2>3. Sound(Filed(txFlash, k)) /\ Filed(txFlash, k).session < nextSession
    BY <2>2 DEF IInv, Journal
  <2>4. Filed(txFlash, k).session \in Session
    BY <2>3, PairIs DEF Sound, Laid
  <2>5. QED
    BY <1>3, <1>5, <1>6, <2>2, <2>3, <2>4 DEF Session
<1>8. Announce(q, "Started", p.tx.seqNoEnd, txNrFront')
  BY <1>2, <1>3
<1>9. /\ owed' \subseteq Session \X (SeqNo \cup {ToEnd})
      /\ \A m \in owed' : \/ m \in owed /\ m[1] # q.session
                          \/ m[1] = q.session /\ Owes(q.tx, m[2])
  <2>1. p.tx.seqNoEnd + 1 \in SeqNo
    BY <1>3, <1>4
  <2>2. QED
    BY <1>1, <1>3, <1>4, <1>7, <1>8, <2>1, AnnouncedOwed
<1>10. /\ \/ txFront' = txFront /\ txEventFront' = txEventFront
          \/ /\ txEventFront = None /\ q.tx.nr = txNrFront' /\ q.tx.seqNos = {0}
             /\ txFront' = IF txFront = None THEN q.session ELSE txFront
             /\ txEventFront' # None /\ txEventFront'.seqNo = 0
       /\ txFront' = txFront \/ (txFront = None /\ txFront' = q.session /\ q.tx.nr = txNrFront')
       /\ txEventFront' \in FrontTxEvent \cup {None}
       /\ (txEventFront' # None => txFront' # None)
       /\ txEventFront # None => txEventFront' = txEventFront
  BY <1>2, <1>4, <1>6, AnnouncedFront
<1>11. FrontBegun(q)
  BY <1>6, <1>10 DEF FrontBegun
<1>12. /\ nextSession \in Session /\ transaction' = nextSession /\ txMem'[nextSession] = q.tx
  BY <1>2, <1>5, <1>6, <1>11, BegunObjects
<1>13. /\ {requested, authorizing, timed} \subseteq BOOLEAN
       /\ (requested => txEventFront # None) /\ (txEventFront # None => txFront # None)
  BY DEF IInv, TypeOK
<1>14. FrontTypes'
  <2>1. transaction' # None
    BY <1>12, NoneAssumption
  <2>2. QED
    BY <1>2, <1>10, <1>13, <2>1 DEF FrontTypes
<1>15. FrontIsFirst'
  <2>1. CASE txFront' = txFront /\ txEventFront' = txEventFront
    BY <1>2, <1>5, <1>6, <1>11, <1>13, <2>1, BegunFrontIsFirst
  <2>2. CASE /\ txEventFront = None /\ q.tx.nr = txNrFront' /\ q.tx.seqNos = {0}
             /\ txFront' = IF txFront = None THEN q.session ELSE txFront
             /\ txEventFront' # None /\ txEventFront'.seqNo = 0
    <3>1. txFront = None
      <4>1. SUFFICES ASSUME txFront # None PROVE FALSE
        OBVIOUS
      <4>2. Stays(txNrFront) /\ txNrFront' = txNrFront
        BY <1>2, <1>5, <1>6, <4>1, BegunKeepsFront
      <4>3. txNrFront # newEnd
        BY <1>2, <1>5, <1>6, <4>2, BegunFlash
      <4>4. QED
        BY <1>6, <2>2, <4>2, <4>3
    <3>2. txFront' = nextSession /\ ~requested'
      BY <1>2, <1>6, <1>13, <2>2, <3>1
    <3>3. QED
      BY <1>12, <2>2, <3>2 DEF FrontIsFirst
  <2>3. QED
    BY <1>10, <2>1, <2>2
<1>16. \A m \in owed' : m \in owed \/ (m[1] = q.session /\ Owes(q.tx, m[2]))
  BY <1>9
<1>17. timed' = timed /\ boots' = boots /\ received' = received
  BY <1>2
<1>18. QED
  BY <1>2, <1>5, <1>6, <1>9, <1>11, <1>14, <1>15, <1>16, <1>17, BeginStep

-----------------------------------------------------------------------------
(* The journal is left alone.                                              *)

\* The invariant is then kept if its other parts are.
LEMMA SameJournal ==
    ASSUME IInv, UNCHANGED <<txNrBegin, txNrEnd, txFlash, nextSession, owed>>,
           TypeOK', Objects', Passed', FrontIsFirst',
           \A m \in owed : m[2] = ToEnd => transaction' = m[1],
           InOrder(received', txNrBegin, Size, txFlash), received'[1] < nextSession
    PROVE  IInv'
<1>1. Size' = Size
  BY DEF Size
<1>2. /\ Journal(txNrBegin, Size, txFlash, nextSession)
      /\ Owed(owed, txNrBegin, Size, txFlash)
  BY DEF IInv
<1>3. /\ (Journal(txNrBegin, Size, txFlash, nextSession))'
      /\ (Owed(owed, txNrBegin, Size, txFlash))'
      /\ (InOrder(received, txNrBegin, Size, txFlash))'
  BY <1>1, <1>2
<1>4. QED
  BY <1>3 DEF IInv

\* The objects that are kept are as before.
LEMMA KeptIs ==
    ASSUME IInv, NEW S
    PROVE  /\ Kept(S) \in [Session -> Tx]
           /\ \A s \in Session : Cardinality(Kept(S)[s].seqNos) <= EventRecordSize
           /\ \A s \in S : s \in Session => Kept(S)[s] = txMem[s]
<1>1. /\ txMem \in [Session -> Tx]
      /\ \A s \in Session : Cardinality(txMem[s].seqNos) <= EventRecordSize
  BY DEF IInv, TypeOK
<1>2. NewTx(0) \in Tx /\ NewTx(0).seqNos = {}
  <2>1. 0 \in TxNr /\ 0 \in SeqNo /\ {} \in SUBSET SeqNo
    BY Sizes DEF TxNr, SeqNo
  <2>2. QED
    BY <2>1 DEF NewTx, Tx
<1>3. Cardinality({}) = 0 /\ 0 <= EventRecordSize
  BY FS_EmptySet, Sizes
<1>4. \A s \in Session : Kept(S)[s] = IF s \in S THEN txMem[s] ELSE NewTx(0)
  BY DEF Kept
<1>5. Kept(S) \in [Session -> Tx]
  BY <1>1, <1>2 DEF Kept
<1>6. \A s \in Session : Cardinality(Kept(S)[s].seqNos) <= EventRecordSize
  BY <1>1, <1>2, <1>3, <1>4
<1>7. QED
  BY <1>4, <1>5, <1>6

\* The transaction of the EVSE is given up, when nothing of it is to come any more.
LEMMA CollectStep ==
    ASSUME IInv, Collect
    PROVE  IInv'
<1>1. /\ transaction # None /\ (isAborted(Current.tx) \/ Current.tx.stopped)
      /\ transaction' = None /\ txMem' = Kept({txFront}) /\ authorizing' = FALSE
      /\ UNCHANGED <<txNrs, frontVars, txFlash, txEnv, txHistory>>
  BY DEF Collect
<1>2. /\ UNCHANGED <<txNrBegin, txNrFront, txNrEnd, txFront, txEventFront, requested, txFlash,
                     timed, boots, nextSession, owed, received>>
  BY <1>1 DEF txNrs, frontVars, txEnv, txHistory
<1>3. /\ txMem' \in [Session -> Tx]
      /\ \A s \in Session : Cardinality(txMem'[s].seqNos) <= EventRecordSize
      /\ txFront \in Session => txMem'[txFront] = txMem[txFront]
  BY <1>1, KeptIs
<1>4. txFront # None => txFront \in Session
  BY DEF IInv, TypeOK
<1>5. TypeOK'
  BY <1>1, <1>2, <1>3 DEF IInv, TypeOK
<1>6. Objects'
  <2>1. txFront # None => txMem[txFront].nr = txNrFront /\ Pending > 0 /\ Sound(Front)
    BY DEF IInv, Objects
  <2>2. txFront # None => Front' = Front
    BY <1>2, <1>3, <1>4 DEF Front
  <2>3. Pending' = Pending
    BY <1>2 DEF Pending
  <2>4. QED
    BY <1>1, <1>2, <1>3, <1>4, <2>1, <2>2, <2>3 DEF Objects
<1>7. Passed'
  BY <1>2 DEF IInv, Passed, Size
<1>8. FrontIsFirst'
  <2>1. FrontIsFirst /\ (txEventFront # None => txFront # None) /\ (requested => txEventFront # None)
    BY DEF IInv, TypeOK
  <2>2. QED
    BY <1>2, <1>3, <1>4, <2>1 DEF FrontIsFirst
<1>9. ASSUME NEW m \in owed, m[2] = ToEnd PROVE FALSE
  <2>1. transaction = m[1]
    BY <1>9 DEF IInv
  <2>2. Held(Current) /\ Current.session = transaction
    BY <1>1, CurrentIs DEF Held
  <2>3. Owes(Current.tx, m[2])
    BY <2>1, <2>2, HeldOwed
  <2>4. QED
    BY <1>1, <1>9, <2>3 DEF Owes, isAborted
<1>10. InOrder(received', txNrBegin, Size, txFlash) /\ received'[1] < nextSession
  BY <1>2 DEF IInv
<1>11. QED
  BY <1>2, <1>5, <1>6, <1>7, <1>8, <1>9, <1>10, SameJournal

\* The connection is up.
LEMMA ConnectStep ==
    ASSUME IInv, Connect
    PROVE  IInv'
<1>1. /\ timed' = TRUE
      /\ UNCHANGED <<txNrBegin, txNrFront, txNrEnd, txFront, txEventFront, requested, transaction,
                     txMem, txFlash, authorizing, boots, nextSession, owed, received>>
  BY DEF Connect, txNrs, frontVars, txHistory
<1>2. TypeOK'
  BY <1>1 DEF IInv, TypeOK
<1>3. Objects' /\ Passed' /\ FrontIsFirst'
  BY <1>1 DEF IInv, Objects, Passed, FrontIsFirst, Current, Front, Pending, Size, Back
<1>4. QED
  BY <1>1, <1>2, <1>3, SameJournal DEF IInv

-----------------------------------------------------------------------------
(* The send queue goes on to the next transaction.                         *)

\* It goes on up to the first one that is not done with.
LEMMA CollectedIs ==
    ASSUME IInv
    PROVE  /\ Collected \in 0 .. Pending /\ Pending \in Nat
           /\ \A j \in 0 .. Collected - 1 : CollectableAt(j)
<1> DEFINE S == {k \in 0 .. Pending : k = Pending \/ ~CollectableAt(k)}
           P(k) == (\A j \in 0 .. k - 1 : CollectableAt(j)) /\ (k = Pending \/ ~CollectableAt(k))
<1>1. Pending \in Nat
  <2>1. /\ Size \in 1 .. RecordSize + 1 /\ Pending = Size - Minus(txNrFront, txNrBegin)
        /\ Minus(txNrFront, txNrBegin) \in 0 .. Size
    BY NumbersAre
  <2>2. QED
    BY <2>1, Sizes
<1>2. S \subseteq Nat /\ S # {}
  <2>1. Pending \in S
    BY <1>1
  <2>2. QED
    BY <1>1, <2>1
<1>3. PICK k \in S : \A y \in S : k <= y
  BY <1>2, Least
<1>4. \A j \in 0 .. k - 1 : CollectableAt(j)
  <2>1. TAKE j \in 0 .. k - 1
  <2>2. j \in 0 .. Pending /\ j < k
    BY <1>1
  <2>3. j \notin S
    BY <1>1, <1>3, <2>2
  <2>4. QED
    BY <2>2, <2>3
<1>5. k \in 0 .. Pending /\ (k = Pending \/ ~CollectableAt(k))
  OBVIOUS
<1> HIDE DEF S
<1>6. \E i \in 0 .. Pending : P(i)
  BY <1>4, <1>5
<1>7. Collected = CHOOSE i \in 0 .. Pending : P(i)
  BY DEF Collected
<1> HIDE DEF P
<1>8. Collected \in 0 .. Pending /\ P(Collected)
  BY <1>6, <1>7
<1>9. QED
  BY <1>1, <1>8 DEF P

\* The numbers from the front on.
LEMMA FrontAtIs ==
    ASSUME IInv, NEW k \in 0 .. Pending
    PROVE  /\ FrontAt(k) \in TxNr
           /\ Minus(FrontAt(k), txNrBegin) = Minus(txNrFront, txNrBegin) + k
           /\ k < Pending => InWindow(txNrBegin, Size, FrontAt(k))
<1>1. /\ txNrBegin \in TxNr /\ txNrFront \in TxNr
      /\ Size \in 1 .. RecordSize + 1 /\ Size < MaxTxCnt
      /\ Pending = Size - Minus(txNrFront, txNrBegin)
      /\ Minus(txNrFront, txNrBegin) \in 0 .. Size
  BY NumbersAre
<1>2. /\ k \in Nat /\ Minus(txNrFront, txNrBegin) + k < MaxTxCnt
      /\ k < Pending => Minus(txNrFront, txNrBegin) + k < Size
  BY <1>1, Sizes
<1>3. /\ (txNrFront + k) % MaxTxCnt \in TxNr
      /\ Minus((txNrFront + k) % MaxTxCnt, txNrBegin) = Minus(txNrFront, txNrBegin) + k
  BY <1>1, <1>2, ForthIs
<1>4. QED
  BY <1>2, <1>3 DEF FrontAt, InWindow

\* What the queue works with at a number is its entry of the journal.
LEMMA EntryAt ==
    ASSUME IInv, NEW n, InWindow(txNrBegin, Size, n)
    PROVE  /\ Found(txFlash[n]) # {} /\ EntryOf(Filed(txFlash, n), txNrBegin, Size, txFlash)
           /\ transaction # None /\ txMem[transaction].nr = n =>
                 EntryOf(Current, txNrBegin, Size, txFlash) /\ Current.tx.nr = n
           /\ txFront # None /\ txMem[txFront].nr = n =>
                 EntryOf(Front, txNrBegin, Size, txFlash) /\ Front.tx.nr = n
<1> DEFINE p == Filed(txFlash, n)
<1>1. n \in TxNr /\ Minus(n, txNrBegin) < Size
  BY DEF InWindow
<1>2. Sound(p) /\ p.tx.nr = n
  BY <1>1 DEF IInv, Journal
<1>3. p.files = txFlash[n]
  BY DEF Filed, Load, Pair
<1> HIDE DEF p
<1>4. EntryOf(p, txNrBegin, Size, txFlash)
  BY <1>2, <1>3, EntryFrom
<1>5. Found(txFlash[n]) # {}
  <2>1. LastFile(p) \in SeqNo /\ p.files[LastFile(p)] # None
    BY <1>2, LastFileIs
  <2>2. QED
    BY <1>3, <2>1 DEF Found
<1>6. QED
  BY <1>4, <1>5, CurrentIs, FrontIs DEF p

\* What it passes by is done with.
LEMMA CollectableIs ==
    ASSUME IInv, NEW k \in 0 .. Pending, k < Pending, CollectableAt(k)
    PROVE  Done(Filed(txFlash, FrontAt(k)).tx)
<1> DEFINE n == FrontAt(k)
<1>1. InWindow(txNrBegin, Size, n)
  BY FrontAtIs
<1> HIDE DEF n
<1>2. /\ Found(txFlash[n]) # {}
      /\ transaction # None /\ txMem[transaction].nr = n =>
            EntryOf(Current, txNrBegin, Size, txFlash) /\ Current.tx.nr = n
      /\ txFront # None /\ txMem[txFront].nr = n =>
            EntryOf(Front, txNrBegin, Size, txFlash) /\ Front.tx.nr = n
  BY <1>1, EntryAt
<1>3. ASSUME NEW p, EntryOf(p, txNrBegin, Size, txFlash), p.tx.nr = n, Done(p.tx)
      PROVE  Done(Filed(txFlash, n).tx)
  <2>1. Alike(p, Filed(txFlash, n))
    BY <1>3 DEF EntryOf
  <2>2. QED
    BY <1>3, <2>1, AlikeSame
<1>4. CASE k = 0 /\ txFront # None
  <2>1. Front.tx = txMem[txFront] /\ Front.tx.nr = txNrFront
    BY <1>4, FrontIs
  <2>2. n = txNrFront
    <3>1. Minus(FrontAt(k), txNrBegin) = Minus(txNrFront, txNrBegin) + 0
      BY <1>4, FrontAtIs
    <3>2. txNrBegin \in TxNr /\ txNrFront \in TxNr /\ FrontAt(k) \in TxNr
      BY NumbersAre, FrontAtIs
    <3>3. Minus(FrontAt(k), txNrBegin) = Minus(txNrFront, txNrBegin)
      BY <3>1, <3>2, MinusType, Sizes
    <3>4. QED
      BY <3>2, <3>3, MinusInjective DEF n
  <2>3. Done(Front.tx)
    BY <1>4, <2>1 DEF CollectableAt, Done
  <2>4. QED
    BY <1>2, <1>3, <1>4, <2>1, <2>2, <2>3 DEF n
<1>5. CASE ~(k = 0 /\ txFront # None)
  <2>1. Collectable(n)
    BY <1>5 DEF CollectableAt, n
  <2>2. CASE transaction # None /\ txMem[transaction].nr = n
    <3>1. Current.tx = txMem[transaction]
      BY <2>2, CurrentIs
    <3>2. Done(Current.tx)
      BY <2>1, <2>2, <3>1 DEF Collectable, Done
    <3>3. QED
      BY <1>2, <1>3, <2>2, <3>2 DEF n
  <2>3. CASE ~(transaction # None /\ txMem[transaction].nr = n)
    <3>1. Done(TxAt(n))
      BY <1>2, <2>1, <2>3 DEF Collectable, Known, Done
    <3>2. CASE txFront # None /\ txMem[txFront].nr = n
      <4>1. Front.tx = txMem[txFront]
        BY <3>2, FrontIs
      <4>2. QED
        BY <1>2, <1>3, <3>1, <3>2, <4>1 DEF TxAt, n
    <3>3. CASE ~(txFront # None /\ txMem[txFront].nr = n)
      BY <3>1, <3>3 DEF TxAt, Filed, n
    <3>4. QED
      BY <3>2, <3>3
  <2>4. QED
    BY <2>2, <2>3
<1>6. QED
  BY <1>4, <1>5

\* The queue has passed by what it has collected.
LEMMA CollectedPassed ==
    ASSUME IInv, txNrFront' = FrontAt(Collected), UNCHANGED <<txNrBegin, txNrEnd, txFlash>>
    PROVE  Passed' /\ txNrFront' \in TxNr /\ Pending' = Pending - Collected
<1>1. /\ Collected \in 0 .. Pending /\ Pending \in Nat
      /\ \A j \in 0 .. Collected - 1 : CollectableAt(j)
  BY CollectedIs
<1>2. /\ txNrFront' \in TxNr
      /\ Minus(txNrFront', txNrBegin) = Minus(txNrFront, txNrBegin) + Collected
  BY <1>1, FrontAtIs
<1>3. /\ txNrBegin \in TxNr /\ txNrFront \in TxNr /\ txNrEnd \in TxNr
      /\ Size \in 1 .. RecordSize + 1
      /\ Pending = Size - Minus(txNrFront, txNrBegin)
      /\ Minus(txNrFront, txNrBegin) \in 0 .. Size
  BY NumbersAre
<1>4. Size \in Nat /\ Minus(txNrFront, txNrBegin) \in Nat
  BY <1>3, Sizes
<1>5. Minus(txNrFront', txNrBegin) <= Size
  BY <1>1, <1>2, <1>3, <1>4
<1>6. Pending' = Pending - Collected
  <2>1. Pending' = Minus(txNrEnd, txNrFront') /\ Size = Minus(txNrEnd, txNrBegin)
    BY DEF Pending, Size
  <2>2. Pending' = IF Size >= Minus(txNrFront', txNrBegin) THEN Size - Minus(txNrFront', txNrBegin)
                   ELSE Size + MaxTxCnt - Minus(txNrFront', txNrBegin)
    BY <1>2, <1>3, <2>1, MinusFrom
  <2>3. QED
    BY <1>1, <1>2, <1>3, <1>4, <1>5, <2>2
<1>7. ASSUME NEW k \in TxNr, Minus(k, txNrBegin) < Minus(txNrFront', txNrBegin)
      PROVE  Done(Filed(txFlash, k).tx)
  <2>1. Minus(k, txNrBegin) \in Nat
    BY <1>3, MinusType, Sizes
  <2>2. CASE Minus(k, txNrBegin) < Minus(txNrFront, txNrBegin)
    BY <2>2 DEF IInv, Passed
  <2>3. CASE Minus(k, txNrBegin) >= Minus(txNrFront, txNrBegin)
    <3>1. PICK j : j = Minus(k, txNrBegin) - Minus(txNrFront, txNrBegin)
      OBVIOUS
    <3>2. j \in 0 .. Collected - 1 /\ j \in 0 .. Pending /\ j < Pending
      BY <1>1, <1>2, <1>4, <1>7, <2>1, <2>3, <3>1
    <3>3. FrontAt(j) \in TxNr /\ Minus(FrontAt(j), txNrBegin) = Minus(txNrFront, txNrBegin) + j
      BY <3>2, FrontAtIs
    <3>4. Minus(FrontAt(j), txNrBegin) = Minus(k, txNrBegin)
      BY <1>4, <2>1, <3>1, <3>3
    <3>5. FrontAt(j) = k
      BY <1>3, <3>3, <3>4, MinusInjective
    <3>6. CollectableAt(j)
      BY <1>1, <3>2
    <3>7. QED
      BY <3>2, <3>5, <3>6, CollectableIs
  <2>4. QED
    BY <1>4, <2>1, <2>2, <2>3
<1>8. Size' = Size
  BY DEF Size
<1>9. QED
  BY <1>2, <1>5, <1>6, <1>7, <1>8 DEF Passed

\* The transaction that comes to the front.
LEMMA NewFrontIs ==
    ASSUME IInv, Collected # Pending
    PROVE  /\ EntryOf(NewFront, txNrBegin, Size, txFlash) /\ NewFront.tx.nr = FrontAt(Collected)
           /\ NewFront.files = txFlash[FrontAt(Collected)]
<1>1. /\ Collected \in 0 .. Pending /\ Pending \in Nat /\ Collected < Pending
  BY CollectedIs
<1> DEFINE n == FrontAt(Collected)
<1>2. InWindow(txNrBegin, Size, n)
  BY <1>1, FrontAtIs
<1>3. /\ EntryOf(Filed(txFlash, n), txNrBegin, Size, txFlash)
      /\ transaction # None /\ txMem[transaction].nr = n =>
            EntryOf(Current, txNrBegin, Size, txFlash) /\ Current.tx.nr = n
  BY <1>2, EntryAt
<1>4. n \in TxNr /\ Filed(txFlash, n).tx.nr = n
  BY <1>2 DEF IInv, Journal, InWindow
<1>5. CASE Collected = 0 /\ txFront # None
  <2>1. NewFront = Front
    BY <1>1, <1>5 DEF NewFront, Front
  <2>2. /\ Front.tx.nr = txNrFront /\ EntryOf(Front, txNrBegin, Size, txFlash)
        /\ Front.tx = txMem[txFront] /\ Front.files = txFlash[Front.tx.nr]
    BY <1>5, FrontIs DEF Front, Pair
  <2>3. n = txNrFront
    <3>1. Minus(FrontAt(Collected), txNrBegin) = Minus(txNrFront, txNrBegin) + 0
      BY <1>1, <1>5, FrontAtIs
    <3>2. txNrBegin \in TxNr /\ txNrFront \in TxNr
      BY NumbersAre
    <3>3. Minus(n, txNrBegin) = Minus(txNrFront, txNrBegin)
      BY <3>1, <3>2, MinusType, Sizes
    <3>4. QED
      BY <1>4, <3>2, <3>3, MinusInjective
  <2>4. QED
    BY <2>1, <2>2, <2>3
<1>6. CASE ~(Collected = 0 /\ txFront # None) /\ transaction # None /\ txMem[transaction].nr = n
  <2>1. NewFront = Current
    BY <1>1, <1>6 DEF NewFront
  <2>2. Current.files = txFlash[Current.tx.nr]
    BY DEF Current, Pair
  <2>3. QED
    BY <1>3, <1>6, <2>1, <2>2
<1>7. CASE ~(Collected = 0 /\ txFront # None) /\ ~(transaction # None /\ txMem[transaction].nr = n)
  <2>1. NewFront = Filed(txFlash, n)
    BY <1>1, <1>7 DEF NewFront, Filed
  <2>2. Filed(txFlash, n).files = txFlash[n]
    BY DEF Filed, Load, Pair
  <2>3. QED
    BY <1>3, <1>4, <2>1, <2>2
<1>8. QED
  BY <1>5, <1>6, <1>7

\* The queue looks for the event to send next.
LEMMA getFrontRequestOpNrStep ==
    ASSUME IInv, getFrontRequestOpNr
    PROVE  IInv'
<1>1. /\ timed /\ ~requested /\ txEventFront = None
      /\ txNrFront' = FrontAt(Collected)
      /\ UNCHANGED <<txNrBegin, txNrEnd, requested, transaction, txFlash, authorizing,
                     timed, boots, nextSession, owed, received>>
  BY DEF getFrontRequestOpNr, txEnv, txHistory
<1>2. Passed' /\ txNrFront' \in TxNr /\ Pending' = Pending - Collected
  BY <1>1, CollectedPassed
<1>3. /\ \A m \in owed : m[2] = ToEnd => transaction' = m[1]
      /\ InOrder(received', txNrBegin, Size, txFlash) /\ received'[1] < nextSession
  BY <1>1 DEF IInv
<1>4. transaction \in Session \cup {None}
  BY DEF IInv, TypeOK
<1>5. /\ Kept({transaction}) \in [Session -> Tx]
      /\ \A s \in Session : Cardinality(Kept({transaction})[s].seqNos) <= EventRecordSize
      /\ transaction \in Session => Kept({transaction})[transaction] = txMem[transaction]
  BY KeptIs
<1>6. Back(1)' = Back(1)
  BY <1>1 DEF Back
<1>7. CASE NewFront = None
  <2>1. txFront' = None /\ txMem' = Kept({transaction}) /\ txEventFront' = txEventFront
    BY <1>7 DEF getFrontRequestOpNr
  <2>2. TypeOK'
    BY <1>1, <1>2, <1>5, <2>1 DEF IInv, TypeOK
  <2>3. Objects'
    <3>1. transaction # None => Current' = Current
      BY <1>1, <1>4, <1>5, <2>1 DEF Current
    <3>2. QED
      BY <1>1, <1>4, <1>5, <1>6, <2>1, <3>1 DEF IInv, Objects
  <2>4. FrontIsFirst'
    BY <1>1, <2>1 DEF FrontIsFirst
  <2>5. QED
    BY <1>1, <1>2, <1>3, <2>2, <2>3, <2>4, SameJournal
<1>8. CASE NewFront # None
  <2>1. PICK p : p = NewFront
    OBVIOUS
  <2> DEFINE n == FrontSeqNo(p.tx.seqNos)
  <2>2. /\ txFront' = p.session
        /\ txMem' = [Kept({transaction}) EXCEPT ![p.session] = p.tx]
        /\ txEventFront' =
               IF p.tx.seqNos = {} THEN None
               ELSE [seqNo |-> n, type |-> p.files[n].event.type,
                     attemptNr |-> p.files[n].event.attemptNr,
                     timed |-> p.files[n].event.timed]
    BY <1>8, <2>1 DEF getFrontRequestOpNr
  <2>3. Collected # Pending
    BY <1>8 DEF NewFront
  <2>4. /\ EntryOf(p, txNrBegin, Size, txFlash) /\ p.tx.nr = txNrFront' /\ p.files = txFlash[p.tx.nr]
    BY <1>1, <2>1, <2>3, NewFrontIs
  <2>5. /\ Sound(p) /\ Laid(p) /\ p \in Pairs /\ p.session \in Session /\ p.tx \in Tx
        /\ p.tx.seqNos \subseteq SeqNo /\ Cardinality(p.tx.seqNos) <= EventRecordSize
        /\ p = Pair(p.session, p.tx, p.files)
    BY <2>4, PairIs DEF EntryOf, Sound, Laid, Pair
  <2>6. /\ txMem' \in [Session -> Tx] /\ txMem'[p.session] = p.tx
        /\ \A s \in Session : s # p.session => txMem'[s] = Kept({transaction})[s]
    BY <1>5, <2>2, <2>5
  <2>7. \A s \in Session : Cardinality(txMem'[s].seqNos) <= EventRecordSize
    BY <1>5, <2>5, <2>6
  <2>8. p.tx.seqNos # {} => /\ n \in p.tx.seqNos /\ n \in SeqNo /\ p.files[n].event \in TxEvent
                            /\ \A m \in p.tx.seqNos : n <= m
    <3>1. SUFFICES ASSUME p.tx.seqNos # {}
                   PROVE  /\ n \in p.tx.seqNos /\ n \in SeqNo /\ p.files[n].event \in TxEvent
                          /\ \A m \in p.tx.seqNos : n <= m
      OBVIOUS
    <3>2. n \in p.tx.seqNos /\ \A m \in p.tx.seqNos : n <= m
      BY <2>5, <3>1, MinIs
    <3> HIDE DEF n
    <3>3. n \in SeqNo /\ p.files \in TxFiles
      BY <2>5, <3>2, PairIs
    <3>4. p.files[n] # None /\ p.files[n].event # None
      BY <2>5, <3>2, <3>3 DEF Laid
    <3>5. p.files[n] \in TxFile
      BY <3>3, <3>4 DEF TxFiles
    <3>6. QED
      BY <3>2, <3>3, <3>4, <3>5 DEF TxFile
  <2> HIDE DEF n
  <2>9. txEventFront' \in FrontTxEvent \cup {None}
    BY <2>2, <2>8 DEF FrontTxEvent, TxEvent
  <2>10. txFront' # None /\ txFront' \in Session
    BY <2>2, <2>5, NoneAssumption
  <2>11. TypeOK'
    BY <1>1, <1>2, <2>6, <2>7, <2>9, <2>10 DEF IInv, TypeOK
  <2>12. Front' = p
    BY <1>1, <2>2, <2>4, <2>5, <2>6 DEF Front
  <2>13. ASSUME transaction # None
         PROVE  txMem'[transaction].nr = Back(1) /\ Sound(Current')
    <3>1. /\ transaction \in Session /\ Current.session = transaction
          /\ Current.tx = txMem[transaction] /\ EntryOf(Current, txNrBegin, Size, txFlash)
      BY <2>13, CurrentIs
    <3>2. txMem[transaction].nr = Back(1) /\ Sound(Current)
      BY <2>13 DEF IInv, Objects
    <3>3. CASE transaction = p.session
      <4>1. p.tx.nr = Back(1)
        <5>1. /\ InWindow(txNrBegin, Size, p.tx.nr) /\ InWindow(txNrBegin, Size, Current.tx.nr)
              /\ Filed(txFlash, p.tx.nr).session = Filed(txFlash, Current.tx.nr).session
          BY <2>4, <3>1, <3>3 DEF EntryOf, Alike
        <5>2. Journal(txNrBegin, Size, txFlash, nextSession)
          BY DEF IInv
        <5>3. p.tx.nr = Current.tx.nr
          BY <5>1, <5>2, SessionsDiffer
        <5>4. QED
          BY <3>1, <3>2, <5>3
      <4>2. Current' = p
        BY <1>1, <2>4, <2>5, <2>6, <3>3 DEF Current
      <4>3. QED
        BY <2>5, <2>6, <3>3, <4>1, <4>2
    <3>4. CASE transaction # p.session
      <4>1. txMem'[transaction] = txMem[transaction]
        BY <1>5, <2>6, <3>1, <3>4
      <4>2. Current' = Current
        BY <1>1, <4>1 DEF Current
      <4>3. QED
        BY <3>2, <4>1, <4>2
    <3>5. QED
      BY <3>3, <3>4
  <2>14. Pending' > 0
    BY <1>2, <2>3, CollectedIs
  <2>15. Objects'
    BY <1>1, <1>6, <2>2, <2>4, <2>5, <2>6, <2>12, <2>13, <2>14 DEF Objects
  <2>16. FrontIsFirst'
    <3>1. ASSUME txEventFront' # None
          PROVE  /\ txEventFront'.seqNo \in txMem'[txFront'].seqNos
                 /\ \A m \in txMem'[txFront'].seqNos : txEventFront'.seqNo <= m
      BY <2>2, <2>6, <2>8, <3>1
    <3>2. QED
      BY <1>1, <3>1 DEF FrontIsFirst
  <2>17. QED
    BY <1>1, <1>2, <1>3, <2>11, <2>15, <2>16, SameJournal
<1>9. QED
  BY <1>7, <1>8

-----------------------------------------------------------------------------
(* The event at the front.                                                 *)

\* The transaction it is about, and that it is the oldest one of it.
LEMMA FrontEventIs ==
    ASSUME IInv, txEventFront # None
    PROVE  /\ txFront # None /\ txFront \in Session /\ Held(Front) /\ Sound(Front) /\ Front \in Pairs
           /\ Front.session = txFront /\ Front.tx = txMem[txFront] /\ Front.tx.nr = txNrFront
           /\ txEventFront \in FrontTxEvent /\ txEventFront.seqNo \in SeqNo
           /\ ~Front.tx.silent => /\ FirstIn(Front.tx.seqNos, txEventFront.seqNo)
                                  /\ Front.tx.started
           /\ requested => ~Front.tx.silent
<1>1. txFront # None /\ txEventFront \in FrontTxEvent
  BY DEF IInv, TypeOK
<1>2. /\ txFront \in Session /\ Front.session = txFront /\ Front.tx = txMem[txFront]
      /\ Front.tx.nr = txNrFront
  BY <1>1, FrontIs
<1>3. Held(Front)
  BY <1>1 DEF Held
<1>4. Sound(Front) /\ Laid(Front) /\ Front \in Pairs
  BY <1>3, HeldIs DEF Sound, Laid
<1>5. txEventFront.seqNo \in SeqNo
  BY <1>1 DEF FrontTxEvent
<1>6. ~Front.tx.silent => FirstIn(Front.tx.seqNos, txEventFront.seqNo)
  BY <1>2 DEF IInv, FrontIsFirst, FirstIn
<1>7. ~Front.tx.silent => Front.tx.started
  BY <1>4, <1>6 DEF Laid, FirstIn
<1>8. requested => ~Front.tx.silent
  BY <1>2 DEF IInv, FrontIsFirst
<1>9. QED
  BY <1>1, <1>2, <1>3, <1>4, <1>5, <1>6, <1>7, <1>8

\* The oldest event goes, and nothing else changes for the server.
LEMMA RemovedIs ==
    ASSUME NEW p, Sound(p), NEW n, FirstIn(p.tx.seqNos, n), NEW q, q = RemoveEvent(p, n)
    PROVE  /\ Sound(q) /\ Follows(p, q) /\ q.tx.silent = p.tx.silent
           /\ \A k : Owes(p.tx, k) /\ k # n => Owes(q.tx, k)
           /\ \A last : NotBefore(last, p) => NotBefore(last, q)
           /\ q.tx.seqNos \subseteq p.tx.seqNos /\ q.tx.seqNoEnd = p.tx.seqNoEnd
<1>1. n \in p.tx.seqNos /\ \A m \in p.tx.seqNos : n <= m
  BY DEF FirstIn
<1>2. /\ Sound(q) /\ q.session = p.session /\ SameTx(p.tx, q.tx)
      /\ q.tx.seqNos = p.tx.seqNos \ {n}
  BY <1>1, RemoveEventIs
<1>3. Follows(p, q)
  BY <1>2 DEF SameTx, Follows, Done, isAborted, isReported
<1>4. \A k : Owes(p.tx, k) /\ k # n => Owes(q.tx, k)
  BY <1>2 DEF SameTx, Owes
<1>5. \A last : NotBefore(last, p) => NotBefore(last, q)
  BY <1>2 DEF SameTx, NotBefore
<1>6. QED
  BY <1>2, <1>3, <1>4, <1>5 DEF SameTx

\* A transaction whose start time is lost goes silent; some of its events may be left.
LEMMA InvalidIs ==
    ASSUME IInv, txEventFront # None, NEW upTo
    PROVE  LET q == Discarded(Invalid, upTo)
           IN  /\ Sound(q) /\ q.session = txFront /\ q.tx.nr = Front.tx.nr /\ q.tx.silent
               /\ Follows(Front, q)
<1>1. PICK p : p = Front
  OBVIOUS
<1>2. Laid(p) /\ p \in Pairs /\ p.session = txFront /\ p.tx \in Tx
  BY <1>1, FrontEventIs, PairIs DEF Sound
<1>3. PICK t : t = [p.tx EXCEPT !.silent = TRUE, !.active = FALSE]
  OBVIOUS
<1>4. /\ t \in Tx /\ t.nr = p.tx.nr /\ t.silent /\ t.started = p.tx.started /\ t.stopped = p.tx.stopped
      /\ t.seqNos = p.tx.seqNos /\ t.seqNoEnd = p.tx.seqNoEnd
  BY <1>2, <1>3 DEF Tx
<1>5. PICK a : a = [p EXCEPT !.tx = t]
  OBVIOUS
<1>6. a \in Pairs /\ a.session = p.session /\ a.tx = t /\ a.files = p.files
  BY <1>2, <1>4, <1>5, WithTx
<1>7. Laid(a)
  BY <1>2, <1>4, <1>6 DEF Laid
<1>8. a = [p EXCEPT !.tx.silent = TRUE, !.tx.active = FALSE]
  BY <1>3, <1>5
<1>9. PICK c : c = CommitTx(a)
  OBVIOUS
<1>10. Sound(c) /\ Thinned(a, c) /\ c.files[c.tx.seqNoEnd] # None
  BY <1>7, <1>9, CommitTxIs
<1>11. Invalid = c
  BY <1>1, <1>8, <1>9 DEF Invalid
<1>12. PICK out : out = {n \in c.tx.seqNos : n <= upTo}
  OBVIOUS
<1>13. PICK q : q = Without(c, out)
  OBVIOUS
<1>14. c \in Pairs /\ out \subseteq c.tx.seqNos
  BY <1>10, <1>12 DEF Sound, Laid
<1>15. Sound(q)
  BY <1>10, <1>13, <1>14, WithoutSound
<1>16. q.session = c.session /\ SameTx(c.tx, q.tx)
  BY <1>13, <1>14, WithoutIs
<1>17. q.session = txFront /\ q.tx.nr = p.tx.nr /\ q.tx.silent
  BY <1>2, <1>4, <1>6, <1>10, <1>16 DEF Thinned, SameTx
<1>18. Discarded(Invalid, upTo) = q
  BY <1>11, <1>12, <1>13 DEF Discarded
<1>19. Follows(p, q)
  BY <1>2, <1>17 DEF Follows, Done
<1>20. QED
  BY <1>1, <1>15, <1>17, <1>18, <1>19

\* An object of the queue is changed.
LEMMA QueueApplied ==
    ASSUME IInv, NEW q, q.session = txFront, Apply(q),
           UNCHANGED <<txNrs, txFront, transaction, nextSession>>
    PROVE  Applied(Front, q)
  BY DEF Applied, txNrs

\* What is owed of the front, but for its event.
LEMMA FrontOwedAfter ==
    ASSUME IInv, txEventFront # None, NEW q, q.session = txFront, owed' = owed \ {FrontEvent},
           \A k : Owes(Front.tx, k) /\ k # txEventFront.seqNo => Owes(q.tx, k)
    PROVE  OwedAfter(q)
<1>1. owed \subseteq Session \X (SeqNo \cup {ToEnd})
  BY DEF IInv, TypeOK
<1>2. Held(Front) /\ Front.session = txFront
  BY FrontEventIs
<1>3. ASSUME NEW m \in owed', m[1] = q.session
      PROVE  Owes(q.tx, m[2]) /\ (m[2] = ToEnd => transaction = q.session)
  <2>1. m \in owed /\ m = <<m[1], m[2]>> /\ m # FrontEvent
    BY <1>1, <1>3
  <2>2. m[2] # txEventFront.seqNo
    BY <1>3, <2>1 DEF FrontEvent
  <2>3. Owes(Front.tx, m[2]) /\ (m[2] = ToEnd => transaction = Front.session)
    BY <1>2, <1>3, <2>1, HeldOwed
  <2>4. QED
    BY <1>2, <2>2, <2>3
<1>4. QED
  BY <1>1, <1>3 DEF OwedAfter

\* An event of a lost start time.
LEMMA FetchInvalidStep ==
    ASSUME IInv, ~requested, txEventFront # None, FetchInvalid,
           UNCHANGED <<txNrs, txFront, transaction, authorizing, txEnv, received>>
    PROVE  IInv'
<1>1. PICK q : q = Discarded(Invalid, LastSeqNo)
  OBVIOUS
<1>2. /\ Apply(q) /\ owed' = OwedByOthers
      /\ UNCHANGED <<txEventFront, requested, timed, boots, nextSession>>
  BY <1>1 DEF FetchInvalid, txEnv
<1>3. /\ Sound(q) /\ q.session = txFront /\ q.tx.nr = Front.tx.nr /\ q.tx.silent
      /\ Follows(Front, q)
  BY <1>1, InvalidIs
<1>4. Held(Front) /\ txFront # None
  BY FrontEventIs
<1>5. Applied(Front, q)
  BY <1>2, <1>3, QueueApplied
<1>6. txMem'[txFront] = q.tx
  BY <1>3, <1>4, <1>5, ObjectsAfter
<1>7. FrontTypes'
  BY <1>2 DEF FrontTypes, IInv, TypeOK
<1>8. FrontIsFirst'
  BY <1>2, <1>3, <1>6 DEF FrontIsFirst
<1>9. OwedAfter(q)
  BY <1>2, <1>3 DEF OwedAfter, OwedByOthers, IInv, TypeOK
<1>10. ReceivedAfter(q)
  BY <1>3 DEF ReceivedAfter, Done
<1>11. QED
  BY <1>2, <1>3, <1>4, <1>5, <1>7, <1>8, <1>9, <1>10, ApplyStep

\* An event after its last attempt.
LEMMA FetchGivenUpStep ==
    ASSUME IInv, ~requested, txEventFront # None, FetchGivenUp,
           UNCHANGED <<txNrs, txFront, transaction, authorizing, txEnv, received>>
    PROVE  IInv'
<1>1. PICK q : q = RemoveEvent(Front, txEventFront.seqNo)
  OBVIOUS
<1>2. /\ Apply(q) /\ owed' = owed \ {FrontEvent} /\ txEventFront' = None
      /\ ~Front.tx.silent /\ UNCHANGED <<requested, timed, boots, nextSession>>
  BY <1>1 DEF FetchGivenUp, txEnv
<1>3. /\ Held(Front) /\ Sound(Front) /\ FirstIn(Front.tx.seqNos, txEventFront.seqNo)
      /\ Front.session = txFront
  BY <1>2, FrontEventIs
<1>4. /\ Sound(q) /\ Follows(Front, q)
      /\ \A k : Owes(Front.tx, k) /\ k # txEventFront.seqNo => Owes(q.tx, k)
      /\ \A last : NotBefore(last, Front) => NotBefore(last, q)
  BY <1>1, <1>3, RemovedIs
<1>5. q.session = txFront
  BY <1>3, <1>4 DEF Follows
<1>6. Applied(Front, q)
  BY <1>2, <1>5, QueueApplied
<1>7. FrontTypes' /\ FrontIsFirst'
  BY <1>2 DEF FrontTypes, FrontIsFirst, IInv, TypeOK
<1>8. OwedAfter(q)
  BY <1>2, <1>4, <1>5, FrontOwedAfter
<1>9. ReceivedAfter(q)
  <2>1. ~Done(q.tx) => NotBefore(received, q)
    BY <1>3, <1>4, HeldInOrder DEF Follows
  <2>2. QED
    BY <2>1 DEF ReceivedAfter
<1>10. QED
  BY <1>2, <1>3, <1>4, <1>6, <1>7, <1>8, <1>9, ApplyStep

\* An attempt.
LEMMA FetchStep ==
    ASSUME IInv, ~requested, txEventFront # None, Fetch,
           UNCHANGED <<txNrs, txFront, transaction, authorizing, txEnv, received>>
    PROVE  IInv'
<1> DEFINE n == txEventFront.seqNo
           e == [type |-> txEventFront.type, attemptNr |-> txEventFront.attemptNr + 1,
                 timed |-> txEventFront.timed]
<1>1. PICK q : q = CommitEvent(Front, n, e)
  OBVIOUS
<1>2. /\ Apply(q) /\ ~Front.tx.silent /\ txEventFront.attemptNr < MessageAttempts
      /\ txEventFront' = [txEventFront EXCEPT !.attemptNr = @ + 1]
      /\ requested' = TRUE /\ UNCHANGED <<owed, timed, boots, nextSession>>
  BY <1>1 DEF Fetch, txEnv
<1>3. /\ Held(Front) /\ Sound(Front) /\ FirstIn(Front.tx.seqNos, n)
      /\ Front.session = txFront /\ txFront # None /\ txEventFront \in FrontTxEvent
  BY <1>2, FrontEventIs
<1>4. MessageAttempts \in Nat
  BY ConstantsAssumption
<1>5. e \in TxEvent
  BY <1>2, <1>3, <1>4 DEF TxEvent, FrontTxEvent
<1>6. /\ txEventFront' \in FrontTxEvent /\ txEventFront'.seqNo = n
  BY <1>2, <1>3, <1>4 DEF FrontTxEvent
<1> HIDE DEF e, n
<1>7. /\ Sound(q) /\ q.session = txFront /\ q.tx = Front.tx
  BY <1>1, <1>3, <1>5, CommitAgainIs DEF FirstIn
<1>8. Follows(Front, q)
  BY <1>3, <1>7 DEF Follows
<1>9. Applied(Front, q)
  BY <1>2, <1>7, QueueApplied
<1>10. txEventFront' # None
  BY <1>6, NoneAssumption
<1>11. FrontTypes'
  BY <1>2, <1>3, <1>6, <1>10 DEF FrontTypes, IInv, TypeOK
<1>12. FrontIsFirst'
  <2>1. txMem'[txFront] = q.tx
    BY <1>3, <1>7, <1>8, <1>9, ObjectsAfter
  <2>2. QED
    BY <1>2, <1>3, <1>6, <1>7, <2>1 DEF FrontIsFirst, FirstIn
<1>13. OwedAfter(q)
  BY <1>2, <1>3, <1>7, HeldOwed DEF OwedAfter, IInv, TypeOK
<1>14. ReceivedAfter(q)
  <2>1. ~Done(q.tx) => NotBefore(received, q)
    BY <1>3, <1>7, HeldInOrder DEF NotBefore
  <2>2. QED
    BY <2>1 DEF ReceivedAfter
<1>15. QED
  BY <1>2, <1>3, <1>7, <1>8, <1>9, <1>11, <1>12, <1>13, <1>14, ApplyStep

\* The event at the front is fetched.
LEMMA fetchFrontRequestStep ==
    ASSUME IInv, fetchFrontRequest
    PROVE  IInv'
<1>1. /\ ~requested /\ txEventFront # None
      /\ FetchInvalid \/ FetchGivenUp \/ Fetch
      /\ UNCHANGED <<txNrs, txFront, transaction, authorizing, txEnv, received>>
  BY DEF fetchFrontRequest
<1>2. QED
  BY <1>1, FetchInvalidStep, FetchGivenUpStep, FetchStep

\* An answer may end the transaction, in memory.
LEMMA AnsweredIs ==
    ASSUME IInv, txEventFront # None, ~Front.tx.silent, NEW rejected \in BOOLEAN
    PROVE  LET a == Answered(rejected)
           IN  /\ Sound(a) /\ Follows(Front, a) /\ a.tx.silent = Front.tx.silent
               /\ a.tx.seqNos = Front.tx.seqNos /\ a.tx.seqNoEnd = Front.tx.seqNoEnd
               /\ \A k : Owes(Front.tx, k) => Owes(a.tx, k)
<1>1. PICK p : p = Front
  OBVIOUS
<1>2. Sound(p) /\ p \in Pairs /\ p.tx.started /\ p.tx \in Tx
  BY <1>1, FrontEventIs, PairIs
<1>3. PICK t : t = [p.tx EXCEPT !.active = FALSE, !.deauthorized = TRUE]
  OBVIOUS
<1>4. /\ t \in Tx /\ t.nr = p.tx.nr /\ t.silent = p.tx.silent /\ t.started = p.tx.started
      /\ t.stopped = p.tx.stopped /\ t.seqNos = p.tx.seqNos /\ t.seqNoEnd = p.tx.seqNoEnd
      /\ ~t.active
  BY <1>2, <1>3 DEF Tx
<1>5. PICK a : a = [p EXCEPT !.tx = t]
  OBVIOUS
<1>6. a \in Pairs /\ a.session = p.session /\ a.tx = t /\ a.files = p.files
  BY <1>2, <1>4, <1>5, WithTx
<1>7. Touched(p, a)
  BY <1>4, <1>6 DEF Touched
<1>8. Sound(a)
  BY <1>2, <1>7, TouchedSound
<1>9. Follows(p, a) /\ \A k : Owes(p.tx, k) => Owes(a.tx, k)
  <2>1. Laid(p) /\ Thins(p, a)
    BY <1>2, <1>7, TouchedThins DEF Sound
  <2>2. QED
    BY <2>1, ThinsIs
<1>10. a = [p EXCEPT !.tx.active = FALSE, !.tx.deauthorized = TRUE]
  BY <1>3, <1>5
<1>11. Answered(rejected) = IF rejected THEN a ELSE p
  BY <1>1, <1>10 DEF Answered
<1>12. Follows(p, p)
  BY DEF Follows
<1>13. QED
  BY <1>1, <1>2, <1>4, <1>6, <1>8, <1>9, <1>11, <1>12

\* The event is answered.
LEMMA receiveConfStep ==
    ASSUME IInv, receiveConf
    PROVE  IInv'
<1>1. PICK rejected \in BOOLEAN : Apply(Confirmed(rejected))
  BY DEF receiveConf
<1> DEFINE n == txEventFront.seqNo
<1>2. PICK a, q : a = Answered(rejected) /\ q = RemoveEvent(a, n)
  OBVIOUS
<1>3. /\ requested /\ received' = FrontEvent /\ Apply(q) /\ owed' = owed \ {FrontEvent}
      /\ txEventFront' = None /\ requested' = FALSE
      /\ UNCHANGED <<txNrs, txFront, transaction, authorizing, timed, boots, nextSession>>
  BY <1>1, <1>2 DEF receiveConf, Confirmed, txEnv
<1>4. txEventFront # None
  BY <1>3 DEF IInv, TypeOK
<1>5. /\ Held(Front) /\ Sound(Front) /\ FirstIn(Front.tx.seqNos, n) /\ ~Front.tx.silent
      /\ Front.session = txFront /\ txFront # None /\ n \in SeqNo
  BY <1>3, <1>4, FrontEventIs
<1>6. /\ Sound(a) /\ Follows(Front, a)
      /\ a.tx.seqNos = Front.tx.seqNos /\ a.tx.seqNoEnd = Front.tx.seqNoEnd
      /\ \A k : Owes(Front.tx, k) => Owes(a.tx, k)
  BY <1>2, <1>4, <1>5, AnsweredIs
<1>7. /\ Sound(q) /\ Follows(a, q)
      /\ \A k : Owes(a.tx, k) /\ k # n => Owes(q.tx, k)
      /\ q.tx.seqNos \subseteq a.tx.seqNos /\ q.tx.seqNoEnd = a.tx.seqNoEnd
  BY <1>2, <1>5, <1>6, RemovedIs
<1>8. Follows(Front, q) /\ q.session = txFront
  BY <1>5, <1>6, <1>7 DEF Follows
<1>9. Applied(Front, q)
  BY <1>3, <1>8, QueueApplied
<1>10. FrontTypes' /\ FrontIsFirst'
  BY <1>3 DEF FrontTypes, FrontIsFirst, IInv, TypeOK
<1>11. OwedAfter(q)
  BY <1>3, <1>4, <1>6, <1>7, <1>8, FrontOwedAfter
<1>12. ReceivedAfter(q)
  <2>1. received' = <<q.session, n>>
    BY <1>3, <1>8 DEF FrontEvent
  <2>2. n < q.tx.seqNoEnd /\ \A m \in q.tx.seqNos : n <= m
    BY <1>5, <1>6, <1>7 DEF FirstIn, Sound, Laid
  <2>3. NotBefore(received', q)
    BY <2>1, <2>2 DEF NotBefore
  <2>4. QED
    BY <1>5, <1>8, <2>1, <2>3 DEF ReceivedAfter
<1>13. QED
  BY <1>3, <1>5, <1>7, <1>8, <1>9, <1>10, <1>11, <1>12, ApplyStep

\* What is still to come when the server has received the event.
LEMMA FrontReceived ==
    ASSUME IInv, requested
    PROVE  /\ FrontEvent \in Session \X SeqNo /\ FrontEvent[1] < nextSession
           /\ InOrder(FrontEvent, txNrBegin, Size, txFlash)
           /\ NotBefore(FrontEvent, Front)
<1> DEFINE n == txEventFront.seqNo
<1>1. txEventFront # None
  BY DEF IInv, TypeOK
<1>2. /\ Held(Front) /\ Sound(Front) /\ FirstIn(Front.tx.seqNos, n)
      /\ Front.session = txFront /\ txFront \in Session /\ n \in SeqNo /\ Front.tx.nr = txNrFront
  BY <1>1, FrontEventIs
<1>3. FrontEvent = <<Front.session, n>>
  BY <1>2 DEF FrontEvent
<1>4. EntryOf(Front, txNrBegin, Size, txFlash)
  BY <1>2, HeldIs
<1>5. Journal(txNrBegin, Size, txFlash, nextSession)
  BY DEF IInv
<1>6. \A k \in TxNr : Minus(k, txNrBegin) < Minus(Front.tx.nr, txNrBegin) =>
          Done(Filed(txFlash, k).tx)
  BY <1>2 DEF IInv, Passed
<1>7. NotBefore(<<Front.session, n>>, Front)
  BY <1>2 DEF NotBefore, FirstIn, Sound, Laid
<1>8. InOrder(<<Front.session, n>>, txNrBegin, Size, txFlash)
  BY <1>4, <1>5, <1>6, <1>7, InOrderReceived
<1>9. Front.session < nextSession
  BY <1>4, <1>5 DEF EntryOf, InWindow, Journal, Alike
<1>10. QED
  BY <1>2, <1>3, <1>7, <1>8, <1>9

\* The event is not answered.
LEMMA requestAbortedStep ==
    ASSUME IInv, requestAborted
    PROVE  IInv'
<1>1. /\ requested /\ requested' = FALSE /\ received' \in {received, FrontEvent}
      /\ UNCHANGED <<txNrBegin, txNrFront, txNrEnd, txFront, txEventFront, transaction, txMem, txFlash,
                     authorizing, timed, boots, nextSession, owed>>
  BY DEF requestAborted, txNrs, txEnv
<1>2. /\ received' \in Session \X SeqNo /\ received'[1] < nextSession
      /\ InOrder(received', txNrBegin, Size, txFlash)
  <2>1. /\ received \in Session \X SeqNo /\ received[1] < nextSession
        /\ InOrder(received, txNrBegin, Size, txFlash)
    BY DEF IInv, TypeOK
  <2>2. QED
    BY <1>1, <2>1, FrontReceived
<1>3. TypeOK'
  BY <1>1, <1>2 DEF IInv, TypeOK
<1>4. Objects' /\ Passed' /\ FrontIsFirst'
  BY <1>1 DEF IInv, Objects, Passed, FrontIsFirst, Current, Front, Pending, Size, Back
<1>5. QED
  BY <1>1, <1>2, <1>3, <1>4, SameJournal DEF IInv

-----------------------------------------------------------------------------
(* A boot finds the journal again.                                         *)

\* The numbers found are those of the journal, and the first and the last one are told
\* by their distances.
LEMMA FoundIs ==
    ASSUME NEW begin, NEW size, NEW flash, NEW next, Journal(begin, size, flash, next),
           NEW last \in TxNr, Minus(last, begin) = size - 1
    PROVE  /\ Stored(flash) # {} /\ Oldest(Stored(flash)) = begin /\ Newest(Stored(flash)) = last
<1> DEFINE H == MaxTxCnt \div 2
           S == Stored(flash)
<1>1. /\ begin \in TxNr /\ size \in 1 .. RecordSize + 1 /\ RecordSize \in Nat /\ MaxTxCnt \in Nat
      /\ MaxTxCnt >= 2 * RecordSize + 2
  BY Sizes DEF Journal
<1>2. H \in Nat /\ RecordSize + 1 <= H /\ H <= MaxTxCnt - RecordSize
  BY <1>1, SMT
<1> HIDE DEF H
<1>3. \A k \in TxNr : k \in S <=> Minus(k, begin) < size
  <2>1. TAKE k \in TxNr
  <2>2. CASE Minus(k, begin) < size
    <3>1. PICK p : p = Filed(flash, k)
      OBVIOUS
    <3>2. Sound(p)
      BY <2>2, <3>1 DEF Journal
    <3>3. LastFile(p) \in SeqNo /\ p.files[LastFile(p)] # None
      BY <3>2, LastFileIs
    <3>4. p.files = flash[k]
      BY <3>1 DEF Filed, Load, Pair
    <3>5. QED
      BY <2>2, <3>3, <3>4 DEF Stored, Found
  <2>3. CASE ~(Minus(k, begin) < size)
    <3>1. Minus(k, begin) >= size
      BY <1>1, <2>3, MinusType, Sizes
    <3>2. Found(flash[k]) = {}
      BY <3>1 DEF Journal
    <3>3. QED
      BY <2>3, <3>2 DEF Stored
  <2>4. QED
    BY <2>2, <2>3
<1>4. S \subseteq TxNr
  BY DEF Stored
<1> HIDE DEF S
<1>5. \A k \in TxNr : Minus(k, begin) \in Nat /\ Minus(k, begin) < MaxTxCnt
  BY <1>1, MinusType
<1>6. Minus(begin, begin) = 0
  BY <1>1, MinusType
<1>7. begin \in S /\ last \in S
  BY <1>1, <1>3, <1>6
<1>8. \A m \in S : Minus(m, begin) < H
  <2>1. TAKE m \in S
  <2>2. m \in TxNr /\ Minus(m, begin) < size
    BY <1>3, <1>4
  <2>3. QED
    BY <1>1, <1>2, <1>5, <2>2
<1>9. ASSUME NEW n \in S, \A m \in S : Minus(m, n) < H PROVE n = begin
  <2>1. SUFFICES ASSUME n # begin PROVE FALSE
    OBVIOUS
  <2>2. n \in TxNr /\ Minus(n, begin) < size /\ Minus(n, begin) # 0
    BY <1>1, <1>3, <1>4, <2>1, MinusType
  <2>3. Minus(begin, n) = IF Minus(begin, begin) >= Minus(n, begin)
                          THEN Minus(begin, begin) - Minus(n, begin)
                          ELSE Minus(begin, begin) + MaxTxCnt - Minus(n, begin)
    BY <1>1, <2>2, MinusFrom
  <2>4. Minus(begin, n) = MaxTxCnt - Minus(n, begin)
    BY <1>1, <1>5, <1>6, <2>2, <2>3
  <2>5. Minus(begin, n) < H
    BY <1>7, <1>9
  <2>6. QED
    BY <1>1, <1>2, <1>5, <2>2, <2>4, <2>5
<1>10. Oldest(S) = begin
  BY <1>7, <1>8, <1>9 DEF Oldest, H
<1>11. \A m \in S : Minus(last, m) < H
  <2>1. TAKE m \in S
  <2>2. m \in TxNr /\ Minus(m, begin) < size
    BY <1>3, <1>4
  <2>3. Minus(last, m) = IF Minus(last, begin) >= Minus(m, begin)
                         THEN Minus(last, begin) - Minus(m, begin)
                         ELSE Minus(last, begin) + MaxTxCnt - Minus(m, begin)
    BY <1>1, <2>2, MinusFrom
  <2>4. QED
    BY <1>1, <1>2, <1>5, <2>2, <2>3
<1>12. ASSUME NEW n \in S, \A m \in S : Minus(n, m) < H PROVE n = last
  <2>1. SUFFICES ASSUME n # last PROVE FALSE
    OBVIOUS
  <2>2. n \in TxNr /\ Minus(n, begin) < size
    BY <1>3, <1>4
  <2>3. Minus(n, begin) # Minus(last, begin)
    BY <1>1, <2>1, <2>2, MinusInjective
  <2>4. Minus(n, last) = IF Minus(n, begin) >= Minus(last, begin)
                         THEN Minus(n, begin) - Minus(last, begin)
                         ELSE Minus(n, begin) + MaxTxCnt - Minus(last, begin)
    BY <1>1, <2>2, MinusFrom
  <2>5. Minus(n, last) < H
    BY <1>7, <1>12
  <2>6. QED
    BY <1>1, <1>2, <1>5, <2>2, <2>3, <2>4, <2>5
<1>13. Newest(S) = last
  BY <1>7, <1>11, <1>12 DEF Newest, H
<1>14. QED
  BY <1>7, <1>10, <1>13 DEF S

\* The boot restores the invariant from a complete journal.
LEMMA BootStep ==
    ASSUME IInv, boots < MaxBoot, nextSession' = nextSession,
           NEW flash, BootFrom(flash), Journal(txNrBegin, Size, flash, nextSession),
           owed' \subseteq Session \X (SeqNo \cup {ToEnd}), Owed(owed', txNrBegin, Size, flash),
           received' \in Session \X SeqNo, received'[1] < nextSession,
           InOrder(received', txNrBegin, Size, flash)
    PROVE  IInv'
<1>1. /\ txNrBegin \in TxNr /\ txNrEnd \in TxNr /\ Size \in 1 .. RecordSize + 1 /\ Size < MaxTxCnt
      /\ Size \in Nat /\ MaxTxCnt \in Nat
  BY NumbersAre, Sizes
<1>2. PICK last \in TxNr : Minus(last, txNrBegin) = Size - 1
  <2>1. 1 \in 0 .. Minus(txNrEnd, txNrBegin)
    BY <1>1 DEF Size
  <2>2. Minus(txNrEnd, 1) \in TxNr /\ Minus(Minus(txNrEnd, 1), txNrBegin) = Minus(txNrEnd, txNrBegin) - 1
    BY <1>1, <2>1, BackIs
  <2>3. QED
    BY <2>2 DEF Size
<1>3. Stored(flash) # {} /\ Oldest(Stored(flash)) = txNrBegin /\ Newest(Stored(flash)) = last
  BY <1>2, FoundIs
<1>4. PICK p : p = Filed(flash, last)
  OBVIOUS
<1>5. Sound(p) /\ p.tx.nr = last
  <2>1. Minus(last, txNrBegin) < Size
    BY <1>1, <1>2
  <2>2. QED
    BY <1>4, <2>1 DEF Journal
<1>6. /\ p \in Pairs /\ p.session \in Session /\ p.tx \in Tx /\ p = Pair(p.session, p.tx, p.files)
      /\ Cardinality(p.tx.seqNos) <= EventRecordSize
  BY <1>5, PairIs DEF Sound, Laid, Pair
<1>7. p.files = flash[last]
  BY <1>4 DEF Filed, Load, Pair
<1>8. /\ txNrBegin' = txNrBegin /\ txNrFront' = txNrBegin /\ txNrEnd' = Next1(last)
      /\ transaction' = p.session /\ txMem' = [Unused EXCEPT ![p.session] = p.tx]
      /\ txFlash' = flash
      /\ txFront' = None /\ txEventFront' = None /\ requested' = FALSE /\ authorizing' = FALSE
      /\ timed' = FALSE /\ boots' = boots + 1
  BY <1>3, <1>4 DEF BootFrom, Filed
<1>9. /\ Next1(last) \in TxNr /\ Minus(Next1(last), txNrBegin) = Size
  <2>1. Minus(last, txNrBegin) < MaxTxCnt - 1
    BY <1>1, <1>2
  <2>2. Minus(Next1(last), txNrBegin) = Minus(last, txNrBegin) + 1 /\ Next1(last) \in TxNr
    BY <1>1, <2>1, Next1Is
  <2>3. QED
    BY <1>1, <1>2, <2>2
<1>10. Size' = Size /\ Pending' = Size
  BY <1>8, <1>9 DEF Size, Pending
<1>11. Back(1)' = last
  <2>1. 1 \in 0 .. Minus(Next1(last), txNrBegin)
    BY <1>1, <1>9
  <2>2. /\ Minus(Next1(last), 1) \in TxNr
        /\ Minus(Minus(Next1(last), 1), txNrBegin) = Minus(Next1(last), txNrBegin) - 1
    BY <1>1, <1>9, <2>1, BackIs
  <2>3. Minus(Next1(last), 1) = last
    BY <1>1, <1>2, <1>9, <2>2, MinusInjective
  <2>4. QED
    BY <1>8, <2>3 DEF Back
<1>12. NewTx(0) \in Tx /\ NewTx(0).seqNos = {}
  <2>1. 0 \in TxNr /\ 0 \in SeqNo /\ {} \in SUBSET SeqNo
    BY Sizes DEF TxNr, SeqNo
  <2>2. QED
    BY <2>1 DEF NewTx, Tx
<1>13. Unused \in [Session -> Tx] /\ \A s \in Session : Unused[s].seqNos = {}
  BY <1>12 DEF Unused
<1>14. Cardinality({}) = 0 /\ 0 <= EventRecordSize
  BY FS_EmptySet, Sizes
<1>15. /\ txMem' \in [Session -> Tx] /\ txMem'[p.session] = p.tx
       /\ \A s \in Session : s # p.session => txMem'[s] = Unused[s]
  BY <1>6, <1>8, <1>13
<1>16. \A s \in Session : Cardinality(txMem'[s].seqNos) <= EventRecordSize
  BY <1>6, <1>13, <1>14, <1>15
<1>17. TypeOK'
  <2>1. boots' \in 1 .. MaxBoot
    <3>1. MaxBoot \in Nat
      BY ConstantsAssumption
    <3>2. boots \in 1 .. MaxBoot
      BY DEF IInv, TypeOK
    <3>3. QED
      BY <1>8, <3>1, <3>2
  <2>2. txFlash' \in [TxNr -> TxFiles] /\ nextSession' \in 2 .. MaxSession + 1
    BY <1>8 DEF Journal, IInv, TypeOK
  <2>3. {txNrBegin', txNrFront', txNrEnd'} \subseteq TxNr /\ {transaction', txFront'} \subseteq Session \cup {None}
    BY <1>1, <1>6, <1>8, <1>9
  <2>4. QED
    BY <1>8, <1>15, <1>16, <2>1, <2>2, <2>3 DEF TypeOK
<1>18. Objects'
  <2>1. Current' = p
    BY <1>5, <1>6, <1>7, <1>8, <1>15 DEF Current
  <2>2. QED
    BY <1>5, <1>8, <1>11, <1>15, <2>1 DEF Objects
<1>19. Passed'
  <2>1. Minus(txNrFront', txNrBegin') = 0
    BY <1>1, <1>8, MinusType
  <2>2. \A k \in TxNr : ~(Minus(k, txNrBegin') < 0)
    BY <1>1, <1>8, MinusType
  <2>3. QED
    BY <1>1, <1>10, <2>1, <2>2 DEF Passed
<1>20. FrontIsFirst'
  BY <1>8 DEF FrontIsFirst
<1>21. ASSUME NEW m \in owed', m[2] = ToEnd PROVE transaction' = m[1]
  <2>1. PICK k \in TxNr : Filed(flash, k).session = m[1] /\ Minus(k, txNrBegin) = Size - 1
    BY <1>21 DEF Owed
  <2>2. k = last
    BY <1>1, <1>2, <2>1, MinusInjective
  <2>3. QED
    BY <1>4, <1>8, <2>1, <2>2
<1>22. /\ (Journal(txNrBegin, Size, txFlash, nextSession))'
       /\ (Owed(owed, txNrBegin, Size, txFlash))'
       /\ (InOrder(received, txNrBegin, Size, txFlash))' /\ received'[1] < nextSession'
  BY <1>8, <1>10
<1>23. QED
  BY <1>17, <1>18, <1>19, <1>20, <1>21, <1>22 DEF IInv

\* What has been done to a transaction before the power failed.
LEMMA CutOffStep ==
    ASSUME IInv, boots < MaxBoot, nextSession' = nextSession,
           NEW p, Held(p), NEW q, Sound(q), Follows(p, q), CutOff(q),
           OwedAfter(q), ReceivedAfter(q)
    PROVE  IInv'
<1>1. PICK flash : flash = Put(txFlash, q)
  OBVIOUS
<1>2. BootFrom(flash)
  BY <1>1 DEF CutOff, Put
<1>3. EntryOf(p, txNrBegin, Size, txFlash) /\ p.session \in Session
  BY HeldIs
<1>4. Journal(txNrBegin, Size, txFlash, nextSession)
  BY DEF IInv
<1>5. /\ Journal(txNrBegin, Size, flash, nextSession)
      /\ EntryOf(q, txNrBegin, Size, flash)
      /\ \A k \in TxNr : k # q.tx.nr => Filed(flash, k) = Filed(txFlash, k)
  BY <1>1, <1>3, <1>4, JournalWritten
<1>6. q.session = p.session /\ q.tx.nr = p.tx.nr
  BY DEF Follows
<1>7. q.session = Filed(txFlash, q.tx.nr).session
  BY <1>3, <1>6 DEF EntryOf, Alike
<1>8. Owed(owed', txNrBegin, Size, flash)
  <2>1. Owed(owed, txNrBegin, Size, txFlash)
    BY DEF IInv
  <2>2. transaction = q.session => Minus(q.tx.nr, txNrBegin) = Size - 1
    <3>1. SUFFICES ASSUME transaction = q.session PROVE Minus(q.tx.nr, txNrBegin) = Size - 1
      OBVIOUS
    <3>2. transaction # None
      BY <1>3, <1>6, <3>1, NoneAssumption
    <3>3. /\ EntryOf(Current, txNrBegin, Size, txFlash) /\ Current.session = transaction
          /\ Minus(Current.tx.nr, txNrBegin) = Size - 1
      BY <3>2, CurrentIs
    <3>4. Current.tx.nr = p.tx.nr
      BY <1>3, <1>4, <1>6, <3>1, <3>3, SessionsDiffer DEF EntryOf, Alike
    <3>5. QED
      BY <1>6, <3>3, <3>4
  <2>3. \A m \in owed' : \/ m \in owed /\ m[1] # q.session
                         \/ /\ m[1] = q.session /\ Owes(q.tx, m[2])
                            /\ m[2] = ToEnd => Minus(q.tx.nr, txNrBegin) = Size - 1
    BY <2>2 DEF OwedAfter
  <2>4. QED
    BY <1>5, <1>7, <2>1, <2>3, OwedWritten
<1>9. /\ received' \in Session \X SeqNo /\ received'[1] < nextSession
      /\ InOrder(received', txNrBegin, Size, flash)
  <2>1. CASE received' = received /\ (~Done(q.tx) => NotBefore(received, q))
    <3>1. InOrder(received, txNrBegin, Size, txFlash)
      BY DEF IInv
    <3>2. InOrder(received, txNrBegin, Size, flash)
      BY <1>5, <2>1, <3>1, InOrderWritten
    <3>3. QED
      BY <2>1, <3>2 DEF IInv, TypeOK
  <2>2. CASE /\ txFront # None /\ q.session = txFront
             /\ \E n \in SeqNo : received' = <<q.session, n>> /\ NotBefore(received', q)
    <3>1. PICK n \in SeqNo : received' = <<q.session, n>> /\ NotBefore(received', q)
      BY <2>2
    <3>2. Front.session = txFront /\ EntryOf(Front, txNrBegin, Size, txFlash) /\ Front.tx.nr = txNrFront
      BY <2>2, FrontIs
    <3>3. q.tx.nr = txNrFront
      BY <1>3, <1>4, <1>6, <2>2, <3>2, SessionsDiffer DEF EntryOf, Alike
    <3>4. \A k \in TxNr : Minus(k, txNrBegin) < Minus(q.tx.nr, txNrBegin) => Done(Filed(flash, k).tx)
      <4>1. TAKE k \in TxNr
      <4>2. HAVE Minus(k, txNrBegin) < Minus(q.tx.nr, txNrBegin)
      <4>3. k # q.tx.nr
        BY <4>2, NumbersAre, MinusType
      <4>4. Done(Filed(txFlash, k).tx)
        BY <3>3, <4>2 DEF IInv, Passed
      <4>5. QED
        BY <1>5, <4>3, <4>4
    <3>5. NotBefore(<<q.session, n>>, q)
      BY <3>1
    <3>6. InOrder(<<q.session, n>>, txNrBegin, Size, flash)
      BY <1>5, <3>4, <3>5, InOrderReceived
    <3>7. q.session < nextSession
      BY <1>3, <1>4, <1>6 DEF EntryOf, InWindow, Journal, Alike
    <3>8. QED
      BY <1>3, <1>6, <3>1, <3>6, <3>7
  <2>3. QED
    BY <2>1, <2>2 DEF ReceivedAfter
<1>10. owed' \subseteq Session \X (SeqNo \cup {ToEnd})
  BY DEF OwedAfter
<1>11. QED
  BY <1>2, <1>5, <1>8, <1>9, <1>10, BootStep

\* The state is kept, which changes nothing for the server.
LEMMA KeptStateFollows ==
    ASSUME NEW p, Sound(p), NEW n, FirstIn(p.tx.seqNos, n), NEW q, q = KeptState(p, n)
    PROVE  /\ Sound(q) /\ Follows(p, q)
           /\ \A k : Owes(p.tx, k) => Owes(q.tx, k)
           /\ \A last : NotBefore(last, p) => NotBefore(last, q)
<1>1. n \in p.tx.seqNos /\ \A m \in p.tx.seqNos : n <= m
  BY DEF FirstIn
<1>2. Sound(q) /\ q.session = p.session /\ SameTx(p.tx, q.tx) /\ q.tx.seqNos = p.tx.seqNos
  BY <1>1, KeptStateIs
<1>3. Follows(p, q)
  BY <1>2 DEF SameTx, Follows, Done, isAborted, isReported
<1>4. \A k : Owes(p.tx, k) => Owes(q.tx, k)
  BY <1>2 DEF SameTx, Owes
<1>5. \A last : NotBefore(last, p) => NotBefore(last, q)
  BY <1>2 DEF SameTx, NotBefore
<1>6. QED
  BY <1>2, <1>3, <1>4, <1>5

\* Nothing that is owed goes with a change that keeps it.
LEMMA KeepsOwed ==
    ASSUME IInv, NEW p, Held(p), NEW q, q.session = p.session, owed' = owed,
           \A k : Owes(p.tx, k) => Owes(q.tx, k)
    PROVE  OwedAfter(q)
<1>1. owed \subseteq Session \X (SeqNo \cup {ToEnd})
  BY DEF IInv, TypeOK
<1>2. QED
  BY <1>1, HeldOwed DEF OwedAfter

\* The power fails between two steps.
LEMMA PlainReboot ==
    ASSUME IInv, boots < MaxBoot, nextSession' = nextSession, BootFrom(txFlash), owed' = owed,
           received' \in {received, FrontEvent}, received' = received \/ requested
    PROVE  IInv'
<1>1. /\ Journal(txNrBegin, Size, txFlash, nextSession)
      /\ owed \subseteq Session \X (SeqNo \cup {ToEnd}) /\ Owed(owed, txNrBegin, Size, txFlash)
      /\ received \in Session \X SeqNo /\ received[1] < nextSession
      /\ InOrder(received, txNrBegin, Size, txFlash)
  BY DEF IInv, TypeOK
<1>2. /\ received' \in Session \X SeqNo /\ received'[1] < nextSession
      /\ InOrder(received', txNrBegin, Size, txFlash)
  BY <1>1, FrontReceived
<1>3. QED
  BY <1>1, <1>2, BootStep

\* The power fails within a commit.
LEMMA CommitCutOffStep ==
    ASSUME IInv, boots < MaxBoot, nextSession' = nextSession, CommitCutOff
    PROVE  IInv'
<1>1. PICK p : p = Current
  OBVIOUS
<1>2. PICK q : q = Shrunk(p, p.tx.seqNoEnd)
  OBVIOUS
<1>3. transaction # None /\ CutOff(q) /\ owed' = owed /\ received' = received
  BY <1>1, <1>2 DEF CommitCutOff, txHistory
<1>4. Held(p) /\ Sound(p) /\ Laid(p) /\ p \in Pairs
  BY <1>1, <1>3, CurrentIs DEF Held, EntryOf, Sound, Laid
<1>5. Sound(q) /\ Thinned(p, q)
  BY <1>2, <1>4, ShrunkIs, PairIs
<1>6. Thins(p, q)
  BY <1>4, <1>5, TouchedThins DEF Touched
<1>7. /\ Follows(p, q) /\ \A k : Owes(p.tx, k) => Owes(q.tx, k)
      /\ \A last : NotBefore(last, p) => NotBefore(last, q)
  BY <1>4, <1>6, ThinsIs
<1>8. OwedAfter(q)
  BY <1>3, <1>4, <1>7, KeepsOwed DEF Follows
<1>9. ReceivedAfter(q)
  BY <1>3, <1>4, <1>7, HeldInOrder DEF ReceivedAfter, Follows
<1>10. QED
  BY <1>3, <1>4, <1>5, <1>7, <1>8, <1>9, CutOffStep

\* The power fails when an event is given up.
LEMMA FetchCutOffStep ==
    ASSUME IInv, boots < MaxBoot, nextSession' = nextSession, FetchCutOff
    PROVE  IInv'
<1>1. /\ txEventFront # None /\ ~Front.tx.silent /\ received' = received
      /\ \/ (\E upTo \in SeqNo : CutOff(Discarded(Invalid, upTo))) /\ owed' = OwedByOthers
         \/ CutOff(KeptState(Front, txEventFront.seqNo)) /\ owed' = owed
  BY DEF FetchCutOff
<1>2. /\ Held(Front) /\ Sound(Front) /\ FirstIn(Front.tx.seqNos, txEventFront.seqNo)
      /\ Front.session = txFront
  BY <1>1, FrontEventIs
<1>3. CASE (\E upTo \in SeqNo : CutOff(Discarded(Invalid, upTo))) /\ owed' = OwedByOthers
  <2>1. PICK upTo \in SeqNo : CutOff(Discarded(Invalid, upTo))
    BY <1>3
  <2>2. PICK q : q = Discarded(Invalid, upTo)
    OBVIOUS
  <2>3. /\ Sound(q) /\ q.session = txFront /\ q.tx.silent /\ Follows(Front, q)
    BY <1>1, <2>2, InvalidIs
  <2>4. OwedAfter(q)
    BY <1>3, <2>3 DEF OwedAfter, OwedByOthers, IInv, TypeOK
  <2>5. ReceivedAfter(q)
    BY <1>1, <2>3 DEF ReceivedAfter, Done
  <2>6. QED
    BY <1>2, <2>1, <2>2, <2>3, <2>4, <2>5, CutOffStep
<1>4. CASE CutOff(KeptState(Front, txEventFront.seqNo)) /\ owed' = owed
  <2>1. PICK q : q = KeptState(Front, txEventFront.seqNo)
    OBVIOUS
  <2>2. /\ Sound(q) /\ Follows(Front, q) /\ \A k : Owes(Front.tx, k) => Owes(q.tx, k)
        /\ \A last : NotBefore(last, Front) => NotBefore(last, q)
    BY <1>2, <2>1, KeptStateFollows
  <2>3. OwedAfter(q)
    BY <1>2, <1>4, <2>2, KeepsOwed DEF Follows
  <2>4. ReceivedAfter(q)
    BY <1>1, <1>2, <2>2, HeldInOrder DEF ReceivedAfter, Follows
  <2>5. QED
    BY <1>2, <1>4, <2>1, <2>2, <2>3, <2>4, CutOffStep
<1>5. QED
  BY <1>1, <1>3, <1>4

\* The power fails when an event is answered.
LEMMA ConfCutOffStep ==
    ASSUME IInv, boots < MaxBoot, nextSession' = nextSession, ConfCutOff
    PROVE  IInv'
<1> DEFINE n == txEventFront.seqNo
<1>1. /\ requested /\ received' = FrontEvent /\ owed' = owed
      /\ \/ BootFrom(txFlash)
         \/ \E rejected \in BOOLEAN : CutOff(KeptState(Answered(rejected), n))
  BY DEF ConfCutOff
<1>2. txEventFront # None
  BY <1>1 DEF IInv, TypeOK
<1>3. /\ Held(Front) /\ Sound(Front) /\ FirstIn(Front.tx.seqNos, n) /\ ~Front.tx.silent
      /\ Front.session = txFront /\ txFront # None /\ n \in SeqNo
  BY <1>1, <1>2, FrontEventIs
<1>4. CASE BootFrom(txFlash)
  BY <1>1, <1>4, PlainReboot
<1>5. CASE \E rejected \in BOOLEAN : CutOff(KeptState(Answered(rejected), n))
  <2>1. PICK rejected \in BOOLEAN : CutOff(KeptState(Answered(rejected), n))
    BY <1>5
  <2>2. PICK a, q : a = Answered(rejected) /\ q = KeptState(a, n)
    OBVIOUS
  <2>3. /\ Sound(a) /\ Follows(Front, a)
        /\ a.tx.seqNos = Front.tx.seqNos /\ a.tx.seqNoEnd = Front.tx.seqNoEnd
        /\ \A k : Owes(Front.tx, k) => Owes(a.tx, k)
    BY <1>2, <1>3, <2>2, AnsweredIs
  <2>4. /\ Sound(q) /\ Follows(a, q) /\ \A k : Owes(a.tx, k) => Owes(q.tx, k)
        /\ \A last : NotBefore(last, a) => NotBefore(last, q)
    BY <1>3, <2>2, <2>3, KeptStateFollows
  <2>5. Follows(Front, q) /\ q.session = Front.session
    BY <2>3, <2>4 DEF Follows
  <2>6. OwedAfter(q)
    BY <1>1, <1>3, <2>3, <2>4, <2>5, KeepsOwed
  <2>7. ReceivedAfter(q)
    <3>1. received' = <<q.session, n>>
      BY <1>1, <1>3, <2>5 DEF FrontEvent
    <3>2. NotBefore(received', Front)
      BY <1>1, FrontReceived
    <3>3. NotBefore(received', a)
      BY <2>3, <3>2 DEF NotBefore, Follows
    <3>4. QED
      BY <1>3, <2>4, <2>5, <3>1, <3>3 DEF ReceivedAfter
  <2>8. QED
    BY <1>3, <2>1, <2>2, <2>4, <2>5, <2>6, <2>7, CutOffStep
<1>6. QED
  BY <1>1, <1>4, <1>5

\* The power fails.
LEMMA RebootStep ==
    ASSUME IInv, Reboot
    PROVE  IInv'
<1>1. /\ boots < MaxBoot /\ nextSession' = nextSession
      /\ \/ BootFrom(txFlash) /\ UNCHANGED txHistory
         \/ CommitCutOff \/ FetchCutOff \/ ConfCutOff
  BY DEF Reboot
<1>2. CASE BootFrom(txFlash) /\ UNCHANGED txHistory
  BY <1>1, <1>2, PlainReboot DEF txHistory
<1>3. QED
  BY <1>1, <1>2, CommitCutOffStep, FetchCutOffStep, ConfCutOffStep

-----------------------------------------------------------------------------
(* The charger has been in use.                                            *)

\* The stopped transaction of the journal, with its final event or without.
InitialTx == [NewTx(0) EXCEPT !.started = TRUE, !.stopped = TRUE, !.active = FALSE]
EndedEvent == [type |-> "Ended", attemptNr |-> 0, timed |-> TRUE]
InitialFiles(pending) ==
    [k \in SeqNo |-> IF pending /\ k = 1
                     THEN [session |-> 1, tx |-> InitialTx, event |-> EndedEvent]
                     ELSE IF ~pending /\ k = 2
                     THEN [session |-> 1, tx |-> InitialTx, event |-> None] ELSE None]
InitialPair(pending) ==
    Pair(1, [InitialTx EXCEPT !.nr = MaxTxCnt - 2, !.seqNos = IF pending THEN {1} ELSE {},
                              !.seqNoEnd = 2],
         InitialFiles(pending))

\* Its fields.
LEMMA InitialTxIs ==
    /\ InitialTx \in Tx /\ InitialTx # None
    /\ InitialTx.started /\ InitialTx.stopped /\ ~InitialTx.active /\ ~InitialTx.silent
<1>1. 0 \in TxNr /\ 0 \in SeqNo /\ {} \in SUBSET SeqNo
  BY Sizes DEF TxNr, SeqNo
<1>2. NewTx(0) \in Tx /\ ~NewTx(0).silent
  BY <1>1 DEF NewTx, Tx
<1>3. /\ InitialTx \in Tx
      /\ InitialTx.started /\ InitialTx.stopped /\ ~InitialTx.active /\ ~InitialTx.silent
  BY <1>2 DEF InitialTx, Tx
<1>4. QED
  BY <1>3, NoneAssumption

\* Its files.
LEMMA InitialFilesAre ==
    ASSUME NEW pending \in BOOLEAN
    PROVE  LET fs == InitialFiles(pending)
           IN  /\ fs \in TxFiles
               /\ \A k \in SeqNo : fs[k] # None <=> (pending /\ k = 1) \/ (~pending /\ k = 2)
               /\ \A k \in SeqNo : fs[k] # None => /\ fs[k].session = 1 /\ fs[k].tx = InitialTx
                                                   /\ fs[k].event # None <=> pending
<1> DEFINE fs == InitialFiles(pending)
           a == [session |-> 1, tx |-> InitialTx, event |-> EndedEvent]
           b == [session |-> 1, tx |-> InitialTx, event |-> None]
<1>1. 1 \in Session
  <2>1. MaxSession \in Nat \ {0}
    BY ConstantsAssumption
  <2>2. QED
    BY <2>1 DEF Session
<1>2. EndedEvent \in TxEvent /\ EndedEvent # None
  <2>1. MessageAttempts \in Nat
    BY ConstantsAssumption
  <2>2. EndedEvent \in TxEvent
    BY <2>1 DEF EndedEvent, TxEvent
  <2>3. QED
    BY <2>2, NoneAssumption
<1>3. a \in TxFile /\ b \in TxFile
  BY <1>1, <1>2, InitialTxIs DEF TxFile
<1>4. a # None /\ b # None
  BY <1>3, NoneAssumption
<1>5. \A k \in SeqNo : fs[k] = IF pending /\ k = 1 THEN a ELSE IF ~pending /\ k = 2 THEN b ELSE None
  BY DEF InitialFiles
<1>6. /\ a.session = 1 /\ a.tx = InitialTx /\ a.event = EndedEvent
      /\ b.session = 1 /\ b.tx = InitialTx /\ b.event = None
  OBVIOUS
<1>7. fs \in [SeqNo -> TxFile \cup {None}]
  BY <1>3 DEF InitialFiles
<1> HIDE DEF a, b, fs
<1>8. \A k \in SeqNo : fs[k] # None <=> (pending /\ k = 1) \/ (~pending /\ k = 2)
  BY <1>4, <1>5
<1>9. \A k \in SeqNo : fs[k] # None => /\ fs[k].session = 1 /\ fs[k].tx = InitialTx
                                       /\ fs[k].event # None <=> pending
  BY <1>2, <1>5, <1>6
<1>10. QED
  BY <1>7, <1>8, <1>9 DEF TxFiles, fs

\* It is complete.
LEMMA InitialPairIs ==
    ASSUME NEW pending \in BOOLEAN
    PROVE  LET p == InitialPair(pending)
           IN  /\ Sound(p) /\ p.tx.nr = MaxTxCnt - 2 /\ p.session = 1 /\ p.files = InitialFiles(pending)
               /\ ~p.tx.silent /\ p.tx.stopped /\ p.tx.seqNoEnd = 2
               /\ p.tx.seqNos = IF pending THEN {1} ELSE {}
<1>1. PICK fs : fs = InitialFiles(pending)
  OBVIOUS
<1>2. /\ fs \in TxFiles
      /\ \A k \in SeqNo : fs[k] # None <=> (pending /\ k = 1) \/ (~pending /\ k = 2)
      /\ \A k \in SeqNo : fs[k] # None => /\ fs[k].session = 1 /\ fs[k].tx = InitialTx
                                          /\ fs[k].event # None <=> pending
  BY <1>1, InitialFilesAre
<1>3. PICK ns : ns = IF pending THEN {1} ELSE {}
  OBVIOUS
<1>4. 1 \in SeqNo /\ 2 \in SeqNo /\ MaxTxCnt - 2 \in TxNr /\ ns \in SUBSET SeqNo
  BY <1>3, Sizes DEF SeqNo, TxNr
<1>5. PICK t : t = [InitialTx EXCEPT !.nr = MaxTxCnt - 2, !.seqNos = ns, !.seqNoEnd = 2]
  OBVIOUS
<1>6. /\ t \in Tx /\ t.nr = MaxTxCnt - 2 /\ t.seqNos = ns /\ t.seqNoEnd = 2
      /\ t.started /\ t.stopped /\ ~t.active /\ ~t.silent
  BY <1>4, <1>5, InitialTxIs DEF Tx
<1>7. PICK p : p = Pair(1, t, fs)
  OBVIOUS
<1>8. p \in Pairs /\ p.session = 1 /\ p.tx = t /\ p.files = fs
  <2>1. MaxSession \in Nat \ {0}
    BY ConstantsAssumption
  <2>2. 1 \in Session
    BY <2>1 DEF Session
  <2>3. QED
    BY <1>2, <1>6, <1>7, <2>2 DEF Pair, Pairs
<1>9. Laid(p)
  <2>1. Cardinality(ns) <= EventRecordSize
    <3>1. Cardinality({1}) = 1 /\ Cardinality({}) = 0
      BY FS_EmptySet, FS_Singleton
    <3>2. QED
      BY <1>3, <3>1, Sizes
  <2>2. \A n \in SeqNo : n \in ns <=> fs[n] # None /\ fs[n].event # None
    BY <1>2, <1>3
  <2>3. \A n \in ns : n < 2
    BY <1>3
  <2>4. \A n \in SeqNo : fs[n] # None => n \in ns \/ n = 2
    BY <1>2, <1>3
  <2>5. QED
    BY <1>2, <1>6, <1>8, <2>1, <2>2, <2>3, <2>4 DEF Laid
<1>10. fs[2] = None => 1 \in ns
  BY <1>2, <1>3, <1>4
<1>11. LastFile(p) \in SeqNo /\ fs[LastFile(p)] # None
  <2>1. LastFile(p) = IF fs[2] # None THEN 2 ELSE 2 - 1
    BY <1>6, <1>8 DEF LastFile
  <2>2. 2 - 1 = 1
    OBVIOUS
  <2>3. QED
    BY <1>2, <1>4, <2>1, <2>2
<1>12. Restores(t, InitialTx)
  BY <1>6, InitialTxIs DEF Restores, Tx
<1>13. Restores(p.tx, p.files[LastFile(p)].tx)
  BY <1>2, <1>8, <1>11, <1>12
<1>14. p.files[p.tx.seqNoEnd] = None => p.tx.seqNoEnd - 1 \in p.tx.seqNos
  BY <1>6, <1>8, <1>10
<1>15. Sound(p)
  BY <1>9, <1>13, <1>14 DEF Sound
<1>16. InitialPair(pending) = p
  BY <1>1, <1>3, <1>5, <1>7 DEF InitialPair
<1>17. QED
  BY <1>1, <1>3, <1>6, <1>8, <1>15, <1>16

\* The invariant holds at first.
LEMMA InitIInv ==
    ASSUME Init
    PROVE  IInv
<1> DEFINE b == MaxTxCnt - 2
<1>1. PICK pending \in BOOLEAN :
        txFlash = InitialFlash(pending) /\ owed = IF pending THEN {<<1, 1>>} ELSE {}
  BY DEF Init
<1>2. /\ txNrBegin = b /\ txNrFront = b /\ txNrEnd = MaxTxCnt - 1
      /\ transaction = None /\ txFront = None /\ txEventFront = None /\ requested = FALSE
      /\ txMem = Unused /\ authorizing = FALSE /\ timed = FALSE /\ boots = 1 /\ nextSession = 2
      /\ received = <<1, 0>>
  BY DEF Init
<1>3. b \in TxNr /\ MaxTxCnt - 1 \in TxNr /\ 0 \in TxNr
  BY Sizes DEF TxNr
<1>4. Size = 1 /\ Pending = 1
  <2>1. Minus(MaxTxCnt - 1, b) = IF MaxTxCnt - 1 >= b THEN (MaxTxCnt - 1) - b
                                 ELSE (MaxTxCnt - 1) + MaxTxCnt - b
    BY <1>3, MinusIs
  <2>2. Minus(MaxTxCnt - 1, b) = 1
    BY <2>1, Sizes
  <2>3. QED
    BY <1>2, <2>2 DEF Size, Pending
<1>5. PICK p : p = InitialPair(pending)
  OBVIOUS
<1>6. /\ Sound(p) /\ p.tx.nr = b /\ p.session = 1 /\ p.files = InitialFiles(pending)
      /\ ~p.tx.silent /\ p.tx.stopped /\ p.tx.seqNoEnd = 2
      /\ p.tx.seqNos = IF pending THEN {1} ELSE {}
  BY <1>5, InitialPairIs
<1>7. NoFiles \in TxFiles /\ Found(NoFiles) = {}
  BY DEF NoFiles, TxFiles, Found
<1>8. InitialFiles(pending) \in TxFiles
  BY InitialFilesAre
<1>9. txFlash = [n \in TxNr |-> IF n # b THEN NoFiles ELSE InitialFiles(pending)]
  BY <1>1 DEF InitialFlash, InitialFiles, InitialTx, EndedEvent
<1> HIDE DEF b
<1>10. /\ txFlash \in [TxNr -> TxFiles] /\ txFlash[b] = p.files
       /\ \A k \in TxNr : k # b => Found(txFlash[k]) = {}
  BY <1>3, <1>6, <1>7, <1>8, <1>9
<1>11. Sound(Filed(txFlash, b)) /\ Alike(p, Filed(txFlash, b))
  BY <1>6, <1>10, LoadIs DEF Filed
<1>12. \A k \in TxNr : /\ Minus(k, b) < 1 <=> k = b
                       /\ Minus(k, b) \in Nat /\ Minus(b, b) = 0
  BY <1>3, MinusType, Sizes
<1>13. Journal(b, 1, txFlash, 2)
  <2>1. RecordSize \in Nat \ {0}
    BY Sizes
  <2>2. Filed(txFlash, b).tx.nr = b /\ Filed(txFlash, b).session = 1
    BY <1>6, <1>11 DEF Alike
  <2>3. \A k \in TxNr : Minus(k, b) < 1 =>
            Sound(Filed(txFlash, k)) /\ Filed(txFlash, k).tx.nr = k /\ Filed(txFlash, k).session < 2
    BY <1>11, <1>12, <2>2
  <2>4. \A k \in TxNr : Minus(k, b) >= 1 => Found(txFlash[k]) = {}
    BY <1>10, <1>12
  <2>5. \A j, k \in TxNr : ~(Minus(j, b) < Minus(k, b) /\ Minus(k, b) < 1)
    BY <1>12
  <2>6. \A k \in TxNr : ~(Minus(k, b) = RecordSize /\ Minus(k, b) < 1)
    BY <1>12, <2>1
  <2>7. 1 \in 1 .. RecordSize + 1
    BY <2>1
  <2>8. QED
    BY <1>3, <1>10, <2>3, <2>4, <2>5, <2>6, <2>7 DEF Journal
<1>14. Owed(owed, b, 1, txFlash)
  <2>1. SUFFICES ASSUME NEW m \in owed
                 PROVE  \E k \in TxNr : /\ Minus(k, b) < 1
                                        /\ Filed(txFlash, k).session = m[1]
                                        /\ Owes(Filed(txFlash, k).tx, m[2])
                                        /\ m[2] = ToEnd => Minus(k, b) = 1 - 1
    BY DEF Owed
  <2>2. pending /\ m = <<1, 1>>
    BY <1>1
  <2>3. Owes(p.tx, 1)
    BY <1>6, <2>2 DEF Owes, ToEnd
  <2>4. Owes(Filed(txFlash, b).tx, 1) /\ Filed(txFlash, b).session = 1
    BY <1>6, <1>11, <2>3, AlikeSame DEF Alike
  <2>5. m[1] = 1 /\ m[2] = 1 /\ m[2] # ToEnd
    BY <2>2 DEF ToEnd
  <2>6. QED
    BY <1>3, <1>12, <2>4, <2>5
<1>15. \A m \in owed : m[2] # ToEnd
  BY <1>1 DEF ToEnd
<1>16. InOrder(<<1, 0>>, b, 1, txFlash)
  <2>1. NotBefore(<<1, 0>>, p)
    BY <1>6 DEF NotBefore
  <2>2. NotBefore(<<1, 0>>, Filed(txFlash, b))
    BY <1>11, <2>1, AlikeSame
  <2>3. QED
    BY <1>12, <2>2 DEF InOrder
<1>17. 1 \in Session /\ 1 \in 1 .. MaxBoot /\ 2 \in 2 .. MaxSession + 1
  <2>1. MaxSession \in Nat \ {0} /\ MaxBoot \in Nat \ {0}
    BY ConstantsAssumption
  <2>2. QED
    BY <2>1 DEF Session
<1>18. 0 \in SeqNo /\ 1 \in SeqNo /\ {} \in SUBSET SeqNo
  BY Sizes DEF SeqNo
<1>19. TypeOK
  <2>1. NewTx(0) \in Tx /\ NewTx(0).seqNos = {}
    BY <1>3, <1>18 DEF NewTx, Tx
  <2>2. Unused \in [Session -> Tx] /\ \A s \in Session : Unused[s].seqNos = {}
    BY <2>1 DEF Unused
  <2>3. Cardinality({}) <= EventRecordSize
    BY FS_EmptySet, Sizes
  <2>4. owed \subseteq Session \X (SeqNo \cup {ToEnd})
    BY <1>1, <1>17, <1>18
  <2>5. received \in Session \X SeqNo
    BY <1>2, <1>17, <1>18
  <2>6. txMem \in [Session -> Tx] /\ \A s \in Session : Cardinality(txMem[s].seqNos) <= EventRecordSize
    BY <1>2, <2>2, <2>3
  <2>7. QED
    BY <1>2, <1>3, <1>10, <1>17, <2>4, <2>5, <2>6 DEF TypeOK
<1>20. Objects /\ FrontIsFirst
  BY <1>2 DEF Objects, FrontIsFirst
<1>21. Passed
  BY <1>2, <1>4, <1>12, <1>3 DEF Passed
<1>22. /\ Journal(txNrBegin, Size, txFlash, nextSession)
       /\ Owed(owed, txNrBegin, Size, txFlash)
       /\ InOrder(received, txNrBegin, Size, txFlash) /\ received[1] < nextSession
  BY <1>2, <1>4, <1>13, <1>14, <1>16
<1>23. QED
  BY <1>15, <1>19, <1>20, <1>21, <1>22 DEF IInv

-----------------------------------------------------------------------------
(* The invariant is one.                                                   *)

\* It holds when nothing happens.
LEMMA StutteringStep ==
    ASSUME IInv, UNCHANGED txVars
    PROVE  IInv'
<1>1. UNCHANGED <<txNrBegin, txNrFront, txNrEnd, txFront, txEventFront, requested, transaction, txMem,
                  txFlash, authorizing, timed, boots, nextSession, owed, received>>
  BY DEF txVars, txNrs, frontVars, txEnv, txHistory
<1>2. TypeOK' /\ Objects' /\ Passed' /\ FrontIsFirst'
  BY <1>1 DEF IInv, TypeOK, Objects, Passed, FrontIsFirst, Current, Front, Pending, Size, Back
<1>3. QED
  BY <1>1, <1>2, SameJournal DEF IInv

\* It holds after each step.
LEMMA Inductive ==
    ASSUME IInv, ~BeginEarly, [Next]_txVars
    PROVE  IInv'
<1>1. CASE UNCHANGED txVars
  BY <1>1, StutteringStep
<1>2. CASE beginAuthorization
  BY <1>2, beginAuthorizationStep
<1>3. CASE AuthorizeEnds
  BY <1>3, AuthorizeEndsStep
<1>4. CASE endAuthorization
  BY <1>4, endAuthorizationStep
<1>5. CASE abortTransaction
  BY <1>5, abortTransactionStep
<1>6. CASE Collect
  BY <1>6, CollectStep
<1>7. CASE LoopTransaction
  BY <1>7, LoopTransactionStep
<1>8. CASE LoopBegin
  BY <1>8, LoopBeginStep
<1>9. CASE getFrontRequestOpNr
  BY <1>9, getFrontRequestOpNrStep
<1>10. CASE fetchFrontRequest
  BY <1>10, fetchFrontRequestStep
<1>11. CASE receiveConf
  BY <1>11, receiveConfStep
<1>12. CASE requestAborted
  BY <1>12, requestAbortedStep
<1>13. CASE Connect
  BY <1>13, ConnectStep
<1>14. CASE Reboot
  BY <1>14, RebootStep
<1>15. QED
  BY <1>1, <1>2, <1>3, <1>4, <1>5, <1>6, <1>7, <1>8, <1>9, <1>10, <1>11, <1>12, <1>13, <1>14
     DEF Next, Loop

\* Where no transaction begins that removes the one the queue works on, the journal is
\* always complete: each entry has the files that restore it, what is owed to the server
\* is in them, and nothing that is still to be sent precedes what has been received.
THEOREM Invariance ==
    ASSUME ~BeginEarly
    PROVE  Spec => []IInv
<1>1. Init => IInv
  BY InitIInv
<1>2. IInv /\ [Next]_txVars => IInv'
  BY Inductive
<1>3. QED
  BY <1>1, <1>2, PTL DEF Spec


\* Each variable of the service holds what it may hold, and no record grows beyond its size.
THEOREM TypeCorrect ==
    ASSUME ~BeginEarly
    PROVE  Spec => []TypeOK
<1>1. IInv => TypeOK
  BY DEF IInv
<1>2. QED
  BY <1>1, Invariance, PTL

\* What is owed is an entry from the front on.
LEMMA KeptByIInv ==
    ASSUME IInv
    PROVE  StartAndEndKept
<1>1. SUFFICES ASSUME NEW m \in owed
               PROVE  IF m[2] = ToEnd THEN transaction = m[1] /\ Current.tx.started
                      ELSE \E n \in TxNr :
                              /\ Minus(n, txNrFront) < Pending
                              /\ LET f == txFlash[n][m[2]]
                                 IN  f # None /\ f.session = m[1] /\ f.event # None
  BY DEF StartAndEndKept
<1>2. m[1] \in Session /\ m[2] \in SeqNo \cup {ToEnd}
  BY DEF IInv, TypeOK
<1>3. CASE m[2] = ToEnd
  <2>1. transaction = m[1]
    BY <1>3 DEF IInv
  <2>2. transaction # None
    BY <1>2, <2>1, NoneAssumption
  <2>3. Held(Current) /\ Current.session = transaction
    BY <2>2, CurrentIs DEF Held
  <2>4. Owes(Current.tx, m[2])
    BY <2>1, <2>3, HeldOwed
  <2>5. QED
    BY <1>3, <2>1, <2>4 DEF Owes
<1>4. CASE m[2] # ToEnd
  <2>1. PICK k \in TxNr : /\ Minus(k, txNrBegin) < Size
                          /\ Filed(txFlash, k).session = m[1] /\ Owes(Filed(txFlash, k).tx, m[2])
    BY DEF IInv, Owed
  <2>2. PICK p : p = Filed(txFlash, k)
    OBVIOUS
  <2>3. Sound(p) /\ p.files = txFlash[k]
    BY <2>1, <2>2 DEF IInv, Journal, Filed, Load, Pair
  <2>4. Minus(k, txNrFront) < Pending
    <3>1. /\ txNrBegin \in TxNr /\ txNrFront \in TxNr
          /\ Size \in 1 .. RecordSize + 1 /\ RecordSize \in Nat
          /\ Pending = Size - Minus(txNrFront, txNrBegin)
          /\ Minus(txNrFront, txNrBegin) \in 0 .. Size
      BY NumbersAre, Sizes
    <3>2. ~Done(p.tx)
      BY <2>1, <2>2, <2>3, DoneOwesNothing
    <3>3. ~(Minus(k, txNrBegin) < Minus(txNrFront, txNrBegin))
      BY <2>2, <3>2 DEF IInv, Passed
    <3>4. Minus(k, txNrBegin) \in Nat
      BY <3>1, MinusType, Sizes
    <3>5. Minus(k, txNrFront) = IF Minus(k, txNrBegin) >= Minus(txNrFront, txNrBegin)
                                THEN Minus(k, txNrBegin) - Minus(txNrFront, txNrBegin)
                                ELSE Minus(k, txNrBegin) + MaxTxCnt - Minus(txNrFront, txNrBegin)
      BY <3>1, MinusFrom
    <3>6. QED
      BY <2>1, <3>1, <3>3, <3>4, <3>5
  <2>5. /\ p.files[m[2]] # None /\ p.files[m[2]].event # None
        /\ p.files[m[2]].session = p.session
    <3>1. m[2] \in p.tx.seqNos /\ m[2] \in SeqNo
      BY <1>2, <1>4, <2>1, <2>2 DEF Owes
    <3>2. QED
      BY <2>3, <3>1 DEF Sound, Laid
  <2>6. QED
    BY <1>4, <2>1, <2>2, <2>3, <2>4, <2>5
<1>5. QED
  BY <1>3, <1>4

\* No first and no final event of a transaction that the server is to hear of is lost before
\* it is confirmed or given up: neither to a full record, nor to an eviction or a rollback,
\* nor to a power failure between two file operations.
THEOREM StartAndEndAreKept ==
    ASSUME ~BeginEarly
    PROVE  Spec => []StartAndEndKept
<1>1. IInv => StartAndEndKept
  BY KeptByIInv
<1>2. QED
  BY <1>1, Invariance, PTL

\* The server receives nothing but the event at the front.
LEMMA ReceivedIs ==
    ASSUME Next
    PROVE  received' = received \/ (requested /\ received' = FrontEvent)
<1>1. CASE beginAuthorization \/ AuthorizeEnds \/ endAuthorization \/ abortTransaction
  BY <1>1 DEF beginAuthorization, AuthorizeEnds, endAuthorization, abortTransaction, txHistory
<1>2. CASE Loop
  BY <1>2 DEF Loop, Collect, LoopTransaction, LoopBegin, txHistory
<1>3. CASE getFrontRequestOpNr \/ fetchFrontRequest
  BY <1>3 DEF getFrontRequestOpNr, fetchFrontRequest, txHistory
<1>4. CASE receiveConf \/ requestAborted
  BY <1>4 DEF receiveConf, requestAborted
<1>5. CASE Connect
  BY <1>5 DEF Connect, txHistory
<1>6. CASE Reboot
  BY <1>6 DEF Reboot, CommitCutOff, FetchCutOff, ConfCutOff, txHistory
<1>7. QED
  BY <1>1, <1>2, <1>3, <1>4, <1>5, <1>6 DEF Next

\* The event at the front is not older than what has been received.
LEMMA InOrderByIInv ==
    ASSUME IInv, [Next]_txVars
    PROVE  \/ received[1] < received'[1]
           \/ received[1] = received'[1] /\ received[2] <= received'[2]
<1>1. received[2] \in SeqNo /\ SeqNo \subseteq Int
  BY Sizes DEF IInv, TypeOK, SeqNo
<1>2. CASE received' = received
  <2>1. received[2] \in Int
    BY <1>1
  <2>2. QED
    BY <1>2, <2>1
<1>3. CASE requested /\ received' = FrontEvent
  <2>1. txEventFront # None
    BY <1>3 DEF IInv, TypeOK
  <2>2. /\ Held(Front) /\ Front.session = txFront /\ ~Front.tx.silent /\ Front.tx.started
        /\ FirstIn(Front.tx.seqNos, txEventFront.seqNo)
    BY <1>3, <2>1, FrontEventIs
  <2>3. ~Done(Front.tx)
    BY <2>2 DEF Done, isAborted, isReported, FirstIn
  <2>4. NotBefore(received, Front)
    BY <2>2, <2>3, HeldInOrder
  <2>5. received'[1] = Front.session /\ received'[2] = txEventFront.seqNo
    BY <1>3, <2>2 DEF FrontEvent
  <2>6. QED
    BY <2>2, <2>4, <2>5 DEF NotBefore, FirstIn
<1>4. QED
  BY <1>2, <1>3, ReceivedIs DEF txVars, txHistory

\* Neither attempts nor power failures have the server receive an event that is older than
\* one it has received.
THEOREM EventsAreInOrder ==
    ASSUME ~BeginEarly
    PROVE  Spec => EventsInOrder
<1>1. IInv /\ [Next]_txVars =>
          [\/ received[1] < received'[1]
           \/ received[1] = received'[1] /\ received[2] <= received'[2]]_txVars
  BY InOrderByIInv
<1>2. QED
  BY <1>1, Invariance, PTL DEF Spec, EventsInOrder

=============================================================================
