--------------------------- MODULE Connector_proof ---------------------------
(***************************************************************************)
(* For every size of the journal and of the queues: the safety properties  *)
(* of Connector.  IInv says where the objects and files of a session can   *)
(* be, and what each of these copies knows of the messages that were sent. *)
(***************************************************************************)
EXTENDS Connector, SequenceTheorems, WellFoundedInduction, TLAPS

-----------------------------------------------------------------------------
(* Numbers of transactions, modulo MaxTxCnt.                                *)

\* The distance of m from n, without the modulo.
LEMMA MinusIs ==
    ASSUME NEW m \in TxNr, NEW n \in TxNr
    PROVE  Minus(m, n) = IF m >= n THEN m - n ELSE m + MaxTxCnt - n
  BY ConstantsAssumption, SMT DEF TxNr, Minus

\* It is a number below MaxTxCnt, zero for the same number only.
LEMMA MinusType ==
    ASSUME NEW m \in TxNr, NEW n \in TxNr
    PROVE  Minus(m, n) \in 0 .. MaxTxCnt - 1 /\ (Minus(m, n) = 0 <=> m = n)
  BY MinusIs, ConstantsAssumption DEF TxNr

\* Distances tell the numbers apart.
LEMMA MinusInjective ==
    ASSUME NEW b \in TxNr, NEW m \in TxNr, NEW n \in TxNr, Minus(m, b) = Minus(n, b)
    PROVE  m = n
  BY MinusIs, ConstantsAssumption DEF TxNr

\* Distances from another number, by those from b.
LEMMA MinusFrom ==
    ASSUME NEW b \in TxNr, NEW m \in TxNr, NEW n \in TxNr
    PROVE  Minus(m, n) = IF Minus(m, b) >= Minus(n, b) THEN Minus(m, b) - Minus(n, b)
                         ELSE Minus(m, b) + MaxTxCnt - Minus(n, b)
<1>1. /\ Minus(m, b) = IF m >= b THEN m - b ELSE m + MaxTxCnt - b
      /\ Minus(n, b) = IF n >= b THEN n - b ELSE n + MaxTxCnt - b
      /\ Minus(m, n) = IF m >= n THEN m - n ELSE m + MaxTxCnt - n
  BY MinusIs
<1>2. QED
  BY <1>1, ConstantsAssumption DEF TxNr

\* The number k places before e.
LEMMA BackIs ==
    ASSUME NEW b \in TxNr, NEW e \in TxNr, NEW k \in 0 .. Minus(e, b)
    PROVE  Minus(e, k) \in TxNr /\ Minus(Minus(e, k), b) = Minus(e, b) - k
<1>1. Minus(e, b) = IF e >= b THEN e - b ELSE e + MaxTxCnt - b
  BY MinusIs
<1>2. Minus(e, b) \in 0 .. MaxTxCnt - 1 /\ k \in 0 .. MaxTxCnt - 1
  <2>1. Minus(e, b) \in 0 .. MaxTxCnt - 1
    BY MinusType
  <2>2. QED
    BY <2>1, ConstantsAssumption
<1>3. Minus(e, k) = IF e >= k THEN e - k ELSE e + MaxTxCnt - k
  BY <1>2, MinusIs DEF TxNr
<1>4. Minus(e, k) \in TxNr
  BY <1>2, <1>3, ConstantsAssumption DEF TxNr
<1>5. Minus(Minus(e, k), b) = IF Minus(e, k) >= b THEN Minus(e, k) - b
                              ELSE Minus(e, k) + MaxTxCnt - b
  BY <1>4, MinusIs
<1>6. QED
  BY <1>1, <1>2, <1>3, <1>4, <1>5, ConstantsAssumption DEF TxNr

\* The number k places after f.
LEMMA ForthIs ==
    ASSUME NEW b \in TxNr, NEW f \in TxNr, NEW k \in Nat, Minus(f, b) + k < MaxTxCnt
    PROVE  (f + k) % MaxTxCnt \in TxNr /\ Minus((f + k) % MaxTxCnt, b) = Minus(f, b) + k
<1> DEFINE g == (f + k) % MaxTxCnt
<1>1. Minus(f, b) = IF f >= b THEN f - b ELSE f + MaxTxCnt - b
  BY MinusIs
<1>2. f + k < 2 * MaxTxCnt /\ f + k >= 0
  BY MinusType, ConstantsAssumption DEF TxNr
<1>3. g = IF f + k < MaxTxCnt THEN f + k ELSE f + k - MaxTxCnt
  BY <1>2, ConstantsAssumption, SMT DEF TxNr
<1>4. g \in TxNr
  BY <1>2, <1>3, ConstantsAssumption DEF TxNr
<1> HIDE DEF g
<1>5. Minus(g, b) = IF g >= b THEN g - b ELSE g + MaxTxCnt - b
  BY <1>4, MinusIs
<1>6. Minus(g, b) = Minus(f, b) + k
  BY <1>1, <1>3, <1>4, <1>5, ConstantsAssumption DEF TxNr
<1>7. QED
  BY <1>4, <1>6 DEF g

\* The next number.
LEMMA Next1Is ==
    ASSUME NEW b \in TxNr, NEW n \in TxNr
    PROVE  /\ Next1(n) \in TxNr
           /\ Minus(n, b) < MaxTxCnt - 1 => Minus(Next1(n), b) = Minus(n, b) + 1
           /\ Minus(n, Next1(b)) = IF n = b THEN MaxTxCnt - 1 ELSE Minus(n, b) - 1
<1>1. Next1(n) = IF n = MaxTxCnt - 1 THEN 0 ELSE n + 1
  BY ConstantsAssumption, SMT DEF TxNr, Next1
<1>2. Next1(b) = IF b = MaxTxCnt - 1 THEN 0 ELSE b + 1
  BY ConstantsAssumption, SMT DEF TxNr, Next1
<1>3. Next1(n) \in TxNr /\ Next1(b) \in TxNr
  BY <1>1, <1>2, ConstantsAssumption DEF TxNr
<1>4. /\ Minus(n, b) = IF n >= b THEN n - b ELSE n + MaxTxCnt - b
      /\ Minus(Next1(n), b) = IF Next1(n) >= b THEN Next1(n) - b ELSE Next1(n) + MaxTxCnt - b
      /\ Minus(n, Next1(b)) = IF n >= Next1(b) THEN n - Next1(b) ELSE n + MaxTxCnt - Next1(b)
  BY <1>3, MinusIs
<1>5. QED
  BY <1>1, <1>2, <1>3, <1>4, ConstantsAssumption DEF TxNr

\* The least element of a set of numbers.
Below == {p \in Nat \X Nat : p[1] < p[2]}

LEMMA BelowWellFounded == IsWellFoundedOn(Below, Nat)
<1>1. OpToRel(<, Nat) = Below
  BY DEF OpToRel, Below
<1>2. QED
  BY <1>1, NatLessThanWellFounded

LEMMA Least ==
    ASSUME NEW S, S \subseteq Nat, S # {}
    PROVE  \E x \in S : \A y \in S : x <= y
<1>1. PICK x \in S : \A y \in S : ~(<<y, x>> \in Below)
  BY BelowWellFounded, WFMin
<1>2. ASSUME NEW y \in S PROVE x <= y
  <2>1. x \in Nat /\ y \in Nat
    OBVIOUS
  <2>2. y < x => <<y, x>> \in Below
    BY <2>1 DEF Below
  <2>3. QED
    BY <1>1, <2>1, <2>2
<1>3. QED
  BY <1>2

-----------------------------------------------------------------------------
(* The inductive invariant.                                                 *)

StartTx(s) == <<"StartTransaction", s>>
StopTx(s)  == <<"StopTransaction", s>>

\* What Rollback removes from the journal, and what may still be reported.
IsRolledBack(t) == isAborted(t) \/ (t.silent /\ t.stop # "no")
IsGood(t) == ~isAborted(t) /\ ~t.silent
IsGivenUp(t) == t.start = "confirmed" /\ t.stop = "requested" /\ t.stopTry >= MaxAttempts

\* What a copy t of the session s, in memory or on the flash, knows of its messages,
\* given the next session and the history.
Knows(next, ch, wa, co, sn, s, t) ==
    /\ s < next
    /\ t.stop # "no" => t.start # "no"
    /\ s = 0 => isCompleted(t) /\ s \notin ch
    /\ s \in ch => t.start # "no"
    /\ t.startTry >= sn[StartTx(s)] /\ t.stopTry >= sn[StopTx(s)]
    /\ t.silent => s \in wa
    /\ s \in wa => t.silent \/ IsGivenUp(t)
    /\ StartTx(s) \in co => t.start = "confirmed"
    /\ StopTx(s) \in co => t.start = "confirmed" /\ t.stop = "confirmed"
    /\ t.start = "confirmed" => s = 0 \/ t.silent \/ StartTx(s) \in co
    /\ t.stop = "confirmed" => s = 0 \/ t.silent \/ StopTx(s) \in co

Sound(s, t) == Knows(nextSession, charged, waived, confirmed, sends, s, t)
\* The same after the step.
SoundNext(s, t) == Knows(nextSession', charged', waived', confirmed', sends', s, t)

HasFile(s, n) == flash[n] # None /\ flash[n].session = s

MemSound   == \A s \in Referenced : Sound(s, mem[s])
FlashSound == \A n \in TxNr : flash[n] # None => Sound(flash[n].session, flash[n].tx)
FreshOnes  ==
    \A s \in Session : s >= nextSession =>
        /\ s \notin charged /\ s \notin waived
        /\ \A m \in {StartTx(s), StopTx(s)} :
              sends[m] = 0 /\ m \notin confirmed /\ m \notin received

\* An object differs from its file in the corrected start time, and in a StopTransaction
\* that is given up.
Agree(m, f) ==
    /\ m.nr = f.nr /\ m.begun = f.begun /\ m.active = f.active
    /\ m.authorized = f.authorized /\ m.deauthorized = f.deauthorized
    /\ m.start = f.start /\ m.startTry = f.startTry
    /\ m.stop = f.stop /\ m.stopTry = f.stopTry
    /\ f.silent => m.silent
    /\ m.silent => f.silent \/ IsGivenUp(m)

\* An object belongs to an entry of the journal, or its entry has just been removed.
InJournal(s) ==
    /\ Ahead(mem[s].nr) < Ahead(txNrEnd)
    /\ HasFile(s, mem[s].nr) /\ Agree(mem[s], flash[mem[s].nr].tx)
WasRemoved(s) ==
    /\ transaction = None /\ mem[s].nr = txNrEnd /\ IsRolledBack(mem[s])
    /\ Ahead(txNrEnd) <= RecordSize
    /\ Ahead(txNrEnd) = RecordSize => mem[s].silent
Placed(s) ==
    /\ InJournal(s) \/ WasRemoved(s)
    /\ \A n \in TxNr : HasFile(s, n) => n = mem[s].nr

Numbers ==
    /\ \A n \in TxNr : flash[n] # None => flash[n].tx.nr = n
    /\ \A m, n \in TxNr : flash[m] # None /\ flash[n] # None /\ m # n =>
          flash[m].session # flash[n].session
    /\ \A s, r \in Referenced : mem[s].nr = mem[r].nr => s = r
Places == \A s \in Referenced : Placed(s)

\* The files lie in a range of RecordSize numbers, and one more for a silent transaction.
Window ==
    /\ Ahead(txNrFront) <= Ahead(txNrEnd) /\ Ahead(txNrEnd) <= RecordSize + 1
    /\ \A n \in TxNr : flash[n] # None =>
          Ahead(n) <= RecordSize /\ (Ahead(n) = RecordSize => flash[n].tx.silent)

\* The current transaction is the last entry, transactionFront the one at the front.
Ends ==
    /\ transaction # None => Ahead(mem[transaction].nr) + 1 = Ahead(txNrEnd)
    /\ transactionFront # None => mem[transactionFront].nr = txNrFront
    /\ transaction # None /\ txNrFront = txNrEnd => Collectable(mem[transaction])

\* The entries follow in the order of their sessions.
GoodFile(n) == flash[n] # None /\ IsGood(flash[n].tx)
Ordered ==
    /\ \A n \in TxNr : GoodFile(n) => Ahead(n) < Ahead(txNrEnd)
    /\ \A m, n \in TxNr : GoodFile(m) /\ GoodFile(n) /\ Ahead(m) < Ahead(n) =>
          flash[m].session < flash[n].session

\* What is still to be reported is in the part of the journal that comes next.
InQueue(n) == Ahead(txNrFront) <= Ahead(n) /\ Ahead(n) < Ahead(txNrEnd)
Unlost ==
    \A s \in charged \ waived : Reported(s) \/ \E n \in TxNr : HasFile(s, n) /\ InQueue(n)

\* The message in flight, and what the server knows by then.
ServerKnows ==
    /\ confirmed \subseteq received
    /\ \A s \in Session : StopTx(s) \in confirmed => StartTx(s) \in confirmed
InFlight ==
    sendReqFront # None =>
        LET s == sendReqFront.session
            t == mem[s]
        IN  /\ sendReqFront.kind # "Authorize" => s \notin waived /\ ~t.silent /\ s # 0
            /\ sendReqFront.kind = "StartTransaction" =>
                  /\ t.start = "requested" /\ t.startTry >= 1
                  /\ exchange \in {"accepted", "rejected"} => StartTx(s) \in received
                  /\ \A r \in charged : r < s => r \in waived \/ StopTx(r) \in received
            /\ sendReqFront.kind = "StopTransaction" =>
                  /\ t.start = "confirmed" /\ t.stop = "requested" /\ t.stopTry >= 1
                  /\ exchange \in {"accepted", "rejected", "error"} => StopTx(s) \in received

Journal == Numbers /\ Places /\ Window /\ Ends /\ Ordered
Knowledge == FreshOnes /\ MemSound /\ FlashSound /\ Unlost /\ ServerKnows /\ InFlight
IInv == TypeOK /\ Journal /\ Knowledge

-----------------------------------------------------------------------------
(* Objects and files.                                                       *)

\* Refers names the ways to refer to a session.
Refers(s) ==
    \/ s = transaction \/ s = transactionFront
    \/ \E k \in DOMAIN authQueue : authQueue[k] = s
    \/ sendReqFront # None /\ sendReqFront.session = s

LEMMA ReferencedIs ==
    ASSUME TypeOK
    PROVE  /\ Referenced \subseteq Session
           /\ \A s \in Session : s \in Referenced <=> Refers(s)
           /\ None \notin Session
<1>1. None \notin Session
  BY ConstantsAssumption DEF Session
<1>2. \A k \in DOMAIN authQueue : authQueue[k] \in Session
  BY DEF TypeOK
<1>3. sendReqFront # None => sendReqFront.session \in Session
  BY DEF TypeOK, Request
<1>4. Referenced \subseteq Session
  BY <1>2, <1>3 DEF Referenced, TypeOK
<1>5. \A s \in Session : s \in Referenced <=> Refers(s)
  BY <1>1 DEF Referenced, Refers
<1>6. QED
  BY <1>1, <1>4, <1>5

\* The types of the objects and of the files.
LEMMA CopyTypes ==
    ASSUME TypeOK
    PROVE  /\ \A s \in Session : mem[s] \in Tx
           /\ \A n \in TxNr : flash[n] # None => flash[n] \in File /\ flash[n].session \in Session
                                                 /\ flash[n].tx \in Tx
           /\ {txNrBegin, txNrFront, txNrEnd} \subseteq TxNr
           /\ TxNr \subseteq Nat /\ Session \subseteq Nat
<1>1. \A s \in Session : mem[s] \in Tx
  BY DEF TypeOK
<1>2. \A n \in TxNr : flash[n] # None => flash[n] \in File
  BY DEF TypeOK
<1>3. \A f \in File : f.session \in Session /\ f.tx \in Tx
  BY DEF File
<1>4. TxNr \subseteq Nat /\ Session \subseteq Nat
  BY ConstantsAssumption DEF TxNr, Session
<1>5. QED
  BY <1>1, <1>2, <1>3, <1>4 DEF TypeOK

\* Distances from the begin of the journal are numbers, and zero just there.
LEMMA AheadType ==
    ASSUME TypeOK, NEW n \in TxNr
    PROVE  Ahead(n) \in 0 .. MaxTxCnt - 1 /\ Ahead(n) \in Nat /\ (Ahead(n) = 0 <=> n = txNrBegin)
  BY MinusType, ConstantsAssumption DEF TypeOK, Ahead

\* getTransaction() finds the object in use, or else the file.
LEMMA SessionAtIs ==
    ASSUME TypeOK, Numbers, NEW n \in TxNr, NEW refs \in SUBSET Referenced
    PROVE  LET s == SessionAt(n, refs)
               t == TxOf(s, n, refs)
           IN  /\ s \in Session \cup {None}
               /\ s # None => t \in Tx /\ t.nr = n
               /\ \/ s # None /\ s \in refs /\ mem[s].nr = n /\ t = mem[s]
                  \/ /\ \A r \in refs : mem[r].nr # n
                     /\ s # None => HasFile(s, n) /\ t = flash[n].tx
                     /\ s = None => flash[n] = None
<1> DEFINE s == SessionAt(n, refs)
           t == TxOf(s, n, refs)
<1>1. refs \subseteq Session /\ None \notin Session
  BY ReferencedIs
<1>2. CASE Cached(n, refs) # {}
  <2>1. PICK r \in refs : mem[r].nr = n
    BY <1>2 DEF Cached
  <2>2. Cached(n, refs) = {r}
    BY <2>1 DEF Cached, Numbers
  <2>3. s = CHOOSE q \in {r} : \A p \in {r} : p <= q
    BY <1>2, <2>2 DEF SessionAt
  <2>4. r \in Nat
    BY <1>1, CopyTypes
  <2>5. s = r
    BY <2>3, <2>4
  <2>6. t = mem[r] /\ mem[r] \in Tx /\ r \in Session
    BY <2>2, <2>5, <1>1, CopyTypes DEF TxOf
  <2>7. QED
    BY <1>1, <2>1, <2>5, <2>6
<1>3. CASE Cached(n, refs) = {}
  <2>1. \A r \in refs : mem[r].nr # n
    BY <1>3 DEF Cached
  <2>2. s = IF flash[n] = None THEN None ELSE flash[n].session
    BY <1>3 DEF SessionAt
  <2>3. t = flash[n].tx
    BY <1>3 DEF TxOf
  <2>4. flash[n] # None => flash[n].session \in Session /\ flash[n].tx \in Tx /\ flash[n].tx.nr = n
    BY CopyTypes DEF Numbers
  <2>5. QED
    BY <1>1, <2>1, <2>2, <2>3, <2>4 DEF HasFile
<1>4. QED
  BY <1>2, <1>3

\* Either way it is a copy of the session that is sound and has the properties of its file.
LEMMA SessionAtSound ==
    ASSUME TypeOK, Numbers, MemSound, FlashSound, NEW n \in TxNr, NEW refs \in SUBSET Referenced,
           SessionAt(n, refs) # None
    PROVE  Sound(SessionAt(n, refs), TxOf(SessionAt(n, refs), n, refs))
<1> DEFINE s == SessionAt(n, refs)
           t == TxOf(s, n, refs)
<1>1. \/ s \in refs /\ t = mem[s]
      \/ HasFile(s, n) /\ t = flash[n].tx
  BY SessionAtIs
<1>2. CASE s \in refs /\ t = mem[s]
  BY <1>2 DEF MemSound
<1>3. CASE HasFile(s, n) /\ t = flash[n].tx
  BY <1>3 DEF FlashSound, HasFile
<1>4. QED
  BY <1>1, <1>2, <1>3

-----------------------------------------------------------------------------
(* The journal when an object is committed, and when nothing happens to it.  *)

\* What never is undone in an object.
Evolves(m, t) ==
    /\ t.nr = m.nr
    /\ isAborted(m) => isAborted(t)
    /\ m.silent => t.silent
    /\ m.stop # "no" => t.stop # "no"
    /\ isCompleted(m) => isCompleted(t)

LEMMA Evolved ==
    ASSUME NEW m \in Tx, NEW t \in Tx, Evolves(m, t)
    PROVE  /\ IsRolledBack(m) => IsRolledBack(t)
           /\ Collectable(m) => Collectable(t)
           /\ IsGood(t) => IsGood(m)
  BY DEF Evolves, IsRolledBack, Collectable, IsGood

\* Commit() leaves the other objects and files alone.
LEMMA CommitEffect ==
    ASSUME TypeOK, NEW s \in Session, NEW t \in Tx, Commit(s, t), t.nr = mem[s].nr
    PROVE  /\ t.nr \in TxNr
           /\ mem'[s] = t /\ \A r \in Session : r # s => mem'[r] = mem[r]
           /\ \A r \in Session : mem'[r].nr = mem[r].nr
           /\ flash'[t.nr] # None /\ flash'[t.nr].session = s /\ flash'[t.nr].tx = t
           /\ \A n \in TxNr : n # t.nr => flash'[n] = flash[n]
           /\ mem' \in [Session -> Tx] /\ flash' \in [TxNr -> File \cup {None}]
<1>1. t.nr \in TxNr
  BY DEF Tx
<1>2. mem' = [mem EXCEPT ![s] = t] /\ mem \in [Session -> Tx]
  BY DEF Commit, TypeOK
<1>3. /\ flash' = [flash EXCEPT ![t.nr] = [session |-> s, tx |-> t]]
      /\ flash \in [TxNr -> File \cup {None}]
  BY DEF Commit, Write, TypeOK
<1>4. [session |-> s, tx |-> t] \in File
  BY DEF File
<1>5. [session |-> s, tx |-> t] # None
  BY <1>4, NoneAssumption
<1>6. flash'[t.nr] = [session |-> s, tx |-> t] /\ \A n \in TxNr : n # t.nr => flash'[n] = flash[n]
  BY <1>1, <1>3
<1>7. mem'[s] = t /\ \A r \in Session : r # s => mem'[r] = mem[r]
  BY <1>2
<1>8. QED
  BY <1>1, <1>2, <1>3, <1>4, <1>5, <1>6, <1>7

LEMMA JournalCommit ==
    ASSUME TypeOK, Journal, NEW s \in Referenced, NEW t \in Tx, Evolves(mem[s], t), Commit(s, t),
           UNCHANGED <<txNrs, refVars>>, Referenced' \subseteq Referenced
    PROVE  Journal'
<1> USE DEF Journal
<1>1. s \in Session /\ mem[s] \in Tx /\ Referenced \subseteq Session
  BY ReferencedIs, CopyTypes
<1>2. t.nr = mem[s].nr
  BY DEF Evolves
<1>3. /\ t.nr \in TxNr
      /\ mem'[s] = t /\ \A r \in Session : r # s => mem'[r] = mem[r]
      /\ \A r \in Session : mem'[r].nr = mem[r].nr
      /\ flash'[t.nr] # None /\ flash'[t.nr].session = s /\ flash'[t.nr].tx = t
      /\ \A n \in TxNr : n # t.nr => flash'[n] = flash[n]
  BY <1>1, <1>2, CommitEffect
<1>4. /\ IsRolledBack(mem[s]) => IsRolledBack(t)
      /\ Collectable(mem[s]) => Collectable(t)
      /\ IsGood(t) => IsGood(mem[s])
      /\ mem[s].silent => t.silent
  BY <1>1, Evolved DEF Evolves
<1>5. /\ txNrBegin' = txNrBegin /\ txNrFront' = txNrFront /\ txNrEnd' = txNrEnd
      /\ transaction' = transaction /\ transactionFront' = transactionFront
  BY DEF txNrs, refVars
<1>6. \A n \in TxNr : Ahead(n)' = Ahead(n)
  BY <1>5 DEF Ahead
<1>7. Ahead(txNrEnd)' = Ahead(txNrEnd) /\ Ahead(txNrFront)' = Ahead(txNrFront)
  BY <1>5 DEF Ahead
<1>8. Placed(s)
  BY DEF Places
<1>9. \A n \in TxNr : HasFile(s, n) => n = t.nr
  BY <1>2, <1>8 DEF Placed
<1>10. Numbers'
  <2>1. \A n \in TxNr : flash'[n] # None => flash'[n].tx.nr = n
    BY <1>3 DEF Numbers
  <2>2. \A m, n \in TxNr : flash'[m] # None /\ flash'[n] # None /\ m # n =>
            flash'[m].session # flash'[n].session
    BY <1>3, <1>9 DEF Numbers, HasFile
  <2>3. \A q, r \in Referenced' : mem'[q].nr = mem'[r].nr => q = r
    BY <1>1, <1>3 DEF Numbers
  <2>4. QED
    BY <2>1, <2>2, <2>3 DEF Numbers
<1>11. ASSUME NEW r \in Referenced' PROVE Placed(r)'
  <2>1. r \in Referenced /\ r \in Session /\ Placed(r) /\ mem'[r].nr = mem[r].nr
    BY <1>1, <1>3 DEF Places
  <2>2. CASE r = s
    <3>1. \A n \in TxNr : HasFile(r, n)' => n = t.nr
      BY <1>3, <1>9, <2>2 DEF HasFile
    <3>2. ASSUME InJournal(s) PROVE InJournal(r)'
      <4>1. Agree(t, t)
        BY DEF Agree
      <4>2. HasFile(s, t.nr)'
        BY <1>3 DEF HasFile
      <4>3. Ahead(t.nr)' < Ahead(txNrEnd)'
        BY <1>2, <1>3, <1>6, <1>7, <3>2 DEF InJournal
      <4>4. QED
        BY <1>3, <2>2, <4>1, <4>2, <4>3 DEF InJournal
    <3>3. ASSUME WasRemoved(s) PROVE WasRemoved(r)'
      BY <1>2, <1>3, <1>4, <1>5, <1>7, <2>2, <3>3 DEF WasRemoved
    <3>4. QED
      BY <1>3, <1>8, <2>2, <3>1, <3>2, <3>3 DEF Placed
  <2>3. CASE r # s
    <3>1. mem'[r] = mem[r] /\ mem[r].nr # t.nr /\ mem[r].nr \in TxNr
      BY <1>1, <1>2, <1>3, <2>1, <2>3, CopyTypes DEF Numbers, Tx
    <3>2. \A n \in TxNr : HasFile(r, n)' => HasFile(r, n)
      BY <1>3, <2>3 DEF HasFile
    <3>3. ASSUME InJournal(r) PROVE InJournal(r)'
      BY <1>3, <1>6, <1>7, <3>1, <3>3 DEF InJournal, HasFile
    <3>4. ASSUME WasRemoved(r) PROVE WasRemoved(r)'
      BY <1>5, <1>7, <3>1, <3>4 DEF WasRemoved
    <3>5. QED
      BY <2>1, <3>1, <3>2, <3>3, <3>4 DEF Placed
  <2>4. QED
    BY <2>2, <2>3
<1>12. Window'
  <2>1. ASSUME NEW n \in TxNr, flash'[n] # None
        PROVE  Ahead(n)' <= RecordSize /\ (Ahead(n)' = RecordSize => flash'[n].tx.silent)
    <3>1. CASE n # t.nr
      BY <1>3, <1>6, <2>1, <3>1 DEF Window
    <3>2. CASE n = t.nr
      <4>1. CASE InJournal(s)
        BY <1>2, <1>3, <1>4, <1>6, <3>2, <4>1 DEF InJournal, HasFile, Agree, Window
      <4>2. CASE WasRemoved(s)
        BY <1>2, <1>3, <1>4, <1>6, <3>2, <4>2 DEF WasRemoved
      <4>3. QED
        BY <1>8, <4>1, <4>2 DEF Placed
    <3>3. QED
      BY <3>1, <3>2
  <2>2. QED
    BY <1>7, <2>1 DEF Window
<1>13. Ends'
  <2>1. transaction # None => transaction \in Session /\ mem'[transaction].nr = mem[transaction].nr
                              /\ mem[transaction].nr \in TxNr
    BY <1>3, CopyTypes DEF TypeOK, Tx
  <2>2. transactionFront # None => transactionFront \in Session
    BY DEF TypeOK
  <2>3. transaction # None /\ Collectable(mem[transaction]) => Collectable(mem'[transaction])
    BY <1>3, <1>4, <2>1
  <2>4. QED
    BY <1>3, <1>5, <1>6, <1>7, <2>1, <2>2, <2>3 DEF Ends
<1>14. Ordered'
  <2>1. ASSUME NEW n \in TxNr, GoodFile(n)'
        PROVE  GoodFile(n) /\ flash'[n].session = flash[n].session
    <3>1. CASE n # t.nr
      BY <1>3, <2>1, <3>1 DEF GoodFile
    <3>2. CASE n = t.nr
      <4>1. IsGood(mem[s])
        BY <1>3, <1>4, <2>1, <3>2 DEF GoodFile
      <4>2. InJournal(s)
        BY <1>8, <4>1 DEF Placed, WasRemoved, IsRolledBack, IsGood
      <4>3. QED
        BY <1>2, <1>3, <3>2, <4>1, <4>2 DEF InJournal, HasFile, Agree, GoodFile, IsGood, isAborted
    <3>3. QED
      BY <3>1, <3>2
  <2>2. QED
    BY <1>6, <1>7, <2>1 DEF Ordered
<1>15. QED
  BY <1>10, <1>11, <1>12, <1>13, <1>14 DEF Places

\* Nothing happens to the objects and the files; some references may be dropped.
LEMMA JournalSame ==
    ASSUME TypeOK, Journal, UNCHANGED <<txNrs, mem, flash>>, Referenced' \subseteq Referenced,
           transaction' \in {transaction, None}, transactionFront' = transactionFront
    PROVE  Journal'
<1> USE DEF Journal
<1>1. /\ txNrBegin' = txNrBegin /\ txNrFront' = txNrFront /\ txNrEnd' = txNrEnd
      /\ mem' = mem /\ flash' = flash
  BY DEF txNrs
<1>2. Numbers'
  BY <1>1 DEF Numbers
<1>3. Places'
  BY <1>1 DEF Places, Placed, InJournal, WasRemoved, HasFile, Ahead
<1>4. Window'
  BY <1>1 DEF Window, Ahead
<1>5. Ends'
  BY <1>1 DEF Ends, Ahead
<1>6. Ordered'
  BY <1>1 DEF Ordered, GoodFile, Ahead
<1>7. QED
  BY <1>2, <1>3, <1>4, <1>5, <1>6

-----------------------------------------------------------------------------
(* The journal when a transaction is rolled back, and after a boot.          *)

LEMMA JournalRollback ==
    ASSUME TypeOK, Journal, Rollback
    PROVE  Journal' /\ Referenced' \subseteq Referenced /\ txNrEnd' \in TxNr /\ txNrFront' \in TxNr
<1> USE DEF Journal
<1> DEFINE c == transaction
           t == mem[c]
<1>1. /\ c # None /\ c \in Session /\ c \in Referenced /\ Referenced \subseteq Session
      /\ t \in Tx /\ t.nr \in TxNr
  <2>1. c # None /\ c \in Session
    BY DEF Rollback, TypeOK
  <2>2. c \in Referenced /\ Referenced \subseteq Session
    BY <2>1, ReferencedIs DEF Refers
  <2>3. QED
    BY <2>1, <2>2, CopyTypes DEF Tx
<1>2. /\ IsRolledBack(t) /\ transaction' = None /\ txNrEnd' = t.nr
      /\ txNrFront' = IF txNrFront = txNrEnd THEN t.nr ELSE txNrFront
      /\ txNrBegin' = txNrBegin /\ transactionFront' = transactionFront /\ mem' = mem
      /\ flash' = [n \in TxNr |-> IF n = t.nr THEN None ELSE flash[n]]
  BY DEF Rollback, IsRolledBack, Remove
<1>3. Referenced' \subseteq Referenced
  BY <1>2 DEF Rollback, Referenced, rpcVars
<1>4. InJournal(c) /\ Ahead(t.nr) + 1 = Ahead(txNrEnd)
  BY <1>1 DEF Places, Placed, WasRemoved, Ends
<1>5. flash'[t.nr] = None /\ \A n \in TxNr : n # t.nr => flash'[n] = flash[n]
  BY <1>1, <1>2
<1>6. \A n \in TxNr : Ahead(n)' = Ahead(n) /\ Ahead(n) \in Nat
  BY <1>2, AheadType DEF Ahead
<1>7. /\ txNrEnd \in TxNr /\ txNrFront \in TxNr /\ txNrBegin \in TxNr
      /\ Ahead(txNrEnd)' = Ahead(t.nr) /\ Ahead(txNrEnd) \in Nat /\ Ahead(txNrFront) \in Nat
  BY <1>1, <1>2, <1>6 DEF TypeOK, Ahead
<1>8. \A m, n \in TxNr : Ahead(m) = Ahead(n) => m = n
  BY <1>7, MinusInjective DEF Ahead
<1>9. Numbers'
  BY <1>1, <1>2, <1>3, <1>5 DEF Numbers
<1>10. ASSUME NEW r \in Referenced' PROVE Placed(r)'
  <2>1. r \in Referenced /\ r \in Session /\ Placed(r) /\ mem[r].nr \in TxNr
    BY <1>1, <1>3, CopyTypes DEF Places, Tx
  <2>2. \A n \in TxNr : HasFile(r, n)' => n = mem'[r].nr
    BY <1>2, <1>5, <2>1 DEF Placed, HasFile
  <2>3. CASE r = c
    <3>1. Ahead(t.nr) <= RecordSize /\ (Ahead(t.nr) = RecordSize => t.silent)
      BY <1>1, <1>4 DEF Window, InJournal, HasFile, Agree
    <3>2. WasRemoved(r)'
      BY <1>2, <1>7, <2>3, <3>1 DEF WasRemoved
    <3>3. QED
      BY <2>2, <3>2 DEF Placed
  <2>4. CASE r # c
    <3>1. InJournal(r)
      BY <1>1, <2>1 DEF Placed, WasRemoved
    <3>2. mem[r].nr # t.nr
      BY <1>1, <2>1, <2>4 DEF Numbers
    <3>3. Ahead(mem[r].nr) < Ahead(t.nr)
      BY <1>1, <1>4, <1>6, <1>8, <2>1, <3>1, <3>2 DEF InJournal
    <3>4. InJournal(r)'
      BY <1>2, <1>5, <1>6, <1>7, <2>1, <3>1, <3>2, <3>3 DEF InJournal, HasFile
    <3>5. QED
      BY <2>2, <3>4 DEF Placed
  <2>5. QED
    BY <2>3, <2>4
<1>11. Ahead(txNrFront)' <= Ahead(t.nr)
  <2>1. CASE txNrFront = txNrEnd
    BY <1>1, <1>2, <1>6, <2>1 DEF Ahead
  <2>2. CASE txNrFront # txNrEnd
    <3>1. Ahead(txNrFront) # Ahead(txNrEnd)
      BY <1>7, <1>8, <2>2
    <3>2. Ahead(txNrFront)' = Ahead(txNrFront)
      BY <1>2, <2>2 DEF Ahead
    <3>3. QED
      BY <1>1, <1>4, <1>6, <1>7, <3>1, <3>2 DEF Window
  <2>3. QED
    BY <2>1, <2>2
<1>12. Window'
  <2>1. Ahead(t.nr) <= RecordSize + 1
    BY <1>1, <1>4, <1>6, <1>7, ConstantsAssumption DEF Window
  <2>2. \A n \in TxNr : flash'[n] # None =>
           Ahead(n)' <= RecordSize /\ (Ahead(n)' = RecordSize => flash'[n].tx.silent)
    BY <1>5, <1>6 DEF Window
  <2>3. QED
    BY <1>7, <1>11, <2>1, <2>2 DEF Window
<1>13. Ends'
  <2>1. ASSUME transactionFront # None PROVE mem[transactionFront].nr = txNrFront'
    <3>1. transactionFront \in Referenced /\ mem[transactionFront].nr = txNrFront
      BY <2>1, ReferencedIs DEF Refers, TypeOK, Ends
    <3>2. InJournal(transactionFront)
      BY <1>1, <3>1 DEF Places, Placed, WasRemoved
    <3>3. txNrFront # txNrEnd
      BY <1>7, <3>1, <3>2 DEF InJournal
    <3>4. QED
      BY <1>2, <3>1, <3>3
  <2>2. QED
    BY <1>2, <2>1 DEF Ends
<1>14. Ordered'
  <2>1. \A n \in TxNr : GoodFile(n)' =>
           GoodFile(n) /\ n # t.nr /\ flash'[n].session = flash[n].session
    BY <1>5 DEF GoodFile
  <2>2. \A n \in TxNr : GoodFile(n) /\ n # t.nr => Ahead(n) < Ahead(t.nr)
    BY <1>1, <1>4, <1>6, <1>8 DEF Ordered
  <2>3. QED
    BY <1>6, <1>7, <2>1, <2>2 DEF Ordered
<1>15. QED
  BY <1>1, <1>2, <1>3, <1>7, <1>9, <1>10, <1>12, <1>13, <1>14 DEF Places

\* The oldest and the newest file, if all files lie in the window.
InWindow(ns) == ns \subseteq TxNr /\ \A n \in ns : Ahead(n) <= RecordSize

LEMMA OldestIs ==
    ASSUME TypeOK, NEW ns, InWindow(ns), ns # {}
    PROVE  Oldest(ns) \in ns /\ \A n \in ns : Ahead(Oldest(ns)) <= Ahead(n)
<1>1. txNrBegin \in TxNr /\ ns \subseteq TxNr
  BY DEF TypeOK, InWindow
<1>2. \A n \in ns : Ahead(n) \in Nat /\ Ahead(n) <= RecordSize
  BY <1>1, AheadType DEF InWindow
<1>3. \A m, n \in ns : Minus(m, n) = IF Ahead(m) >= Ahead(n) THEN Ahead(m) - Ahead(n)
                                     ELSE Ahead(m) + MaxTxCnt - Ahead(n)
  BY <1>1, MinusFrom DEF Ahead
<1>4. \A m, n \in ns : Minus(m, n) < MaxTxCnt \div 2 <=> Ahead(m) >= Ahead(n)
  BY <1>2, <1>3, ConstantsAssumption
<1>5. \E n \in ns : \A m \in ns : Minus(m, n) < MaxTxCnt \div 2
  <2> DEFINE S == {Ahead(n) : n \in ns}
  <2>1. PICK x \in S : \A y \in S : x <= y
    <3>1. S \subseteq Nat /\ S # {}
      BY <1>2
    <3> HIDE DEF S
    <3>2. QED
      BY <3>1, Least
  <2>2. PICK n \in ns : x = Ahead(n)
    OBVIOUS
  <2>3. \A m \in ns : Ahead(n) <= Ahead(m)
    BY <2>1, <2>2
  <2>4. QED
    BY <1>2, <1>4, <2>3
<1>6. Oldest(ns) \in ns /\ \A m \in ns : Minus(m, Oldest(ns)) < MaxTxCnt \div 2
  BY <1>5 DEF Oldest
<1>7. QED
  BY <1>2, <1>4, <1>6

LEMMA NewestIs ==
    ASSUME TypeOK, NEW ns, InWindow(ns), ns # {}
    PROVE  Newest(ns) \in ns /\ \A n \in ns : Ahead(n) <= Ahead(Newest(ns))
<1>1. txNrBegin \in TxNr /\ ns \subseteq TxNr
  BY DEF TypeOK, InWindow
<1>2. \A n \in ns : Ahead(n) \in Nat /\ Ahead(n) <= RecordSize
  BY <1>1, AheadType DEF InWindow
<1>3. \A m, n \in ns : Minus(n, m) = IF Ahead(n) >= Ahead(m) THEN Ahead(n) - Ahead(m)
                                     ELSE Ahead(n) + MaxTxCnt - Ahead(m)
  BY <1>1, MinusFrom DEF Ahead
<1>4. \A m, n \in ns : Minus(n, m) < MaxTxCnt \div 2 <=> Ahead(n) >= Ahead(m)
  BY <1>2, <1>3, ConstantsAssumption
<1>5. \E n \in ns : \A m \in ns : Minus(n, m) < MaxTxCnt \div 2
  <2> DEFINE S == {RecordSize - Ahead(n) : n \in ns}
  <2>1. PICK x \in S : \A y \in S : x <= y
    <3>1. S \subseteq Nat /\ S # {}
      BY <1>2, ConstantsAssumption
    <3> HIDE DEF S
    <3>2. QED
      BY <3>1, Least
  <2>2. PICK n \in ns : x = RecordSize - Ahead(n)
    OBVIOUS
  <2>3. \A m \in ns : RecordSize - Ahead(n) <= RecordSize - Ahead(m)
    BY <2>1, <2>2
  <2>4. QED
    BY <1>2, <1>4, <2>3, ConstantsAssumption
<1>6. Newest(ns) \in ns /\ \A m \in ns : Minus(Newest(ns), m) < MaxTxCnt \div 2
  BY <1>5 DEF Newest
<1>7. QED
  BY <1>2, <1>4, <1>6

\* Files that a boot can do with.
Bootable(fs) ==
    /\ fs \in [TxNr -> File \cup {None}]
    /\ \A n \in TxNr : fs[n] # None => fs[n].tx.nr = n /\ Ahead(n) <= RecordSize
    /\ fs[txNrBegin] # None => \A n \in TxNr : fs[n] # None /\ Ahead(n) = RecordSize => fs[n].tx.silent
    /\ \A m, n \in TxNr : fs[m] # None /\ fs[n] # None /\ m # n => fs[m].session # fs[n].session
    /\ \A m, n \in TxNr : fs[m] # None /\ fs[n] # None /\ IsGood(fs[m].tx) /\ IsGood(fs[n].tx)
                          /\ Ahead(m) < Ahead(n) => fs[m].session < fs[n].session

LEMMA FlashBootable == ASSUME TypeOK, Journal PROVE Bootable(flash)
  BY DEF TypeOK, Journal, Numbers, Window, Ordered, GoodFile, Bootable

\* A boot finds all files, and nothing refers to any other session than the current one.
LEMMA JournalBoot ==
    ASSUME TypeOK, NEW fs, Bootable(fs), BootFrom(fs)
    PROVE  /\ Journal' /\ {txNrBegin, txNrFront, txNrEnd}' \subseteq TxNr
           /\ flash' = fs /\ \A n \in TxNr : fs[n] # None => InQueue(n)'
           /\ Referenced' = {transaction'} \ {None} /\ mem' \in [Session -> Tx]
           /\ transaction' # None => \E n \in TxNr : fs[n] # None /\ transaction' = fs[n].session
                 /\ transaction' \in Session /\ mem'[transaction'] = fs[n].tx
                 /\ \A m \in TxNr : fs[m] # None => Ahead(m) <= Ahead(n)
           /\ sendReqFront' = None /\ authQueue' = <<>>
<1>1. /\ flash' = fs /\ transactionFront' = None /\ sendReqFront' = None /\ authQueue' = <<>>
  BY DEF BootFrom
<1>2. Referenced' = {transaction'} \ {None}
  BY <1>1 DEF Referenced
<1>3. None \notin Session /\ \A s \in Session : NoObjects[s] \in Tx
  <2>1. NewTx(0, FALSE) \in Tx
    BY ConstantsAssumption DEF NewTx, Tx, TxNr
  <2>2. QED
    BY <2>1, ReferencedIs DEF NoObjects
<1>4. NoObjects \in [Session -> Tx]
  BY <1>3 DEF NoObjects
<1>5. \A n \in TxNr : fs[n] # None => fs[n].session \in Session /\ fs[n].tx \in Tx /\ fs[n].tx.nr = n
  BY DEF Bootable, File
<1>6. CASE Files(fs) = {}
  <2>1. /\ txNrBegin' = 0 /\ txNrFront' = 0 /\ txNrEnd' = 0 /\ transaction' = None
        /\ mem' = NoObjects
    BY <1>6 DEF BootFrom
  <2>2. \A n \in TxNr : fs[n] = None
    BY <1>6 DEF Files
  <2>3. 0 \in TxNr
    BY ConstantsAssumption DEF TxNr
  <2>4. Referenced' = {}
    BY <1>2, <2>1
  <2>5. Ahead(txNrEnd)' = 0 /\ Ahead(txNrFront)' = 0
    BY <2>1, <2>3, MinusType DEF Ahead
  <2>6. Numbers' /\ Places'
    BY <1>1, <2>2, <2>4 DEF Numbers, Places
  <2>7. Window' /\ Ends' /\ Ordered'
    BY <1>1, <2>1, <2>2, <2>5, ConstantsAssumption DEF Window, Ends, Ordered, GoodFile
  <2>8. QED
    BY <1>1, <1>2, <1>4, <2>1, <2>2, <2>3, <2>6, <2>7 DEF Journal
<1>7. CASE Files(fs) # {}
  <2> DEFINE ns == Files(fs)
             o == Oldest(ns)
             w == Newest(ns)
             c == fs[w].session
  <2>1. InWindow(ns) /\ \A n \in TxNr : n \in ns <=> fs[n] # None
    BY DEF Bootable, InWindow, Files
  <2>2. /\ o \in ns /\ w \in ns /\ o \in TxNr /\ w \in TxNr
        /\ \A n \in ns : Ahead(o) <= Ahead(n) /\ Ahead(n) <= Ahead(w)
    BY <1>7, <2>1, OldestIs, NewestIs DEF InWindow
  <2>3. /\ txNrBegin' = o /\ txNrFront' = o /\ txNrEnd' = Next1(w)
        /\ transaction' = c /\ mem' = [NoObjects EXCEPT ![c] = fs[w].tx]
    BY <1>7 DEF BootFrom
  <2>4. c \in Session /\ fs[w].tx \in Tx /\ fs[w].tx.nr = w /\ fs[w] # None
    BY <1>5, <2>1, <2>2
  <2>5. mem'[c] = fs[w].tx /\ mem' \in [Session -> Tx] /\ c # None
    BY <1>3, <1>4, <2>3, <2>4
  <2>6. txNrBegin \in TxNr /\ \A n \in TxNr : Ahead(n) \in Nat
    BY AheadType DEF TypeOK
  <2>7. \A n \in ns : Ahead(n)' = Ahead(n) - Ahead(o) /\ Ahead(n) <= RecordSize
    <3>1. \A n \in ns : n \in TxNr /\ Minus(n, o) = Ahead(n) - Ahead(o)
      BY <2>1, <2>2, <2>6, MinusFrom DEF Ahead, InWindow
    <3>2. QED
      BY <2>1, <2>3, <3>1 DEF Ahead, InWindow
  <2>8. Next1(w) \in TxNr /\ Ahead(txNrEnd)' = Ahead(w) - Ahead(o) + 1
    <3>1. Minus(w, o) = Ahead(w) - Ahead(o) /\ Minus(w, o) < MaxTxCnt - 1
      BY <2>2, <2>3, <2>6, <2>7, ConstantsAssumption DEF Ahead
    <3>2. QED
      BY <2>2, <2>3, <3>1, Next1Is DEF Ahead
  <2>9. Ahead(txNrFront)' = 0
    BY <2>2, <2>3, MinusType DEF Ahead
  <2>10. Referenced' = {c}
    BY <1>2, <2>3, <2>5
  <2>11. ASSUME NEW n \in TxNr, fs[n] # None PROVE InQueue(n)'
    <3>1. n \in ns /\ Ahead(n)' = Ahead(n) - Ahead(o) /\ Ahead(n) <= Ahead(w) /\ Ahead(o) <= Ahead(n)
      BY <2>1, <2>2, <2>7, <2>11
    <3>2. QED
      BY <2>2, <2>6, <2>8, <2>9, <3>1 DEF InQueue
  <2>12. Numbers'
    BY <1>1, <2>10 DEF Numbers, Bootable
  <2>13. Placed(c)'
    <3>1. HasFile(c, w)' /\ Agree(mem'[c], flash'[w].tx)
      BY <1>1, <2>4, <2>5 DEF HasFile, Agree
    <3>2. Ahead(w)' < Ahead(txNrEnd)'
      BY <2>2, <2>4, <2>11 DEF InQueue
    <3>3. \A n \in TxNr : HasFile(c, n)' => n = w
      BY <1>1, <2>2, <2>4 DEF HasFile, Bootable
    <3>4. QED
      BY <2>4, <2>5, <3>1, <3>2, <3>3 DEF Placed, InJournal
  <2>14. Window'
    <3>1. Ahead(w) - Ahead(o) + 1 <= RecordSize + 1 /\ Ahead(w) - Ahead(o) + 1 >= 0
      BY <2>2, <2>6, <2>7, ConstantsAssumption
    <3>2. ASSUME NEW n \in TxNr, fs[n] # None
          PROVE  Ahead(n)' <= RecordSize /\ (Ahead(n)' = RecordSize => fs[n].tx.silent)
      <4>1. Ahead(n)' = Ahead(n) - Ahead(o) /\ Ahead(n) <= RecordSize
        BY <2>1, <2>7, <3>2
      <4>2. Ahead(n)' <= RecordSize /\ (Ahead(n)' = RecordSize => Ahead(n) = RecordSize /\ Ahead(o) = 0)
        BY <2>2, <2>6, <4>1, ConstantsAssumption
      <4>3. Ahead(o) = 0 => o = txNrBegin
        BY <2>2, AheadType
      <4>4. fs[o] # None
        BY <2>1, <2>2
      <4>5. QED
        BY <3>2, <4>2, <4>3, <4>4 DEF Bootable
    <3>3. QED
      BY <1>1, <2>8, <2>9, <3>1, <3>2 DEF Window
  <2>15. Ends'
    <3>1. Ahead(w)' + 1 = Ahead(txNrEnd)'
      BY <2>2, <2>6, <2>7, <2>8
    <3>2. txNrFront' # txNrEnd'
      <4>1. Ahead(txNrEnd)' # 0
        BY <2>2, <2>6, <2>8
      <4>2. QED
        BY <2>2, <2>3, <4>1, MinusType DEF Ahead
    <3>3. QED
      BY <1>1, <2>3, <2>4, <2>5, <3>1, <3>2 DEF Ends
  <2>16. Ordered'
    <3>1. \A n \in TxNr : GoodFile(n)' <=> fs[n] # None /\ IsGood(fs[n].tx)
      BY <1>1 DEF GoodFile
    <3>2. \A n \in TxNr : GoodFile(n)' => Ahead(n)' < Ahead(txNrEnd)'
      BY <2>11, <3>1 DEF InQueue
    <3>3. \A m, n \in TxNr : GoodFile(m)' /\ GoodFile(n)' /\ Ahead(m)' < Ahead(n)' =>
             Ahead(m) < Ahead(n)
      BY <2>1, <2>2, <2>6, <2>7, <3>1
    <3>4. QED
      BY <1>1, <3>1, <3>2, <3>3 DEF Ordered, Bootable
  <2>17. Journal'
    BY <2>10, <2>12, <2>13, <2>14, <2>15, <2>16 DEF Journal, Places
  <2>18. {txNrBegin, txNrFront, txNrEnd}' \subseteq TxNr
    BY <2>2, <2>3, <2>8
  <2>19. \A m \in TxNr : fs[m] # None => Ahead(m) <= Ahead(w)
    BY <2>1, <2>2
  <2>20. QED
    BY <1>1, <1>2, <2>2, <2>3, <2>4, <2>5, <2>11, <2>17, <2>18, <2>19
<1>8. QED
  BY <1>6, <1>7


-----------------------------------------------------------------------------
(* allocateTransaction().                                                    *)

\* There is one number of entries to be trimmed.
LEMMA TrimmedIs ==
    ASSUME TypeOK
    PROVE  /\ Trimmed \in 0 .. Ahead(txNrEnd)
           /\ \A j \in 1 .. Trimmed : Trimmable(Back(j))
           /\ Trimmed = Ahead(txNrEnd) \/ ~Trimmable(Back(Trimmed + 1))
<1> DEFINE a == Ahead(txNrEnd)
           S == {k \in 0 .. a : k = a \/ ~Trimmable(Back(k + 1))}
<1>1. a \in Nat
  BY AheadType DEF TypeOK
<1> HIDE DEF a
<1>2. PICK x \in S : \A y \in S : x <= y
  <2>1. a \in S /\ S \subseteq Nat
    BY <1>1
  <2> HIDE DEF S
  <2>2. QED
    BY <2>1, Least
<1>3. ASSUME NEW j \in 1 .. x PROVE Trimmable(Back(j))
  <2>1. j - 1 \notin S /\ j - 1 \in 0 .. a /\ j - 1 # a /\ (j - 1) + 1 = j
    BY <1>1, <1>2
  <2>2. Trimmable(Back((j - 1) + 1))
    BY <2>1
  <2>3. QED
    BY <2>1, <2>2
<1>4. x \in 0 .. a /\ (x = a \/ ~Trimmable(Back(x + 1)))
  BY <1>2
<1>5. \E k \in 0 .. a : /\ \A j \in 1 .. k : Trimmable(Back(j))
                        /\ k = a \/ ~Trimmable(Back(k + 1))
  BY <1>3, <1>4
<1>6. QED
  BY <1>5 DEF Trimmed, a

\* The numbers of the entries that are trimmed.
LEMMA TrimRange ==
    ASSUME TypeOK, NEW k \in 0 .. Ahead(txNrEnd)
    PROVE  /\ Back(k) \in TxNr /\ Ahead(Back(k)) = Ahead(txNrEnd) - k
           /\ \A n \in TxNr : (\E j \in 1 .. k : n = Back(j)) <=>
                 Ahead(txNrEnd) - k <= Ahead(n) /\ Ahead(n) < Ahead(txNrEnd)
<1>1. txNrBegin \in TxNr /\ txNrEnd \in TxNr /\ Ahead(txNrEnd) \in Nat
  BY AheadType DEF TypeOK
<1>2. \A j \in 0 .. Ahead(txNrEnd) : Back(j) \in TxNr /\ Ahead(Back(j)) = Ahead(txNrEnd) - j
  BY <1>1, BackIs DEF Back, Ahead
<1>3. \A m, n \in TxNr : Ahead(m) = Ahead(n) => m = n
  BY <1>1, MinusInjective DEF Ahead
<1>4. \A n \in TxNr : Ahead(n) \in Nat
  BY AheadType
<1>5. ASSUME NEW n \in TxNr, NEW j \in 1 .. k, n = Back(j)
      PROVE  Ahead(txNrEnd) - k <= Ahead(n) /\ Ahead(n) < Ahead(txNrEnd)
  <2>1. j \in 0 .. Ahead(txNrEnd) /\ j >= 1 /\ j <= k
    BY <1>1
  <2>2. Ahead(n) = Ahead(txNrEnd) - j
    BY <1>2, <1>5, <2>1
  <2>3. QED
    BY <1>1, <2>1, <2>2
<1>6. ASSUME NEW n \in TxNr, Ahead(txNrEnd) - k <= Ahead(n), Ahead(n) < Ahead(txNrEnd)
      PROVE  \E j \in 1 .. k : n = Back(j)
  <2> DEFINE j == Ahead(txNrEnd) - Ahead(n)
  <2>1. j \in 1 .. k /\ j \in 0 .. Ahead(txNrEnd) /\ Ahead(txNrEnd) - j = Ahead(n)
    BY <1>1, <1>4, <1>6
  <2> HIDE DEF j
  <2>2. Back(j) \in TxNr /\ Ahead(Back(j)) = Ahead(n)
    BY <1>2, <2>1
  <2>3. QED
    BY <1>3, <2>1, <2>2
<1>7. QED
  BY <1>2, <1>5, <1>6

\* Trimming removes neither an entry in use nor one to be reported, and leaves no more
\* than RecordSize entries.
LEMMA Trimming ==
    ASSUME TypeOK, Journal, CanBegin, ~BeginEarly
    PROVE  /\ newEnd \in TxNr /\ Ahead(newEnd) <= Ahead(txNrEnd) /\ Ahead(newEnd) <= RecordSize
           /\ Ahead(newEnd) = Ahead(txNrEnd) - Trimmed
           /\ \A s \in Referenced : InJournal(s) /\ Ahead(mem[s].nr) < Ahead(newEnd)
                                    /\ ~Collectable(mem[s])
           /\ \A n \in TxNr : flash[n] # None /\ Ahead(newEnd) <= Ahead(n) => ~IsGood(flash[n].tx)
           /\ frontAfterTrim = IF Ahead(txNrFront) >= Ahead(newEnd) THEN newEnd ELSE txNrFront
<1> USE DEF Journal
<1>1. /\ Trimmed \in 0 .. Ahead(txNrEnd) /\ \A j \in 1 .. Trimmed : Trimmable(Back(j))
      /\ Trimmed = Ahead(txNrEnd) \/ ~Trimmable(Back(Trimmed + 1))
  BY TrimmedIs
<1>2. /\ newEnd \in TxNr /\ Ahead(newEnd) = Ahead(txNrEnd) - Trimmed
      /\ \A n \in TxNr : (\E j \in 1 .. Trimmed : n = Back(j)) <=>
            Ahead(newEnd) <= Ahead(n) /\ Ahead(n) < Ahead(txNrEnd)
  <2>1. /\ newEnd \in TxNr /\ Ahead(newEnd) = Ahead(txNrEnd) - Trimmed
        /\ \A n \in TxNr : (\E j \in 1 .. Trimmed : n = Back(j)) <=>
              Ahead(txNrEnd) - Trimmed <= Ahead(n) /\ Ahead(n) < Ahead(txNrEnd)
    BY <1>1, TrimRange DEF newEnd
  <2>2. QED
    BY <2>1
<1>3. \A n \in TxNr : Ahead(newEnd) <= Ahead(n) /\ Ahead(n) < Ahead(txNrEnd) => Trimmable(n)
  BY <1>1, <1>2
<1>4. /\ txNrBegin \in TxNr /\ txNrEnd \in TxNr /\ txNrFront \in TxNr
      /\ \A n \in TxNr : Ahead(n) \in Nat /\ (flash[n] # None => flash[n].tx \in Tx)
      /\ \A s \in Session : mem[s].nr \in TxNr /\ mem[s] \in Tx
      /\ Referenced \subseteq Session
  BY AheadType, CopyTypes, ReferencedIs DEF TypeOK, Tx
<1>5. \A n \in TxNr : Trimmable(n) =>
         /\ \A s \in Referenced : mem[s].nr # n
         /\ flash[n] # None => ~IsGood(flash[n].tx)
  <2> SUFFICES ASSUME NEW n \in TxNr, Trimmable(n)
               PROVE  /\ \A s \in Referenced : mem[s].nr # n
                      /\ flash[n] # None => ~IsGood(flash[n].tx)
    OBVIOUS
  <2> DEFINE q == SessionAt(n, Referenced)
             t == TxOf(q, n, Referenced)
  <2>1. q # None => t.silent \/ isAborted(t)
    BY DEF Trimmable
  <2>2. \A r \in Referenced : ~(mem[r].silent \/ isAborted(mem[r]))
    BY DEF CanBegin, Settled
  <2>3. /\ \/ q # None /\ q \in Referenced /\ mem[q].nr = n /\ t = mem[q]
           \/ /\ \A r \in Referenced : mem[r].nr # n
              /\ q # None => HasFile(q, n) /\ t = flash[n].tx
              /\ q = None => flash[n] = None
    BY SessionAtIs
  <2>4. /\ \A r \in Referenced : mem[r].nr # n
        /\ q # None => t = flash[n].tx
        /\ q = None => flash[n] = None
    BY <2>1, <2>2, <2>3
  <2>5. QED
    BY <2>1, <2>4 DEF IsGood
<1>6. ASSUME NEW s \in Referenced
      PROVE  InJournal(s) /\ Ahead(mem[s].nr) < Ahead(newEnd) /\ ~Collectable(mem[s])
  <2>1. ~Collectable(mem[s])
    BY DEF CanBegin, Settled, Collectable
  <2>2. InJournal(s)
    BY <2>1 DEF Places, Placed, WasRemoved, IsRolledBack, Collectable
  <2>3. mem[s].nr \in TxNr /\ ~(Ahead(newEnd) <= Ahead(mem[s].nr))
    BY <1>3, <1>4, <1>5, <2>2 DEF InJournal
  <2>4. QED
    BY <1>2, <1>4, <2>1, <2>2, <2>3
<1>7. ASSUME NEW n \in TxNr, flash[n] # None, Ahead(newEnd) <= Ahead(n)
      PROVE  ~IsGood(flash[n].tx)
  <2>1. CASE Ahead(n) < Ahead(txNrEnd)
    BY <1>3, <1>5, <1>7, <2>1
  <2>2. CASE ~(Ahead(n) < Ahead(txNrEnd))
    BY <1>7, <2>2 DEF Ordered, GoodFile
  <2>3. QED
    BY <2>1, <2>2
<1>8. Ahead(newEnd) <= RecordSize
  <2>1. CASE Trimmed = Ahead(txNrEnd)
    BY <1>2, <1>4, <2>1, ConstantsAssumption
  <2>2. CASE Trimmed # Ahead(txNrEnd)
    <3> DEFINE n == Back(Trimmed + 1)
               q == SessionAt(n, Referenced)
               t == TxOf(q, n, Referenced)
    <3>1. Trimmed + 1 \in 0 .. Ahead(txNrEnd)
      BY <1>1, <1>4, <2>2
    <3>2. n \in TxNr /\ Ahead(n) = Ahead(txNrEnd) - (Trimmed + 1)
      BY <3>1, TrimRange
    <3>3. Ahead(newEnd) = Ahead(n) + 1
      BY <1>1, <1>2, <1>4, <3>2
    <3>4. q # None /\ ~t.silent
      BY <1>1, <2>2 DEF Trimmable
    <3> HIDE DEF n
    <3>5. \/ q \in Referenced /\ mem[q].nr = n /\ t = mem[q]
          \/ HasFile(q, n) /\ t = flash[n].tx
      BY <3>2, <3>4, SessionAtIs
    <3>6. flash[n] # None /\ ~flash[n].tx.silent
      <4>1. CASE q \in Referenced /\ mem[q].nr = n /\ t = mem[q]
        <5>1. InJournal(q)
          BY <1>6, <4>1
        <5>2. QED
          BY <3>4, <4>1, <5>1 DEF InJournal, HasFile, Agree
      <4>2. CASE HasFile(q, n) /\ t = flash[n].tx
        BY <3>4, <4>2 DEF HasFile
      <4>3. QED
        BY <3>5, <4>1, <4>2
    <3>7. Ahead(n) <= RecordSize /\ Ahead(n) # RecordSize
      BY <3>2, <3>6 DEF Window
    <3>8. QED
      BY <1>4, <3>2, <3>3, <3>7, ConstantsAssumption
  <2>3. QED
    BY <2>1, <2>2
<1>9. frontAfterTrim = IF Ahead(txNrFront) >= Ahead(newEnd) THEN newEnd ELSE txNrFront
  <2>1. Minus(txNrEnd, txNrFront) = Ahead(txNrEnd) - Ahead(txNrFront)
    BY <1>4, MinusFrom DEF Window, Ahead
  <2>2. Minus(txNrEnd, txNrFront) <= Trimmed <=> Ahead(txNrFront) >= Ahead(newEnd)
    BY <1>1, <1>2, <1>4, <2>1
  <2>3. QED
    BY <2>2 DEF frontAfterTrim
<1>10. QED
  BY <1>1, <1>2, <1>4, <1>6, <1>7, <1>8, <1>9

\* The oldest entry is removed only when it is history and nobody refers to it.
LEMMA Eviction ==
    ASSUME TypeOK, Journal, CanBegin, ~BeginEarly, Evicting
    PROVE  /\ Ahead(newEnd) = RecordSize
           /\ \A s \in Referenced : mem[s].nr # txNrBegin
           /\ flash[txNrBegin] # None => Collectable(flash[txNrBegin].tx)
<1>1. Ahead(newEnd) = RecordSize
  BY Trimming, AheadType, ConstantsAssumption DEF Evicting, HasRoom
<1> DEFINE q == SessionAt(txNrBegin, Referenced)
           t == TxOf(q, txNrBegin, Referenced)
<1>2. q # None => Collectable(t)
  BY DEF Evicting, Evictable, Collectable
<1>3. \/ q # None /\ q \in Referenced /\ mem[q].nr = txNrBegin /\ t = mem[q]
      \/ /\ \A r \in Referenced : mem[r].nr # txNrBegin
         /\ q # None => HasFile(q, txNrBegin) /\ t = flash[txNrBegin].tx
         /\ q = None => flash[txNrBegin] = None
  BY SessionAtIs DEF TypeOK, Journal
<1>4. /\ \A r \in Referenced : mem[r].nr # txNrBegin
      /\ q # None => t = flash[txNrBegin].tx
      /\ q = None => flash[txNrBegin] = None
  BY <1>2, <1>3, Trimming
<1>5. QED
  BY <1>1, <1>2, <1>4

\* The entries that are left.
LEMMA ClearedIs ==
    ASSUME TypeOK, Journal, CanBegin, ~BeginEarly
    PROVE  /\ Cleared \in [TxNr -> File \cup {None}]
           /\ \A n \in TxNr : Cleared[n] # None =>
                 /\ Cleared[n] = flash[n] /\ (Evicting => n # txNrBegin)
                 /\ Ahead(n) < Ahead(newEnd) \/ Ahead(txNrEnd) <= Ahead(n)
           /\ \A n \in TxNr : flash[n] # None /\ Cleared[n] = None =>
                 /\ Collectable(flash[n].tx)
                 /\ Ahead(newEnd) <= Ahead(n) => ~IsGood(flash[n].tx)
           /\ \A s \in Referenced : Cleared[mem[s].nr] = flash[mem[s].nr]
<1> DEFINE B == {Back(j) : j \in 1 .. Trimmed}
<1>1. /\ newEnd \in TxNr /\ Ahead(newEnd) = Ahead(txNrEnd) - Trimmed
      /\ \A s \in Referenced : Ahead(mem[s].nr) < Ahead(newEnd) /\ mem[s].nr \in TxNr
      /\ \A n \in TxNr : flash[n] # None /\ Ahead(newEnd) <= Ahead(n) => ~IsGood(flash[n].tx)
  BY Trimming, ReferencedIs, CopyTypes DEF Tx
<1>2. \A n \in TxNr : n \in B <=> Ahead(newEnd) <= Ahead(n) /\ Ahead(n) < Ahead(txNrEnd)
  <2>1. Trimmed \in 0 .. Ahead(txNrEnd)
    BY TrimmedIs
  <2>2. \A n \in TxNr : (\E j \in 1 .. Trimmed : n = Back(j)) <=>
           Ahead(txNrEnd) - Trimmed <= Ahead(n) /\ Ahead(n) < Ahead(txNrEnd)
    BY <2>1, TrimRange
  <2>3. QED
    BY <1>1, <2>2
<1>3. Evicting => /\ \A s \in Referenced : mem[s].nr # txNrBegin
                  /\ flash[txNrBegin] # None => Collectable(flash[txNrBegin].tx)
                  /\ Ahead(newEnd) = RecordSize
  BY Eviction
<1>4. Cleared = [n \in TxNr |-> IF n \in B \/ (Evicting /\ n = txNrBegin) THEN None ELSE flash[n]]
  BY DEF Cleared, TrimmedTo, Remove
<1>5. flash \in [TxNr -> File \cup {None}] /\ txNrBegin \in TxNr
      /\ \A n \in TxNr : Ahead(n) \in Nat
      /\ (Ahead(newEnd) = RecordSize => ~(Ahead(newEnd) <= Ahead(txNrBegin)))
  BY <1>1, AheadType, ConstantsAssumption DEF TypeOK
<1> HIDE DEF B
<1>6. \A n \in TxNr : Cleared[n] = IF n \in B \/ (Evicting /\ n = txNrBegin) THEN None ELSE flash[n]
  BY <1>4
<1>7. Cleared \in [TxNr -> File \cup {None}]
  BY <1>4, <1>5
<1>8. \A n \in TxNr : Cleared[n] # None =>
         /\ Cleared[n] = flash[n] /\ (Evicting => n # txNrBegin)
         /\ Ahead(n) < Ahead(newEnd) \/ Ahead(txNrEnd) <= Ahead(n)
  <2>1. Ahead(newEnd) \in Nat /\ Ahead(txNrEnd) \in Nat
    BY <1>1, <1>5 DEF TypeOK
  <2>2. QED
    BY <1>2, <1>5, <1>6, <2>1
<1>9. \A n \in TxNr : flash[n] # None /\ Cleared[n] = None =>
         /\ Collectable(flash[n].tx)
         /\ Ahead(newEnd) <= Ahead(n) => ~IsGood(flash[n].tx)
  BY <1>1, <1>2, <1>3, <1>6 DEF IsGood, Collectable
<1>10. \A s \in Referenced : Cleared[mem[s].nr] = flash[mem[s].nr]
  <2>1. Ahead(newEnd) \in Nat
    BY <1>1, <1>5
  <2>2. \A s \in Referenced : mem[s].nr \notin B
    BY <1>1, <1>2, <1>5, <2>1
  <2>3. QED
    BY <1>1, <1>3, <1>6, <2>2
<1>11. QED
  BY <1>7, <1>8, <1>9, <1>10

\* The copies of the sessions before it are older than the next session.
Older == /\ nextSession \in Session
         /\ \A s \in Referenced : s < nextSession
         /\ \A n \in TxNr : flash[n] # None => flash[n].session < nextSession

\* The object and the file of s while another session begins: both as before, or committed.
Carried(s) ==
    \/ mem'[s] = mem[s] /\ flash'[mem[s].nr] = Cleared[mem[s].nr]
    \/ /\ mem'[s] \in Tx /\ Evolves(mem[s], mem'[s])
       /\ flash'[mem[s].nr] # None
       /\ flash'[mem[s].nr].session = s /\ flash'[mem[s].nr].tx = mem'[s]

LEMMA CarriedIs ==
    ASSUME TypeOK, Journal, CanBegin, ~BeginEarly, NEW s \in Referenced, Carried(s)
    PROVE  /\ mem'[s].nr = mem[s].nr /\ mem[s].nr \in TxNr
           /\ flash[mem[s].nr] # None /\ flash[mem[s].nr].session = s
           /\ flash'[mem[s].nr] # None /\ flash'[mem[s].nr].session = s
           /\ Agree(mem'[s], flash'[mem[s].nr].tx)
           /\ Ahead(mem[s].nr) < Ahead(newEnd)
           /\ Evicting => mem[s].nr # txNrBegin
           /\ IsGood(flash[mem[s].nr].tx)
<1>1. /\ InJournal(s) /\ Ahead(mem[s].nr) < Ahead(newEnd) /\ ~Collectable(mem[s])
      /\ Evicting => mem[s].nr # txNrBegin
  BY Trimming, Eviction
<1>2. Cleared[mem[s].nr] = flash[mem[s].nr]
  BY ClearedIs
<1>3. flash[mem[s].nr] # None /\ flash[mem[s].nr].session = s /\ Agree(mem[s], flash[mem[s].nr].tx)
  BY <1>1 DEF InJournal, HasFile
<1>4. mem[s].nr \in TxNr
  BY ReferencedIs, CopyTypes DEF Tx
<1>5. IsGood(flash[mem[s].nr].tx)
  BY <1>1, <1>3 DEF Agree, Collectable, IsGood, isAborted
<1>6. CASE mem'[s] = mem[s] /\ flash'[mem[s].nr] = Cleared[mem[s].nr]
  BY <1>1, <1>2, <1>3, <1>4, <1>5, <1>6
<1>7. CASE mem'[s] \in Tx /\ Evolves(mem[s], mem'[s]) /\ flash'[mem[s].nr] # None
           /\ flash'[mem[s].nr].session = s /\ flash'[mem[s].nr].tx = mem'[s]
  <2>1. Agree(mem'[s], mem'[s])
    BY DEF Agree
  <2>2. QED
    BY <1>1, <1>3, <1>4, <1>5, <1>7, <2>1 DEF Evolves
<1>8. QED
  BY <1>6, <1>7 DEF Carried

LEMMA JournalBegin ==
    ASSUME TypeOK, Journal, Older, CanBegin, ~BeginEarly, Allocate,
           NEW e, e = newEnd, NEW t \in Tx, t.nr = e, t.silent = Silent, ~isAborted(t),
           mem'[nextSession] = t, flash'[e] # None,
           flash'[e].session = nextSession, flash'[e].tx = t,
           \A s \in Referenced : Carried(s),
           \A n \in TxNr : n # e /\ (\A s \in Referenced : mem[s].nr # n) =>
              flash'[n] = Cleared[n],
           transaction' = nextSession, transactionFront' = transactionFront,
           Referenced' \subseteq Referenced \cup {nextSession}
    PROVE  Journal' /\ {txNrBegin, txNrFront, txNrEnd}' \subseteq TxNr
           /\ \A n \in TxNr : flash[n] # None /\ ~Collectable(flash[n].tx) /\ InQueue(n) =>
                 InQueue(n)' /\ flash'[n] # None /\ flash'[n].session = flash[n].session
<1> USE DEF Journal
<1> DEFINE o == IF Evicting THEN 1 ELSE 0
<1>1. /\ e \in TxNr /\ Ahead(e) <= Ahead(txNrEnd) /\ Ahead(e) <= RecordSize
      /\ \A s \in Referenced : Ahead(mem[s].nr) < Ahead(e)
      /\ \A n \in TxNr : flash[n] # None /\ Ahead(e) <= Ahead(n) => ~IsGood(flash[n].tx)
      /\ frontAfterTrim = IF Ahead(txNrFront) >= Ahead(e) THEN e ELSE txNrFront
  BY Trimming
<1>2. /\ txNrBegin \in TxNr /\ txNrEnd \in TxNr /\ txNrFront \in TxNr
      /\ \A n \in TxNr : Ahead(n) \in Nat /\ Ahead(n) <= MaxTxCnt - 1 /\ (Ahead(n) = 0 <=> n = txNrBegin)
      /\ Referenced \subseteq Session /\ None \notin Session
      /\ RecordSize \in Nat /\ RecordSize >= 1 /\ MaxTxCnt \in Nat /\ MaxTxCnt >= 2 * RecordSize + 2
  BY AheadType, ReferencedIs, ConstantsAssumption DEF TypeOK
<1>3. Evicting => Ahead(e) = RecordSize
  BY Eviction
<1>4. \A s \in Referenced :
         /\ mem'[s].nr = mem[s].nr /\ mem[s].nr \in TxNr
         /\ flash[mem[s].nr] # None /\ flash[mem[s].nr].session = s
         /\ flash'[mem[s].nr] # None /\ flash'[mem[s].nr].session = s
         /\ Agree(mem'[s], flash'[mem[s].nr].tx)
         /\ Ahead(mem[s].nr) < Ahead(e)
         /\ Evicting => mem[s].nr # txNrBegin
         /\ IsGood(flash[mem[s].nr].tx)
  BY CarriedIs
\* What becomes of the files but the new one.
<1>5. ASSUME NEW n \in TxNr, n # e, flash'[n] # None
      PROVE  /\ flash[n] # None /\ flash'[n].session = flash[n].session /\ flash'[n].tx.nr = n
             /\ IsGood(flash'[n].tx) => IsGood(flash[n].tx)
             /\ flash[n].tx.silent => flash'[n].tx.silent
             /\ Evicting => n # txNrBegin
             /\ Ahead(n) < Ahead(e) \/ Ahead(txNrEnd) <= Ahead(n)
  <2>1. CASE \E s \in Referenced : mem[s].nr = n
    BY <1>4, <1>5, <2>1 DEF Agree, IsGood
  <2>2. CASE \A s \in Referenced : mem[s].nr # n
    <3>1. flash'[n] = Cleared[n]
      BY <1>5, <2>2
    <3>2. flash'[n] = flash[n] /\ (Evicting => n # txNrBegin)
          /\ (Ahead(n) < Ahead(e) \/ Ahead(txNrEnd) <= Ahead(n))
      BY <1>5, <3>1, ClearedIs
    <3>3. QED
      BY <1>5, <3>2 DEF Numbers
  <2>3. QED
    BY <2>1, <2>2
<1>6. /\ txNrEnd' = Next1(e)
      /\ txNrBegin' = IF Evicting THEN Next1(txNrBegin) ELSE txNrBegin
      /\ txNrFront' = IF Evicting /\ frontAfterTrim = txNrBegin THEN Next1(txNrBegin) ELSE frontAfterTrim
  BY DEF Allocate
<1>7. {txNrBegin, txNrFront, txNrEnd}' \subseteq TxNr
  BY <1>1, <1>2, <1>6, Next1Is
<1>8. \A n \in TxNr : ~(Evicting /\ n = txNrBegin) => Ahead(n)' = Ahead(n) - o
  BY <1>2, <1>6, Next1Is DEF Ahead
<1>9. Evicting => e # txNrBegin
  BY <1>1, <1>2, <1>3
<1>10. Ahead(e)' = Ahead(e) - o
  BY <1>1, <1>8, <1>9
<1>11. Ahead(txNrEnd)' = Ahead(e)' + 1
  <2>1. Minus(e, txNrBegin) < MaxTxCnt - 1
    BY <1>1, <1>2 DEF Ahead
  <2>2. Next1(e) \in TxNr /\ Ahead(Next1(e)) = Ahead(e) + 1
    BY <1>1, <1>2, <2>1, Next1Is DEF Ahead
  <2>3. Next1(e) # txNrBegin
    BY <1>1, <1>2, <2>2
  <2>4. Minus(Next1(e), txNrBegin') = Ahead(Next1(e)) - o
    BY <1>8, <2>2, <2>3 DEF Ahead
  <2>5. QED
    BY <1>1, <1>2, <1>6, <1>10, <2>2, <2>4 DEF Ahead
<1>12. Ahead(txNrFront)' <= Ahead(e)'
  <2>1. CASE Evicting /\ frontAfterTrim = txNrBegin
    <3>1. Ahead(txNrFront)' = 0
      BY <1>6, <1>7, <2>1, MinusType DEF Ahead
    <3>2. QED
      BY <1>2, <1>3, <1>10, <2>1, <3>1
  <2>2. CASE ~(Evicting /\ frontAfterTrim = txNrBegin)
    <3>1. txNrFront' = frontAfterTrim /\ frontAfterTrim \in TxNr /\ Ahead(frontAfterTrim) <= Ahead(e)
      BY <1>1, <1>2, <1>6, <2>2
    <3>2. Ahead(txNrFront)' = Ahead(frontAfterTrim) - o
      BY <1>8, <2>2, <3>1 DEF Ahead
    <3>3. QED
      BY <1>1, <1>2, <1>10, <3>1, <3>2
  <2>3. QED
    BY <2>1, <2>2
<1>13. nextSession \in Session /\ nextSession # None /\ nextSession \notin Referenced
       /\ \A s \in Referenced : s < nextSession
  <2>1. \A s \in Session : s \in Nat
    BY ConstantsAssumption DEF Session
  <2>2. QED
    BY <1>2, <2>1, CopyTypes DEF Older
<1>13b. ASSUME NEW n \in TxNr, n # e, flash'[n] # None
       PROVE  flash'[n].session < nextSession /\ flash'[n].session # nextSession
  <2>1. flash[n] # None /\ flash'[n].session = flash[n].session
    BY <1>5, <1>13b
  <2>2. flash[n].session < nextSession /\ flash[n].session \in Nat /\ nextSession \in Nat
    BY <2>1, CopyTypes DEF Older
  <2>3. QED
    BY <2>1, <2>2
<1>14. Numbers'
  <2>1. \A n \in TxNr : flash'[n] # None => flash'[n].tx.nr = n
    BY <1>5
  <2>2. \A m, n \in TxNr : flash'[m] # None /\ flash'[n] # None /\ m # n =>
            flash'[m].session # flash'[n].session
    <3>1. \A n \in TxNr : n # e /\ flash'[n] # None =>
             flash[n] # None /\ flash'[n].session = flash[n].session
      BY <1>5
    <3>2. \A m, n \in TxNr : m # e /\ n # e /\ flash'[m] # None /\ flash'[n] # None /\ m # n =>
             flash'[m].session # flash'[n].session
      BY <3>1 DEF Numbers
    <3>3. flash'[e].session = nextSession
      OBVIOUS
    <3>4. \A n \in TxNr : n # e /\ flash'[n] # None => flash'[n].session # nextSession
      BY <1>13b
    <3> QED
      BY <3>2, <3>3, <3>4
  <2>3. \A q, r \in Referenced' : mem'[q].nr = mem'[r].nr => q = r
    <3>1. \A q \in Referenced : mem'[q].nr # e
      BY <1>1, <1>2, <1>4
    <3>2. \A q, r \in Referenced : mem'[q].nr = mem'[r].nr => q = r
      BY <1>4 DEF Numbers
    <3>3. QED
      BY <3>1, <3>2
  <2>4. QED
    BY <2>1, <2>2, <2>3 DEF Numbers
<1>15. ASSUME NEW r \in Referenced' PROVE Placed(r)'
  <2>1. CASE r = nextSession
    <3>1. Agree(t, t)
      BY DEF Agree
    <3>2. \A n \in TxNr : HasFile(r, n)' => n = e
      <4>1. \A n \in TxNr : n # e /\ flash'[n] # None => flash'[n].session # nextSession
        BY <1>13b
      <4>2. QED
        BY <2>1, <4>1 DEF HasFile
    <3>3. Ahead(e)' < Ahead(txNrEnd)'
      BY <1>1, <1>2, <1>10, <1>11
    <3>4. QED
      BY <2>1, <3>1, <3>2, <3>3 DEF Placed, InJournal, HasFile
  <2>2. CASE r # nextSession
    <3>1. r \in Referenced /\ Placed(r)
      BY <2>2 DEF Places
    <3>2. \A n \in TxNr : HasFile(r, n)' => n = mem'[r].nr
      BY <1>4, <1>5, <2>2, <3>1 DEF Placed, HasFile
    <3>3. Ahead(mem[r].nr)' = Ahead(mem[r].nr) - o
      BY <1>4, <1>8, <3>1
    <3>4. Ahead(mem[r].nr)' < Ahead(txNrEnd)'
      BY <1>1, <1>2, <1>4, <1>10, <1>11, <3>1, <3>3
    <3>5. InJournal(r)'
      BY <1>4, <3>1, <3>4 DEF InJournal, HasFile
    <3>6. QED
      BY <3>2, <3>5 DEF Placed
  <2>3. QED
    BY <2>1, <2>2
<1>16. Window'
  <2>1. Ahead(txNrFront)' <= Ahead(txNrEnd)' /\ Ahead(txNrEnd)' <= RecordSize + 1
    <3>1. Ahead(txNrFront)' \in Nat
      BY <1>7, MinusType DEF Ahead
    <3>2. QED
      BY <1>1, <1>2, <1>10, <1>11, <1>12, <3>1
  <2>2. ASSUME NEW n \in TxNr, flash'[n] # None
        PROVE  Ahead(n)' <= RecordSize /\ (Ahead(n)' = RecordSize => flash'[n].tx.silent)
    <3>1. CASE n = e
      <4>1. Ahead(e)' = RecordSize => Silent
        BY <1>1, <1>2, <1>3, <1>10 DEF Evicting, Silent, HasRoom
      <4>2. QED
        BY <1>1, <1>2, <1>10, <3>1, <4>1
    <3>2. CASE n # e
      <4>1. flash[n] # None /\ (flash[n].tx.silent => flash'[n].tx.silent) /\ Ahead(n)' = Ahead(n) - o
        BY <1>5, <1>8, <2>2, <3>2
      <4>2. Ahead(n) <= RecordSize /\ (Ahead(n) = RecordSize => flash[n].tx.silent)
        BY <4>1 DEF Window
      <4>3. QED
        BY <1>2, <4>1, <4>2
    <3>3. QED
      BY <3>1, <3>2
  <2>3. QED
    BY <2>1, <2>2 DEF Window
<1>17. Ends'
  <2>1. mem'[transaction'].nr = e /\ transaction' # None /\ Ahead(e)' + 1 = Ahead(txNrEnd)'
    BY <1>11, <1>13
  <2>2. txNrFront' # txNrEnd'
    <3>1. Ahead(txNrFront)' # Ahead(txNrEnd)'
      BY <1>1, <1>2, <1>10, <1>11, <1>12, MinusType, <1>7 DEF Ahead
    <3>2. QED
      BY <3>1 DEF Ahead
  <2>3. ASSUME transactionFront # None PROVE mem'[transactionFront].nr = txNrFront'
    <3>1. transactionFront \in Referenced /\ mem[transactionFront].nr = txNrFront
      BY <2>3, ReferencedIs DEF Refers, TypeOK, Ends
    <3>2. Ahead(txNrFront) < Ahead(e) /\ (Evicting => txNrFront # txNrBegin)
      BY <1>4, <3>1
    <3>3. txNrFront' = txNrFront
      BY <1>1, <1>2, <1>6, <3>2
    <3>4. QED
      BY <1>4, <3>1, <3>3
  <2>4. QED
    BY <2>1, <2>2, <2>3 DEF Ends
<1>18. ASSUME NEW n \in TxNr, n # e, GoodFile(n)'
       PROVE  GoodFile(n) /\ Ahead(n) < Ahead(e) /\ Ahead(n)' = Ahead(n) - o
              /\ flash'[n].session = flash[n].session
  <2>1. GoodFile(n) /\ flash'[n].session = flash[n].session
    BY <1>5, <1>18 DEF GoodFile
  <2>2. Ahead(n) < Ahead(e)
    BY <1>1, <1>2, <2>1 DEF GoodFile
  <2>3. Ahead(n)' = Ahead(n) - o
    BY <1>5, <1>8, <1>18 DEF GoodFile
  <2>4. QED
    BY <2>1, <2>2, <2>3
<1>19. Ordered'
  <2>1. ASSUME NEW n \in TxNr, GoodFile(n)' PROVE Ahead(n)' < Ahead(txNrEnd)'
    BY <1>1, <1>2, <1>10, <1>11, <1>18, <2>1
  <2>2. ASSUME NEW m \in TxNr, NEW n \in TxNr, GoodFile(m)', GoodFile(n)', Ahead(m)' < Ahead(n)'
        PROVE  flash'[m].session < flash'[n].session
    <3>1. CASE m = e /\ n # e
      BY <1>1, <1>2, <1>10, <1>18, <2>2, <3>1
    <3>2. CASE m # e /\ n = e
      <4>1. flash'[m].session < nextSession
        BY <1>13b, <2>2, <3>2 DEF GoodFile
      <4>2. QED
        BY <3>2, <4>1
    <3>3. CASE m # e /\ n # e
      <4>1. Ahead(m) < Ahead(n)
        BY <1>2, <1>18, <2>2, <3>3
      <4>2. QED
        BY <1>18, <2>2, <3>3, <4>1 DEF Ordered
    <3>4. CASE m = e /\ n = e
      BY <1>1, <1>2, <1>10, <2>2, <3>4
    <3>5. QED
      BY <3>1, <3>2, <3>3, <3>4
  <2>3. QED
    BY <2>1, <2>2 DEF Ordered
<1>20. ASSUME NEW n \in TxNr, flash[n] # None, ~Collectable(flash[n].tx), InQueue(n)
       PROVE  InQueue(n)' /\ flash'[n] # None /\ flash'[n].session = flash[n].session
  <2>1. Cleared[n] # None
    BY <1>20, ClearedIs
  <2>2. Ahead(n) < Ahead(e) /\ (Evicting => n # txNrBegin)
    BY <1>2, <1>20, <2>1, ClearedIs DEF InQueue
  <2>3. flash'[n] # None /\ flash'[n].session = flash[n].session
    <3>1. CASE \E s \in Referenced : mem[s].nr = n
      BY <1>4, <3>1
    <3>2. CASE \A s \in Referenced : mem[s].nr # n
      BY <1>1, <1>2, <2>1, <2>2, <3>2, ClearedIs
    <3>3. QED
      BY <3>1, <3>2
  <2>4. Ahead(n)' = Ahead(n) - o /\ Ahead(n)' < Ahead(txNrEnd)'
    BY <1>1, <1>2, <1>8, <1>10, <1>11, <2>2
  <2>5. Ahead(txNrFront)' <= Ahead(n)'
    <3>1. Ahead(txNrFront) <= Ahead(n) /\ frontAfterTrim = txNrFront
      BY <1>1, <1>2, <1>20, <2>2 DEF InQueue
    <3>2. CASE Evicting /\ txNrFront = txNrBegin
      <4>1. Ahead(txNrFront)' = 0
        BY <1>6, <1>7, <3>1, <3>2, MinusType DEF Ahead
      <4>2. QED
        BY <1>2, <2>2, <2>4, <4>1, <3>2
    <3>3. CASE ~(Evicting /\ txNrFront = txNrBegin)
      <4>1. Ahead(txNrFront)' = Ahead(txNrFront) - o
        BY <1>2, <1>6, <1>8, <3>1, <3>3 DEF Ahead
      <4>2. QED
        BY <1>2, <2>4, <3>1, <4>1
    <3>4. QED
      BY <3>2, <3>3
  <2>6. QED
    BY <2>3, <2>4, <2>5 DEF InQueue
<1>21. QED
  BY <1>7, <1>14, <1>15, <1>16, <1>17, <1>19, <1>20 DEF Places

\* Whatever has been done by then when the power fails, a boot can do with it.
LEMMA BeginBootable ==
    ASSUME TypeOK, Journal, Older, CanBegin, ~BeginEarly, NEW fs \in Interrupted
    PROVE  /\ Bootable(fs)
           /\ \A n \in TxNr : fs[n] # None =>
                 fs[n] = flash[n] \/ fs[n] = [session |-> nextSession, tx |-> NewTx(newEnd, Silent)]
           /\ \A n \in TxNr : flash[n] # None /\ ~Collectable(flash[n].tx) /\ InQueue(n) =>
                 fs[n] = flash[n]
<1> USE DEF Journal
<1>1. /\ newEnd \in TxNr /\ Ahead(newEnd) <= RecordSize /\ Ahead(newEnd) = Ahead(txNrEnd) - Trimmed
      /\ \A n \in TxNr : flash[n] # None /\ Ahead(newEnd) <= Ahead(n) => ~IsGood(flash[n].tx)
      /\ Ahead(newEnd) <= Ahead(txNrEnd)
  BY Trimming
<1>2. /\ \A n \in TxNr : Ahead(n) \in Nat /\ (Ahead(n) = 0 <=> n = txNrBegin)
      /\ txNrBegin \in TxNr /\ txNrEnd \in TxNr /\ RecordSize \in Nat \ {0}
      /\ None \notin File /\ flash \in [TxNr -> File \cup {None}]
  BY AheadType, ConstantsAssumption, NoneAssumption DEF TypeOK
<1>3. Bootable(flash)
  BY FlashBootable
\* Removing files is harmless.
<1>4. ASSUME NEW f \in [TxNr -> File \cup {None}], \A n \in TxNr : f[n] # None => f[n] = flash[n]
      PROVE  Bootable(f)
  BY <1>2, <1>3, <1>4 DEF Bootable
<1>5. ASSUME NEW k \in 0 .. Trimmed
      PROVE  /\ TrimmedTo(k) \in [TxNr -> File \cup {None}]
             /\ \A n \in TxNr : TrimmedTo(k)[n] # None => TrimmedTo(k)[n] = flash[n]
             /\ \A n \in TxNr : flash[n] # None /\ ~Collectable(flash[n].tx) => TrimmedTo(k)[n] = flash[n]
  <2> DEFINE B == {Back(j) : j \in 1 .. k}
  <2>1. TrimmedTo(k) = [n \in TxNr |-> IF n \in B THEN None ELSE flash[n]]
    BY DEF TrimmedTo, Remove
  <2>2. k \in 0 .. Ahead(txNrEnd) /\ k <= Trimmed /\ Trimmed \in Nat
    BY TrimmedIs, <1>2
  <2>3. \A n \in TxNr : n \in B => Ahead(txNrEnd) - k <= Ahead(n)
    BY <2>2, TrimRange
  <2>4. \A n \in TxNr : n \in B => Ahead(newEnd) <= Ahead(n)
    BY <1>1, <1>2, <2>2, <2>3
  <2>5. \A n \in TxNr : n \in B /\ flash[n] # None => Collectable(flash[n].tx)
    BY <1>1, <2>4 DEF IsGood, Collectable
  <2> HIDE DEF B
  <2>6. QED
    BY <1>2, <2>1, <2>5
<1>6. /\ Cleared \in [TxNr -> File \cup {None}]
      /\ \A n \in TxNr : Cleared[n] # None => Cleared[n] = flash[n] /\ (Evicting => n # txNrBegin)
             /\ (Ahead(n) < Ahead(newEnd) \/ Ahead(txNrEnd) <= Ahead(n))
      /\ \A n \in TxNr : flash[n] # None /\ ~Collectable(flash[n].tx) => Cleared[n] = flash[n]
  BY ClearedIs
<1>7. CASE \E k \in 0 .. Trimmed : fs = TrimmedTo(k)
  BY <1>4, <1>5, <1>7
<1>8. CASE fs = Cleared
  BY <1>4, <1>6, <1>8
<1>9. CASE fs = Created
  <2> DEFINE new == [session |-> nextSession, tx |-> NewTx(newEnd, Silent)]
  <2>1. NewTx(newEnd, Silent) \in Tx /\ NewTx(newEnd, Silent).nr = newEnd
        /\ NewTx(newEnd, Silent).silent = Silent
    BY <1>1, ConstantsAssumption DEF NewTx, Tx, Silent
  <2>2. new \in File /\ new # None
    BY <1>2, <2>1 DEF File, Older
  <2>3. fs = [Cleared EXCEPT ![newEnd] = new]
    BY <1>9, <2>1 DEF Created, Write
  <2>4. fs[newEnd] = new /\ (\A n \in TxNr : n # newEnd => fs[n] = Cleared[n])
        /\ fs \in [TxNr -> File \cup {None}]
    BY <1>1, <1>6, <2>2, <2>3
  <2>5. \A n \in TxNr : n # newEnd /\ fs[n] # None =>
           /\ fs[n] = flash[n] /\ (Evicting => n # txNrBegin)
           /\ fs[n].session \in Session /\ fs[n].session < nextSession
           /\ IsGood(fs[n].tx) => Ahead(n) < Ahead(newEnd)
    BY <1>1, <1>2, <1>6, <2>4, CopyTypes DEF Older
  <2>6. new.session = nextSession /\ new.tx = NewTx(newEnd, Silent)
    OBVIOUS
  <2> HIDE DEF new
  <2>7. \A n \in TxNr : fs[n] # None => fs[n].tx.nr = n /\ Ahead(n) <= RecordSize
    BY <1>1, <2>1, <2>4, <2>5, <2>6 DEF Numbers, Window
  <2>8. ASSUME fs[txNrBegin] # None, NEW n \in TxNr, fs[n] # None, Ahead(n) = RecordSize
        PROVE  fs[n].tx.silent
    <3>1. CASE n # newEnd
      BY <2>5, <2>8, <3>1 DEF Window
    <3>2. CASE n = newEnd
      <4>1. txNrBegin # newEnd
        BY <1>1, <1>2, <2>8, <3>2
      <4>2. ~Evicting
        BY <1>2, <2>5, <2>8, <4>1
      <4>3. Silent
        BY <1>1, <1>2, <2>8, <3>2, <4>2 DEF Evicting, Silent, HasRoom
      <4>4. QED
        BY <2>1, <2>4, <2>6, <3>2, <4>3
    <3>3. QED
      BY <3>1, <3>2
  <2>9. \A m, n \in TxNr : fs[m] # None /\ fs[n] # None /\ m # n => fs[m].session # fs[n].session
    <3>1. nextSession \in Nat /\ Session \subseteq Nat
      BY CopyTypes DEF Older
    <3>2. QED
      BY <2>4, <2>5, <2>6, <3>1 DEF Numbers
  <2>10. ASSUME NEW m \in TxNr, NEW n \in TxNr, fs[m] # None, fs[n] # None,
                IsGood(fs[m].tx), IsGood(fs[n].tx), Ahead(m) < Ahead(n)
         PROVE  fs[m].session < fs[n].session
    <3>1. CASE m = newEnd /\ n # newEnd
      BY <1>1, <1>2, <2>5, <2>10, <3>1
    <3>2. CASE m # newEnd /\ n = newEnd
      BY <2>4, <2>5, <2>6, <2>10, <3>2
    <3>3. CASE m # newEnd /\ n # newEnd
      BY <2>5, <2>10, <3>3 DEF Ordered, GoodFile
    <3>4. CASE m = newEnd /\ n = newEnd
      BY <1>1, <1>2, <2>10, <3>4
    <3>5. QED
      BY <3>1, <3>2, <3>3, <3>4
  <2>11. Bootable(fs)
    BY <2>4, <2>7, <2>8, <2>9, <2>10 DEF Bootable
  <2>12. \A n \in TxNr : flash[n] # None /\ ~Collectable(flash[n].tx) /\ InQueue(n) => fs[n] = flash[n]
    <3>1. \A n \in TxNr : flash[n] # None /\ ~Collectable(flash[n].tx) => n # newEnd
      BY <1>1, <1>2 DEF IsGood, Collectable
    <3>2. QED
      BY <1>6, <2>4, <3>1
  <2>13. QED
    BY <2>4, <2>5, <2>6, <2>11, <2>12 DEF new
<1>10. QED
  BY <1>7, <1>8, <1>9 DEF Interrupted

-----------------------------------------------------------------------------
(* getFrontRequestOpNr().                                                    *)

FrontNr(j) == (txNrFront + j) % MaxTxCnt

LEMMA CollectedIs ==
    ASSUME TypeOK, Journal
    PROVE  /\ Pending \in Nat /\ Pending = Ahead(txNrEnd) - Ahead(txNrFront)
           /\ Collected \in 0 .. Pending
           /\ \A j \in 0 .. Collected - 1 : FrontAt(j) # None /\ Collectable(FrontTx(j))
           /\ Collected < Pending => FrontAt(Collected) = None \/ ~Collectable(FrontTx(Collected))
<1> DEFINE a == Pending
           Stops(k) == k < a => FrontAt(k) = None \/ ~Collectable(FrontTx(k))
           S == {k \in 0 .. a : Stops(k)}
<1>1. a \in Nat /\ a = Ahead(txNrEnd) - Ahead(txNrFront)
  <2>1. txNrBegin \in TxNr /\ txNrEnd \in TxNr /\ txNrFront \in TxNr
    BY DEF TypeOK
  <2>2. Ahead(txNrEnd) \in Nat /\ Ahead(txNrFront) \in Nat
    BY <2>1, AheadType
  <2>3. Ahead(txNrFront) <= Ahead(txNrEnd)
    BY DEF Journal, Window
  <2>4. Minus(txNrEnd, txNrFront) = Ahead(txNrEnd) - Ahead(txNrFront)
    BY <2>1, <2>2, <2>3, MinusFrom DEF Ahead
  <2>5. QED
    BY <2>2, <2>3, <2>4 DEF Pending
<1> HIDE DEF a
<1>2. PICK x \in S : \A y \in S : x <= y
  <2>1. a \in S /\ S \subseteq Nat
    BY <1>1
  <2> HIDE DEF S
  <2>2. QED
    BY <2>1, Least
<1>3. ASSUME NEW j \in 0 .. x - 1 PROVE FrontAt(j) # None /\ Collectable(FrontTx(j))
  <2>1. j \notin S /\ j \in 0 .. a
    BY <1>1, <1>2
  <2>2. QED
    BY <2>1
<1>4. x \in 0 .. a /\ Stops(x)
  BY <1>2
<1>5. \E k \in 0 .. a : /\ \A j \in 0 .. k - 1 : FrontAt(j) # None /\ Collectable(FrontTx(j))
                        /\ k < a => FrontAt(k) = None \/ ~Collectable(FrontTx(k))
  BY <1>3, <1>4
<1>6. /\ Collected \in 0 .. a
      /\ \A j \in 0 .. Collected - 1 : FrontAt(j) # None /\ Collectable(FrontTx(j))
      /\ Collected < a => FrontAt(Collected) = None \/ ~Collectable(FrontTx(Collected))
  BY <1>5 DEF Collected, a
<1>7. QED
  BY <1>1, <1>6 DEF a

\* What it looks at are the entries of the journal.
LEMMA FrontIs ==
    ASSUME TypeOK, Journal, NEW j \in Nat, j < Pending
    PROVE  LET n == FrontNr(j)
               s == FrontAt(j)
               t == FrontTx(j)
           IN  /\ n \in TxNr /\ Ahead(n) = Ahead(txNrFront) + j
               /\ s \in Session \cup {None}
               /\ s # None => t \in Tx /\ t.nr = n /\ HasFile(s, n) /\ Agree(t, flash[n].tx)
               /\ s = None => flash[n] = None
               /\ s \in Referenced => t = mem[s]
               /\ s # None /\ s \notin Referenced =>
                     t = flash[n].tx /\ \A r \in Referenced : mem[r].nr # n
<1> USE DEF Journal
<1> DEFINE n == FrontNr(j)
           s == FrontAt(j)
           t == FrontTx(j)
           refs == Referenced \ {transactionFront}
<1>1. /\ txNrBegin \in TxNr /\ txNrEnd \in TxNr /\ txNrFront \in TxNr
      /\ Ahead(txNrEnd) \in 0 .. MaxTxCnt - 1 /\ Ahead(txNrFront) \in Nat
      /\ Pending = Ahead(txNrEnd) - Ahead(txNrFront)
      /\ MaxTxCnt \in Nat
  BY AheadType, CollectedIs, ConstantsAssumption DEF TypeOK
<1>2. n \in TxNr /\ Ahead(n) = Ahead(txNrFront) + j
  <2>1. Minus(txNrFront, txNrBegin) + j < MaxTxCnt
    BY <1>1 DEF Ahead
  <2>2. QED
    BY <1>1, <2>1, ForthIs DEF Ahead, FrontNr
<1>3. n # txNrEnd
  BY <1>1, <1>2
<1>4. j = 0 => n = txNrFront
  BY <1>1, <1>2, MinusInjective DEF Ahead
<1>5. n = txNrFront => j = 0
  BY <1>1, <1>2
<1>6. Referenced \subseteq Session /\ None \notin Session /\ \A r \in Session : mem[r] \in Tx
  BY ReferencedIs, CopyTypes
<1>7. \A r \in Referenced : mem[r].nr = n => HasFile(r, n) /\ Agree(mem[r], flash[n].tx)
  BY <1>3 DEF Places, Placed, InJournal, WasRemoved
<1> HIDE DEF n
<1>8. CASE j = 0 /\ transactionFront # None
  <2>1. s = transactionFront /\ t = mem[transactionFront]
    BY <1>8 DEF FrontAt, FrontTx
  <2>2. transactionFront \in Referenced
    BY <1>8, ReferencedIs DEF Refers, TypeOK
  <2>3. mem[transactionFront].nr = n
    BY <1>4, <1>8 DEF Ends
  <2>4. QED
    BY <1>2, <1>6, <1>7, <2>1, <2>2, <2>3 DEF n
<1>9. CASE ~(j = 0 /\ transactionFront # None)
  <2>1. s = SessionAt(n, refs) /\ t = TxOf(s, n, refs)
    BY <1>9 DEF FrontAt, FrontTx, FrontNr, n
  <2>2. /\ s \in Session \cup {None}
        /\ s # None => t \in Tx /\ t.nr = n
        /\ \/ s # None /\ s \in refs /\ mem[s].nr = n /\ t = mem[s]
           \/ /\ \A r \in refs : mem[r].nr # n
              /\ s # None => HasFile(s, n) /\ t = flash[n].tx
              /\ s = None => flash[n] = None
    <3>1. refs \in SUBSET Referenced
      OBVIOUS
    <3> HIDE DEF refs
    <3>2. QED
      BY <1>2, <2>1, <3>1, SessionAtIs
  <2>3. CASE s # None /\ s \in refs /\ mem[s].nr = n /\ t = mem[s]
    BY <1>2, <1>6, <1>7, <2>2, <2>3 DEF n
  <2>4. CASE /\ \A r \in refs : mem[r].nr # n
             /\ s # None => HasFile(s, n) /\ t = flash[n].tx
             /\ s = None => flash[n] = None
    <3>1. \A r \in Referenced : mem[r].nr # n
      <4>1. transactionFront # None => mem[transactionFront].nr = txNrFront /\ n # txNrFront
        BY <1>5, <1>9 DEF Ends
      <4>2. None \notin Referenced
        BY <1>6
      <4>3. QED
        BY <2>4, <4>1, <4>2
    <3>2. s \notin Referenced
      <4>1. ASSUME s \in Referenced PROVE FALSE
        <5>1. HasFile(s, n)
          BY <1>6, <2>4, <4>1
        <5>2. n = mem[s].nr
          BY <1>2, <4>1, <5>1 DEF Places, Placed
        <5>3. QED
          BY <3>1, <4>1, <5>2
      <4>2. QED
        BY <4>1
    <3>3. s # None => Agree(t, flash[n].tx)
      BY <2>4 DEF Agree
    <3>4. QED
      BY <1>2, <2>2, <2>4, <3>1, <3>2, <3>3 DEF n
  <2>5. QED
    BY <2>2, <2>3, <2>4
<1>10. QED
  BY <1>8, <1>9

\* The entry at the front, if there is one.
LEMMA NewFrontIs ==
    ASSUME TypeOK, Journal
    PROVE  LET n == FrontNr(Collected)
           IN  /\ n \in TxNr /\ Ahead(n) = Ahead(txNrFront) + Collected
               /\ Ahead(n) <= Ahead(txNrEnd)
               /\ newFront \in Session \cup {None}
               /\ n = txNrEnd => newFront = None
               /\ newFront # None =>
                     /\ newFrontTx \in Tx /\ newFrontTx.nr = n /\ ~Collectable(newFrontTx)
                     /\ HasFile(newFront, n) /\ Agree(newFrontTx, flash[n].tx)
                     /\ Ahead(n) < Ahead(txNrEnd)
               /\ newFront \in Referenced => newFrontTx = mem[newFront]
               /\ newFront # None /\ newFront \notin Referenced =>
                     newFrontTx = flash[n].tx /\ \A r \in Referenced : mem[r].nr # n
               /\ newFront = None /\ Ahead(n) < Ahead(txNrEnd) => flash[n] = None
<1> DEFINE n == FrontNr(Collected)
<1>1. /\ Pending \in Nat /\ Pending = Ahead(txNrEnd) - Ahead(txNrFront)
      /\ Collected \in 0 .. Pending
      /\ Collected < Pending => FrontAt(Collected) = None \/ ~Collectable(FrontTx(Collected))
  BY CollectedIs
<1>2. /\ txNrBegin \in TxNr /\ txNrEnd \in TxNr /\ txNrFront \in TxNr
      /\ Ahead(txNrEnd) \in 0 .. MaxTxCnt - 1 /\ Ahead(txNrFront) \in Nat
      /\ MaxTxCnt \in Nat
  BY AheadType, ConstantsAssumption DEF TypeOK
<1>3. n \in TxNr /\ Ahead(n) = Ahead(txNrFront) + Collected
  <2>1. Minus(txNrFront, txNrBegin) + Collected < MaxTxCnt
    BY <1>1, <1>2 DEF Ahead
  <2>2. QED
    BY <1>1, <1>2, <2>1, ForthIs DEF Ahead, FrontNr
<1>4. newFrontTx = FrontTx(Collected)
  BY DEF newFrontTx
<1>5. None \notin Referenced
  BY ReferencedIs
<1>6. CASE Collected = Pending
  BY <1>1, <1>2, <1>3, <1>5, <1>6 DEF newFront
<1>7. CASE Collected # Pending
  <2>1. newFront = FrontAt(Collected) /\ Collected \in Nat /\ Collected < Pending
    BY <1>1, <1>7 DEF newFront
  <2>2. /\ newFront \in Session \cup {None}
        /\ newFront # None => newFrontTx \in Tx /\ newFrontTx.nr = n /\ HasFile(newFront, n)
                              /\ Agree(newFrontTx, flash[n].tx)
        /\ newFront = None => flash[n] = None
        /\ newFront \in Referenced => newFrontTx = mem[newFront]
        /\ newFront # None /\ newFront \notin Referenced =>
              newFrontTx = flash[n].tx /\ \A r \in Referenced : mem[r].nr # n
    BY <1>4, <2>1, FrontIs
  <2>3. Ahead(n) < Ahead(txNrEnd)
    BY <1>1, <1>2, <1>3, <2>1
  <2>4. newFront # None => ~Collectable(newFrontTx)
    BY <1>1, <1>4, <2>1
  <2>5. n # txNrEnd /\ Ahead(n) <= Ahead(txNrEnd)
    BY <1>1, <1>2, <1>3, <2>3
  <2> HIDE DEF n
  <2>6. QED
    BY <1>3, <2>2, <2>3, <2>4, <2>5 DEF n
<1>8. QED
  BY <1>6, <1>7

\* The entries that are passed are history.
LEMMA PassedIs ==
    ASSUME TypeOK, Journal, NEW n \in TxNr, NEW s \in Session, HasFile(s, n), InQueue(n),
           Ahead(n) < Ahead(txNrFront) + Collected
    PROVE  /\ \E t \in Tx : Collectable(t) /\ (t = flash[n].tx \/ (s \in Referenced /\ t = mem[s]))
           /\ s \in Referenced => Collectable(mem[s])
<1> DEFINE j == Ahead(n) - Ahead(txNrFront)
<1>1. /\ Pending \in Nat /\ Pending = Ahead(txNrEnd) - Ahead(txNrFront)
      /\ Collected \in 0 .. Pending
      /\ \A i \in 0 .. Collected - 1 : FrontAt(i) # None /\ Collectable(FrontTx(i))
  BY CollectedIs
<1>2. /\ Ahead(n) \in Nat /\ Ahead(txNrFront) \in Nat /\ Ahead(txNrEnd) \in Nat
      /\ txNrBegin \in TxNr /\ txNrFront \in TxNr
  BY AheadType DEF TypeOK
<1>3. j \in Nat /\ j < Pending /\ j \in 0 .. Collected - 1 /\ Ahead(n) = Ahead(txNrFront) + j
  BY <1>1, <1>2 DEF InQueue
<1> HIDE DEF j
<1>4. FrontNr(j) \in TxNr /\ Ahead(FrontNr(j)) = Ahead(n)
  BY <1>3, FrontIs
<1>5. FrontNr(j) = n
  BY <1>2, <1>4, MinusInjective DEF Ahead
<1>6. FrontAt(j) # None /\ Collectable(FrontTx(j))
  BY <1>1, <1>3
<1>7. /\ FrontTx(j) \in Tx /\ HasFile(FrontAt(j), n)
      /\ FrontAt(j) \in Referenced => FrontTx(j) = mem[FrontAt(j)]
      /\ FrontAt(j) \notin Referenced => FrontTx(j) = flash[n].tx
  BY <1>3, <1>5, <1>6, FrontIs
<1>8. FrontAt(j) = s
  BY <1>7 DEF HasFile
<1>9. QED
  BY <1>6, <1>7, <1>8

\* Polling changes the entry at the front only.  Its object may have been loaded just now.
LEMMA JournalPoll ==
    ASSUME TypeOK, Journal, getFrontRequestOpNr,
           NEW s, s = newFront, NEW n, n = FrontNr(Collected),
           s = None => mem' = mem /\ flash' = flash,
           s # None =>
              /\ mem'[s].nr = n /\ \A r \in Session : r # s => mem'[r] = mem[r]
              /\ flash'[n] # None /\ flash'[n].session = s
              /\ \A m \in TxNr : m # n => flash'[m] = flash[m]
              /\ Agree(mem'[s], flash'[n].tx)
              /\ flash[n].tx.silent => flash'[n].tx.silent
              /\ IsGood(flash'[n].tx) => IsGood(flash[n].tx),
           Referenced' \subseteq Referenced \cup {s}
    PROVE  Journal' /\ txNrFront' \in TxNr /\ txNrFront' = n
           /\ \A m \in TxNr : InQueue(m) /\ Ahead(txNrFront) + Collected <= Ahead(m) => InQueue(m)'
<1> USE DEF Journal
<1>1. /\ txNrFront' = n /\ transactionFront' = s
      /\ txNrBegin' = txNrBegin /\ txNrEnd' = txNrEnd /\ transaction' = transaction
  BY DEF getFrontRequestOpNr, FrontNr
<1>2. /\ n \in TxNr /\ Ahead(n) = Ahead(txNrFront) + Collected /\ Ahead(n) <= Ahead(txNrEnd)
      /\ s \in Session \cup {None}
      /\ n = txNrEnd => s = None
      /\ s # None => Ahead(n) < Ahead(txNrEnd) /\ HasFile(s, n) /\ newFrontTx.nr = n
      /\ s \in Referenced => newFrontTx = mem[s]
      /\ s # None /\ s \notin Referenced => \A r \in Referenced : mem[r].nr # n
  BY NewFrontIs
<1>3. /\ \A m \in TxNr : Ahead(m)' = Ahead(m)
      /\ Ahead(txNrEnd)' = Ahead(txNrEnd) /\ Ahead(txNrFront)' = Ahead(n)
  BY <1>1 DEF Ahead
<1>4. Referenced \subseteq Session /\ None \notin Session /\ None \notin Referenced'
      /\ \A r \in Session : mem[r].nr \in TxNr
  BY ReferencedIs, CopyTypes DEF Referenced, Tx
<1>5. \A r \in Referenced' : r # s => r \in Referenced /\ r \in Session
  BY <1>4
\* The other objects are as they were, and they do not have the number n.
<1>6. ASSUME NEW r \in Referenced', r # s
      PROVE  mem'[r] = mem[r] /\ mem[r].nr \in TxNr /\ (s # None => mem[r].nr # n)
  <2>1. r \in Referenced /\ r \in Session
    BY <1>5, <1>6
  <2>2. mem'[r] = mem[r]
    BY <1>6, <2>1
  <2>3. s \in Referenced => mem[s].nr = n
    BY <1>2, <1>4
  <2>4. s # None => mem[r].nr # n
    BY <1>2, <1>6, <2>1, <2>3 DEF Numbers
  <2>5. QED
    BY <1>4, <2>1, <2>2, <2>4
<1>7. \A m \in TxNr : m # n \/ s = None => flash'[m] = flash[m]
  OBVIOUS
<1>8. Numbers'
  <2>1. \A m \in TxNr : flash'[m] # None => flash'[m].tx.nr = m
    BY <1>7 DEF Numbers, Agree
  <2>2. \A m \in TxNr : flash'[m] # None => flash[m] # None /\ flash'[m].session = flash[m].session
    BY <1>2, <1>7 DEF HasFile
  <2>3. \A m, k \in TxNr : flash'[m] # None /\ flash'[k] # None /\ m # k =>
            flash'[m].session # flash'[k].session
    BY <2>2 DEF Numbers
  <2>4. \A q, r \in Referenced' : mem'[q].nr = mem'[r].nr => q = r
    <3>1. ASSUME NEW q \in Referenced', NEW r \in Referenced', q # s, r # s,
                 mem'[q].nr = mem'[r].nr
          PROVE  q = r
      BY <1>5, <1>6, <3>1 DEF Numbers
    <3>2. ASSUME NEW r \in Referenced', r # s, s # None PROVE mem'[r].nr # mem'[s].nr
      BY <1>6, <3>2
    <3>3. s \in Referenced' => s # None
      BY <1>4
    <3>4. QED
      BY <3>1, <3>2, <3>3
  <2>5. QED
    BY <2>1, <2>3, <2>4 DEF Numbers
<1>9. ASSUME NEW r \in Referenced' PROVE Placed(r)'
  <2>1. CASE r = s
    <3>1. s # None
      BY <1>4, <2>1
    <3>2. \A m \in TxNr : HasFile(s, m)' => m = n
      BY <1>2, <1>7, <3>1 DEF Numbers, HasFile
    <3>3. InJournal(s)'
      BY <1>2, <1>3, <3>1 DEF InJournal, HasFile
    <3>4. QED
      BY <2>1, <3>1, <3>2, <3>3 DEF Placed
  <2>2. CASE r # s
    <3>1. r \in Referenced /\ Placed(r) /\ mem'[r] = mem[r] /\ flash'[mem[r].nr] = flash[mem[r].nr]
      BY <1>5, <1>6, <1>7, <2>2 DEF Places
    <3>2. \A m \in TxNr : HasFile(r, m)' => HasFile(r, m)
      BY <1>2, <1>7, <2>2 DEF HasFile
    <3>3. InJournal(r) => InJournal(r)'
      BY <1>3, <1>6, <2>2, <3>1 DEF InJournal, HasFile
    <3>4. WasRemoved(r) => WasRemoved(r)'
      BY <1>1, <1>3, <3>1 DEF WasRemoved
    <3>5. QED
      BY <3>1, <3>2, <3>3, <3>4 DEF Placed
  <2>3. QED
    BY <2>1, <2>2
<1>10. Window'
  BY <1>2, <1>3, <1>7 DEF Window, HasFile
<1>11. Ends'
  <2>1. transaction # None => transaction \in Referenced /\ transaction \in Session
    BY ReferencedIs DEF Refers, TypeOK
  <2>2. transaction # None => mem'[transaction].nr = mem[transaction].nr
    BY <1>2, <2>1
  <2>3. s # None => txNrFront' # txNrEnd'
    BY <1>1, <1>2
  <2>4. ASSUME transaction # None, n = txNrEnd PROVE Collectable(mem'[transaction])
    <3>1. mem'[transaction] = mem[transaction]
      BY <1>2, <2>1, <2>4
    <3>2. CASE txNrFront = txNrEnd
      BY <2>4, <3>1, <3>2 DEF Ends
    <3>3. CASE txNrFront # txNrEnd
      <4> DEFINE m == mem[transaction].nr
      <4>1. InJournal(transaction) /\ m \in TxNr /\ Ahead(m) + 1 = Ahead(txNrEnd)
        BY <1>4, <2>1, <2>4 DEF Places, Placed, WasRemoved, Ends
      <4>2. Ahead(txNrFront) # Ahead(txNrEnd) /\ Ahead(txNrFront) \in Nat /\ Ahead(m) \in Nat
            /\ Ahead(txNrEnd) \in Nat
        BY <3>3, <4>1, AheadType, MinusInjective DEF TypeOK, Ahead
      <4>3. Ahead(txNrFront) <= Ahead(m) /\ Ahead(m) < Ahead(txNrEnd)
        BY <4>1, <4>2 DEF Window
      <4>4. HasFile(transaction, m) /\ InQueue(m)
        BY <4>1, <4>3 DEF InJournal, InQueue
      <4>5. Collectable(mem[transaction])
        BY <1>2, <2>1, <2>4, <4>1, <4>3, <4>4, PassedIs
      <4>6. QED
        BY <3>1, <4>5
    <3>4. QED
      BY <3>2, <3>3
  <2>5. QED
    BY <1>1, <1>3, <2>1, <2>2, <2>3, <2>4, <1>4 DEF Ends
<1>12. Ordered'
  <2>1. \A m \in TxNr : GoodFile(m)' => GoodFile(m) /\ flash'[m].session = flash[m].session
    BY <1>2, <1>7 DEF GoodFile, HasFile
  <2>2. QED
    BY <1>3, <2>1 DEF Ordered
<1>13. \A m \in TxNr : InQueue(m) /\ Ahead(txNrFront) + Collected <= Ahead(m) => InQueue(m)'
  BY <1>2, <1>3 DEF InQueue
<1>14. QED
  BY <1>1, <1>2, <1>8, <1>9, <1>10, <1>11, <1>12, <1>13 DEF Places

-----------------------------------------------------------------------------
(* What the copies know.                                                     *)

\* The history of the session s stays as it is, as far as the copies can know of it.
SameHistory(s) ==
    /\ s \in charged' <=> s \in charged
    /\ s \in waived' <=> s \in waived
    /\ \A m \in {StartTx(s), StopTx(s)} :
          sends'[m] = sends[m] /\ (m \in confirmed' <=> m \in confirmed)

LEMMA MessagesAre ==
    /\ \A s \in Session : StartTx(s) \in TxMessage /\ StopTx(s) \in TxMessage
    /\ \A m \in TxMessage : m[2] \in Session /\ (m = StartTx(m[2]) \/ m = StopTx(m[2]))
    /\ \A s, r : StartTx(s) # StopTx(r) /\ (StartTx(s) = StartTx(r) => s = r)
                 /\ (StopTx(s) = StopTx(r) => s = r)
    /\ \A s : StartTx(s)[2] = s /\ StopTx(s)[2] = s /\ StartTx(s)[1] = "StartTransaction"
              /\ StopTx(s)[1] = "StopTransaction"
<1>1. \A s \in Session : StartTx(s) \in TxMessage /\ StopTx(s) \in TxMessage
  BY DEF StartTx, StopTx, TxMessage
<1>2. \A m \in TxMessage : m[2] \in Session /\ (m = StartTx(m[2]) \/ m = StopTx(m[2]))
  BY DEF StartTx, StopTx, TxMessage
<1>3. \A s, r : StartTx(s) # StopTx(r) /\ (StartTx(s) = StartTx(r) => s = r)
                /\ (StopTx(s) = StopTx(r) => s = r)
  BY DEF StartTx, StopTx
<1>4. \A s : StartTx(s)[2] = s /\ StopTx(s)[2] = s /\ StartTx(s)[1] = "StartTransaction"
             /\ StopTx(s)[1] = "StopTransaction"
  BY DEF StartTx, StopTx
<1>5. QED
  BY <1>1, <1>2, <1>3, <1>4

LEMMA SoundKept ==
    ASSUME TypeOK, nextSession' >= nextSession, nextSession' \in Nat,
           NEW s \in Session, NEW t \in Tx, Sound(s, t), SameHistory(s)
    PROVE  SoundNext(s, t)
<1>1. s \in Nat /\ nextSession \in Nat
  BY CopyTypes DEF TypeOK
<1>2. s < nextSession'
  BY <1>1 DEF Sound, Knows
<1>3. /\ s \in charged' <=> s \in charged
      /\ s \in waived' <=> s \in waived
      /\ sends'[StartTx(s)] = sends[StartTx(s)] /\ sends'[StopTx(s)] = sends[StopTx(s)]
      /\ StartTx(s) \in confirmed' <=> StartTx(s) \in confirmed
      /\ StopTx(s) \in confirmed' <=> StopTx(s) \in confirmed
  BY DEF SameHistory
<1>4. QED
  BY <1>2, <1>3 DEF Sound, SoundNext, Knows

\* All copies but those of the sessions C are copies of before.
LEMMA Copies ==
    ASSUME TypeOK, MemSound, FlashSound, nextSession' >= nextSession, nextSession' \in Nat, NEW C,
           \A r \in Session : r \notin C => SameHistory(r),
           \A r \in Referenced' : r \notin C =>
              \/ r \in Referenced /\ mem'[r] = mem[r]
              \/ \E n \in TxNr : HasFile(r, n) /\ mem'[r] = flash[n].tx,
           \A n \in TxNr : flash'[n] # None => flash'[n].session \in C \/ flash'[n] = flash[n],
           \A r \in Referenced' : r \in C => SoundNext(r, mem'[r]),
           \A n \in TxNr : flash'[n] # None /\ flash'[n].session \in C =>
              SoundNext(flash'[n].session, flash'[n].tx)
    PROVE  MemSound' /\ FlashSound'
<1>1. ASSUME NEW n \in TxNr, flash[n] # None
      PROVE  /\ flash[n].session \in Session /\ flash[n].tx \in Tx
             /\ Sound(flash[n].session, flash[n].tx)
  BY <1>1, CopyTypes DEF FlashSound
<1>2. ASSUME NEW r \in Referenced' PROVE SoundNext(r, mem'[r])
  <2>1. CASE r \in C
    BY <2>1
  <2>2. CASE r \notin C /\ r \in Referenced /\ mem'[r] = mem[r]
    <3>1. r \in Session /\ mem[r] \in Tx /\ Sound(r, mem[r])
      BY <2>2, ReferencedIs, CopyTypes DEF MemSound
    <3>2. SameHistory(r)
      BY <2>2, <3>1
    <3>3. \A t \in Tx : Sound(r, t) => SoundNext(r, t)
      BY <3>1, <3>2, SoundKept
    <3>4. QED
      BY <2>2, <3>1, <3>3
  <2>3. CASE r \notin C /\ \E n \in TxNr : HasFile(r, n) /\ mem'[r] = flash[n].tx
    <3>1. PICK n \in TxNr : HasFile(r, n) /\ mem'[r] = flash[n].tx
      BY <2>3
    <3>2. r \in Session /\ flash[n].tx \in Tx /\ Sound(r, flash[n].tx)
      BY <1>1, <3>1 DEF HasFile
    <3>3. SameHistory(r)
      BY <2>3, <3>2
    <3>4. \A t \in Tx : Sound(r, t) => SoundNext(r, t)
      BY <3>2, <3>3, SoundKept
    <3>5. QED
      BY <3>1, <3>2, <3>4
  <2>4. QED
    BY <2>1, <2>2, <2>3
<1>3. ASSUME NEW n \in TxNr, flash'[n] # None PROVE SoundNext(flash'[n].session, flash'[n].tx)
  <2>1. CASE flash'[n].session \in C
    BY <1>3, <2>1
  <2>2. CASE flash'[n].session \notin C
    <3>1. flash'[n] = flash[n] /\ flash[n] # None
      BY <1>3, <2>2
    <3>2. PICK s \in Session, t \in Tx : s = flash[n].session /\ t = flash[n].tx
      BY <1>1, <3>1
    <3>3. Sound(s, t) /\ SameHistory(s)
      BY <1>1, <2>2, <3>1, <3>2
    <3>4. SoundNext(s, t)
      BY <3>3, SoundKept
    <3>5. QED
      BY <3>1, <3>2, <3>4
  <2>3. QED
    BY <2>1, <2>2
<1>4. QED
  BY <1>2, <1>3 DEF MemSound, FlashSound, Sound, SoundNext

\* Nothing is known of the sessions to come.
LEMMA FreshKept ==
    ASSUME TypeOK, FreshOnes, nextSession' >= nextSession, nextSession' \in Nat,
           \A s \in Session : s >= nextSession' => SameHistory(s),
           \A m \in received' : m \in received \/ m[2] < nextSession'
    PROVE  FreshOnes'
<1> SUFFICES ASSUME NEW s \in Session, s >= nextSession'
             PROVE  /\ s \notin charged' /\ s \notin waived'
                    /\ \A m \in {StartTx(s), StopTx(s)} :
                          sends'[m] = 0 /\ m \notin confirmed' /\ m \notin received'
  BY DEF FreshOnes
<1>1. s \in Nat /\ nextSession \in Nat
  BY CopyTypes DEF TypeOK
<1>2. s >= nextSession
  BY <1>1
<1>3. /\ s \notin charged /\ s \notin waived
      /\ \A m \in {StartTx(s), StopTx(s)} :
            sends[m] = 0 /\ m \notin confirmed /\ m \notin received
  BY <1>2 DEF FreshOnes
<1>4. SameHistory(s)
  OBVIOUS
<1>5. \A m \in {StartTx(s), StopTx(s)} : m \notin received'
  BY <1>1, <1>3, MessagesAre
<1>6. QED
  BY <1>3, <1>4, <1>5 DEF SameHistory

\* A copy of a session that has charged and is neither given up nor reported is to be kept.
LEMMA ToBeKept ==
    ASSUME NEW s \in charged \ waived, ~Reported(s), NEW t \in Tx, Sound(s, t)
    PROVE  ~Collectable(t) /\ IsGood(t) /\ s # 0
  BY DEF Sound, Knows, Reported, Collectable, IsGood, isAborted, isCompleted, StopTx

\* A copy of the session s is committed.
LEMMA CommitStep ==
    ASSUME IInv, NEW s \in Referenced, NEW t \in Tx, Evolves(mem[s], t), Commit(s, t),
           UNCHANGED <<txNrs, refVars, nextSession>>, Referenced' \subseteq Referenced,
           \A r \in Session : r # s => SameHistory(r),
           SoundNext(s, t),
           s \in charged' \ waived' => s \in charged \ waived \/
              (s = transaction /\ ~Collectable(mem[s])),
           Reported(s) => Reported(s)', charged' \subseteq Session,
           \A m \in received' : m \in received \/ m[2] = s
    PROVE  /\ Journal' /\ FreshOnes' /\ MemSound' /\ FlashSound' /\ Unlost'
           /\ mem' \in [Session -> Tx] /\ flash' \in [TxNr -> File \cup {None}]
<1> USE DEF IInv, Journal, Knowledge
<1>1. s \in Session /\ mem[s] \in Tx /\ Referenced \subseteq Session /\ t.nr = mem[s].nr
  BY ReferencedIs, CopyTypes DEF Evolves
<1>2. /\ t.nr \in TxNr
      /\ mem'[s] = t /\ \A r \in Session : r # s => mem'[r] = mem[r]
      /\ flash'[t.nr] # None /\ flash'[t.nr].session = s /\ flash'[t.nr].tx = t
      /\ \A n \in TxNr : n # t.nr => flash'[n] = flash[n]
      /\ mem' \in [Session -> Tx] /\ flash' \in [TxNr -> File \cup {None}]
  BY <1>1, CommitEffect
<1>3. Journal'
  BY JournalCommit
<1>4. nextSession' = nextSession /\ nextSession \in Nat /\ s < nextSession
      /\ \A r \in Session : r \in Nat
  BY CopyTypes DEF TypeOK, MemSound, Sound, Knows
<1>5. FreshOnes'
  BY <1>4, FreshKept
<1>6. Placed(s)
  BY DEF Places
<1>7. MemSound' /\ FlashSound'
  <2> DEFINE C == {s}
  <2>1. \A r \in Referenced' : r \notin C => r \in Referenced /\ mem'[r] = mem[r]
    BY <1>1, <1>2
  <2>2. \A n \in TxNr : flash'[n] # None => flash'[n].session \in C \/ flash'[n] = flash[n]
    BY <1>2
  <2>3. \A n \in TxNr : flash'[n] # None /\ flash'[n].session \in C =>
           flash'[n].session = s /\ flash'[n].tx = t
    BY <1>1, <1>2, <1>6 DEF Placed, HasFile
  <2>4. \A r \in Session : r \notin C => SameHistory(r)
    OBVIOUS
  <2>5. \A r \in Referenced' : r \in C => SoundNext(r, mem'[r])
    BY <1>2
  <2>6. \A n \in TxNr : flash'[n] # None /\ flash'[n].session \in C =>
           SoundNext(flash'[n].session, flash'[n].tx)
    BY <2>3
  <2>7. nextSession' >= nextSession /\ nextSession' \in Nat
    BY <1>4
  <2> HIDE DEF C
  <2>8. QED
    BY <2>1, <2>2, <2>4, <2>5, <2>6, <2>7, Copies
<1>8. /\ \A n \in TxNr : InQueue(n) => InQueue(n)'
      /\ Ahead(txNrEnd) \in Nat /\ Ahead(txNrFront) \in Nat
      /\ txNrEnd \in TxNr /\ txNrFront \in TxNr /\ txNrBegin \in TxNr
      /\ \A n \in TxNr : Ahead(n) \in Nat
  BY AheadType DEF InQueue, txNrs, TypeOK, Ahead
<1>9. ASSUME NEW r \in charged' \ waived', ~Reported(r)'
      PROVE  \E n \in TxNr : HasFile(r, n)' /\ InQueue(n)'
  <2>1. CASE r \in charged \ waived
    <3>1. r \in Session
      BY <2>1 DEF TypeOK
    <3>2. ~Reported(r)
      BY <1>9, <3>1 DEF SameHistory, Reported, StopTx
    <3>3. PICK n \in TxNr : HasFile(r, n) /\ InQueue(n)
      BY <2>1, <3>2 DEF Unlost
    <3>4. HasFile(r, n)'
      <4>1. CASE n # t.nr
        BY <1>2, <3>3, <4>1 DEF HasFile
      <4>2. CASE n = t.nr
        <5>1. ~WasRemoved(s)
          BY <1>1, <1>8, <3>3, <4>2 DEF WasRemoved, InQueue
        <5>2. r = s
          BY <1>1, <1>6, <3>3, <4>2, <5>1 DEF Placed, InJournal, HasFile
        <5>3. QED
          BY <1>2, <4>2, <5>2 DEF HasFile
      <4>3. QED
        BY <4>1, <4>2
    <3>5. QED
      BY <1>8, <3>3, <3>4
  <2>2. CASE r \notin charged \ waived
    <3>1. r = s
      BY <1>9, <2>2 DEF SameHistory
    <3>2. s = transaction /\ ~Collectable(mem[s])
      BY <1>9, <2>2, <3>1
    <3>3. transaction # None
      BY <1>1, <3>2, ReferencedIs
    <3>4. Ahead(t.nr) + 1 = Ahead(txNrEnd) /\ txNrFront # txNrEnd
      BY <1>1, <3>2, <3>3 DEF Ends
    <3>5. Ahead(txNrFront) # Ahead(txNrEnd)
      BY <1>8, <3>4, MinusInjective DEF Ahead
    <3>6. InQueue(t.nr)
      BY <1>2, <1>8, <3>4, <3>5 DEF InQueue, Window
    <3>7. QED
      BY <1>2, <1>8, <3>1, <3>6 DEF HasFile
  <2>3. QED
    BY <2>1, <2>2
<1>10. QED
  BY <1>2, <1>3, <1>5, <1>7, <1>9 DEF Unlost

-----------------------------------------------------------------------------
(* The steps that commit an object.                                          *)

\* The object in the hands of the connector, the send queue and the Request in flight.
LEMMA HeldIs ==
    ASSUME TypeOK
    PROVE  /\ transaction # None => transaction \in Referenced /\ transaction \in Session
           /\ transactionFront # None => transactionFront \in Referenced
           /\ \A k \in DOMAIN authQueue : authQueue[k] \in Referenced /\ authQueue[k] \in Session
           /\ sendReqFront # None =>
                 /\ sendReqFront \in Request /\ sendReqFront.session \in Session
                 /\ sendReqFront.session \in Referenced
<1>1. \A k \in DOMAIN authQueue : authQueue[k] \in Session
  BY DEF TypeOK
<1>2. sendReqFront # None => sendReqFront \in Request /\ sendReqFront.session \in Session
  BY DEF TypeOK, Request
<1>3. QED
  BY <1>1, <1>2, ReferencedIs DEF TypeOK, Refers

\* The copy t of m has got no further with its messages.
SameProgress(m, t) ==
    /\ t.start = m.start /\ t.startTry = m.startTry
    /\ t.stop = m.stop /\ t.stopTry = m.stopTry /\ t.silent = m.silent

\* A commit that is not part of the history.
LEMMA QuietCommit ==
    ASSUME IInv, NEW s \in Referenced, NEW t \in Tx, Commit(s, t),
           t.nr = mem[s].nr, isAborted(mem[s]) => isAborted(t), SameProgress(mem[s], t),
           UNCHANGED <<txNrs, refVars, nextSession, charged, waived, confirmed, sends>>,
           Referenced' \subseteq Referenced,
           \A m \in received' : m \in received \/ m[2] = s
    PROVE  /\ Journal' /\ FreshOnes' /\ MemSound' /\ FlashSound' /\ Unlost'
           /\ mem' \in [Session -> Tx] /\ flash' \in [TxNr -> File \cup {None}]
           /\ \A r \in Session : SameProgress(mem[r], mem'[r])
<1> USE DEF IInv, Journal, Knowledge
<1>1. /\ s \in Session /\ mem[s] \in Tx /\ Evolves(mem[s], t)
  BY ReferencedIs, CopyTypes DEF Evolves, SameProgress, isCompleted
<1>2. Sound(s, mem[s])
  BY DEF MemSound
<1>3. SoundNext(s, t)
  BY <1>2 DEF Sound, SoundNext, Knows, IsGivenUp, isCompleted, SameProgress
<1>4. \A r \in Session : SameHistory(r)
  BY DEF SameHistory
<1>5. charged' \subseteq Session /\ (Reported(s) => Reported(s)')
  BY DEF TypeOK, Reported
<1>6. UNCHANGED <<txNrs, refVars, nextSession>>
  OBVIOUS
<1>7. s \in charged' \ waived' => s \in charged \ waived
  OBVIOUS
<1>8. /\ Journal' /\ FreshOnes' /\ MemSound' /\ FlashSound' /\ Unlost'
      /\ mem' \in [Session -> Tx] /\ flash' \in [TxNr -> File \cup {None}]
  BY <1>1, <1>3, <1>4, <1>5, <1>6, <1>7, CommitStep
<1>9. \A r \in Session : SameProgress(mem[r], mem'[r])
  <2>1. mem'[s] = t /\ \A r \in Session : r # s => mem'[r] = mem[r]
    BY <1>1, CommitEffect
  <2>2. QED
    BY <2>1 DEF SameProgress
<1>10. QED
  BY <1>8, <1>9

\* The Request in flight stays what it is if the messages get no further.
LEMMA InFlightKept ==
    ASSUME TypeOK, InFlight, \A r \in Session : SameProgress(mem[r], mem'[r]),
           UNCHANGED <<sendReqFront, exchange, charged, waived, received>>
    PROVE  InFlight'
  BY HeldIs DEF InFlight, SameProgress

\* endTransaction().
LEMMA EndStep ==
    ASSUME IInv, endTransaction
    PROVE  IInv'
<1> USE DEF IInv, Journal, Knowledge
<1>1. PICK s \in Referenced, t \in Tx : /\ s = transaction /\ t = [mem[s] EXCEPT !.active = FALSE]
                                        /\ s \in Session /\ mem[s] \in Tx
  <2>1. transaction \in Referenced /\ transaction \in Session /\ mem[transaction] \in Tx
    BY HeldIs, CopyTypes DEF endTransaction
  <2>2. [mem[transaction] EXCEPT !.active = FALSE] \in Tx
    BY <2>1 DEF Tx
  <2>3. QED
    BY <2>1, <2>2
<1>2. Commit(s, t) /\ UNCHANGED <<txNrs, refVars, rpcVars, netVars, envVars, history>>
  BY <1>1 DEF endTransaction
<1>3. t.nr = mem[s].nr /\ SameProgress(mem[s], t) /\ (isAborted(mem[s]) => isAborted(t))
  BY <1>1 DEF Tx, SameProgress, isAborted
<1>4. /\ UNCHANGED <<txNrs, refVars, nextSession, charged, waived, confirmed, sends>>
      /\ Referenced' \subseteq Referenced
      /\ \A m \in received' : m \in received \/ m[2] = s
  BY <1>2 DEF refVars, rpcVars, envVars, history, Referenced
<1>5. /\ Journal' /\ FreshOnes' /\ MemSound' /\ FlashSound' /\ Unlost'
      /\ mem' \in [Session -> Tx] /\ flash' \in [TxNr -> File \cup {None}]
      /\ \A r \in Session : SameProgress(mem[r], mem'[r])
  BY <1>2, <1>3, <1>4, QuietCommit
<1>6. TypeOK' /\ ServerKnows' /\ InFlight'
  <2>1. TypeOK'
    BY <1>2, <1>5 DEF TypeOK, txNrs, refVars, rpcVars, netVars, envVars, history
  <2>2. ServerKnows' /\ InFlight'
    BY <1>2, <1>5, InFlightKept DEF ServerKnows, rpcVars, netVars, history
  <2>3. QED
    BY <2>1, <2>2
<1>7. QED
  BY <1>5, <1>6

\* Local authorization at a timeout.
LEMMA OfflineIs ==
    ASSUME NEW m \in Tx, NEW t \in Offline(m)
    PROVE  t \in Tx /\ t.nr = m.nr /\ SameProgress(m, t) /\ (isAborted(m) => isAborted(t))
           /\ (IsGood(t) => IsGood(m))
  BY DEF Offline, Tx, SameProgress, isAborted, IsGood

\* A queue without its k-th element.
LEMMA RemovedIs ==
    ASSUME NEW q \in Seq(Session), NEW k \in DOMAIN q
    PROVE  \E z :
           /\ z = SubSeq(q, 1, k - 1) \o SubSeq(q, k + 1, Len(q))
           /\ z \in Seq(Session) /\ Len(z) = Len(q) - 1
           /\ \A i \in DOMAIN z : \E j \in DOMAIN q :
                 j = (IF i < k THEN i ELSE i + 1) /\ z[i] = q[j]
<1> DEFINE a == SubSeq(q, 1, k - 1)
           b == SubSeq(q, k + 1, Len(q))
<1>1. Len(q) \in Nat /\ k \in 1 .. Len(q) /\ DOMAIN q = 1 .. Len(q)
  OBVIOUS
<1>2. /\ a \in Seq(Session) /\ Len(a) = k - 1
      /\ \A i \in 1 .. Len(a) : a[i] = q[i]
  BY <1>1
<1>3. /\ b \in Seq(Session) /\ Len(b) = Len(q) - k
      /\ \A i \in 1 .. Len(b) : b[i] = q[k + i]
  BY <1>1
<1>4. PICK z : z = a \o b
  OBVIOUS
<1> HIDE DEF a, b
<1>5. z \in Seq(Session) /\ Len(z) = Len(q) - 1
  <2>1. a \o b \in Seq(Session) /\ Len(a \o b) = Len(a) + Len(b)
    BY <1>2, <1>3, ConcatProperties
  <2>2. QED
    BY <1>1, <1>2, <1>3, <1>4, <2>1
<1>6. ASSUME NEW i \in DOMAIN z
      PROVE  \E j \in DOMAIN q : j = (IF i < k THEN i ELSE i + 1) /\ z[i] = q[j]
  <2>1. i \in 1 .. Len(q) - 1
    BY <1>1, <1>5
  <2>2. CASE i <= Len(a)
    <3>1. z[i] = q[i]
      BY <1>1, <1>2, <1>3, <1>4, <2>1, <2>2
    <3>2. i < k /\ i \in DOMAIN q
      BY <1>1, <1>2, <2>1, <2>2
    <3>3. QED
      BY <3>1, <3>2
  <2>3. CASE ~(i <= Len(a))
    <3>1. z[i] = b[i - Len(a)]
      BY <1>1, <1>2, <1>3, <1>4, <2>1, <2>3
    <3>2. PICK d \in 1 .. Len(b) : d = i - Len(a)
      BY <1>1, <1>2, <1>3, <2>1, <2>3
    <3>3. k + d = i + 1 /\ i + 1 \in DOMAIN q /\ ~(i < k)
      BY <1>1, <1>2, <1>3, <2>1, <2>3, <3>2
    <3>4. QED
      BY <1>3, <3>1, <3>2, <3>3
  <2>4. QED
    BY <2>2, <2>3
<1>7. QED
  BY <1>4, <1>5, <1>6 DEF a, b

\* An Authorize that waits times out: the others stay in the queue.
LEMMA QueueStep ==
    ASSUME IInv, GiveUpAnAuthorize
    PROVE  IInv'
<1> USE DEF IInv, Journal, Knowledge
<1>1. PICK k \in DOMAIN authQueue : QueueTimeout(k)
  BY DEF GiveUpAnAuthorize
<1>2. PICK s \in Referenced : s = authQueue[k] /\ s \in Session /\ mem[s] \in Tx
  BY HeldIs, CopyTypes
<1>3. PICK t \in Tx : t \in Offline(mem[s]) /\ Commit(s, t)
  BY <1>1, <1>2, OfflineIs DEF QueueTimeout
<1>4. /\ authQueue' = SubSeq(authQueue, 1, k - 1) \o SubSeq(authQueue, k + 1, Len(authQueue))
      /\ UNCHANGED <<txNrs, refVars, sendReqFront, netVars, envVars, history>>
  BY <1>1 DEF QueueTimeout
<1>5. /\ authQueue' \in Seq(Session) /\ Len(authQueue') <= CacheSize
      /\ \A i \in DOMAIN authQueue' : \E j \in DOMAIN authQueue : authQueue'[i] = authQueue[j]
  <2>1. PICK q \in Seq(Session) : q = authQueue /\ Len(q) <= CacheSize
    BY DEF TypeOK
  <2>2. PICK z :
           /\ z = SubSeq(q, 1, k - 1) \o SubSeq(q, k + 1, Len(q))
           /\ z \in Seq(Session) /\ Len(z) = Len(q) - 1
           /\ \A i \in DOMAIN z : \E j \in DOMAIN q :
                 j = (IF i < k THEN i ELSE i + 1) /\ z[i] = q[j]
    BY <2>1, RemovedIs
  <2>3. authQueue' = z
    BY <1>4, <2>1, <2>2
  <2>4. \A i \in DOMAIN z : \E j \in DOMAIN q : z[i] = q[j]
    BY <2>2
  <2>5. Len(z) <= CacheSize
    BY <2>1, <2>2, ConstantsAssumption
  <2>6. QED
    BY <2>1, <2>2, <2>3, <2>4, <2>5
<1>6. Referenced' \subseteq Referenced
  <2>1. transaction' = transaction /\ transactionFront' = transactionFront /\ sendReqFront' = sendReqFront
    BY <1>4 DEF refVars
  <2>2. QED
    BY <1>5, <2>1 DEF Referenced
<1>7. /\ UNCHANGED <<txNrs, refVars, nextSession, charged, waived, confirmed, sends>>
      /\ \A m \in received' : m \in received \/ m[2] = s
  BY <1>4 DEF envVars, history
<1>8. /\ Journal' /\ FreshOnes' /\ MemSound' /\ FlashSound' /\ Unlost'
      /\ mem' \in [Session -> Tx] /\ flash' \in [TxNr -> File \cup {None}]
      /\ \A r \in Session : SameProgress(mem[r], mem'[r])
  BY <1>2, <1>3, <1>6, <1>7, OfflineIs, QuietCommit
<1>9. TypeOK'
  BY <1>4, <1>5, <1>8 DEF TypeOK, txNrs, refVars, netVars, envVars, history
<1>10. ServerKnows' /\ InFlight'
  BY <1>4, <1>8, InFlightKept DEF ServerKnows, netVars, history
<1>11. QED
  BY <1>8, <1>9, <1>10

\* What the session part of loop() makes of the current transaction.
LEMMA SessionLoopIs ==
    ASSUME TypeOK, NEW m \in Tx, m.stop = "no", NEW u \in {m, Inactive(m)}, NEW v,
           \/ v = Started(u) /\ u.start = "no" /\ u.active
           \/ v = Stopped(u) /\ MayStop(u)
           \/ v = u
    PROVE  /\ v \in Tx /\ v.nr = m.nr /\ v.silent = m.silent
           /\ v.startTry = m.startTry /\ v.stopTry = m.stopTry
           /\ \/ v.start = m.start /\ v.stop = "no"
              \/ m.start = "no" /\ v.stop = "no"
                    /\ v.start = IF m.silent THEN "confirmed" ELSE "requested"
              \/ m.start # "no" /\ v.start = m.start
                    /\ v.stop = IF m.silent THEN "confirmed" ELSE "requested"
<1>2. /\ u \in Tx /\ u.nr = m.nr /\ u.silent = m.silent /\ u.startTry = m.startTry
      /\ u.stopTry = m.stopTry /\ u.start = m.start /\ u.stop = m.stop
      /\ (u.active => m.active) /\ (isAborted(m) => isAborted(u))
  BY DEF Inactive, Tx, isAborted
<1>3. CASE v = Started(u) /\ u.start = "no" /\ u.active
  <2>1. (IF clockSet THEN 0 ELSE bootNr) \in 0 .. MaxReboot + 1
    BY ConstantsAssumption DEF TypeOK
  <2>2. /\ v \in Tx /\ v.nr = u.nr /\ v.silent = u.silent /\ v.startTry = u.startTry
        /\ v.stopTry = u.stopTry /\ v.stop = u.stop
        /\ v.start = IF u.silent THEN "confirmed" ELSE "requested"
    BY <1>2, <1>3, <2>1 DEF Started, Tx
  <2>3. QED
    BY <1>2, <1>3, <2>2
<1>4. CASE v = Stopped(u) /\ MayStop(u)
  <2>1. /\ v \in Tx /\ v.nr = u.nr /\ v.silent = u.silent /\ v.startTry = u.startTry
        /\ v.stopTry = u.stopTry /\ v.start = u.start
        /\ v.stop = IF u.silent THEN "confirmed" ELSE "requested"
    BY <1>2, <1>4 DEF Stopped, Tx
  <2>2. QED
    BY <1>2, <1>4, <2>1 DEF MayStop, isRunning
<1>5. QED
  BY <1>2, <1>3, <1>4

\* The checks before it do no more than to end the session.
LEMMA EndedIs ==
    ASSUME NEW m \in Tx, NEW unplugged, NEW timedOut, NEW policy
    PROVE  EndedDeauthorized(EndedWaiting(EndedUnplugged(m, unplugged, policy),
                                          unplugged, timedOut), policy) \in {m, Inactive(m)}
<1>1. Inactive(Inactive(m)) = Inactive(m)
  BY DEF Inactive, Tx
<1>2. \A t : EndedUnplugged(t, unplugged, policy) \in {t, Inactive(t)}
  BY DEF EndedUnplugged
<1>3. \A t : EndedWaiting(t, unplugged, timedOut) \in {t, Inactive(t)}
  BY DEF EndedWaiting
<1>4. \A t : EndedDeauthorized(t, policy) \in {t, Inactive(t)}
  BY DEF EndedDeauthorized
<1>5. EndedWaiting(EndedUnplugged(m, unplugged, policy), unplugged, timedOut) \in {m, Inactive(m)}
  BY <1>1, <1>2, <1>3
<1>6. QED
  BY <1>1, <1>4, <1>5

\* The session goes on.
LEMMA SessionStep ==
    ASSUME IInv, SessionLoop
    PROVE  IInv'
<1> USE DEF IInv, Journal, Knowledge
<1>1. PICK s \in Referenced : s = transaction /\ s \in Session /\ mem[s] \in Tx
  BY HeldIs, CopyTypes DEF SessionLoop
<1>2. mem[s].stop = "no" /\ ~isAborted(mem[s])
  BY <1>1 DEF SessionLoop
<1>3. PICK t \in Tx :
         /\ Commit(s, t) /\ t.nr = mem[s].nr /\ t.silent = mem[s].silent
         /\ t.startTry = mem[s].startTry /\ t.stopTry = mem[s].stopTry
         /\ \/ t.start = mem[s].start /\ t.stop = "no"
            \/ mem[s].start = "no" /\ t.stop = "no"
                  /\ t.start = IF mem[s].silent THEN "confirmed" ELSE "requested"
            \/ mem[s].start # "no" /\ t.start = mem[s].start
                  /\ t.stop = IF mem[s].silent THEN "confirmed" ELSE "requested"
         /\ charged' = IF t.start # "no" THEN charged \cup {s} ELSE charged
  <2>1. PICK unplugged, timedOut, policy, ready \in BOOLEAN :
           LET u == EndedDeauthorized(EndedWaiting(EndedUnplugged(mem[s], unplugged, policy),
                                                   unplugged, timedOut), policy)
               v == IF ready /\ MayStart(u, unplugged) THEN Started(u)
                    ELSE IF ready /\ MayStop(u) THEN Stopped(u) ELSE u
           IN  Commit(s, v) /\ charged' = IF v.start # "no" THEN charged \cup {s} ELSE charged
    BY <1>1 DEF SessionLoop
  <2>2. PICK u : u = EndedDeauthorized(EndedWaiting(EndedUnplugged(mem[s], unplugged, policy),
                                                    unplugged, timedOut), policy)
    OBVIOUS
  <2>3. u \in {mem[s], Inactive(mem[s])}
    BY <1>1, <2>2, EndedIs
  <2>4. PICK v : v = IF ready /\ MayStart(u, unplugged) THEN Started(u)
                     ELSE IF ready /\ MayStop(u) THEN Stopped(u) ELSE u
    OBVIOUS
  <2>5. Commit(s, v) /\ charged' = IF v.start # "no" THEN charged \cup {s} ELSE charged
    BY <2>1, <2>2, <2>4
  <2>6. \/ v = Started(u) /\ u.start = "no" /\ u.active
        \/ v = Stopped(u) /\ MayStop(u)
        \/ v = u
    BY <2>4 DEF MayStart
  <2>7. /\ v \in Tx /\ v.nr = mem[s].nr /\ v.silent = mem[s].silent
        /\ v.startTry = mem[s].startTry /\ v.stopTry = mem[s].stopTry
        /\ \/ v.start = mem[s].start /\ v.stop = "no"
           \/ mem[s].start = "no" /\ v.stop = "no"
                 /\ v.start = IF mem[s].silent THEN "confirmed" ELSE "requested"
           \/ mem[s].start # "no" /\ v.start = mem[s].start
                 /\ v.stop = IF mem[s].silent THEN "confirmed" ELSE "requested"
    BY <1>1, <1>2, <2>3, <2>6, SessionLoopIs
  <2>8. QED
    BY <2>5, <2>7
<1>4. UNCHANGED <<txNrs, refVars, rpcVars, netVars, envVars, waived, received, confirmed, sends>>
  BY DEF SessionLoop
<1>5. Evolves(mem[s], t) /\ Referenced' \subseteq Referenced
  BY <1>2, <1>3, <1>4 DEF Evolves, isCompleted, refVars, rpcVars, Referenced
<1>6. Sound(s, mem[s])
  BY DEF MemSound
<1>7. SoundNext(s, t)
  <2>1. nextSession' = nextSession /\ waived' = waived /\ confirmed' = confirmed /\ sends' = sends
    BY <1>4 DEF envVars
  <2>2. s \in charged' => t.start # "no"
    BY <1>3, <1>6 DEF Sound, Knows
  <2>3. s # 0
    BY <1>2, <1>6 DEF Sound, Knows, isCompleted
  <2>4. QED
    BY <1>2, <1>3, <1>6, <2>1, <2>2, <2>3 DEF Sound, SoundNext, Knows, IsGivenUp, isCompleted
<1>8. \A r \in Session : r # s => SameHistory(r)
  BY <1>3, <1>4 DEF SameHistory
<1>9. s \in charged' \ waived' => s = transaction /\ ~Collectable(mem[s])
  <2>1. ASSUME s \notin waived PROVE ~Collectable(mem[s])
    BY <1>2, <1>6, <2>1 DEF Sound, Knows, Collectable, isCompleted
  <2>2. QED
    BY <1>1, <1>4, <2>1
<1>10. /\ Journal' /\ FreshOnes' /\ MemSound' /\ FlashSound' /\ Unlost'
       /\ mem' \in [Session -> Tx] /\ flash' \in [TxNr -> File \cup {None}]
  <2>1. UNCHANGED <<txNrs, refVars, nextSession>>
    BY <1>4 DEF envVars
  <2>2. charged' \subseteq Session /\ (Reported(s) => Reported(s)')
    BY <1>1, <1>3, <1>4 DEF TypeOK, Reported
  <2>3. \A m \in received' : m \in received \/ m[2] = s
    BY <1>4
  <2>4. QED
    BY <1>3, <1>5, <1>7, <1>8, <1>9, <2>1, <2>2, <2>3, CommitStep
<1>11. TypeOK'
  BY <1>1, <1>3, <1>4, <1>10 DEF TypeOK, txNrs, refVars, rpcVars, netVars, envVars
<1>12. ServerKnows'
  BY <1>4 DEF ServerKnows
<1>13. InFlight'
  <2>1. mem'[s] = t /\ \A r \in Session : r # s => mem'[r] = mem[r]
    BY <1>1, <1>3, CommitEffect
  <2>2. sendReqFront' = sendReqFront /\ exchange' = exchange /\ waived' = waived /\ received' = received
    BY <1>4 DEF rpcVars, netVars
  <2>3. SUFFICES ASSUME sendReqFront # None, NEW f \in Referenced, f = sendReqFront.session, f \in Session
                 PROVE  InFlight'
    BY <2>2, HeldIs DEF InFlight
  <2>4. sendReqFront.kind = "StartTransaction" =>
           mem'[f].start = "requested" /\ mem'[f].startTry >= 1
    BY <1>3, <2>1, <2>3 DEF InFlight
  <2>5. sendReqFront.kind = "StopTransaction" =>
           mem'[f].start = "confirmed" /\ mem'[f].stop = "requested" /\ mem'[f].stopTry >= 1
    BY <1>2, <2>1, <2>3 DEF InFlight
  <2>6. mem'[f].silent = mem[f].silent
    BY <1>3, <2>1, <2>3
  <2>7. ASSUME sendReqFront.kind = "StartTransaction", NEW r \in charged', r < f
        PROVE  r \in waived \/ StopTx(r) \in received
    <3>1. CASE r \in charged
      BY <2>3, <2>7, <3>1 DEF InFlight
    <3>2. CASE r \notin charged
      <4>1. r = s
        BY <1>3, <2>7, <3>2
      <4>2. transaction # None /\ InJournal(s) /\ InJournal(f)
        BY <1>1, <2>3, ReferencedIs DEF Places, Placed, WasRemoved
      <4>3. /\ mem[s].nr \in TxNr /\ mem[f].nr \in TxNr /\ mem[f].nr # mem[s].nr
            /\ f \in Nat /\ s \in Nat
        BY <1>1, <2>3, <2>7, <4>1, CopyTypes DEF Numbers, Tx
      <4>4. GoodFile(mem[f].nr) /\ flash[mem[f].nr].session = f
        BY <2>3, <2>7, <4>2 DEF InFlight, InJournal, HasFile, Agree, GoodFile, IsGood, isAborted
      <4>5. ASSUME s \notin waived PROVE FALSE
        <5>1. ~mem[s].silent
          BY <1>6, <4>5 DEF Sound, Knows
        <5>2. GoodFile(mem[s].nr) /\ flash[mem[s].nr].session = s
          BY <1>2, <4>2, <5>1 DEF InJournal, HasFile, Agree, GoodFile, IsGood, isAborted
        <5>3. /\ Ahead(mem[f].nr) < Ahead(mem[s].nr) + 1 /\ Ahead(mem[f].nr) \in Nat
              /\ Ahead(mem[s].nr) \in Nat
          BY <1>1, <4>2, <4>3, AheadType DEF Ends, InJournal
        <5>4. Ahead(mem[f].nr) # Ahead(mem[s].nr)
          BY <4>3, MinusInjective DEF Ahead, TypeOK
        <5>5. f < s
          BY <4>3, <4>4, <5>2, <5>3, <5>4 DEF Ordered
        <5>6. QED
          BY <2>7, <4>1, <4>3, <5>5
      <4>6. QED
        BY <4>1, <4>5
    <3>3. QED
      BY <3>1, <3>2
  <2>8. QED
    BY <2>2, <2>3, <2>4, <2>5, <2>6, <2>7 DEF InFlight
<1>14. QED
  BY <1>10, <1>11, <1>12, <1>13

-----------------------------------------------------------------------------
(* The answers, the timeouts, and the steps of the environment.              *)

\* A step that leaves the copies alone.
LEMMA QuietStep ==
    ASSUME IInv, UNCHANGED <<txNrs, mem, flash, nextSession, charged, waived, confirmed, sends>>,
           Referenced' \subseteq Referenced, transaction' \in {transaction, None},
           transactionFront' = transactionFront,
           \A m \in received' : m \in received \/ m[2] < nextSession
    PROVE  Journal' /\ FreshOnes' /\ MemSound' /\ FlashSound' /\ Unlost'
<1> USE DEF IInv, Journal, Knowledge
<1>1. Journal'
  BY JournalSame
<1>2. nextSession' = nextSession /\ nextSession \in Nat
  BY DEF TypeOK
<1>3. \A r \in Session : SameHistory(r)
  BY DEF SameHistory
<1>4. FreshOnes'
  BY <1>2, <1>3, FreshKept
<1>5. MemSound' /\ FlashSound'
  BY DEF MemSound, FlashSound, Sound, Knows
<1>6. Unlost'
  <2>1. txNrBegin' = txNrBegin /\ txNrFront' = txNrFront /\ txNrEnd' = txNrEnd
    BY DEF txNrs
  <2>2. \A n \in TxNr : InQueue(n)' <=> InQueue(n)
    BY <2>1 DEF InQueue, Ahead
  <2>3. QED
    BY <2>2 DEF Unlost, Reported, HasFile
<1>7. QED
  BY <1>1, <1>4, <1>5, <1>6

\* The message that the server receives is the one in flight.
LEMMA ReceivedIs ==
    ASSUME TypeOK, sendReqFront # None, NEW s, s = sendReqFront.session
    PROVE  /\ \A m \in Received(sendReqFront) :
                 /\ m \in TxMessage /\ m[2] = s /\ m[1] = sendReqFront.kind
                 /\ \/ m = StartTx(s) /\ sendReqFront.kind = "StartTransaction"
                    \/ m = StopTx(s) /\ sendReqFront.kind = "StopTransaction"
           /\ sendReqFront.kind = "StartTransaction" => StartTx(s) \in Received(sendReqFront)
           /\ sendReqFront.kind = "StopTransaction" => StopTx(s) \in Received(sendReqFront)
<1>1. s \in Session /\ sendReqFront.kind \in {"Authorize", "StartTransaction", "StopTransaction"}
  BY HeldIs DEF Request
<1>2. Received(sendReqFront) = {<<sendReqFront.kind, s>>} \cap TxMessage
  BY DEF Received
<1>3. \A m \in Received(sendReqFront) : m \in TxMessage /\ m = <<sendReqFront.kind, s>>
  BY <1>2
<1>4. \A m \in TxMessage : m[1] \in {"StartTransaction", "StopTransaction"}
  BY DEF TxMessage
<1>5. ASSUME NEW m \in Received(sendReqFront)
      PROVE  /\ m \in TxMessage /\ m[2] = s /\ m[1] = sendReqFront.kind
             /\ \/ m = StartTx(s) /\ sendReqFront.kind = "StartTransaction"
                \/ m = StopTx(s) /\ sendReqFront.kind = "StopTransaction"
  <2>1. m = <<sendReqFront.kind, s>> /\ m \in TxMessage
    BY <1>3
  <2>2. m[1] = sendReqFront.kind /\ m[2] = s
    BY <2>1
  <2>3. QED
    BY <1>4, <2>1, <2>2 DEF StartTx, StopTx
<1>6. /\ sendReqFront.kind = "StartTransaction" => StartTx(s) \in Received(sendReqFront)
      /\ sendReqFront.kind = "StopTransaction" => StopTx(s) \in Received(sendReqFront)
  BY <1>1, <1>2, MessagesAre DEF StartTx, StopTx
<1>7. QED
  BY <1>5, <1>6

\* What is given up when the Request in flight is aborted.
LEMMA AbortedIs ==
    ASSUME IInv, sendReqFront # None, RequestAborted,
           UNCHANGED <<txNrs, refVars, nextSession, charged, confirmed, sends>>,
           Referenced' \subseteq Referenced,
           \A m \in received' : m \in received \/ m[2] = sendReqFront.session
    PROVE  /\ Journal' /\ FreshOnes' /\ MemSound' /\ FlashSound' /\ Unlost'
           /\ mem' \in [Session -> Tx] /\ flash' \in [TxNr -> File \cup {None}]
           /\ waived' \subseteq Session
<1> USE DEF IInv, Journal, Knowledge
<1>1. PICK s \in Referenced : s = sendReqFront.session /\ s \in Session /\ mem[s] \in Tx
  BY HeldIs, CopyTypes
<1>2. PICK t \in Tx : t = [mem[s] EXCEPT !.silent = TRUE, !.active = FALSE]
  <2>1. [mem[s] EXCEPT !.silent = TRUE, !.active = FALSE] \in Tx
    BY <1>1 DEF Tx
  <2>2. QED
    BY <2>1
<1>3. \/ Commit(s, t) /\ waived' = waived \cup {s}
      \/ UNCHANGED <<mem, flash, waived>>
  BY <1>1, <1>2 DEF RequestAborted, Aborted
<1>4. mem[s].start # "no" /\ Sound(s, mem[s]) /\ s < nextSession /\ nextSession \in Nat
  BY <1>1 DEF RequestAborted, InFlight, MemSound, Sound, Knows, TypeOK
<1>5. CASE Commit(s, t) /\ waived' = waived \cup {s}
  <2>1. Evolves(mem[s], t) /\ t.silent
    BY <1>1, <1>2, <1>4 DEF Tx, Evolves, isAborted, isCompleted
  <2>2. SoundNext(s, t)
    BY <1>1, <1>2, <1>4, <1>5 DEF Sound, SoundNext, Knows, isCompleted, Tx
  <2>3. \A r \in Session : r # s => SameHistory(r)
    BY <1>5 DEF SameHistory
  <2>4. charged' \subseteq Session /\ (Reported(s) => Reported(s)')
    BY DEF TypeOK, Reported
  <2>5. UNCHANGED <<txNrs, refVars, nextSession>> /\ ~(s \in charged' \ waived')
    BY <1>5
  <2>6. \A m \in received' : m \in received \/ m[2] = s
    BY <1>1
  <2>7. /\ Journal' /\ FreshOnes' /\ MemSound' /\ FlashSound' /\ Unlost'
        /\ mem' \in [Session -> Tx] /\ flash' \in [TxNr -> File \cup {None}]
    BY <1>5, <2>1, <2>2, <2>3, <2>4, <2>5, <2>6, CommitStep
  <2>8. waived' \subseteq Session
    BY <1>1, <1>5 DEF TypeOK
  <2>9. QED
    BY <2>7, <2>8
<1>6. CASE UNCHANGED <<mem, flash, waived>>
  <2>1. UNCHANGED <<txNrs, mem, flash, nextSession, charged, waived, confirmed, sends>>
    BY <1>6
  <2>2. transaction' = transaction /\ transactionFront' = transactionFront
    BY DEF refVars
  <2>3. \A m \in received' : m \in received \/ m[2] < nextSession
    BY <1>1, <1>4
  <2>4. QED
    BY <1>6, <2>1, <2>2, <2>3, QuietStep DEF TypeOK
<1>7. QED
  BY <1>3, <1>5, <1>6

\* The Request in flight is released.
LEMMA ReleaseIs ==
    ASSUME TypeOK, sendReqFront' = None, UNCHANGED <<refVars, authQueue>>
    PROVE  Referenced' \subseteq Referenced
  BY DEF Referenced, refVars

\* GiveUp: what the server may have received by then.
LEMMA GiveUpIs ==
    ASSUME IInv, sendReqFront # None, GiveUp, NEW s, s = sendReqFront.session
    PROVE  /\ sendReqFront' = None /\ exchange' = "idle" /\ late' \in BOOLEAN
           /\ received \subseteq received' /\ received' \subseteq TxMessage
           /\ \A m \in received' : m \in received \/ (m[2] = s /\ m[2] < nextSession)
<1> USE DEF IInv, Journal, Knowledge
<1>1. s < nextSession
  BY HeldIs DEF MemSound, Sound, Knows
<1>2. received' = received \/ received' = received \cup Received(sendReqFront)
  BY DEF GiveUp
<1>3. \A m \in Received(sendReqFront) : m \in TxMessage /\ m[2] = s
  BY ReceivedIs
<1>4. sendReqFront' = None /\ exchange' = "idle" /\ late' \in BOOLEAN
  BY DEF GiveUp, TypeOK
<1>5. QED
  BY <1>1, <1>2, <1>3, <1>4 DEF TypeOK

LEMMA SlotStep ==
    ASSUME IInv, SlotTimeout
    PROVE  IInv'
<1> USE DEF IInv, Journal, Knowledge
<1>1. PICK s \in Referenced : /\ sendReqFront # None /\ s = sendReqFront.session
                              /\ s \in Session /\ mem[s] \in Tx
  BY HeldIs, CopyTypes DEF SlotTimeout
<1>2. /\ sendReqFront' = None /\ exchange' = "idle" /\ late' \in BOOLEAN
      /\ received \subseteq received' /\ received' \subseteq TxMessage
      /\ \A m \in received' : m \in received \/ (m[2] = s /\ m[2] < nextSession)
  BY <1>1, GiveUpIs DEF SlotTimeout
<1>3. UNCHANGED <<txNrs, refVars, authQueue, connected, envVars, charged, confirmed, sends>>
  BY DEF SlotTimeout
<1>4. Referenced' \subseteq Referenced
  BY <1>2, <1>3, ReleaseIs
<1>5. UNCHANGED <<txNrs, refVars, nextSession, charged, confirmed, sends>>
  BY <1>3 DEF envVars
<1>6. /\ Journal' /\ FreshOnes' /\ MemSound' /\ FlashSound' /\ Unlost'
      /\ mem' \in [Session -> Tx] /\ flash' \in [TxNr -> File \cup {None}]
      /\ waived' \subseteq Session
  <2>1. CASE RequestAborted
    BY <1>1, <1>2, <1>4, <1>5, <2>1, AbortedIs
  <2>2. CASE /\ sendReqFront.kind = "Authorize"
             /\ \E t \in Offline(mem[sendReqFront.session]) : Commit(sendReqFront.session, t)
             /\ UNCHANGED waived
    <3>1. PICK t \in Tx : t \in Offline(mem[s]) /\ Commit(s, t)
      BY <1>1, <2>2, OfflineIs
    <3>2. t.nr = mem[s].nr /\ SameProgress(mem[s], t) /\ (isAborted(mem[s]) => isAborted(t))
      BY <1>1, <3>1, OfflineIs
    <3>3. UNCHANGED <<txNrs, refVars, nextSession, charged, waived, confirmed, sends>>
      BY <1>5, <2>2
    <3>4. QED
      BY <1>2, <1>4, <2>2, <3>1, <3>2, <3>3, QuietCommit DEF TypeOK
  <2>3. QED
    BY <2>1, <2>2 DEF SlotTimeout
<1>7. TypeOK'
  BY <1>2, <1>3, <1>6 DEF TypeOK, txNrs, refVars, envVars
<1>8. ServerKnows'
  BY <1>2, <1>3 DEF ServerKnows
<1>9. InFlight'
  BY <1>2 DEF InFlight
<1>10. QED
  BY <1>6, <1>7, <1>8, <1>9

LEMMA StrayStep ==
    ASSUME IInv, receiveStrayResponse
    PROVE  IInv'
<1> USE DEF IInv, Journal, Knowledge
<1>1. PICK s : sendReqFront # None /\ s = sendReqFront.session
  BY DEF receiveStrayResponse
<1>2. /\ sendReqFront' = None /\ exchange' = "idle" /\ late' \in BOOLEAN
      /\ received \subseteq received' /\ received' \subseteq TxMessage
      /\ \A m \in received' : m \in received \/ (m[2] = s /\ m[2] < nextSession)
  BY <1>1, GiveUpIs DEF receiveStrayResponse
<1>3. UNCHANGED <<txNrs, refVars, mem, flash, authQueue, connected, envVars, charged,
                  waived, confirmed, sends>>
  BY DEF receiveStrayResponse
<1>4. Referenced' \subseteq Referenced
  BY <1>2, <1>3, ReleaseIs
<1>5. Journal' /\ FreshOnes' /\ MemSound' /\ FlashSound' /\ Unlost'
  BY <1>2, <1>3, <1>4, QuietStep DEF refVars, envVars
<1>6. TypeOK'
  BY <1>2, <1>3 DEF TypeOK, txNrs, refVars, envVars
<1>7. ServerKnows'
  BY <1>2, <1>3 DEF ServerKnows
<1>8. InFlight'
  BY <1>2 DEF InFlight
<1>9. QED
  BY <1>5, <1>6, <1>7, <1>8

\* The answer to the Request in flight.
LEMMA ReceiveStep ==
    ASSUME IInv, receiveResponse
    PROVE  IInv'
<1> USE DEF IInv, Journal, Knowledge
<1>1. PICK s \in Referenced : /\ sendReqFront # None /\ s = sendReqFront.session
                              /\ s \in Session /\ mem[s] \in Tx
  <2>1. sendReqFront # None
    BY DEF receiveResponse, TypeOK
  <2>2. QED
    BY <2>1, HeldIs, CopyTypes
<1>2. /\ sendReqFront' = None /\ exchange' = "idle"
      /\ UNCHANGED <<txNrs, refVars, authQueue, connected, late, envVars, charged, received, sends>>
  BY DEF receiveResponse
<1>3. Referenced' \subseteq Referenced
  BY <1>2, ReleaseIs
<1>4. UNCHANGED <<txNrs, refVars, nextSession, charged, sends>> /\ received' = received
      /\ \A m \in received' : m \in received \/ m[2] = s
  BY <1>2 DEF envVars
<1>5. Sound(s, mem[s]) /\ StartTx(s) \in TxMessage /\ StopTx(s) \in TxMessage
  BY <1>1, MessagesAre DEF MemSound
<1> DEFINE Copied == /\ Journal' /\ FreshOnes' /\ MemSound' /\ FlashSound' /\ Unlost'
                     /\ mem' \in [Session -> Tx] /\ flash' \in [TxNr -> File \cup {None}]
                     /\ waived' \subseteq Session /\ confirmed' \subseteq TxMessage /\ ServerKnows'
\* An answer to Authorize is not part of the history.
<1>6. ASSUME sendReqFront.kind = "Authorize", AuthorizeAnswered(s, exchange) PROVE Copied
  <2>1. UNCHANGED <<txNrs, refVars, nextSession, charged, waived, confirmed, sends>>
    BY <1>4, <1>6 DEF AuthorizeAnswered
  <2>2. \/ \E t \in {[mem[s] EXCEPT !.authorized = TRUE], Inactive(mem[s]),
                     [mem[s] EXCEPT !.deauthorized = TRUE]} : Commit(s, t)
        \/ UNCHANGED <<mem, flash>>
    BY <1>6 DEF AuthorizeAnswered
  <2>3. CASE \E t \in {[mem[s] EXCEPT !.authorized = TRUE], Inactive(mem[s]),
                       [mem[s] EXCEPT !.deauthorized = TRUE]} : Commit(s, t)
    <3>1. PICK t \in {[mem[s] EXCEPT !.authorized = TRUE], Inactive(mem[s]),
                      [mem[s] EXCEPT !.deauthorized = TRUE]} : Commit(s, t)
      BY <2>3
    <3>2. /\ t \in Tx /\ t.nr = mem[s].nr /\ SameProgress(mem[s], t)
          /\ isAborted(mem[s]) => isAborted(t)
      BY <1>1 DEF Inactive, Tx, SameProgress, isAborted
    <3>3. QED
      BY <1>3, <1>4, <2>1, <3>1, <3>2, QuietCommit DEF TypeOK, ServerKnows
  <2>4. CASE UNCHANGED <<mem, flash>>
    BY <1>2, <1>3, <1>4, <2>1, <2>4, QuietStep DEF refVars, TypeOK, ServerKnows
  <2>5. QED
    BY <2>2, <2>3, <2>4
<1>7. ASSUME sendReqFront.kind = "StartTransaction", StartTransactionAnswered(s, exchange),
             exchange = "error"
      PROVE  Copied
  <2>1. RequestAborted /\ confirmed' = confirmed
    BY <1>7 DEF StartTransactionAnswered
  <2>2. QED
    BY <1>1, <1>3, <1>4, <2>1, AbortedIs DEF TypeOK, ServerKnows
<1>8. ASSUME sendReqFront.kind = "StartTransaction", StartTransactionAnswered(s, exchange),
             exchange # "error"
      PROVE  Copied
  <2>1. PICK t \in Tx :
           /\ Commit(s, t) /\ t.nr = mem[s].nr /\ t.start = "confirmed" /\ t.silent = mem[s].silent
           /\ t.startTry = mem[s].startTry /\ t.stop = mem[s].stop /\ t.stopTry = mem[s].stopTry
    <3>1. PICK t : t = [mem[s] EXCEPT !.start = "confirmed",
                                      !.deauthorized = @ \/ exchange = "rejected"]
      OBVIOUS
    <3>2. (mem[s].deauthorized \/ exchange = "rejected") \in BOOLEAN
      OBVIOUS
    <3>3. /\ t \in Tx /\ t.nr = mem[s].nr /\ t.start = "confirmed" /\ t.silent = mem[s].silent
          /\ t.startTry = mem[s].startTry /\ t.stop = mem[s].stop /\ t.stopTry = mem[s].stopTry
      BY <1>1, <3>1, <3>2 DEF Tx
    <3>4. Commit(s, t)
      BY <1>8, <3>1 DEF StartTransactionAnswered
    <3>5. QED
      BY <3>3, <3>4
  <2>2. confirmed' = confirmed \cup {StartTx(s)} /\ waived' = waived
    BY <1>8 DEF StartTransactionAnswered, StartTx
  <2>3. /\ mem[s].start = "requested" /\ s \notin waived /\ ~mem[s].silent /\ s # 0
        /\ StartTx(s) \in received
    BY <1>1, <1>8 DEF InFlight, receiveResponse
  <2>4. Evolves(mem[s], t)
    BY <2>1, <2>3 DEF Evolves, isAborted, isCompleted
  <2>5. StopTx(s) \notin confirmed'
    BY <1>5, <2>2, <2>3, MessagesAre DEF Sound, Knows
  <2>6. SoundNext(s, t)
    BY <1>4, <1>5, <2>1, <2>2, <2>3, <2>5 DEF Sound, SoundNext, Knows, IsGivenUp
  <2>7. ASSUME NEW r \in Session, r # s PROVE SameHistory(r)
    <3>1. StartTx(r) # StartTx(s) /\ StopTx(r) # StartTx(s)
      BY <2>7, MessagesAre
    <3>2. QED
      BY <1>4, <2>2, <3>1 DEF SameHistory
  <2>8. charged' \subseteq Session /\ (Reported(s) => Reported(s)')
        /\ (s \in charged' \ waived' => s \in charged \ waived)
    BY <1>4, <2>2 DEF TypeOK, Reported
  <2>9. /\ Journal' /\ FreshOnes' /\ MemSound' /\ FlashSound' /\ Unlost'
        /\ mem' \in [Session -> Tx] /\ flash' \in [TxNr -> File \cup {None}]
    BY <1>3, <1>4, <2>1, <2>4, <2>6, <2>7, <2>8, CommitStep
  <2>10. ServerKnows' /\ waived' \subseteq Session /\ confirmed' \subseteq TxMessage
    BY <1>4, <1>5, <2>2, <2>3, MessagesAre DEF ServerKnows, TypeOK
  <2>11. QED
    BY <2>9, <2>10
<1>9. ASSUME sendReqFront.kind = "StopTransaction", StopTransactionAnswered(s) PROVE Copied
  <2>1. PICK t \in Tx :
           /\ Commit(s, t) /\ t.nr = mem[s].nr /\ t.stop = "confirmed" /\ t.silent = mem[s].silent
           /\ t.startTry = mem[s].startTry /\ t.start = mem[s].start /\ t.stopTry = mem[s].stopTry
    <3>1. PICK t : t = [mem[s] EXCEPT !.stop = "confirmed"]
      OBVIOUS
    <3>2. /\ t \in Tx /\ t.nr = mem[s].nr /\ t.stop = "confirmed" /\ t.silent = mem[s].silent
          /\ t.startTry = mem[s].startTry /\ t.start = mem[s].start /\ t.stopTry = mem[s].stopTry
      BY <1>1, <3>1 DEF Tx
    <3>3. Commit(s, t)
      BY <1>9, <3>1 DEF StopTransactionAnswered
    <3>4. QED
      BY <3>2, <3>3
  <2>2. confirmed' = confirmed \cup {StopTx(s)} /\ waived' = waived
    BY <1>9 DEF StopTransactionAnswered, StopTx
  <2>3. /\ mem[s].start = "confirmed" /\ s \notin waived /\ ~mem[s].silent /\ s # 0
        /\ StopTx(s) \in received
    BY <1>1, <1>9 DEF InFlight, receiveResponse
  <2>4. Evolves(mem[s], t)
    BY <2>1, <2>3 DEF Evolves, isAborted, isCompleted
  <2>5. StartTx(s) \in confirmed
    BY <1>5, <2>3 DEF Sound, Knows
  <2>6. SoundNext(s, t)
    BY <1>4, <1>5, <2>1, <2>2, <2>3, <2>5 DEF Sound, SoundNext, Knows, IsGivenUp
  <2>7. ASSUME NEW r \in Session, r # s PROVE SameHistory(r)
    <3>1. StartTx(r) # StopTx(s) /\ StopTx(r) # StopTx(s)
      BY <2>7, MessagesAre
    <3>2. QED
      BY <1>4, <2>2, <3>1 DEF SameHistory
  <2>8. charged' \subseteq Session /\ (Reported(s) => Reported(s)')
        /\ (s \in charged' \ waived' => s \in charged \ waived)
    BY <1>4, <2>2 DEF TypeOK, Reported
  <2>9. /\ Journal' /\ FreshOnes' /\ MemSound' /\ FlashSound' /\ Unlost'
        /\ mem' \in [Session -> Tx] /\ flash' \in [TxNr -> File \cup {None}]
    BY <1>3, <1>4, <2>1, <2>4, <2>6, <2>7, <2>8, CommitStep
  <2>10. ServerKnows' /\ waived' \subseteq Session /\ confirmed' \subseteq TxMessage
    <3>1. \A r \in Session : StopTx(r) \in confirmed' => StartTx(r) \in confirmed'
      BY <2>2, <2>5, MessagesAre DEF ServerKnows
    <3>2. QED
      BY <1>4, <1>5, <2>2, <2>3, <3>1 DEF ServerKnows, TypeOK
  <2>11. QED
    BY <2>9, <2>10
<1>10. Copied
  BY <1>1, <1>6, <1>7, <1>8, <1>9 DEF receiveResponse
<1>11. TypeOK'
  BY <1>2, <1>10 DEF TypeOK, txNrs, refVars, envVars
<1>12. InFlight'
  BY <1>2 DEF InFlight
<1>13. QED
  BY <1>10, <1>11, <1>12

\* The server answers.
LEMMA ServerStep ==
    ASSUME IInv, ServerAnswers
    PROVE  IInv'
<1> USE DEF IInv, Journal, Knowledge
<1>1. PICK s \in Referenced : /\ sendReqFront # None /\ s = sendReqFront.session /\ s \in Session
                              /\ s < nextSession
  <2>1. sendReqFront # None
    BY DEF ServerAnswers, TypeOK
  <2>2. QED
    BY <2>1, HeldIs DEF MemSound, Sound, Knows
<1>2. UNCHANGED <<txNrs, refVars, mem, flash, rpcVars, connected, late, envVars, charged,
                  waived, confirmed, sends>>
  BY DEF ServerAnswers
<1>3. /\ exchange' \in {"accepted", "rejected", "error"}
      /\ sendReqFront.kind = "StopTransaction" => exchange' # "rejected"
      /\ received' = IF sendReqFront.kind = "StartTransaction" /\ exchange' = "error"
                     THEN received ELSE received \cup Received(sendReqFront)
  BY DEF ServerAnswers
<1>4. /\ \A m \in Received(sendReqFront) : m \in TxMessage /\ m[2] = s
      /\ sendReqFront.kind = "StartTransaction" => StartTx(s) \in Received(sendReqFront)
      /\ sendReqFront.kind = "StopTransaction" => StopTx(s) \in Received(sendReqFront)
  BY <1>1, ReceivedIs
<1>5. /\ received \subseteq received' /\ received' \subseteq TxMessage
      /\ \A m \in received' : m \in received \/ m[2] < nextSession
  BY <1>1, <1>3, <1>4 DEF TypeOK
<1>6. Journal' /\ FreshOnes' /\ MemSound' /\ FlashSound' /\ Unlost'
  <2>1. Referenced' \subseteq Referenced
    BY <1>2 DEF Referenced, refVars, rpcVars
  <2>2. QED
    BY <1>2, <1>5, <2>1, QuietStep DEF refVars, envVars
<1>7. TypeOK'
  BY <1>1, <1>2, <1>3, <1>5 DEF TypeOK, txNrs, refVars, rpcVars, envVars
<1>8. ServerKnows'
  BY <1>2, <1>5 DEF ServerKnows
<1>9. InFlight'
  <2>1. sendReqFront' = sendReqFront /\ mem' = mem /\ charged' = charged /\ waived' = waived
    BY <1>2 DEF rpcVars
  <2>2. sendReqFront.kind = "StartTransaction" /\ exchange' \in {"accepted", "rejected"} =>
           StartTx(s) \in received'
    BY <1>3, <1>4
  <2>3. sendReqFront.kind = "StopTransaction" => StopTx(s) \in received'
    BY <1>3, <1>4
  <2>4. QED
    BY <1>1, <1>5, <2>1, <2>2, <2>3 DEF InFlight
<1>10. QED
  BY <1>6, <1>7, <1>8, <1>9

\* The connection and the clock.
LEMMA EnvironmentStep ==
    ASSUME IInv, Connect \/ Disconnect \/ SetClock
    PROVE  IInv'
<1> USE DEF IInv, Journal, Knowledge
<1>1. UNCHANGED <<txNrs, refVars, mem, flash, rpcVars, bootNr, nextSession, history>>
  BY DEF Connect, Disconnect, SetClock, envVars
<1>2. /\ connected' \in BOOLEAN /\ late' \in BOOLEAN /\ clockSet' \in BOOLEAN
      /\ exchange' = exchange \/ exchange' = IF sendReqFront = None THEN "idle" ELSE "lost"
  BY DEF Connect, Disconnect, SetClock, netVars, envVars, TypeOK
<1>3. Referenced' \subseteq Referenced
  BY <1>1 DEF Referenced, refVars, rpcVars
<1>4. Journal' /\ FreshOnes' /\ MemSound' /\ FlashSound' /\ Unlost'
  BY <1>1, <1>3, QuietStep DEF refVars, history
<1>5. TypeOK'
  BY <1>1, <1>2 DEF TypeOK, txNrs, refVars, rpcVars, history
<1>6. ServerKnows'
  BY <1>1 DEF ServerKnows, history
<1>7. InFlight'
  BY <1>1, <1>2 DEF InFlight, rpcVars, history
<1>8. QED
  BY <1>4, <1>5, <1>6, <1>7

\* A stopped transaction is left to the send queue.
LEMMA CollectStep ==
    ASSUME IInv, CollectStopped
    PROVE  IInv'
<1> USE DEF IInv, Journal, Knowledge
<1>1. /\ transaction' = None
      /\ UNCHANGED <<txNrs, transactionFront, mem, flash, rpcVars, netVars, envVars, history>>
  BY DEF CollectStopped
<1>2. Referenced' \subseteq Referenced
  BY <1>1 DEF Referenced, rpcVars
<1>3. Journal' /\ FreshOnes' /\ MemSound' /\ FlashSound' /\ Unlost'
  BY <1>1, <1>2, QuietStep DEF envVars, history
<1>4. TypeOK' /\ ServerKnows' /\ InFlight'
  BY <1>1 DEF TypeOK, ServerKnows, InFlight, txNrs, rpcVars, netVars, envVars, history
<1>5. QED
  BY <1>3, <1>4

\* An aborted or a finished silent transaction is removed.
LEMMA RollbackStep ==
    ASSUME IInv, Rollback
    PROVE  IInv'
<1> USE DEF IInv, Journal, Knowledge
<1>1. Journal' /\ Referenced' \subseteq Referenced /\ txNrEnd' \in TxNr /\ txNrFront' \in TxNr
  BY JournalRollback
<1>2. PICK s \in Referenced : transaction # None /\ s = transaction /\ s \in Session /\ mem[s] \in Tx
  BY HeldIs, CopyTypes DEF Rollback
<1>3. /\ IsRolledBack(mem[s]) /\ transaction' = None /\ txNrEnd' = mem[s].nr
      /\ txNrFront' = IF txNrFront = txNrEnd THEN mem[s].nr ELSE txNrFront
      /\ flash' = [n \in TxNr |-> IF n = mem[s].nr THEN None ELSE flash[n]]
      /\ UNCHANGED <<txNrBegin, transactionFront, mem, rpcVars, netVars, envVars, history>>
  BY <1>2 DEF Rollback, IsRolledBack, Remove
<1>4. \A n \in TxNr : flash'[n] = IF n = mem[s].nr THEN None ELSE flash[n]
  BY <1>3
<1>5. TypeOK'
  BY <1>1, <1>3 DEF TypeOK, rpcVars, netVars, envVars, history
<1>6. MemSound' /\ FlashSound' /\ FreshOnes' /\ ServerKnows' /\ InFlight'
  <2>1. MemSound'
    BY <1>1, <1>3 DEF MemSound, Sound, Knows, envVars, history
  <2>2. FlashSound'
    BY <1>3, <1>4 DEF FlashSound, Sound, Knows, envVars, history
  <2>3. FreshOnes' /\ ServerKnows' /\ InFlight'
    BY <1>3 DEF FreshOnes, ServerKnows, InFlight, rpcVars, netVars, envVars, history
  <2>4. QED
    BY <2>1, <2>2, <2>3
<1>7. Unlost'
  <2>1. /\ charged' = charged /\ waived' = waived /\ confirmed' = confirmed /\ txNrBegin' = txNrBegin
    BY <1>3 DEF history
  <2>2. SUFFICES ASSUME NEW r \in charged \ waived, ~Reported(r)
                 PROVE  \E n \in TxNr : HasFile(r, n)' /\ InQueue(n)'
    BY <2>1 DEF Unlost, Reported
  <2>3. PICK n \in TxNr : HasFile(r, n) /\ InQueue(n)
    BY <2>2 DEF Unlost
  <2>4. InJournal(s) /\ Ahead(mem[s].nr) + 1 = Ahead(txNrEnd) /\ mem[s].nr \in TxNr
    BY <1>2 DEF Places, Placed, WasRemoved, Ends, Tx
  <2>5. n # mem[s].nr
    <3>1. SUFFICES ASSUME r = s PROVE FALSE
      BY <2>3, <2>4 DEF InJournal, HasFile
    <3>2. IsGood(mem[s])
      BY <1>2, <2>2, <3>1, ToBeKept DEF MemSound
    <3>3. QED
      BY <1>3, <3>2 DEF IsRolledBack, IsGood
  <2>6. HasFile(r, n)'
    BY <1>4, <2>3, <2>5 DEF HasFile
  <2>7. /\ Ahead(n) \in Nat /\ Ahead(mem[s].nr) \in Nat /\ Ahead(txNrFront) \in Nat
        /\ Ahead(n) # Ahead(mem[s].nr)
    BY <2>4, <2>5, AheadType, MinusInjective DEF Ahead, TypeOK
  <2>8. Ahead(n) < Ahead(mem[s].nr) /\ txNrFront # txNrEnd
    BY <2>3, <2>4, <2>7 DEF InQueue
  <2>9. Ahead(n)' = Ahead(n) /\ Ahead(txNrEnd)' = Ahead(mem[s].nr) /\ Ahead(txNrFront)' = Ahead(txNrFront)
    BY <1>3, <2>1, <2>8 DEF Ahead
  <2>10. QED
    BY <2>3, <2>6, <2>8, <2>9 DEF InQueue
<1>8. QED
  BY <1>1, <1>5, <1>6, <1>7

\* After a reboot.
LEMMA RebootStep ==
    ASSUME IInv, Reboot
    PROVE  IInv'
<1> USE DEF IInv, Journal, Knowledge
<1>1. /\ Journal' /\ {txNrBegin, txNrFront, txNrEnd}' \subseteq TxNr
      /\ flash' = flash /\ \A n \in TxNr : flash[n] # None => InQueue(n)'
      /\ Referenced' = {transaction'} \ {None} /\ mem' \in [Session -> Tx]
      /\ transaction' # None => transaction' \in Session /\ \E n \in TxNr : flash[n] # None
            /\ transaction' = flash[n].session /\ mem'[transaction'] = flash[n].tx
      /\ sendReqFront' = None /\ authQueue' = <<>>
  <2>1. Bootable(flash) /\ BootFrom(flash)
    BY FlashBootable DEF Reboot
  <2>2. QED
    BY <2>1, JournalBoot
<1>2. /\ transactionFront' = None /\ connected' = FALSE /\ exchange' = "idle" /\ late' = FALSE
      /\ bootNr' = bootNr + 1 /\ clockSet' = FALSE /\ bootNr <= MaxReboot
      /\ UNCHANGED <<nextSession, history>>
  BY DEF Reboot, BootFrom
<1>3. TypeOK'
  <2>1. bootNr' \in 1..(MaxReboot + 1)
    BY <1>2, ConstantsAssumption DEF TypeOK
  <2>2. transaction' \in Session \cup {None} /\ transactionFront' \in Session \cup {None}
    BY <1>1, <1>2
  <2>3. authQueue' \in Seq(Session) /\ Len(authQueue') <= CacheSize
    BY <1>1, ConstantsAssumption
  <2>4. sendReqFront' \in Request \cup {None}
    BY <1>1
  <2>5. QED
    BY <1>1, <1>2, <2>1, <2>2, <2>3, <2>4 DEF TypeOK, history
<1>4. MemSound' /\ FlashSound'
  <2>1. FlashSound'
    BY <1>1, <1>2 DEF FlashSound, Sound, Knows, history
  <2>2. MemSound'
    BY <1>1, <1>2 DEF FlashSound, MemSound, Sound, Knows, history
  <2>3. QED
    BY <2>1, <2>2
<1>5. FreshOnes' /\ ServerKnows' /\ InFlight'
  BY <1>1, <1>2 DEF FreshOnes, ServerKnows, InFlight, history
<1>6. Unlost'
  BY <1>1, <1>2 DEF Unlost, Reported, HasFile, history
<1>7. QED
  BY <1>1, <1>3, <1>4, <1>5, <1>6

-----------------------------------------------------------------------------
(* A session begins.                                                         *)

\* The transaction that a session begins with.
Fresh(t) ==
    /\ t.silent = Silent /\ t.active
    /\ t.start = "no" /\ t.startTry = 0 /\ t.stop = "no" /\ t.stopTry = 0

LEMMA FreshIs ==
    ASSUME newEnd \in TxNr
    PROVE  /\ NewTx(newEnd, Silent) \in Tx /\ NewTx(newEnd, Silent).nr = newEnd
           /\ Fresh(NewTx(newEnd, Silent))
           /\ \A a \in BOOLEAN : Begun(a) \in Tx /\ Begun(a).nr = newEnd /\ Fresh(Begun(a))
<1>1. Silent \in BOOLEAN /\ FALSE \in BOOLEAN /\ TRUE \in BOOLEAN
  BY DEF Silent
<1>2. PICK b \in BOOLEAN, e \in TxNr : b = Silent /\ e = newEnd
  BY <1>1
<1>3. 0 \in 0 .. MaxAttempts /\ 0 \in 0 .. MaxReboot + 1
  BY ConstantsAssumption
<1>4. NewTx(e, b) \in Tx /\ NewTx(e, b).nr = e /\ NewTx(e, b).active = TRUE /\ NewTx(e, b).silent = b
      /\ NewTx(e, b).start = "no" /\ NewTx(e, b).startTry = 0
      /\ NewTx(e, b).stop = "no" /\ NewTx(e, b).stopTry = 0
  BY <1>3 DEF NewTx, Tx
<1>5. ASSUME NEW a \in BOOLEAN
      PROVE  /\ Begun(a) \in Tx /\ Begun(a).nr = e /\ Begun(a).active = TRUE /\ Begun(a).silent = b
             /\ Begun(a).start = "no" /\ Begun(a).startTry = 0
             /\ Begun(a).stop = "no" /\ Begun(a).stopTry = 0
  <2>1. Begun(a) = [NewTx(e, b) EXCEPT !.begun = TRUE, !.authorized = a]
    BY <1>2 DEF Begun
  <2>2. QED
    BY <1>3, <2>1 DEF NewTx, Tx
<1>6. QED
  BY <1>2, <1>4, <1>5 DEF Fresh

\* The next session is the newest one, and nothing is known of it yet.
LEMMA NextSessionIs ==
    ASSUME TypeOK, MemSound, FlashSound, FreshOnes, CanBegin,
           nextSession' = nextSession + 1,
           waived' = IF Silent THEN waived \cup {nextSession} ELSE waived,
           UNCHANGED <<charged, confirmed, sends>>
    PROVE  /\ Older /\ nextSession \in Nat /\ nextSession # 0
           /\ nextSession' \in 1 .. MaxSession + 1 /\ waived' \subseteq Session
           /\ \A r \in Session : r # nextSession => SameHistory(r)
           /\ \A t \in Tx : Fresh(t) => SoundNext(nextSession, t)
<1>1. nextSession \in Session /\ nextSession \in Nat /\ nextSession # 0
      /\ nextSession' \in 1 .. MaxSession + 1 /\ Session \subseteq Nat
  BY ConstantsAssumption DEF TypeOK, CanBegin, Session
<1>2. Older
  BY <1>1 DEF Older, MemSound, FlashSound, Sound, Knows
<1>3. waived' \subseteq Session
  BY <1>1 DEF TypeOK
<1>4. \A r \in Session : r # nextSession => SameHistory(r)
  BY DEF SameHistory
<1>5. /\ nextSession \notin charged /\ nextSession \notin waived
      /\ sends[StartTx(nextSession)] = 0 /\ sends[StopTx(nextSession)] = 0
      /\ StartTx(nextSession) \notin confirmed /\ StopTx(nextSession) \notin confirmed
  BY <1>1 DEF FreshOnes
<1>6. ASSUME NEW t \in Tx, Fresh(t) PROVE SoundNext(nextSession, t)
  BY <1>1, <1>5, <1>6 DEF SoundNext, Knows, Fresh, isCompleted
<1>7. QED
  BY <1>1, <1>2, <1>3, <1>4, <1>6

\* While a session begins, the transaction h may be committed.
LEMMA BeginStep ==
    ASSUME IInv, CanBegin, ~BeginEarly, Allocate,
           NEW e, e = newEnd, NEW q, q = nextSession,
           NEW t \in Tx, t.nr = e, Fresh(t), NEW h \in Referenced \cup {None},
           mem' \in [Session -> Tx], flash' \in [TxNr -> File \cup {None}],
           mem'[q] = t, flash'[e] # None, flash'[e].session = q, flash'[e].tx = t,
           \A s \in Referenced : s # h =>
              mem'[s] = mem[s] /\ flash'[mem[s].nr] = Cleared[mem[s].nr],
           h # None =>
              /\ mem'[h].nr = mem[h].nr /\ SameProgress(mem[h], mem'[h])
              /\ isAborted(mem[h]) => isAborted(mem'[h])
              /\ flash'[mem[h].nr] # None /\ flash'[mem[h].nr].session = h
              /\ flash'[mem[h].nr].tx = mem'[h],
           \A n \in TxNr : n # e /\ (\A s \in Referenced : mem[s].nr # n) => flash'[n] = Cleared[n],
           transaction' = q, nextSession' = nextSession + 1,
           Referenced' \subseteq Referenced \cup {q},
           authQueue' \in Seq(Session), Len(authQueue') <= CacheSize,
           UNCHANGED <<transactionFront, sendReqFront, netVars, bootNr, clockSet, charged,
                       received, confirmed, sends>>
    PROVE  IInv'
<1>1. waived' = IF Silent THEN waived \cup {nextSession} ELSE waived
  BY DEF Allocate
<1>2. /\ Older /\ q \in Nat /\ q # 0 /\ q \in Session
      /\ nextSession' \in 1 .. MaxSession + 1 /\ waived' \subseteq Session
      /\ \A r \in Session : r # q => SameHistory(r)
      /\ SoundNext(q, t)
  BY <1>1, NextSessionIs DEF Older, IInv, Knowledge
<1>3. /\ Referenced \subseteq Session /\ None \notin Session
      /\ \A s \in Session : mem[s] \in Tx /\ mem'[s] \in Tx
      /\ \A s \in Referenced : s # q
  BY <1>2, ReferencedIs, CopyTypes DEF Older, IInv
<1>4. \A s \in Referenced : Carried(s)
  <2>1. ASSUME NEW s \in Referenced, s = h PROVE Carried(s)
    BY <1>3, <2>1 DEF Carried, Evolves, SameProgress, isCompleted
  <2>2. QED
    BY <2>1 DEF Carried
<1>5. /\ Journal' /\ {txNrBegin, txNrFront, txNrEnd}' \subseteq TxNr
      /\ \A n \in TxNr : flash[n] # None /\ ~Collectable(flash[n].tx) /\ InQueue(n) =>
            InQueue(n)' /\ flash'[n] # None /\ flash'[n].session = flash[n].session
  <2>1. ~isAborted(t) /\ t.silent = Silent
    BY DEF Fresh, isAborted
  <2>2. TypeOK /\ Journal /\ transactionFront' = transactionFront /\ nextSession = q
    BY DEF IInv
  <2>3. mem'[nextSession] = t /\ flash'[e].session = nextSession /\ transaction' = nextSession
        /\ Referenced' \subseteq Referenced \cup {nextSession}
    OBVIOUS
  <2>4. QED
    BY <1>2, <1>4, <2>1, <2>2, <2>3, JournalBegin
<1> USE DEF IInv, Journal, Knowledge
<1>6. TypeOK'
  BY <1>2, <1>5 DEF TypeOK, netVars
<1>7. ASSUME NEW s \in Referenced PROVE SameProgress(mem[s], mem'[s])
  <2>1. CASE s = h
    BY <1>3, <2>1
  <2>2. CASE s # h
    BY <2>2 DEF SameProgress
  <2>3. QED
    BY <2>1, <2>2
<1>8. h # None => /\ h \in Session /\ mem[h].nr \in TxNr /\ mem'[h] \in Tx
                  /\ SoundNext(h, mem'[h]) /\ SameHistory(h)
  <2>1. SUFFICES ASSUME h # None
                 PROVE  /\ h \in Session /\ mem[h].nr \in TxNr /\ mem'[h] \in Tx
                        /\ SoundNext(h, mem'[h]) /\ SameHistory(h)
    OBVIOUS
  <2>2. h \in Referenced /\ h \in Session /\ mem[h] \in Tx /\ mem'[h] \in Tx /\ SameHistory(h)
    BY <1>2, <1>3, <2>1
  <2>3. Sound(h, mem[h])
    BY <2>2 DEF MemSound
  <2>4. Sound(h, mem'[h])
    BY <2>1, <2>3 DEF Sound, Knows, SameProgress, IsGivenUp, isCompleted
  <2>5. nextSession' >= nextSession /\ nextSession' \in Nat
    BY <1>2
  <2>6. QED
    BY <2>2, <2>4, <2>5, SoundKept DEF Tx
<1>9. \A n \in TxNr : flash'[n] # None =>
         \/ n = e \/ flash'[n] = flash[n]
         \/ h # None /\ n = mem[h].nr /\ flash'[n].session = h /\ flash'[n].tx = mem'[h]
  <2>1. \A n \in TxNr : Cleared[n] # None => Cleared[n] = flash[n]
    BY ClearedIs
  <2>2. SUFFICES ASSUME NEW n \in TxNr, flash'[n] # None, n # e
                 PROVE  \/ flash'[n] = flash[n]
                        \/ h # None /\ n = mem[h].nr /\ flash'[n].session = h /\ flash'[n].tx = mem'[h]
    OBVIOUS
  <2>3. CASE \A s \in Referenced : mem[s].nr # n
    BY <2>1, <2>2, <2>3
  <2>4. CASE \E s \in Referenced : s # h /\ mem[s].nr = n
    BY <2>1, <2>2, <2>4
  <2>5. CASE h \in Referenced /\ mem[h].nr = n
    BY <1>3, <2>5
  <2>6. QED
    BY <2>3, <2>4, <2>5
<1>10. MemSound' /\ FlashSound'
  <2>1. PICK C : C = {q} \cup {h}
    OBVIOUS
  <2>2. nextSession' >= nextSession /\ nextSession' \in Nat
    BY <1>2
  <2>3. \A r \in Session : r \notin C => SameHistory(r)
    BY <1>2, <2>1
  <2>4. \A r \in Referenced' : r \notin C => r \in Referenced /\ mem'[r] = mem[r]
    BY <2>1
  <2>5. \A n \in TxNr : flash'[n] # None => flash'[n].session \in C \/ flash'[n] = flash[n]
    BY <1>9, <2>1
  <2>6. \A r \in Referenced' : r \in C => SoundNext(r, mem'[r])
    <3>1. None \notin Referenced'
      BY DEF Referenced
    <3>2. QED
      BY <1>2, <1>8, <2>1, <3>1
  <2>7. \A n \in TxNr : flash'[n] # None /\ flash'[n].session \in C =>
           SoundNext(flash'[n].session, flash'[n].tx)
    <3>1. SUFFICES ASSUME NEW n \in TxNr, flash'[n] # None, flash'[n].session \in C
                   PROVE  SoundNext(flash'[n].session, flash'[n].tx)
      OBVIOUS
    <3>2. CASE n = e
      BY <1>2, <3>2
    <3>3. CASE h # None /\ n = mem[h].nr /\ flash'[n].session = h /\ flash'[n].tx = mem'[h]
      BY <1>8, <3>3
    <3>4. CASE /\ n # e /\ flash'[n] = flash[n]
               /\ ~(h # None /\ n = mem[h].nr /\ flash'[n].session = h /\ flash'[n].tx = mem'[h])
      <4>1. flash[n] # None /\ flash[n].session \in Session /\ flash[n].session # q
        BY <1>2, <3>1, <3>4, CopyTypes DEF Older
      <4>2. flash[n].session = h /\ h # None
        BY <1>3, <2>1, <3>1, <3>4, <4>1
      <4>3. h \in Referenced /\ n = mem[h].nr
        <5>1. h \in Referenced
          BY <4>2
        <5>2. Placed(h)
          BY <5>1 DEF Places
        <5>3. QED
          BY <4>1, <4>2, <5>1, <5>2 DEF Placed, HasFile
      <4>4. QED
        BY <3>4, <4>2, <4>3
    <3>5. QED
      BY <1>9, <3>1, <3>2, <3>3, <3>4
  <2>8. QED
    BY <2>2, <2>3, <2>4, <2>5, <2>6, <2>7, Copies
<1>11. FreshOnes'
  <2>1. \A s \in Session : s >= nextSession' => SameHistory(s)
    <3>1. SUFFICES ASSUME NEW s \in Session, s >= nextSession' PROVE s # q
      BY <1>2
    <3>2. QED
      BY <1>2, <3>1, CopyTypes
  <2>2. nextSession' >= nextSession /\ nextSession' \in Nat /\ received' = received
    BY <1>2
  <2>3. QED
    BY <2>1, <2>2, FreshKept
<1>12. Unlost'
  <2>1. SUFFICES ASSUME NEW r \in charged' \ waived', ~Reported(r)'
                 PROVE  \E n \in TxNr : HasFile(r, n)' /\ InQueue(n)'
    BY DEF Unlost
  <2>2. r \in charged \ waived /\ ~Reported(r) /\ r \in Session
    BY <1>1, <2>1 DEF Reported, TypeOK
  <2>3. PICK n \in TxNr : HasFile(r, n) /\ InQueue(n)
    BY <2>2 DEF Unlost
  <2>4. flash[n] # None /\ flash[n].session = r /\ Sound(r, flash[n].tx) /\ flash[n].tx \in Tx
    BY <2>3, CopyTypes DEF HasFile, FlashSound
  <2>5. ~Collectable(flash[n].tx)
    BY <2>2, <2>4, ToBeKept
  <2>6. QED
    BY <1>5, <2>3, <2>4, <2>5 DEF HasFile
<1>13. ServerKnows'
  BY DEF ServerKnows
<1>14. InFlight'
  <2>1. sendReqFront' = sendReqFront /\ exchange' = exchange /\ charged' = charged
        /\ received' = received
    BY DEF netVars
  <2>2. SUFFICES ASSUME sendReqFront # None PROVE InFlight'
    BY <2>1 DEF InFlight
  <2>3. PICK s \in Session : /\ s = sendReqFront.session /\ s \in Referenced
                             /\ SameProgress(mem[s], mem'[s])
    BY <1>3, <1>7, <2>2, HeldIs
  <2>4. /\ waived \subseteq waived' /\ (s \in waived' <=> s \in waived)
    BY <1>1, <1>3, <2>3
  <2>5. QED
    BY <2>1, <2>2, <2>3, <2>4 DEF InFlight, SameProgress
<1>15. QED
  BY <1>5, <1>6, <1>10, <1>11, <1>12, <1>13, <1>14

\* The files when the transaction t has been committed with the number of newEnd, and
\* the object and the file that belong to each other before and after.
LEMMA BegunIs ==
    ASSUME IInv, CanBegin, ~BeginEarly, NEW t \in Tx, t.nr = newEnd
    PROVE  LET m == [Objects EXCEPT ![nextSession] = t]
               f == Write(Cleared, nextSession, t)
           IN  /\ m \in [Session -> Tx] /\ m[nextSession] = t
               /\ \A s \in Referenced : m[s] = mem[s] /\ s # nextSession
               /\ f \in [TxNr -> File \cup {None}] /\ newEnd \in TxNr
               /\ f[newEnd] # None /\ f[newEnd].session = nextSession /\ f[newEnd].tx = t
               /\ \A n \in TxNr : n # newEnd => f[n] = Cleared[n]
               /\ \A s \in Referenced : mem[s].nr \in TxNr /\ mem[s].nr # newEnd
<1> USE DEF IInv, Journal, Knowledge
<1>0. PICK e, q, m, f : /\ e = newEnd /\ q = nextSession /\ m = [Objects EXCEPT ![q] = t]
                        /\ f = Write(Cleared, q, t) /\ t.nr = e
  OBVIOUS
<1>1. q \in Session /\ \A s \in Referenced : s \in Session /\ s # q /\ mem[s] \in Tx
  <2>1. q \in Session
    BY <1>0, ConstantsAssumption DEF CanBegin, TypeOK, Session
  <2>2. \A s \in Referenced : s < q
    BY <1>0 DEF MemSound, Sound, Knows
  <2>3. q \in Nat /\ Referenced \subseteq Session
    BY <2>1, ReferencedIs, CopyTypes
  <2>4. QED
    BY <2>1, <2>2, <2>3, CopyTypes
<1>2. NewTx(0, FALSE) \in Tx
  BY ConstantsAssumption DEF NewTx, Tx, TxNr
<1>3. Objects \in [Session -> Tx] /\ \A s \in Referenced : Objects[s] = mem[s]
  BY <1>1, <1>2, CopyTypes DEF Objects
<1>4. e \in TxNr /\ \A s \in Referenced : Ahead(mem[s].nr) < Ahead(e) /\ mem[s].nr \in TxNr
  BY <1>0, <1>1, Trimming DEF Tx
<1>5. \A s \in Referenced : mem[s].nr # e
  <2>1. Ahead(e) \in Nat
    BY <1>4, AheadType
  <2>2. QED
    BY <1>4, <2>1
<1>6. Cleared \in [TxNr -> File \cup {None}]
  BY ClearedIs
<1>7. f = [Cleared EXCEPT ![e] = [session |-> q, tx |-> t]]
  BY <1>0 DEF Write
<1>8. [session |-> q, tx |-> t] \in File /\ [session |-> q, tx |-> t] # None
  BY <1>1, NoneAssumption DEF File
<1>9. f \in [TxNr -> File \cup {None}] /\ f[e] = [session |-> q, tx |-> t]
      /\ \A n \in TxNr : n # e => f[n] = Cleared[n]
  BY <1>4, <1>6, <1>7, <1>8
<1>10. f[e] # None /\ f[e].session = q /\ f[e].tx = t
  BY <1>8, <1>9
<1>11. m \in [Session -> Tx] /\ m[q] = t /\ \A s \in Referenced : m[s] = mem[s] /\ s # q
  BY <1>0, <1>1, <1>3
<1>12. QED
  BY <1>0, <1>4, <1>5, <1>9, <1>10, <1>11

\* beginTransaction_authorized().
LEMMA BeginAuthorizedStep ==
    ASSUME IInv, ~BeginEarly, beginTransaction_authorized
    PROVE  IInv'
<1>1. CanBegin /\ Allocate /\ TypeOK /\ Journal
  BY DEF beginTransaction_authorized, IInv
<1>2. PICK e, q : e = newEnd /\ q = nextSession
  OBVIOUS
<1>2a. PICK p \in BOOLEAN : p = TRUE
  OBVIOUS
<1>3. PICK t \in Tx : t = Begun(p) /\ t.nr = e /\ Fresh(t)
  BY <1>1, <1>2, Trimming, FreshIs
<1>4. PICK m, f : m = [Objects EXCEPT ![q] = t] /\ f = Write(Cleared, q, t)
  OBVIOUS
<1>4a. /\ m \in [Session -> Tx] /\ m[q] = t
       /\ \A s \in Referenced : m[s] = mem[s] /\ s # q
       /\ f \in [TxNr -> File \cup {None}] /\ e \in TxNr
       /\ f[e] # None /\ f[e].session = q /\ f[e].tx = t
       /\ \A n \in TxNr : n # e => f[n] = Cleared[n]
       /\ \A s \in Referenced : mem[s].nr \in TxNr /\ mem[s].nr # e
  BY <1>1, <1>2, <1>3, <1>4, BegunIs
<1>5. /\ mem' \in [Session -> Tx] /\ mem'[q] = t
      /\ \A s \in Referenced : mem'[s] = mem[s] /\ s # q
      /\ flash' \in [TxNr -> File \cup {None}] /\ e \in TxNr
      /\ flash'[e] # None /\ flash'[e].session = q /\ flash'[e].tx = t
      /\ \A n \in TxNr : n # e => flash'[n] = Cleared[n]
      /\ \A s \in Referenced : mem[s].nr \in TxNr /\ mem[s].nr # e
  <2>1. mem' = m /\ flash' = f
    BY <1>2, <1>2a, <1>3, <1>4 DEF beginTransaction_authorized
  <2>2. QED
    BY <1>4a, <2>1
<1>6. /\ transaction' = q /\ nextSession' = nextSession + 1
      /\ UNCHANGED <<transactionFront, sendReqFront, netVars, bootNr, clockSet, charged,
                     received, confirmed, sends>>
  BY <1>2 DEF beginTransaction_authorized, rpcVars
<1>7. Referenced' \subseteq Referenced \cup {q}
  BY <1>6 DEF Referenced, beginTransaction_authorized, rpcVars
<1>8. authQueue' \in Seq(Session) /\ Len(authQueue') <= CacheSize
  BY <1>1 DEF TypeOK, beginTransaction_authorized, rpcVars
<1>9. PICK h \in Referenced \cup {None} : h = None
  OBVIOUS
<1>10. \A s \in Referenced : s # h => mem'[s] = mem[s] /\ flash'[mem[s].nr] = Cleared[mem[s].nr]
  BY <1>5
<1>11. /\ mem' \in [Session -> Tx] /\ mem'[q] = t /\ flash' \in [TxNr -> File \cup {None}]
       /\ flash'[e] # None /\ flash'[e].session = q /\ flash'[e].tx = t
       /\ \A n \in TxNr : n # e => flash'[n] = Cleared[n]
  BY <1>5
<1>12. QED
  BY <1>1, <1>2, <1>3, <1>6, <1>7, <1>8, <1>9, <1>10, <1>11, BeginStep

\* beginTransaction().
LEMMA BeginTransactionStep ==
    ASSUME IInv, ~BeginEarly, beginTransaction
    PROVE  IInv'
<1>1. CanBegin /\ Allocate /\ TypeOK /\ Journal
  BY DEF beginTransaction, IInv
<1>2. PICK e, q : e = newEnd /\ q = nextSession
  OBVIOUS
<1>3. PICK p \in BOOLEAN :
         LET t == Begun(p)
             m == [Objects EXCEPT ![q] = t]
             f == Write(Cleared, q, t)
         IN  IF Len(authQueue) < CacheSize
             THEN mem' = m /\ flash' = f /\ authQueue' = Append(authQueue, q)
             ELSE \E u \in Offline(mem[Head(authQueue)]) :
                     /\ mem' = [m EXCEPT ![Head(authQueue)] = u]
                     /\ flash' = Write(f, Head(authQueue), u)
                     /\ authQueue' = Append(Tail(authQueue), q)
  BY <1>2 DEF beginTransaction
<1>4. PICK t \in Tx : t = Begun(p) /\ t.nr = e /\ Fresh(t)
  BY <1>1, <1>2, Trimming, FreshIs
<1>5. PICK m, f : m = [Objects EXCEPT ![q] = t] /\ f = Write(Cleared, q, t)
  OBVIOUS
<1>6. /\ m \in [Session -> Tx] /\ m[q] = t
      /\ \A s \in Referenced : m[s] = mem[s] /\ s # q
      /\ f \in [TxNr -> File \cup {None}] /\ e \in TxNr
      /\ f[e] # None /\ f[e].session = q /\ f[e].tx = t
      /\ \A n \in TxNr : n # e => f[n] = Cleared[n]
      /\ \A s \in Referenced : mem[s].nr \in TxNr /\ mem[s].nr # e
  BY <1>1, <1>2, <1>4, <1>5, BegunIs
<1>7. /\ transaction' = q /\ nextSession' = nextSession + 1
      /\ UNCHANGED <<transactionFront, sendReqFront, netVars, bootNr, clockSet, charged,
                     received, confirmed, sends>>
  BY <1>2 DEF beginTransaction
<1>8. q \in Session /\ authQueue \in Seq(Session) /\ Len(authQueue) <= CacheSize
  BY <1>1, <1>2, ConstantsAssumption DEF CanBegin, TypeOK, Session
<1>9. CASE Len(authQueue) < CacheSize
  <2>1. mem' = m /\ flash' = f /\ authQueue' = Append(authQueue, q)
    BY <1>3, <1>4, <1>5, <1>9
  <2>2. authQueue' \in Seq(Session) /\ Len(authQueue') <= CacheSize
        /\ \A k \in DOMAIN authQueue' : authQueue'[k] = q \/ \E j \in DOMAIN authQueue : authQueue'[k] = authQueue[j]
    BY <1>8, <1>9, <2>1, ConstantsAssumption
  <2>3. Referenced' \subseteq Referenced \cup {q}
    BY <1>7, <2>2 DEF Referenced
  <2>4. PICK h \in Referenced \cup {None} : h = None
    OBVIOUS
  <2>5. \A s \in Referenced : s # h => mem'[s] = mem[s] /\ flash'[mem[s].nr] = Cleared[mem[s].nr]
    BY <1>6, <2>1
  <2>6. /\ mem' \in [Session -> Tx] /\ mem'[q] = t /\ flash' \in [TxNr -> File \cup {None}]
        /\ flash'[e] # None /\ flash'[e].session = q /\ flash'[e].tx = t
        /\ \A n \in TxNr : n # e => flash'[n] = Cleared[n]
    BY <1>6, <2>1
  <2>7. QED
    BY <1>1, <1>2, <1>4, <1>7, <2>2, <2>3, <2>4, <2>5, <2>6, BeginStep
<1>10. CASE ~(Len(authQueue) < CacheSize)
  <2>1. authQueue # <<>> /\ Len(authQueue) = CacheSize /\ 1 \in DOMAIN authQueue
        /\ Head(authQueue) = authQueue[1]
    BY <1>8, <1>10, ConstantsAssumption
  <2>2. PICK h : h = Head(authQueue)
    OBVIOUS
  <2>3. h \in Referenced /\ h \in Session /\ mem[h] \in Tx /\ h # q /\ m[h] = mem[h]
    BY <1>1, <1>6, <2>1, <2>2, HeldIs, CopyTypes
  <2>4. PICK u \in Offline(mem[h]) :
           /\ mem' = [m EXCEPT ![h] = u]
           /\ flash' = Write(f, h, u)
           /\ authQueue' = Append(Tail(authQueue), q)
    BY <1>3, <1>4, <1>5, <1>10, <2>2
  <2>5. u \in Tx /\ u.nr = mem[h].nr /\ SameProgress(mem[h], u) /\ (isAborted(mem[h]) => isAborted(u))
    BY <2>3, <2>4, OfflineIs
  <2>6. Tail(authQueue) \in Seq(Session) /\ Len(Tail(authQueue)) = Len(authQueue) - 1
        /\ \A k \in DOMAIN Tail(authQueue) : k + 1 \in DOMAIN authQueue /\ Tail(authQueue)[k] = authQueue[k + 1]
    BY <1>8, <2>1
  <2>7. authQueue' \in Seq(Session) /\ Len(authQueue') <= CacheSize
        /\ \A k \in DOMAIN authQueue' : authQueue'[k] = q \/ \E j \in DOMAIN authQueue : authQueue'[k] = authQueue[j]
    <3>1. PICK z \in Seq(Session) : z = Tail(authQueue)
      BY <2>6
    <3>2. authQueue' = Append(z, q) /\ Len(z) = Len(authQueue) - 1
      BY <2>4, <2>6, <3>1
    <3>3. \A k \in DOMAIN authQueue' : authQueue'[k] = q \/ (k \in DOMAIN z /\ authQueue'[k] = z[k])
      BY <1>8, <3>1, <3>2
    <3>4. QED
      BY <1>8, <2>1, <2>6, <3>1, <3>2, <3>3, ConstantsAssumption
  <2>8. Referenced' \subseteq Referenced \cup {q}
    BY <1>7, <2>7 DEF Referenced
  <2>9. mem' \in [Session -> Tx] /\ mem'[q] = t /\ mem'[h] = u
        /\ \A s \in Referenced : s # h => mem'[s] = mem[s]
    BY <1>6, <2>3, <2>4, <2>5
  <2>10. flash' = [f EXCEPT ![mem[h].nr] = [session |-> h, tx |-> u]]
    BY <2>4, <2>5 DEF Write
  <2>11. [session |-> h, tx |-> u] \in File /\ [session |-> h, tx |-> u] # None
    BY <2>3, <2>5, NoneAssumption DEF File
  <2>12. mem[h].nr \in TxNr /\ mem[h].nr # e
    BY <1>6, <2>3
  <2>13. /\ flash' \in [TxNr -> File \cup {None}]
         /\ flash'[mem[h].nr] = [session |-> h, tx |-> u]
         /\ \A n \in TxNr : n # mem[h].nr => flash'[n] = f[n]
    BY <1>6, <2>10, <2>11, <2>12
  <2>14. /\ flash'[mem[h].nr] # None /\ flash'[mem[h].nr].session = h /\ flash'[mem[h].nr].tx = mem'[h]
         /\ flash'[e] # None /\ flash'[e].session = q /\ flash'[e].tx = t
    BY <1>6, <2>9, <2>11, <2>12, <2>13
  <2>15. \A n \in TxNr : n # e /\ (\A s \in Referenced : mem[s].nr # n) => flash'[n] = Cleared[n]
    BY <1>6, <2>3, <2>13
  <2>16. \A s \in Referenced : s # h => mem'[s] = mem[s] /\ flash'[mem[s].nr] = Cleared[mem[s].nr]
    <3>1. \A s \in Referenced : s # h => mem[s].nr # mem[h].nr
      BY <1>1, <2>3 DEF Journal, Numbers
    <3>2. QED
      BY <1>6, <2>9, <2>13, <3>1
  <2>17. h \in Referenced \cup {None} /\ mem'[h].nr = mem[h].nr /\ SameProgress(mem[h], mem'[h])
         /\ (isAborted(mem[h]) => isAborted(mem'[h]))
    BY <2>3, <2>5, <2>9
  <2>18. QED
    BY <1>1, <1>2, <1>4, <1>7, <2>7, <2>8, <2>9, <2>13, <2>14, <2>15, <2>16, <2>17, BeginStep
<1>11. QED
  BY <1>9, <1>10

\* The power fails while the files for a new session are prepared.
LEMMA InterruptedStep ==
    ASSUME IInv, ~BeginEarly, BeginInterrupted
    PROVE  IInv'
<1> USE DEF IInv, Journal, Knowledge
<1>1. CanBegin /\ bootNr <= MaxReboot /\ nextSession' = nextSession + 1
      /\ waived' = (IF Silent THEN waived \cup {nextSession} ELSE waived)
      /\ UNCHANGED <<charged, received, confirmed, sends>>
  BY DEF BeginInterrupted
<1>2. PICK fs \in Interrupted : BootFrom(fs)
  BY DEF BeginInterrupted
<1>3. /\ Older /\ nextSession \in Nat /\ nextSession # 0
      /\ nextSession' \in 1 .. MaxSession + 1 /\ waived' \subseteq Session
      /\ \A r \in Session : r # nextSession => SameHistory(r)
      /\ \A t \in Tx : Fresh(t) => SoundNext(nextSession, t)
  BY <1>1, NextSessionIs
<1>4. PICK t \in Tx : t = NewTx(newEnd, Silent) /\ Fresh(t)
  BY <1>1, Trimming, FreshIs
<1>5. /\ Bootable(fs)
      /\ \A n \in TxNr : fs[n] # None =>
            fs[n] = flash[n] \/ fs[n] = [session |-> nextSession, tx |-> t]
      /\ \A n \in TxNr : flash[n] # None /\ ~Collectable(flash[n].tx) /\ InQueue(n) =>
            fs[n] = flash[n]
  BY <1>1, <1>2, <1>3, <1>4, BeginBootable
<1>6. /\ Journal' /\ {txNrBegin, txNrFront, txNrEnd}' \subseteq TxNr
      /\ flash' = fs /\ \A n \in TxNr : fs[n] # None => InQueue(n)'
      /\ Referenced' = {transaction'} \ {None} /\ mem' \in [Session -> Tx]
      /\ transaction' # None => \E n \in TxNr : fs[n] # None /\ transaction' = fs[n].session
            /\ transaction' \in Session /\ mem'[transaction'] = fs[n].tx
      /\ sendReqFront' = None /\ authQueue' = <<>>
  BY <1>2, <1>5, JournalBoot
<1>7. /\ transactionFront' = None /\ connected' = FALSE /\ exchange' = "idle" /\ late' = FALSE
      /\ bootNr' = bootNr + 1 /\ clockSet' = FALSE
  BY <1>2 DEF BootFrom
<1>8. TypeOK'
  <2>1. bootNr' \in 1 .. MaxReboot + 1
    BY <1>1, <1>7, ConstantsAssumption DEF TypeOK
  <2>2. flash' \in [TxNr -> File \cup {None}]
    BY <1>5, <1>6 DEF Bootable
  <2>3. transaction' \in Session \cup {None} /\ authQueue' \in Seq(Session) /\ Len(authQueue') <= CacheSize
    BY <1>6, ConstantsAssumption
  <2>4. QED
    BY <1>1, <1>3, <1>6, <1>7, <2>1, <2>2, <2>3 DEF TypeOK
<1>9. \A n \in TxNr : fs[n] # None => SoundNext(fs[n].session, fs[n].tx)
  <2>1. nextSession' >= nextSession /\ nextSession' \in Nat
    BY <1>1, <1>3
  <2>2. ASSUME NEW n \in TxNr, fs[n] # None, fs[n] = flash[n]
        PROVE  SoundNext(fs[n].session, fs[n].tx)
    <3>1. flash[n].session \in Session /\ flash[n].tx \in Tx /\ Sound(flash[n].session, flash[n].tx)
      BY <2>2, CopyTypes DEF FlashSound
    <3>2. flash[n].session # nextSession
      BY <1>3, <2>2, <3>1, CopyTypes DEF Older
    <3>3. QED
      BY <1>3, <2>1, <2>2, <3>1, <3>2, SoundKept
  <2>3. ASSUME NEW n \in TxNr, fs[n] = [session |-> nextSession, tx |-> t]
        PROVE  SoundNext(fs[n].session, fs[n].tx)
    BY <1>3, <1>4, <2>3
  <2>4. QED
    BY <1>5, <2>2, <2>3
<1>10. MemSound' /\ FlashSound'
  <2>1. FlashSound'
    BY <1>6, <1>9 DEF FlashSound, Sound, SoundNext
  <2>2. MemSound'
    BY <1>6, <1>9 DEF MemSound, Sound, SoundNext
  <2>3. QED
    BY <2>1, <2>2
<1>11. FreshOnes'
  <2>1. \A s \in Session : s >= nextSession' => SameHistory(s)
    <3>1. SUFFICES ASSUME NEW s \in Session, s >= nextSession' PROVE s # nextSession
      BY <1>3
    <3>2. QED
      BY <1>1, <1>3, <3>1, CopyTypes
  <2>2. nextSession' >= nextSession /\ nextSession' \in Nat /\ received' = received
    BY <1>1, <1>3
  <2>3. QED
    BY <2>1, <2>2, FreshKept
<1>12. Unlost'
  <2>1. SUFFICES ASSUME NEW r \in charged' \ waived', ~Reported(r)'
                 PROVE  \E n \in TxNr : HasFile(r, n)' /\ InQueue(n)'
    BY DEF Unlost
  <2>2. r \in charged \ waived /\ ~Reported(r) /\ r \in Session
    BY <1>1, <2>1 DEF Reported, TypeOK
  <2>3. PICK n \in TxNr : HasFile(r, n) /\ InQueue(n)
    BY <2>2 DEF Unlost
  <2>4. flash[n] # None /\ flash[n].session = r /\ Sound(r, flash[n].tx) /\ flash[n].tx \in Tx
    BY <2>3, CopyTypes DEF HasFile, FlashSound
  <2>5. ~Collectable(flash[n].tx)
    BY <2>2, <2>4, ToBeKept
  <2>6. fs[n] = flash[n]
    BY <1>5, <2>3, <2>4, <2>5
  <2>7. QED
    BY <1>6, <2>4, <2>6 DEF HasFile
<1>13. ServerKnows' /\ InFlight'
  BY <1>1, <1>6 DEF ServerKnows, InFlight
<1>14. QED
  BY <1>6, <1>8, <1>10, <1>11, <1>12, <1>13

-----------------------------------------------------------------------------
(* The send queue polls.                                                     *)

\* The transaction that it finds, and all that is reported before.
LEMMA PolledIs ==
    ASSUME IInv, NEW s, s = newFront, NEW t, t = newFrontTx, NEW n, n = FrontNr(Collected),
           s # None
    PROVE  /\ s \in Session /\ n \in TxNr /\ t \in Tx /\ t.nr = n /\ ~Collectable(t)
           /\ HasFile(s, n) /\ flash[n].tx \in Tx /\ Agree(t, flash[n].tx)
           /\ Sound(s, t) /\ Sound(s, flash[n].tx) /\ s # 0 /\ s < nextSession
           /\ \A r \in charged : r < s => r \in waived \/ StopTx(r) \in received
<1> USE DEF IInv, Journal, Knowledge
<1>1. /\ n \in TxNr /\ Ahead(n) = Ahead(txNrFront) + Collected /\ Ahead(n) <= Ahead(txNrEnd)
      /\ s \in Session /\ t \in Tx /\ t.nr = n /\ ~Collectable(t)
      /\ HasFile(s, n) /\ Agree(t, flash[n].tx)
      /\ s \in Referenced => t = mem[s]
      /\ s \notin Referenced => t = flash[n].tx
  BY NewFrontIs
<1>2. flash[n].tx \in Tx /\ Sound(s, flash[n].tx) /\ flash[n] # None /\ flash[n].session = s
  BY <1>1, CopyTypes DEF HasFile, FlashSound
<1>3. Sound(s, t)
  BY <1>1, <1>2 DEF MemSound
<1>4. s # 0 /\ s < nextSession
  BY <1>1, <1>3 DEF Sound, Knows, Collectable
<1>5. ASSUME NEW r \in charged, r < s, r \notin waived, StopTx(r) \notin received PROVE FALSE
  <2>1. r \in charged \ waived /\ ~Reported(r) /\ r \in Session
    BY <1>5 DEF ServerKnows, Reported, StopTx, TypeOK
  <2>2. PICK k \in TxNr : HasFile(r, k) /\ InQueue(k)
    BY <2>1 DEF Unlost
  <2>3. flash[k] # None /\ flash[k].session = r /\ flash[k].tx \in Tx /\ Sound(r, flash[k].tx)
    BY <2>2, CopyTypes DEF HasFile, FlashSound
  <2>4. IsGood(flash[k].tx) /\ ~Collectable(flash[k].tx)
    BY <2>1, <2>3, ToBeKept
  <2>5. r \in Referenced => ~Collectable(mem[r])
    BY <2>1, CopyTypes, ToBeKept DEF MemSound
  <2>6. ~(Ahead(k) < Ahead(txNrFront) + Collected)
    BY <2>1, <2>2, <2>4, <2>5, PassedIs
  <2>7. GoodFile(n) /\ GoodFile(k)
    BY <1>1, <1>2, <2>3, <2>4 DEF GoodFile, IsGood, Agree, Collectable, isAborted
  <2>8. Ahead(n) \in Nat /\ Ahead(k) \in Nat /\ s \in Nat /\ r \in Nat
    BY <1>1, <2>1, AheadType, CopyTypes
  <2>9. Ahead(n) < Ahead(k) \/ n = k
    BY <1>1, <2>6, <2>8, MinusInjective DEF Ahead, TypeOK
  <2>10. CASE Ahead(n) < Ahead(k)
    BY <1>1, <1>2, <1>5, <2>3, <2>7, <2>8, <2>10 DEF Ordered
  <2>11. CASE n = k
    BY <1>2, <1>5, <2>3, <2>8, <2>11
  <2>12. QED
    BY <2>9, <2>10, <2>11
<1>6. QED
  BY <1>1, <1>2, <1>3, <1>4, <1>5

\* What a poll does to the transaction s that it finds, and to nothing else.
LEMMA PollCommits ==
    ASSUME IInv, getFrontRequestOpNr,
           UNCHANGED <<nextSession, charged, received, confirmed>>,
           NEW s, s = newFront, NEW n, n = FrontNr(Collected),
           s = None => mem' = mem /\ flash' = flash,
           s # None =>
              /\ mem'[s].nr = n /\ \A r \in Session : r # s => mem'[r] = mem[r]
              /\ flash'[n] # None /\ flash'[n].session = s
              /\ \A m \in TxNr : m # n => flash'[m] = flash[m]
              /\ Agree(mem'[s], flash'[n].tx)
              /\ flash[n].tx.silent => flash'[n].tx.silent
              /\ IsGood(flash'[n].tx) => IsGood(flash[n].tx),
           s # None => SoundNext(s, mem'[s]) /\ SoundNext(s, flash'[n].tx),
           \A r \in Session : r # s => SameHistory(r),
           waived \subseteq waived',
           Referenced' \subseteq Referenced \cup {s}
    PROVE  Journal' /\ txNrFront' \in TxNr /\ FreshOnes' /\ MemSound' /\ FlashSound' /\ Unlost'
           /\ ServerKnows'
<1>1. /\ TypeOK /\ Journal /\ MemSound /\ FlashSound /\ FreshOnes /\ Unlost /\ ServerKnows
      /\ Numbers
  BY DEF IInv, Knowledge, Journal
<1>2. Journal' /\ txNrFront' \in TxNr
      /\ \A m \in TxNr : InQueue(m) /\ Ahead(txNrFront) + Collected <= Ahead(m) => InQueue(m)'
  BY <1>1, JournalPoll
<1>3. s # None => s \in Session /\ n \in TxNr /\ HasFile(s, n) /\ s < nextSession
  BY PolledIs
<1>4. None \notin Session /\ nextSession \in Nat /\ Session \subseteq Nat
      /\ nextSession' >= nextSession /\ nextSession' \in Nat
  BY <1>1, ReferencedIs, CopyTypes DEF TypeOK
<1>5. FreshOnes'
  <2>1. \A r \in Session : r >= nextSession' => SameHistory(r)
    BY <1>3, <1>4
  <2>2. QED
    BY <1>1, <1>4, <2>1, FreshKept
<1>6. MemSound' /\ FlashSound'
  <2>1. PICK C : C = {s}
    OBVIOUS
  <2>2. \A r \in Session : r \notin C => SameHistory(r)
    BY <2>1
  <2>3. \A r \in Referenced' : r \notin C => r \in Referenced /\ mem'[r] = mem[r]
    BY <1>1, <2>1, ReferencedIs
  <2>4. \A m \in TxNr : flash'[m] # None => flash'[m].session \in C \/ flash'[m] = flash[m]
    BY <2>1
  <2>5. \A r \in Referenced' : r \in C => SoundNext(r, mem'[r])
    BY <2>1 DEF Referenced
  <2>6. \A m \in TxNr : flash'[m] # None /\ flash'[m].session \in C =>
           SoundNext(flash'[m].session, flash'[m].tx)
    <3>1. SUFFICES ASSUME NEW m \in TxNr, flash'[m] # None, flash'[m].session = s
                   PROVE  SoundNext(flash'[m].session, flash'[m].tx)
      BY <2>1
    <3>2. CASE s = None
      <4>1. flash[m] # None /\ flash[m].session = None
        BY <3>1, <3>2
      <4>2. QED
        BY <1>1, <1>4, <4>1, CopyTypes
    <3>3. CASE s # None
      <4>1. m = n
        BY <1>1, <1>3, <3>1, <3>3 DEF Numbers, HasFile
      <4>2. QED
        BY <3>1, <3>3, <4>1
    <3>4. QED
      BY <3>2, <3>3
  <2>7. QED
    BY <1>1, <1>4, <2>2, <2>3, <2>4, <2>5, <2>6, Copies
<1>7. Unlost'
  <2>1. SUFFICES ASSUME NEW r \in charged' \ waived', ~Reported(r)'
                 PROVE  \E k \in TxNr : HasFile(r, k)' /\ InQueue(k)'
    BY DEF Unlost
  <2>2. r \in charged \ waived /\ ~Reported(r) /\ r \in Session
    BY <1>1, <2>1 DEF Reported, TypeOK
  <2>3. PICK k \in TxNr : HasFile(r, k) /\ InQueue(k)
    BY <1>1, <2>2 DEF Unlost
  <2>4. flash[k].tx \in Tx /\ Sound(r, flash[k].tx)
    BY <1>1, <2>3, CopyTypes DEF HasFile, FlashSound
  <2>5. ~Collectable(flash[k].tx) /\ (r \in Referenced => ~Collectable(mem[r]))
    BY <1>1, <2>2, <2>4, CopyTypes, ToBeKept DEF MemSound
  <2>6. ~(Ahead(k) < Ahead(txNrFront) + Collected)
    BY <1>1, <2>2, <2>3, <2>5, PassedIs
  <2>7. /\ Ahead(k) \in Nat /\ Ahead(txNrFront) \in Nat /\ Collected \in Nat
    BY <1>1, AheadType, CollectedIs DEF TypeOK
  <2>8. InQueue(k)'
    BY <1>2, <2>3, <2>6, <2>7
  <2>9. HasFile(r, k)'
    <3>1. CASE s = None
      BY <2>3, <3>1 DEF HasFile
    <3>2. CASE s # None /\ k # n
      BY <2>3, <3>2 DEF HasFile
    <3>3. CASE s # None /\ k = n
      BY <1>3, <2>3, <3>3 DEF HasFile
    <3>4. QED
      BY <3>1, <3>2, <3>3
  <2>10. QED
    BY <2>8, <2>9
<1>8. ServerKnows'
  BY <1>1 DEF ServerKnows
<1>9. QED
  BY <1>2, <1>5, <1>6, <1>7, <1>8

\* What the send queue refers to after a poll.
LEMMA PollReferences ==
    ASSUME TypeOK, Polling, NEW s, s = newFront,
           \/ UNCHANGED <<authQueue, sendReqFront>>
           \/ UNCHANGED authQueue /\ sendReqFront'.session = s
           \/ authQueue # <<>> /\ authQueue' = Tail(authQueue)
                /\ sendReqFront'.session = Head(authQueue)
    PROVE  /\ Referenced' \subseteq Referenced \cup {s}
           /\ authQueue' \in Seq(Session) /\ Len(authQueue') <= CacheSize
<1>1. transaction' = transaction /\ transactionFront' = s /\ sendReqFront = None
  BY DEF Polling, getFrontRequestOpNr
<1>2. authQueue \in Seq(Session) /\ Len(authQueue) <= CacheSize
  BY DEF TypeOK
<1>3. CASE UNCHANGED <<authQueue, sendReqFront>>
  BY <1>1, <1>2, <1>3 DEF Referenced
<1>4. CASE UNCHANGED authQueue /\ sendReqFront'.session = s
  BY <1>1, <1>2, <1>4 DEF Referenced
<1>5. CASE authQueue # <<>> /\ authQueue' = Tail(authQueue)
           /\ sendReqFront'.session = Head(authQueue)
  <2>1. /\ 1 \in DOMAIN authQueue /\ Head(authQueue) = authQueue[1]
        /\ Tail(authQueue) \in Seq(Session) /\ Len(Tail(authQueue)) = Len(authQueue) - 1
        /\ \A k \in DOMAIN Tail(authQueue) :
              k + 1 \in DOMAIN authQueue /\ Tail(authQueue)[k] = authQueue[k + 1]
    BY <1>2, <1>5
  <2>2. \A k \in DOMAIN authQueue' : \E j \in DOMAIN authQueue : authQueue'[k] = authQueue[j]
    BY <1>5, <2>1
  <2>3. \E j \in DOMAIN authQueue : sendReqFront'.session = authQueue[j]
    BY <1>5, <2>1
  <2>4. Referenced' \subseteq Referenced \cup {s}
    BY <1>1, <2>2, <2>3 DEF Referenced
  <2>5. PICK z \in Seq(Session) : z = Tail(authQueue) /\ Len(z) = Len(authQueue) - 1
    BY <2>1
  <2>6. authQueue' = z
    BY <1>5, <2>5
  <2>7. Len(authQueue') <= CacheSize
    <3>1. PICK c \in Nat : c = Len(authQueue) /\ c <= CacheSize
      BY <1>2
    <3>2. Len(z) <= CacheSize
      BY <2>5, <3>1, ConstantsAssumption
    <3>3. QED
      BY <2>6, <3>2
  <2>8. QED
    BY <2>4, <2>5, <2>6, <2>7
<1>6. QED
  BY <1>3, <1>4, <1>5

\* The polls that change no transaction, though one may be loaded from its file.
LEMMA PollKeeps ==
    ASSUME IInv, Polling, KeepFront, UNCHANGED <<flash, waived>>,
           \A m \in TxMessage : sends'[m] = sends[m],
           \E s : s = newFront /\ Referenced' \subseteq Referenced \cup {s}
    PROVE  Journal' /\ txNrFront' \in TxNr /\ FreshOnes' /\ MemSound' /\ FlashSound' /\ Unlost'
           /\ ServerKnows' /\ mem' \in [Session -> Tx]
<1>1. /\ getFrontRequestOpNr /\ UNCHANGED <<nextSession, charged, received, confirmed>>
      /\ TypeOK
  BY DEF Polling, envVars, IInv
<1>2. PICK s, t, n : s = newFront /\ t = newFrontTx /\ n = FrontNr(Collected)
  OBVIOUS
<1>3. mem' = IF s = None THEN mem ELSE [mem EXCEPT ![s] = t]
  BY <1>2 DEF KeepFront
<1>4. \A r \in Session : SameHistory(r)
  BY <1>1, MessagesAre DEF SameHistory
<1>5. nextSession' >= nextSession /\ nextSession' \in Nat
  BY <1>1, CopyTypes DEF TypeOK
<1>6. CASE s = None
  <2>1. mem' = mem /\ flash' = flash /\ waived \subseteq waived'
    BY <1>3, <1>6
  <2>2. QED
    BY <1>1, <1>2, <1>4, <1>6, <2>1, PollCommits DEF TypeOK
<1>7. CASE s # None
  <2>1. /\ s \in Session /\ n \in TxNr /\ t \in Tx /\ t.nr = n /\ ~Collectable(t)
        /\ HasFile(s, n) /\ flash[n].tx \in Tx /\ Agree(t, flash[n].tx)
        /\ Sound(s, t) /\ Sound(s, flash[n].tx)
    BY <1>2, <1>7, PolledIs
  <2>2. mem' \in [Session -> Tx] /\ mem'[s] = t /\ \A r \in Session : r # s => mem'[r] = mem[r]
    BY <1>1, <1>3, <1>7, <2>1 DEF TypeOK
  <2>3. flash' = flash /\ waived \subseteq waived'
    OBVIOUS
  <2>4. SoundNext(s, mem'[s]) /\ SoundNext(s, flash'[n].tx)
    BY <1>1, <1>4, <1>5, <2>1, <2>2, <2>3, SoundKept
  <2>5. /\ mem'[s].nr = n /\ Agree(mem'[s], flash'[n].tx)
        /\ flash'[n] # None /\ flash'[n].session = s
    BY <2>1, <2>2, <2>3 DEF HasFile
  <2>6. QED
    BY <1>1, <1>2, <1>4, <1>7, <2>2, <2>3, <2>4, <2>5, PollCommits
<1>8. QED
  BY <1>6, <1>7

\* The polls that commit u for the transaction that they find, with the object v.
LEMMA PollWrites ==
    ASSUME IInv, Polling, NEW s, s = newFront, NEW t, t = newFrontTx,
           NEW n, n = FrontNr(Collected), s # None,
           NEW u \in Tx, NEW v \in Tx, u.nr = n, v.nr = n, Agree(v, u),
           mem' = [mem EXCEPT ![s] = v], flash' = Write(flash, s, u),
           SoundNext(s, u), SoundNext(s, v),
           \A r \in Session : r # s => SameHistory(r),
           waived \subseteq waived',
           Referenced' \subseteq Referenced \cup {s}
    PROVE  Journal' /\ txNrFront' \in TxNr /\ FreshOnes' /\ MemSound' /\ FlashSound' /\ Unlost'
           /\ ServerKnows' /\ mem' \in [Session -> Tx] /\ flash' \in [TxNr -> File \cup {None}]
<1>1. /\ getFrontRequestOpNr /\ UNCHANGED <<nextSession, charged, received, confirmed>>
      /\ TypeOK
  BY DEF Polling, envVars, IInv
<1>2. /\ s \in Session /\ n \in TxNr /\ t \in Tx /\ t.nr = n /\ ~Collectable(t)
      /\ HasFile(s, n) /\ flash[n].tx \in Tx /\ Agree(t, flash[n].tx)
  BY PolledIs
<1>3. ~flash[n].tx.silent /\ ~isAborted(flash[n].tx)
  BY <1>2 DEF Agree, Collectable, isAborted
<1>4. [session |-> s, tx |-> u] \in File /\ [session |-> s, tx |-> u] # None
  BY <1>2, NoneAssumption DEF File
<1>5. /\ flash' \in [TxNr -> File \cup {None}] /\ flash'[n] = [session |-> s, tx |-> u]
      /\ \A m \in TxNr : m # n => flash'[m] = flash[m]
      /\ mem' \in [Session -> Tx] /\ mem'[s] = v /\ \A r \in Session : r # s => mem'[r] = mem[r]
  BY <1>1, <1>2, <1>4 DEF TypeOK, Write
<1>6. flash'[n] # None /\ flash'[n].session = s /\ flash'[n].tx = u
  BY <1>4, <1>5
<1>7. /\ mem'[s].nr = n /\ Agree(mem'[s], flash'[n].tx)
      /\ SoundNext(s, mem'[s]) /\ SoundNext(s, flash'[n].tx)
  BY <1>5, <1>6
<1>8. /\ flash[n].tx.silent => flash'[n].tx.silent
      /\ IsGood(flash'[n].tx) => IsGood(flash[n].tx)
  BY <1>3 DEF IsGood
<1>9. QED
  BY <1>1, <1>5, <1>6, <1>7, <1>8, PollCommits

\* What stays the same in every poll.
LEMMA PollTypes ==
    ASSUME IInv, Polling, txNrFront' \in TxNr,
           mem' \in [Session -> Tx], flash' \in [TxNr -> File \cup {None}],
           authQueue' \in Seq(Session), Len(authQueue') <= CacheSize,
           sendReqFront' \in Request \cup {None}, exchange' \in {"idle", "sent"},
           exchange' = "idle" <=> sendReqFront' = None,
           waived' \subseteq Session, sends' \in [TxMessage -> Nat]
    PROVE  TypeOK'
<1>1. UNCHANGED <<txNrBegin, txNrEnd, transaction, connected, late, bootNr, clockSet,
                  nextSession, charged, received, confirmed>>
  BY DEF Polling, getFrontRequestOpNr, envVars
<1>2. transactionFront' \in Session \cup {None}
  <2>1. PICK s : s = newFront
    OBVIOUS
  <2>2. transactionFront' = s
    BY <2>1 DEF Polling, getFrontRequestOpNr
  <2>3. s \in Session \cup {None}
    BY <2>1, NewFrontIs DEF IInv
  <2>4. QED
    BY <2>2, <2>3
<1>3. QED
  BY <1>1, <1>2 DEF TypeOK, IInv

\* The count of a message goes up when it is sent.
LEMMA TransmitIs ==
    ASSUME TypeOK, NEW kind \in {"Authorize", "StartTransaction", "StopTransaction"},
           NEW s \in Session, Transmit(kind, s)
    PROVE  /\ sendReqFront' = [kind |-> kind, session |-> s] /\ exchange' = "sent"
           /\ sendReqFront' \in Request /\ sendReqFront' # None
           /\ sends' \in [TxMessage -> Nat]
           /\ \A m \in TxMessage : sends'[m] = IF m = <<kind, s>> THEN sends[m] + 1 ELSE sends[m]
<1>1. sendReqFront' = [kind |-> kind, session |-> s] /\ exchange' = "sent"
  BY DEF Transmit
<1>2. [kind |-> kind, session |-> s] \in Request
  BY DEF Request
<1>3. \A m \in TxMessage : sends[m] \in Nat
  BY DEF TypeOK
<1>4. sends' \in [TxMessage -> Nat]
      /\ \A m \in TxMessage : sends'[m] = IF m = <<kind, s>> THEN sends[m] + 1 ELSE sends[m]
  BY <1>3 DEF Transmit
<1>5. QED
  BY <1>1, <1>2, <1>4, NoneAssumption

\* An Authorize, from the default send queue.
LEMMA PollAuthorizeStep ==
    ASSUME IInv, Polling, PollAuthorize
    PROVE  IInv'
<1>1. TypeOK /\ authQueue # <<>> /\ KeepFront /\ UNCHANGED <<flash, waived>>
      /\ authQueue' = Tail(authQueue)
  BY DEF PollAuthorize, IInv
<1>2. PICK h \in Session : h = Head(authQueue)
  <2>1. authQueue \in Seq(Session)
    BY <1>1 DEF TypeOK
  <2>2. QED
    BY <1>1, <2>1
<1>3. Transmit("Authorize", h)
  BY <1>2 DEF PollAuthorize
<1>4. /\ sendReqFront' = [kind |-> "Authorize", session |-> h] /\ exchange' = "sent"
      /\ sendReqFront' \in Request /\ sendReqFront' # None
      /\ sends' \in [TxMessage -> Nat]
      /\ \A m \in TxMessage : sends'[m] = sends[m]
  <2>1. \A m \in TxMessage : m # <<"Authorize", h>>
    BY DEF TxMessage
  <2>2. QED
    BY <1>1, <1>3, <2>1, TransmitIs
<1>5. PICK s : s = newFront
  OBVIOUS
<1>6. /\ Referenced' \subseteq Referenced \cup {s}
      /\ authQueue' \in Seq(Session) /\ Len(authQueue') <= CacheSize
  <2>1. sendReqFront'.session = Head(authQueue)
    BY <1>2, <1>4
  <2>2. QED
    BY <1>1, <1>5, <2>1, PollReferences
<1>7. Journal' /\ txNrFront' \in TxNr /\ FreshOnes' /\ MemSound' /\ FlashSound' /\ Unlost'
      /\ ServerKnows' /\ mem' \in [Session -> Tx]
  BY <1>1, <1>4, <1>5, <1>6, PollKeeps
<1>8. TypeOK'
  <2>1. flash' \in [TxNr -> File \cup {None}] /\ waived' \subseteq Session
    BY <1>1 DEF TypeOK
  <2>2. exchange' = "idle" <=> sendReqFront' = None
    BY <1>4
  <2>3. QED
    BY <1>4, <1>6, <1>7, <2>1, <2>2, PollTypes
<1>9. InFlight'
  BY <1>4 DEF InFlight
<1>10. QED
  BY <1>7, <1>8, <1>9 DEF IInv, Knowledge

\* Nothing to send.
LEMMA PollNothingStep ==
    ASSUME IInv, Polling, PollNothing
    PROVE  IInv'
<1>1. TypeOK /\ KeepFront /\ UNCHANGED <<flash, waived, authQueue, sendReqFront, exchange, sends>>
      /\ sendReqFront = None
  BY DEF PollNothing, NoTransmission, Polling, IInv
<1>2. PICK s : s = newFront
  OBVIOUS
<1>3. /\ Referenced' \subseteq Referenced \cup {s}
      /\ authQueue' \in Seq(Session) /\ Len(authQueue') <= CacheSize
  BY <1>1, <1>2, PollReferences
<1>4. Journal' /\ txNrFront' \in TxNr /\ FreshOnes' /\ MemSound' /\ FlashSound' /\ Unlost'
      /\ ServerKnows' /\ mem' \in [Session -> Tx]
  BY <1>1, <1>2, <1>3, PollKeeps
<1>5. TypeOK'
  <2>1. flash' \in [TxNr -> File \cup {None}] /\ waived' \subseteq Session
        /\ sends' \in [TxMessage -> Nat] /\ sendReqFront' = None /\ exchange' = "idle"
    BY <1>1 DEF TypeOK
  <2>2. QED
    BY <1>3, <1>4, <2>1, PollTypes
<1>6. InFlight'
  BY <1>1 DEF InFlight
<1>7. QED
  BY <1>4, <1>5, <1>6 DEF IInv, Knowledge

\* The StartTransaction is sent or given up.
LEMMA PollStartStep ==
    ASSUME IInv, Polling, PollStartTx
    PROVE  IInv'
<1>1. TypeOK /\ newFront # None /\ newFrontTx.start = "requested" /\ authQueue' = authQueue
      /\ sendReqFront = None /\ exchange = "idle"
  BY DEF PollStartTx, Polling, IInv, TypeOK
<1>2. PICK s, t, n : s = newFront /\ t = newFrontTx /\ n = FrontNr(Collected)
  OBVIOUS
<1>3. /\ s \in Session /\ n \in TxNr /\ t \in Tx /\ t.nr = n /\ ~Collectable(t)
      /\ Sound(s, t) /\ s # 0 /\ s < nextSession /\ t.start = "requested" /\ s # None
      /\ \A r \in charged : r < s => r \in waived \/ StopTx(r) \in received
  BY <1>1, <1>2, PolledIs
<1>4. /\ UNCHANGED <<nextSession, charged, received, confirmed>>
      /\ nextSession \in Nat
  BY <1>1, CopyTypes DEF Polling, envVars, TypeOK
<1>5. CASE StartTimeLost(t) \/ t.startTry >= MaxAttempts
  <2>1. PICK u : u = [t EXCEPT !.silent = TRUE, !.active = FALSE]
    OBVIOUS
  <2>2. /\ mem' = [mem EXCEPT ![s] = u] /\ flash' = Write(flash, s, u)
        /\ waived' = waived \cup {s} /\ UNCHANGED <<sendReqFront, exchange, sends>>
    BY <1>2, <1>5, <2>1 DEF PollStartTx, CommitFront, NoTransmission
  <2>3. /\ u \in Tx /\ u.nr = n /\ u.silent = TRUE /\ u.start = t.start /\ u.stop = t.stop
        /\ u.startTry = t.startTry /\ u.stopTry = t.stopTry
    BY <1>3, <2>1 DEF Tx
  <2>4. Agree(u, u)
    BY <2>3 DEF Agree
  <2>5. SoundNext(s, u)
    BY <1>3, <1>4, <2>2, <2>3 DEF Sound, SoundNext, Knows, isCompleted
  <2>6. \A r \in Session : r # s => SameHistory(r)
    BY <1>4, <2>2 DEF SameHistory
  <2>7. /\ Referenced' \subseteq Referenced \cup {s}
        /\ authQueue' \in Seq(Session) /\ Len(authQueue') <= CacheSize
    BY <1>1, <1>2, <2>2, PollReferences
  <2>8. waived \subseteq waived' /\ waived' \subseteq Session
    BY <1>1, <1>3, <2>2 DEF TypeOK
  <2>9. Journal' /\ txNrFront' \in TxNr /\ FreshOnes' /\ MemSound' /\ FlashSound' /\ Unlost'
        /\ ServerKnows' /\ mem' \in [Session -> Tx] /\ flash' \in [TxNr -> File \cup {None}]
    BY <1>2, <1>3, <2>2, <2>3, <2>4, <2>5, <2>6, <2>7, <2>8, PollWrites
  <2>10. TypeOK'
    <3>1. sends' \in [TxMessage -> Nat] /\ sendReqFront' = None /\ exchange' = "idle"
      BY <1>1, <2>2 DEF TypeOK
    <3>2. QED
      BY <2>7, <2>8, <2>9, <3>1, PollTypes
  <2>11. InFlight'
    BY <1>1, <2>2 DEF InFlight
  <2>12. QED
    BY <2>9, <2>10, <2>11 DEF IInv, Knowledge
<1>6. CASE ~(StartTimeLost(t) \/ t.startTry >= MaxAttempts)
  <2>1. PICK u, v : u = [t EXCEPT !.startTry = @ + 1] /\ v = Adjusted(u)
    OBVIOUS
  <2>2. /\ mem' = [mem EXCEPT ![s] = v] /\ flash' = Write(flash, s, u)
        /\ Transmit("StartTransaction", s) /\ waived' = waived
    BY <1>2, <1>6, <2>1 DEF PollStartTx
  <2>3. t.startTry \in Nat /\ t.startTry + 1 \in 0 .. MaxAttempts /\ 0 \in 0 .. MaxReboot + 1
    BY <1>3, <1>6, ConstantsAssumption DEF Tx
  <2>4. u \in Tx /\ u = [t EXCEPT !.startTry = t.startTry + 1]
    BY <1>3, <2>1, <2>3 DEF Tx
  <2>5. v \in {u, [u EXCEPT !.startBoot = 0]}
    BY <2>1 DEF Adjusted
  <2>6. /\ v \in Tx /\ u.nr = n /\ v.nr = n /\ Agree(v, u) /\ SameProgress(u, v)
        /\ u.start = "requested" /\ u.startTry = t.startTry + 1 /\ u.stop = t.stop
        /\ u.stopTry = t.stopTry /\ u.silent = t.silent
    BY <1>3, <2>3, <2>4, <2>5 DEF Tx, Agree, SameProgress
  <2>7. /\ sendReqFront' = [kind |-> "StartTransaction", session |-> s] /\ exchange' = "sent"
        /\ sendReqFront' \in Request /\ sendReqFront' # None
        /\ sends' \in [TxMessage -> Nat]
        /\ \A m \in TxMessage : sends'[m] = IF m = StartTx(s) THEN sends[m] + 1 ELSE sends[m]
    BY <1>1, <1>3, <2>2, TransmitIs DEF StartTx
  <2>8. sends'[StartTx(s)] = sends[StartTx(s)] + 1 /\ sends'[StopTx(s)] = sends[StopTx(s)]
        /\ sends[StartTx(s)] \in Nat
    BY <1>1, <1>3, <2>7, MessagesAre DEF TypeOK
  <2>9. SoundNext(s, u)
    BY <1>3, <1>4, <2>2, <2>3, <2>6, <2>8
       DEF Sound, SoundNext, Knows, isCompleted, IsGivenUp, Collectable
  <2>10. SoundNext(s, v)
    BY <2>6, <2>9 DEF SoundNext, Knows, SameProgress, isCompleted, IsGivenUp
  <2>11. \A r \in Session : r # s => SameHistory(r)
    BY <1>3, <1>4, <2>2, <2>7, MessagesAre DEF SameHistory
  <2>12. /\ Referenced' \subseteq Referenced \cup {s}
         /\ authQueue' \in Seq(Session) /\ Len(authQueue') <= CacheSize
    BY <1>1, <1>2, <2>7, PollReferences
  <2>13. waived \subseteq waived' /\ waived' \subseteq Session
    BY <1>1, <2>2 DEF TypeOK
  <2>14. Journal' /\ txNrFront' \in TxNr /\ FreshOnes' /\ MemSound' /\ FlashSound' /\ Unlost'
         /\ ServerKnows' /\ mem' \in [Session -> Tx] /\ flash' \in [TxNr -> File \cup {None}]
    <3>1. mem' = [mem EXCEPT ![s] = v] /\ flash' = Write(flash, s, u) /\ s # None
      BY <1>3, <2>2
    <3>2. u \in Tx /\ v \in Tx /\ u.nr = n /\ v.nr = n /\ Agree(v, u)
      BY <2>4, <2>6
    <3>3. Referenced' \subseteq Referenced \cup {s} /\ waived \subseteq waived'
      BY <2>12, <2>13
    <3>4. QED
      BY <1>2, <2>9, <2>10, <2>11, <3>1, <3>2, <3>3, PollWrites
  <2>15. TypeOK'
    <3>1. exchange' = "idle" <=> sendReqFront' = None
      BY <2>7
    <3>2. QED
      BY <2>7, <2>12, <2>13, <2>14, <3>1, PollTypes
  <2>16. InFlight'
    <3>1. mem'[s] = v /\ s \notin waived' /\ ~v.silent
      <4>1. mem'[s] = v
        BY <1>1, <1>3, <2>2 DEF TypeOK
      <4>2. s \notin waived /\ ~t.silent
        BY <1>3 DEF Sound, Knows, IsGivenUp, Collectable
      <4>3. QED
        BY <2>2, <2>6, <4>1, <4>2 DEF SameProgress
    <3>2. v.start = "requested" /\ v.startTry >= 1
      BY <2>3, <2>6 DEF SameProgress
    <3>3. \A r \in charged' : r < s => r \in waived' \/ StopTx(r) \in received'
      BY <1>3, <1>4, <2>2
    <3>4. QED
      BY <1>3, <2>7, <3>1, <3>2, <3>3 DEF InFlight
  <2>17. QED
    BY <2>14, <2>15, <2>16 DEF IInv, Knowledge
<1>7. QED
  BY <1>5, <1>6

\* The StopTransaction is sent or given up.
LEMMA PollStopStep ==
    ASSUME IInv, Polling, PollStopTx
    PROVE  IInv'
<1>1. TypeOK /\ newFront # None /\ newFrontTx.start = "confirmed"
      /\ newFrontTx.stop = "requested" /\ authQueue' = authQueue
      /\ sendReqFront = None /\ exchange = "idle"
  BY DEF PollStopTx, Polling, IInv, TypeOK
<1>2. PICK s, t, n : s = newFront /\ t = newFrontTx /\ n = FrontNr(Collected)
  OBVIOUS
<1>3. /\ s \in Session /\ n \in TxNr /\ t \in Tx /\ t.nr = n /\ ~Collectable(t)
      /\ HasFile(s, n) /\ flash[n].tx \in Tx /\ Agree(t, flash[n].tx)
      /\ Sound(s, t) /\ Sound(s, flash[n].tx) /\ s # 0 /\ s # None
      /\ t.start = "confirmed" /\ t.stop = "requested"
  BY <1>1, <1>2, PolledIs
<1>4. /\ getFrontRequestOpNr /\ UNCHANGED <<nextSession, charged, received, confirmed>>
      /\ nextSession \in Nat
  BY <1>1, CopyTypes DEF Polling, envVars, TypeOK
<1>5. CASE t.stopTry >= MaxAttempts
  <2>1. PICK u : u = [t EXCEPT !.silent = TRUE]
    OBVIOUS
  <2>2. /\ mem' = [mem EXCEPT ![s] = u] /\ flash' = flash
        /\ waived' = waived \cup {s} /\ UNCHANGED <<sendReqFront, exchange, sends>>
    BY <1>2, <1>5, <2>1 DEF PollStopTx, NoTransmission
  <2>3. /\ u \in Tx /\ u.nr = n /\ u.silent = TRUE /\ u.begun = t.begun /\ u.active = t.active
        /\ u.authorized = t.authorized /\ u.deauthorized = t.deauthorized
        /\ u.start = t.start /\ u.stop = t.stop
        /\ u.startTry = t.startTry /\ u.stopTry = t.stopTry
    BY <1>3, <2>1 DEF Tx
  <2>4. PICK f \in Tx : f = flash[n].tx
    BY <1>3
  <2>5. Agree(u, f) /\ IsGivenUp(f)
    BY <1>3, <1>5, <2>3, <2>4 DEF Agree, IsGivenUp
  <2>6. SoundNext(s, u)
    BY <1>3, <1>4, <2>2, <2>3 DEF Sound, SoundNext, Knows, isCompleted
  <2>7. SoundNext(s, f)
    BY <1>3, <1>4, <2>2, <2>4, <2>5 DEF Sound, SoundNext, Knows
  <2>8. \A r \in Session : r # s => SameHistory(r)
    BY <1>4, <2>2 DEF SameHistory
  <2>9. /\ Referenced' \subseteq Referenced \cup {s}
        /\ authQueue' \in Seq(Session) /\ Len(authQueue') <= CacheSize
    BY <1>1, <1>2, <2>2, PollReferences
  <2>10. waived \subseteq waived' /\ waived' \subseteq Session
    BY <1>1, <1>3, <2>2 DEF TypeOK
  <2>11. mem' \in [Session -> Tx] /\ mem'[s] = u /\ \A r \in Session : r # s => mem'[r] = mem[r]
    BY <1>1, <1>3, <2>2, <2>3 DEF TypeOK
  <2>12. /\ mem'[s].nr = n /\ flash'[n] # None /\ flash'[n].session = s
         /\ Agree(mem'[s], flash'[n].tx)
         /\ \A m \in TxNr : m # n => flash'[m] = flash[m]
         /\ flash[n].tx.silent => flash'[n].tx.silent
         /\ IsGood(flash'[n].tx) => IsGood(flash[n].tx)
         /\ SoundNext(s, mem'[s]) /\ SoundNext(s, flash'[n].tx)
    BY <1>3, <2>2, <2>3, <2>4, <2>5, <2>6, <2>7, <2>11 DEF HasFile
  <2>13. Journal' /\ txNrFront' \in TxNr /\ FreshOnes' /\ MemSound' /\ FlashSound' /\ Unlost'
         /\ ServerKnows'
    BY <1>2, <1>3, <1>4, <2>8, <2>9, <2>10, <2>11, <2>12, PollCommits
  <2>14. TypeOK'
    <3>1. sends' \in [TxMessage -> Nat] /\ sendReqFront' = None /\ exchange' = "idle"
          /\ flash' \in [TxNr -> File \cup {None}]
      BY <1>1, <2>2 DEF TypeOK
    <3>2. QED
      BY <2>9, <2>10, <2>11, <2>13, <3>1, PollTypes
  <2>15. InFlight'
    BY <1>1, <2>2 DEF InFlight
  <2>16. QED
    BY <2>13, <2>14, <2>15 DEF IInv, Knowledge
<1>6. CASE ~(t.stopTry >= MaxAttempts)
  <2>1. PICK u : u = [t EXCEPT !.stopTry = @ + 1]
    OBVIOUS
  <2>2. /\ mem' = [mem EXCEPT ![s] = u] /\ flash' = Write(flash, s, u)
        /\ Transmit("StopTransaction", s) /\ waived' = waived
    BY <1>2, <1>6, <2>1 DEF PollStopTx, CommitFront
  <2>3. t.stopTry \in Nat /\ t.stopTry + 1 \in 0 .. MaxAttempts
    BY <1>3, <1>6, ConstantsAssumption DEF Tx
  <2>4. u \in Tx /\ u = [t EXCEPT !.stopTry = t.stopTry + 1]
    BY <1>3, <2>1, <2>3 DEF Tx
  <2>5. /\ u.nr = n /\ u.start = "confirmed" /\ u.stop = "requested" /\ u.startTry = t.startTry
        /\ u.stopTry = t.stopTry + 1 /\ u.silent = t.silent
    BY <1>3, <2>4 DEF Tx
  <2>6. Agree(u, u)
    BY DEF Agree
  <2>7. /\ sendReqFront' = [kind |-> "StopTransaction", session |-> s] /\ exchange' = "sent"
        /\ sendReqFront' \in Request /\ sendReqFront' # None
        /\ sends' \in [TxMessage -> Nat]
        /\ \A m \in TxMessage : sends'[m] = IF m = StopTx(s) THEN sends[m] + 1 ELSE sends[m]
    BY <1>1, <1>3, <2>2, TransmitIs DEF StopTx
  <2>8. sends'[StopTx(s)] = sends[StopTx(s)] + 1 /\ sends'[StartTx(s)] = sends[StartTx(s)]
        /\ sends[StopTx(s)] \in Nat
    BY <1>1, <1>3, <2>7, MessagesAre DEF TypeOK
  <2>9. s \notin waived /\ ~t.silent
    BY <1>3, <1>6 DEF Sound, Knows, IsGivenUp, Collectable
  <2>10. SoundNext(s, u)
    BY <1>3, <1>4, <2>2, <2>3, <2>5, <2>8, <2>9 DEF Sound, SoundNext, Knows, isCompleted
  <2>11. \A r \in Session : r # s => SameHistory(r)
    BY <1>3, <1>4, <2>2, <2>7, MessagesAre DEF SameHistory
  <2>12. /\ Referenced' \subseteq Referenced \cup {s}
         /\ authQueue' \in Seq(Session) /\ Len(authQueue') <= CacheSize
    BY <1>1, <1>2, <2>7, PollReferences
  <2>13. waived \subseteq waived' /\ waived' \subseteq Session
    BY <1>1, <2>2 DEF TypeOK
  <2>14. Journal' /\ txNrFront' \in TxNr /\ FreshOnes' /\ MemSound' /\ FlashSound' /\ Unlost'
         /\ ServerKnows' /\ mem' \in [Session -> Tx] /\ flash' \in [TxNr -> File \cup {None}]
    <3>1. mem' = [mem EXCEPT ![s] = u] /\ flash' = Write(flash, s, u) /\ s # None
      BY <1>3, <2>2
    <3>2. u \in Tx /\ u.nr = n /\ Agree(u, u)
      BY <2>4, <2>5, <2>6
    <3>3. Referenced' \subseteq Referenced \cup {s} /\ waived \subseteq waived'
      BY <2>12, <2>13
    <3>4. QED
      BY <1>2, <2>10, <2>11, <3>1, <3>2, <3>3, PollWrites
  <2>15. TypeOK'
    <3>1. exchange' = "idle" <=> sendReqFront' = None
      BY <2>7
    <3>2. QED
      BY <2>7, <2>12, <2>13, <2>14, <3>1, PollTypes
  <2>16. InFlight'
    <3>1. mem'[s] = u
      BY <1>1, <1>3, <2>2 DEF TypeOK
    <3>2. s \notin waived' /\ ~u.silent /\ u.start = "confirmed" /\ u.stop = "requested"
          /\ u.stopTry >= 1
      BY <2>2, <2>3, <2>5, <2>9
    <3>3. QED
      BY <1>3, <2>7, <3>1, <3>2 DEF InFlight
  <2>17. QED
    BY <2>14, <2>15, <2>16 DEF IInv, Knowledge
<1>7. QED
  BY <1>5, <1>6

LEMMA PollStep ==
    ASSUME IInv, Poll
    PROVE  IInv'
  BY PollAuthorizeStep, PollNothingStep, PollStartStep, PollStopStep DEF Poll, PollRequest

-----------------------------------------------------------------------------
(* The invariant is inductive, as long as beginTransaction() finds every     *)
(* collected transaction released by the send queue.                         *)

LEMMA InitIInv == Init => IInv
<1> SUFFICES ASSUME Init PROVE IInv
  OBVIOUS
<1>1. PICK last, done :
         /\ last = MaxTxCnt - 2
         /\ done = [NewTx(last, FALSE) EXCEPT !.begun = TRUE, !.active = FALSE,
                       !.authorized = TRUE, !.start = "confirmed", !.startTry = 1,
                       !.stop = "confirmed", !.stopTry = 1]
  OBVIOUS
<1>2. /\ txNrBegin = IF History THEN last ELSE 0
      /\ flash = [n \in TxNr |-> IF History /\ n = last
                                 THEN [session |-> 0, tx |-> done] ELSE None]
      /\ transaction = IF History THEN 0 ELSE None
      /\ mem = IF History THEN [NoObjects EXCEPT ![0] = done] ELSE NoObjects
      /\ txNrFront = txNrBegin /\ txNrEnd = IF History THEN Next1(txNrBegin) ELSE 0
      /\ transactionFront = None /\ sendReqFront = None /\ authQueue = <<>>
      /\ connected = FALSE /\ exchange = "idle" /\ late = FALSE
      /\ bootNr = 1 /\ clockSet = FALSE /\ nextSession = 1
      /\ charged = {} /\ waived = {} /\ received = {} /\ confirmed = {}
      /\ sends = [m \in TxMessage |-> 0]
  BY <1>1 DEF Init
<1>3. last \in TxNr /\ 0 \in TxNr /\ 0 \in Session /\ None \notin Session
      /\ RecordSize \in Nat \ {0} /\ MaxTxCnt \in Nat /\ MaxTxCnt >= 4
  BY <1>1, ConstantsAssumption DEF TxNr, Session
<1>4. NewTx(0, FALSE) \in Tx
  BY <1>3, ConstantsAssumption DEF NewTx, Tx
<1>5. /\ done \in Tx /\ done.nr = last /\ ~done.silent /\ done.start = "confirmed"
      /\ done.stop = "confirmed" /\ done.startTry = 1 /\ done.stopTry = 1
  <2>1. NewTx(last, FALSE) \in Tx /\ NewTx(last, FALSE).nr = last
        /\ NewTx(last, FALSE).silent = FALSE
    BY <1>3, ConstantsAssumption DEF NewTx, Tx
  <2>2. PICK b \in Tx : b = NewTx(last, FALSE) /\ b.nr = last /\ b.silent = FALSE
    BY <2>1
  <2>3. 1 \in 0 .. MaxAttempts
    BY ConstantsAssumption
  <2>4. QED
    BY <1>1, <2>2, <2>3 DEF Tx
<1>6. [session |-> 0, tx |-> done] \in File /\ [session |-> 0, tx |-> done] # None
  BY <1>3, <1>5, NoneAssumption DEF File
<1>7. NoObjects \in [Session -> Tx]
  BY <1>4 DEF NoObjects
<1>8. /\ Minus(last, last) = 0 /\ Minus(0, 0) = 0
      /\ Next1(last) \in TxNr /\ Minus(Next1(last), last) = 1
  BY <1>3, MinusType, Next1Is
<1>8a. /\ authQueue \in Seq(Session) /\ Len(authQueue) <= CacheSize
       /\ bootNr \in 1 .. MaxReboot + 1 /\ nextSession \in 1 .. MaxSession + 1
       /\ sends \in [TxMessage -> Nat]
       /\ charged \subseteq Session /\ waived \subseteq Session
       /\ received \subseteq TxMessage /\ confirmed \subseteq TxMessage
  <2>1. authQueue \in Seq(Session) /\ Len(authQueue) = 0
    BY <1>2
  <2>2. QED
    BY <1>2, <2>1, ConstantsAssumption
<1>9. CASE History
  <2>1. /\ txNrBegin = last /\ txNrFront = last /\ txNrEnd = Next1(last)
        /\ transaction = 0 /\ mem[0] = done /\ mem \in [Session -> Tx]
        /\ \A n \in TxNr : flash[n] = IF n = last THEN [session |-> 0, tx |-> done] ELSE None
        /\ flash \in [TxNr -> File \cup {None}]
    BY <1>2, <1>3, <1>5, <1>6, <1>7, <1>9
  <2>2. /\ \A n \in TxNr : flash[n] # None =>
              n = last /\ flash[n].session = 0 /\ flash[n].tx = done
        /\ flash[last] # None /\ flash[last].session = 0 /\ flash[last].tx = done
        /\ Referenced = {0}
    BY <1>2, <1>3, <1>6, <2>1 DEF Referenced
  <2>3. TypeOK
    BY <1>2, <1>3, <1>8, <1>8a, <2>1 DEF TypeOK
  <2>4. Ahead(txNrFront) = 0 /\ Ahead(txNrEnd) = 1 /\ Ahead(last) = 0
    BY <1>8, <2>1 DEF Ahead
  <2>5. Numbers /\ Window /\ Ends /\ Ordered
    <3>1. Numbers
      BY <1>5, <2>2 DEF Numbers
    <3>2. Window
      BY <1>3, <2>2, <2>4 DEF Window
    <3>3. Ends
      BY <1>2, <1>3, <1>5, <2>1, <2>4 DEF Ends
    <3>4. Ordered
      BY <2>2, <2>4 DEF Ordered, GoodFile
    <3>5. QED
      BY <3>1, <3>2, <3>3, <3>4
  <2>6. Places
    BY <1>5, <2>1, <2>2, <2>4 DEF Places, Placed, InJournal, HasFile, Agree
  <2>7. Sound(0, done)
    BY <1>2, <1>3, <1>5, MessagesAre DEF Sound, Knows, isCompleted
  <2>8. MemSound /\ FlashSound
    BY <2>1, <2>2, <2>7 DEF MemSound, FlashSound
  <2>9. FreshOnes /\ Unlost /\ ServerKnows /\ InFlight
    BY <1>2, MessagesAre DEF FreshOnes, Unlost, ServerKnows, InFlight
  <2>10. QED
    BY <2>3, <2>5, <2>6, <2>8, <2>9 DEF IInv, Journal, Knowledge
<1>10. CASE ~History
  <2>1. /\ txNrBegin = 0 /\ txNrFront = 0 /\ txNrEnd = 0
        /\ transaction = None /\ mem \in [Session -> Tx]
        /\ \A n \in TxNr : flash[n] = None
        /\ flash \in [TxNr -> File \cup {None}] /\ Referenced = {}
    BY <1>2, <1>7, <1>10 DEF Referenced
  <2>2. TypeOK
    BY <1>2, <1>3, <1>8a, <2>1 DEF TypeOK
  <2>3. Ahead(txNrFront) = 0 /\ Ahead(txNrEnd) = 0
    BY <1>8, <2>1 DEF Ahead
  <2>4. Journal
    BY <1>2, <1>3, <2>1, <2>3 DEF Journal, Numbers, Places, Window, Ends, Ordered, GoodFile
  <2>5. MemSound /\ FlashSound
    BY <2>1 DEF MemSound, FlashSound
  <2>6. FreshOnes /\ Unlost /\ ServerKnows /\ InFlight
    BY <1>2, MessagesAre DEF FreshOnes, Unlost, ServerKnows, InFlight
  <2>7. QED
    BY <2>2, <2>4, <2>5, <2>6 DEF IInv, Knowledge
<1>11. QED
  BY <1>9, <1>10

LEMMA Stuttering ==
    ASSUME IInv, UNCHANGED vars
    PROVE  IInv'
<1> USE DEF IInv, Journal, Knowledge
<1>1. UNCHANGED <<txNrs, refVars, mem, flash, rpcVars, netVars, envVars, history>>
  BY DEF vars
<1>2. Referenced' \subseteq Referenced
  BY <1>1 DEF Referenced, refVars, rpcVars
<1>3. Journal' /\ FreshOnes' /\ MemSound' /\ FlashSound' /\ Unlost'
  BY <1>1, <1>2, QuietStep DEF refVars, envVars, history
<1>4. TypeOK' /\ ServerKnows' /\ InFlight'
  BY <1>1 DEF TypeOK, ServerKnows, InFlight, txNrs, refVars, rpcVars, netVars, envVars, history
<1>5. QED
  BY <1>3, <1>4

LEMMA Inductive ==
    ASSUME IInv, ~BeginEarly, [Next]_vars
    PROVE  IInv'
  BY BeginTransactionStep, BeginAuthorizedStep, EndStep, RollbackStep, CollectStep, SessionStep,
     PollStep, SlotStep, QueueStep, ReceiveStep, StrayStep, ServerStep, EnvironmentStep,
     RebootStep, InterruptedStep, Stuttering
  DEF Next, Loop

-----------------------------------------------------------------------------
(* The properties.                                                           *)

\* The inductive invariant holds in every reachable state, for every size of the journal
\* and of the queues, of beginTransaction(), endTransaction(), the loop of the connector,
\* the send queue, the answers and the reboots.
THEOREM Invariance ==
    ASSUME ~BeginEarly
    PROVE  Spec => []IInv
<1>1. IInv /\ [Next]_vars => IInv'
  BY Inductive
<1>2. QED
  BY <1>1, InitIInv, PTL DEF Spec

\* The journal pointers stay in the range of transaction numbers, each object and each
\* file is a transaction, and the default send queue stays in its bound.
THEOREM TypeCorrect ==
    ASSUME ~BeginEarly
    PROVE  Spec => []TypeOK
<1>1. IInv => TypeOK
  BY DEF IInv
<1>2. QED
  BY <1>1, Invariance, PTL

LEMMA JournalIsCurrentOf ==
    ASSUME IInv PROVE JournalIsCurrent
<1> USE DEF IInv, Journal, Knowledge
<1>1. SUFFICES ASSUME transaction # None, mem[transaction].stop = "no"
               PROVE  /\ flash[mem[transaction].nr] # None
                      /\ flash[mem[transaction].nr].session = transaction
                      /\ ButStartTime(flash[mem[transaction].nr].tx) = ButStartTime(mem[transaction])
  BY DEF JournalIsCurrent
<1>2. PICK s \in Referenced : s = transaction /\ s \in Session /\ mem[s] \in Tx
  BY <1>1, HeldIs, CopyTypes
<1>3. PICK n \in TxNr : n = mem[s].nr
  BY <1>2 DEF Tx
<1>4. HasFile(s, n) /\ Agree(mem[s], flash[n].tx)
  BY <1>1, <1>2, <1>3 DEF Places, Placed, WasRemoved, InJournal
<1>5. PICK m \in Tx, f \in Tx : m = mem[s] /\ f = flash[n].tx /\ Agree(m, f)
  BY <1>3, <1>4, CopyTypes DEF HasFile
<1>6. m.silent = f.silent
  BY <1>1, <1>2, <1>5 DEF Agree, IsGivenUp, Tx
<1>7. [f EXCEPT !.startBoot = 0] = [m EXCEPT !.startBoot = 0]
  <2>1. 0 \in 0 .. MaxReboot + 1
    BY ConstantsAssumption
  <2>2. PICK g \in Tx, h \in Tx : g = [f EXCEPT !.startBoot = 0] /\ h = [m EXCEPT !.startBoot = 0]
    BY <2>1 DEF Tx
  <2>3. /\ g.nr = h.nr /\ g.silent = h.silent /\ g.begun = h.begun /\ g.active = h.active
        /\ g.authorized = h.authorized /\ g.deauthorized = h.deauthorized
        /\ g.start = h.start /\ g.startTry = h.startTry /\ g.startBoot = h.startBoot
        /\ g.stop = h.stop /\ g.stopTry = h.stopTry
    BY <1>5, <1>6, <2>2 DEF Agree, Tx
  <2>4. g = h
    BY <2>3 DEF Tx
  <2>5. QED
    BY <2>2, <2>4
<1>8. QED
  BY <1>2, <1>3, <1>4, <1>5, <1>7 DEF HasFile, ButStartTime

\* A reboot at any time finds on the flash what the charger knows of the session going on:
\* each function of Connector.cpp that changes the transaction commits it.
THEOREM JournalAlwaysCurrent ==
    ASSUME ~BeginEarly
    PROVE  Spec => []JournalIsCurrent
<1>1. IInv => JournalIsCurrent
  BY JournalIsCurrentOf
<1>2. QED
  BY <1>1, Invariance, PTL

LEMMA NoneLostOf ==
    ASSUME IInv PROVE NoTransactionLost
<1> USE DEF IInv, Journal, Knowledge
<1>1. SUFFICES ASSUME NEW s \in charged \ waived, ~Reported(s)
               PROVE  \E n \in TxNr : Queued(n) /\ flash[n] # None /\ flash[n].session = s
  BY DEF NoTransactionLost
<1>2. PICK n \in TxNr : HasFile(s, n) /\ InQueue(n)
  BY <1>1 DEF Unlost
<1>3. /\ Minus(n, txNrFront) = IF Ahead(n) >= Ahead(txNrFront) THEN Ahead(n) - Ahead(txNrFront)
                               ELSE Ahead(n) + MaxTxCnt - Ahead(txNrFront)
      /\ Minus(txNrEnd, txNrFront) =
            IF Ahead(txNrEnd) >= Ahead(txNrFront) THEN Ahead(txNrEnd) - Ahead(txNrFront)
            ELSE Ahead(txNrEnd) + MaxTxCnt - Ahead(txNrFront)
  BY MinusFrom DEF Ahead, TypeOK
<1>4. Ahead(n) \in Nat /\ Ahead(txNrFront) \in Nat /\ Ahead(txNrEnd) \in Nat
  BY AheadType DEF TypeOK
<1>5. Queued(n)
  BY <1>2, <1>3, <1>4 DEF Queued, InQueue
<1>6. QED
  BY <1>2, <1>5 DEF HasFile

\* No session that has charged is lost before it is reported or given up: neither
\* the eviction in beginTransaction(), nor the rollback of the last transaction, nor a
\* reboot takes its file out of the part of the journal that is still to be sent.
THEOREM NothingIsLost ==
    ASSUME ~BeginEarly
    PROVE  Spec => []NoTransactionLost
<1>1. IInv => NoTransactionLost
  BY NoneLostOf
<1>2. QED
  BY <1>1, Invariance, PTL

\* Only a poll sends a message, one that is neither settled nor out of attempts.
LEMMA SendsAre ==
    ASSUME IInv, [Next]_vars, NEW m \in TxMessage
    PROVE  \/ sends'[m] = sends[m]
           \/ /\ sends'[m] = sends[m] + 1 /\ sends[m] < MaxAttempts
              /\ m \notin confirmed /\ m[2] \notin waived
<1>1. TypeOK /\ sends[m] \in Nat
  BY DEF IInv, TypeOK
<1>2. CASE Polling /\ PollAuthorize
  <2>1. authQueue \in Seq(Session) /\ authQueue # <<>>
    BY <1>1, <1>2 DEF TypeOK, PollAuthorize
  <2>2. PICK h \in Session : h = Head(authQueue)
    BY <2>1
  <2>3. Transmit("Authorize", h) /\ m # <<"Authorize", h>>
    BY <1>2, <2>2 DEF PollAuthorize, TxMessage
  <2>4. QED
    BY <1>1, <2>3, TransmitIs
<1>3. CASE Polling /\ PollStartTx
  <2>1. PICK s, t, n : s = newFront /\ t = newFrontTx /\ n = FrontNr(Collected)
    OBVIOUS
  <2>2. s # None /\ t.start = "requested"
    BY <1>3, <2>1 DEF PollStartTx
  <2>3. s \in Session /\ t \in Tx /\ Sound(s, t) /\ ~Collectable(t)
    BY <2>1, <2>2, PolledIs
  <2>4. CASE StartTimeLost(t) \/ t.startTry >= MaxAttempts
    BY <1>3, <2>1, <2>4 DEF PollStartTx, NoTransmission
  <2>5. CASE ~(StartTimeLost(t) \/ t.startTry >= MaxAttempts)
    <3>1. Transmit("StartTransaction", s)
      BY <1>3, <2>1, <2>5 DEF PollStartTx
    <3>2. sends'[m] = IF m = StartTx(s) THEN sends[m] + 1 ELSE sends[m]
      BY <1>1, <2>3, <3>1, TransmitIs DEF StartTx
    <3>3. StartTx(s) \notin confirmed /\ s \notin waived /\ t.startTry >= sends[StartTx(s)]
          /\ t.startTry \in Nat
      BY <2>2, <2>3 DEF Sound, Knows, Collectable, IsGivenUp, Tx
    <3>4. m = StartTx(s) => sends[m] < MaxAttempts
      BY <1>1, <2>5, <3>3, ConstantsAssumption
    <3>5. QED
      BY <3>2, <3>3, <3>4, MessagesAre
  <2>6. QED
    BY <2>4, <2>5
<1>4. CASE Polling /\ PollStopTx
  <2>1. PICK s, t, n : s = newFront /\ t = newFrontTx /\ n = FrontNr(Collected)
    OBVIOUS
  <2>2. s # None /\ t.start = "confirmed" /\ t.stop = "requested"
    BY <1>4, <2>1 DEF PollStopTx
  <2>3. s \in Session /\ t \in Tx /\ Sound(s, t) /\ ~Collectable(t)
    BY <2>1, <2>2, PolledIs
  <2>4. CASE t.stopTry >= MaxAttempts
    BY <1>4, <2>1, <2>4 DEF PollStopTx, NoTransmission
  <2>5. CASE ~(t.stopTry >= MaxAttempts)
    <3>1. Transmit("StopTransaction", s)
      BY <1>4, <2>1, <2>5 DEF PollStopTx
    <3>2. sends'[m] = IF m = StopTx(s) THEN sends[m] + 1 ELSE sends[m]
      BY <1>1, <2>3, <3>1, TransmitIs DEF StopTx
    <3>3. StopTx(s) \notin confirmed /\ s \notin waived /\ t.stopTry >= sends[StopTx(s)]
          /\ t.stopTry \in Nat
      BY <2>2, <2>3, <2>5 DEF Sound, Knows, Collectable, IsGivenUp, Tx
    <3>4. m = StopTx(s) => sends[m] < MaxAttempts
      BY <1>1, <2>5, <3>3, ConstantsAssumption
    <3>5. QED
      BY <3>2, <3>3, <3>4, MessagesAre
  <2>6. QED
    BY <2>4, <2>5
<1>5. CASE sends' = sends
  BY <1>5
<1>6. QED
  BY <1>2, <1>3, <1>4, <1>5
  DEF Next, Loop, Poll, PollRequest, PollNothing, NoTransmission, vars, history,
      beginTransaction, beginTransaction_authorized, endTransaction, Rollback, CollectStopped,
      SessionLoop, SlotTimeout, GiveUpAnAuthorize, QueueTimeout, receiveResponse,
      receiveStrayResponse, ServerAnswers, Connect, Disconnect, SetClock, Reboot,
      BeginInterrupted

\* No message is sent more often than TransactionMessageAttempts: createReq() commits
\* each attempt before it is sent, so that a reboot does not forget it.
THEOREM AttemptsAreBounded ==
    ASSUME ~BeginEarly
    PROVE  Spec => []AttemptsBounded
<1>1. Init => AttemptsBounded
  BY ConstantsAssumption DEF Init, AttemptsBounded
<1>2. IInv /\ AttemptsBounded /\ [Next]_vars => AttemptsBounded'
  <2>1. SUFFICES ASSUME IInv, AttemptsBounded, [Next]_vars, NEW m \in TxMessage
                 PROVE  sends'[m] <= MaxAttempts
    BY DEF AttemptsBounded
  <2>2. sends[m] \in Nat /\ sends[m] <= MaxAttempts /\ MaxAttempts \in Nat
    BY <2>1, ConstantsAssumption DEF IInv, TypeOK, AttemptsBounded
  <2>3. QED
    BY <2>1, <2>2, SendsAre
<1>3. QED
  BY <1>1, <1>2, Invariance, PTL DEF Spec

\* A confirmed message is not sent again, nor is one of a session that was given up,
\* although giving up a StopTransaction is not written to the flash.
THEOREM SettledStaysFinal ==
    ASSUME ~BeginEarly
    PROVE  Spec => SettledIsFinal
<1>1. IInv /\ [Next]_vars =>
         [\A m \in TxMessage : m \in confirmed \/ m[2] \in waived => sends'[m] = sends[m]]_vars
  BY SendsAre
<1>2. QED
  BY <1>1, Invariance, PTL DEF Spec, SettledIsFinal

\* What the server gets is the message in flight.
LEMMA ReceivedFrom ==
    ASSUME IInv, [Next]_vars, NEW m \in received' \ received
    PROVE  /\ sendReqFront # None
           /\ \E s : s = sendReqFront.session /\
                 \/ m = StartTx(s) /\ sendReqFront.kind = "StartTransaction"
                 \/ m = StopTx(s) /\ sendReqFront.kind = "StopTransaction"
<1>1. TypeOK
  BY DEF IInv
<1>2. ASSUME sendReqFront # None, m \in Received(sendReqFront)
      PROVE  \E s : s = sendReqFront.session /\
                \/ m = StartTx(s) /\ sendReqFront.kind = "StartTransaction"
                \/ m = StopTx(s) /\ sendReqFront.kind = "StopTransaction"
  BY <1>1, <1>2, ReceivedIs
<1>3. CASE ServerAnswers
  <2>1. sendReqFront # None /\ m \in Received(sendReqFront)
    BY <1>1, <1>3 DEF ServerAnswers, TypeOK
  <2>2. QED
    BY <1>2, <2>1
<1>4. CASE SlotTimeout \/ receiveStrayResponse
  <2>1. sendReqFront # None /\ m \in Received(sendReqFront)
    BY <1>4 DEF SlotTimeout, receiveStrayResponse, GiveUp
  <2>2. QED
    BY <1>2, <2>1
<1>5. CASE UNCHANGED received
  BY <1>5
<1>6. QED
  BY <1>3, <1>4, <1>5
  DEF Next, Loop, Poll, PollRequest, Polling, vars, history,
      beginTransaction, beginTransaction_authorized, endTransaction, Rollback, CollectStopped,
      SessionLoop, GiveUpAnAuthorize, QueueTimeout, receiveResponse,
      Connect, Disconnect, SetClock, Reboot, BeginInterrupted

\* The server sees the sessions in order: getFrontRequestOpNr() sends no StartTransaction
\* before the StopTransaction of each earlier session that has charged, and no
\* StopTransaction before its StartTransaction has been confirmed.
THEOREM ServerSeesOrder ==
    ASSUME ~BeginEarly
    PROVE  Spec => ServerOrder
<1>1. ASSUME IInv, [Next]_vars, NEW m \in received' \ received
      PROVE  IF m[1] = "StartTransaction"
             THEN \A s \in charged : s < m[2] =>
                     s \in waived \/ <<"StopTransaction", s>> \in received
             ELSE <<"StartTransaction", m[2]>> \in received
  <2>1. PICK s : /\ sendReqFront # None /\ s = sendReqFront.session
                 /\ \/ m = StartTx(s) /\ sendReqFront.kind = "StartTransaction"
                    \/ m = StopTx(s) /\ sendReqFront.kind = "StopTransaction"
    BY <1>1, ReceivedFrom
  <2>2. InFlight /\ TypeOK /\ MemSound /\ ServerKnows
    BY <1>1 DEF IInv, Knowledge
  <2>3. CASE m = StartTx(s) /\ sendReqFront.kind = "StartTransaction"
    BY <2>1, <2>2, <2>3 DEF InFlight, StartTx, StopTx
  <2>4. CASE m = StopTx(s) /\ sendReqFront.kind = "StopTransaction"
    <3>1. s \in Referenced
      BY <2>1, <2>2, HeldIs
    <3>2. StartTx(s) \in confirmed
      BY <2>1, <2>2, <2>4, <3>1 DEF InFlight, MemSound, Sound, Knows
    <3>3. QED
      BY <2>2, <2>4, <3>2 DEF ServerKnows, StartTx, StopTx
  <2>5. QED
    BY <2>1, <2>3, <2>4
<1>2. IInv /\ [Next]_vars =>
         [\A m \in received' \ received :
             IF m[1] = "StartTransaction"
             THEN \A s \in charged : s < m[2] =>
                     s \in waived \/ <<"StopTransaction", s>> \in received
             ELSE <<"StartTransaction", m[2]>> \in received]_vars
  BY <1>1
<1>3. QED
  BY <1>2, Invariance, PTL DEF Spec, ServerOrder

-----------------------------------------------------------------------------
(* The running transaction is the current one, if no session is ended while  *)
(* its Authorize is pending, and none is silent from the beginning.          *)

\* A session that waits for its Authorize has not reported anything yet.
Clean(t) == IsGood(t) /\ ~t.deauthorized /\ t.start # "confirmed" /\ t.startTry = 0

\* Each session has one Authorize at most.
InSlot(s) == sendReqFront # None /\ sendReqFront.kind = "Authorize" /\ sendReqFront.session = s
Waiting ==
    /\ \A j, k \in DOMAIN authQueue : authQueue[j] = authQueue[k] => j = k
    /\ \A s \in Session : InSlot(s) => \A k \in DOMAIN authQueue : authQueue[k] # s
    /\ \A s \in Session : AuthorizePending(s) => Clean(mem[s])

\* No entry is beyond the end of the journal.
BeforeEnd == \A n \in TxNr : flash[n] # None => Ahead(n) < Ahead(txNrEnd)

Orderly == Waiting /\ BeforeEnd /\ StartedIsCurrent

LEMMA PendingIs ==
    ASSUME TypeOK, NEW s \in Session, AuthorizePending(s)
    PROVE  s \in Referenced
  BY HeldIs DEF AuthorizePending

\* A transaction that is not rolled back has its file.
LEMMA FiledIs ==
    ASSUME TypeOK, Places, NEW s \in Referenced, ~IsRolledBack(mem[s]) \/ transaction # None
    PROVE  InJournal(s)
  BY DEF Places, Placed, WasRemoved

\* The file of a running transaction is the one of its object.
LEMMA RunningFile ==
    ASSUME TypeOK, Journal, StartedIsCurrent,
           NEW n \in TxNr, flash[n] # None, isRunning(flash[n].tx)
    PROVE  /\ transaction # None /\ transaction = flash[n].session
           /\ n = mem[transaction].nr /\ isRunning(mem[transaction])
<1>1. transaction = flash[n].session /\ transaction \in Session
  BY CopyTypes DEF StartedIsCurrent
<1>2. transaction # None /\ transaction \in Referenced
  BY <1>1, ReferencedIs, HeldIs
<1>3. InJournal(transaction) /\ n = mem[transaction].nr
  BY <1>1, <1>2, FiledIs DEF Journal, Places, Placed, HasFile
<1>4. QED
  BY <1>1, <1>2, <1>3 DEF InJournal, Agree, isRunning

\* The Requests that wait stay what they are, or are dropped, while one object is changed.
LEMMA WaitingKept ==
    ASSUME TypeOK, Waiting, UNCHANGED authQueue, sendReqFront' \in {sendReqFront, None},
           NEW h, \A s \in Session : s # h => mem'[s] = mem[s],
           AuthorizePending(h)' => Clean(mem'[h])
    PROVE  Waiting'
<1>1. \A s : InSlot(s)' => InSlot(s)
  BY DEF InSlot
<1>2. \A s \in Session : AuthorizePending(s)' => AuthorizePending(s)
  BY DEF AuthorizePending
<1>3. \A s \in Session : AuthorizePending(s)' => Clean(mem'[s])
  BY <1>2 DEF Waiting
<1>4. \A s \in Session : InSlot(s)' => \A k \in DOMAIN authQueue' : authQueue'[k] # s
  BY <1>1 DEF Waiting
<1>5. \A j, k \in DOMAIN authQueue' : authQueue'[j] = authQueue'[k] => j = k
  BY DEF Waiting
<1>6. QED
  BY <1>3, <1>4, <1>5 DEF Waiting

\* A commit neither moves a file nor lets it run, but for the current transaction.
LEMMA CommitOrderly ==
    ASSUME TypeOK, BeforeEnd, StartedIsCurrent, NEW s \in Session, mem[s] \in Tx, InJournal(s),
           NEW t \in Tx, Commit(s, t), t.nr = mem[s].nr,
           isRunning(t) => isRunning(mem[s]) \/ s = transaction,
           UNCHANGED <<txNrs, transaction>>
    PROVE  BeforeEnd' /\ StartedIsCurrent'
<1>1. PICK nr \in TxNr : nr = t.nr
  BY DEF Tx
<1>2. /\ flash'[nr] # None /\ flash'[nr].session = s /\ flash'[nr].tx = t
      /\ \A n \in TxNr : n # nr => flash'[n] = flash[n]
  BY <1>1, CommitEffect
<1>3. flash[nr] # None /\ flash[nr].session = s /\ (isRunning(mem[s]) => isRunning(flash[nr].tx))
  BY <1>1 DEF InJournal, HasFile, Agree, isRunning
<1>4. txNrBegin' = txNrBegin /\ txNrEnd' = txNrEnd
  BY DEF txNrs
<1>5. BeforeEnd'
  BY <1>2, <1>3, <1>4 DEF BeforeEnd, Ahead
<1>6. StartedIsCurrent'
  <2>1. \A n \in TxNr : flash'[n] # None /\ isRunning(flash'[n].tx) => transaction = flash'[n].session
    BY <1>2, <1>3 DEF StartedIsCurrent
  <2>2. QED
    BY <2>1 DEF StartedIsCurrent
<1>7. QED
  BY <1>5, <1>6

\* Nothing happens to the objects and the files.
LEMMA QuietOrderly ==
    ASSUME TypeOK, Orderly, UNCHANGED <<txNrBegin, txNrEnd, transaction, mem, flash, authQueue>>,
           sendReqFront' \in {sendReqFront, None}
    PROVE  Orderly'
<1>1. \A s : InSlot(s)' => InSlot(s)
  BY DEF InSlot
<1>2. \A s \in Session : AuthorizePending(s)' => AuthorizePending(s)
  BY DEF AuthorizePending
<1>3. Waiting'
  BY <1>1, <1>2 DEF Waiting, Orderly
<1>4. BeforeEnd'
  BY DEF BeforeEnd, Orderly, Ahead
<1>5. StartedIsCurrent'
  BY DEF StartedIsCurrent, Orderly
<1>6. QED
  BY <1>3, <1>4, <1>5 DEF Orderly

\* endTransaction().
LEMMA EndOrderly ==
    ASSUME IInv, Orderly, ~EndEarly, endTransaction
    PROVE  Orderly'
<1> USE DEF IInv, Journal, Knowledge
<1>1. PICK s \in Referenced : s = transaction /\ s \in Session /\ mem[s] \in Tx /\ s # None
  BY HeldIs, CopyTypes DEF endTransaction
<1>2. PICK t \in Tx : t = [mem[s] EXCEPT !.active = FALSE]
  BY <1>1 DEF Tx
<1>3. Commit(s, t) /\ UNCHANGED <<txNrs, refVars, rpcVars>> /\ ~AuthorizePending(s)
  BY <1>1, <1>2 DEF endTransaction
<1>4. t.nr = mem[s].nr /\ (isRunning(t) => isRunning(mem[s]))
  BY <1>1, <1>2 DEF Tx, isRunning
<1>5. InJournal(s)
  BY <1>1, FiledIs
<1>6. UNCHANGED <<txNrs, transaction>> /\ sendReqFront' = sendReqFront /\ authQueue' = authQueue
  BY <1>3 DEF refVars, rpcVars
<1>7. BeforeEnd' /\ StartedIsCurrent'
  BY <1>1, <1>3, <1>4, <1>5, <1>6, CommitOrderly DEF Orderly
<1>8. Waiting'
  <2>1. ~AuthorizePending(s)'
    BY <1>3, <1>6 DEF AuthorizePending
  <2>2. \A r \in Session : r # s => mem'[r] = mem[r]
    BY <1>1, <1>3, <1>4, CommitEffect
  <2>3. QED
    BY <1>6, <2>1, <2>2, WaitingKept DEF Orderly
<1>9. QED
  BY <1>7, <1>8 DEF Orderly

\* A transaction that is removed is the last one.
LEMMA RollbackOrderly ==
    ASSUME IInv, Orderly, Rollback
    PROVE  Orderly'
<1> USE DEF IInv, Journal, Knowledge
<1>1. PICK s \in Referenced : s = transaction /\ s \in Session /\ mem[s] \in Tx /\ s # None
  BY HeldIs, CopyTypes DEF Rollback
<1>2. PICK e \in TxNr : e = mem[s].nr
  BY <1>1 DEF Tx
<1>3. /\ flash' = Remove(flash, {e}) /\ txNrEnd' = e /\ txNrBegin' = txNrBegin
      /\ transaction' = None /\ mem' = mem /\ authQueue' = authQueue /\ sendReqFront' = sendReqFront
      /\ IsRolledBack(mem[s])
  BY <1>1, <1>2 DEF Rollback, rpcVars, IsRolledBack
<1>4. \A n \in TxNr : flash'[n] = IF n = e THEN None ELSE flash[n]
  BY <1>3 DEF Remove
<1>5. Ahead(e) + 1 = Ahead(txNrEnd)
  BY <1>1, <1>2 DEF Ends
<1>6. ASSUME NEW n \in TxNr, flash'[n] # None
      PROVE  Ahead(n) < Ahead(e) /\ ~isRunning(flash'[n].tx)
  <2>1. n # e /\ flash'[n] = flash[n] /\ flash[n] # None
    BY <1>4, <1>6
  <2>2. Ahead(n) < Ahead(txNrEnd)
    BY <2>1 DEF BeforeEnd, Orderly
  <2>3. Ahead(n) # Ahead(e)
    BY <2>1, MinusInjective DEF Ahead, TypeOK
  <2>4. Ahead(n) \in Nat /\ Ahead(e) \in Nat
    BY AheadType
  <2>5. ~isRunning(flash[n].tx)
    BY <1>1, <1>2, <2>1, RunningFile DEF Orderly
  <2>6. QED
    BY <1>5, <2>1, <2>2, <2>3, <2>4, <2>5
<1>7. BeforeEnd'
  BY <1>3, <1>6 DEF BeforeEnd, Ahead
<1>8. StartedIsCurrent'
  BY <1>6 DEF StartedIsCurrent
<1>9. Waiting'
  BY <1>3 DEF Waiting, Orderly, InSlot, AuthorizePending
<1>10. QED
  BY <1>7, <1>8, <1>9 DEF Orderly

\* A stopped transaction does not run.
LEMMA CollectOrderly ==
    ASSUME IInv, Orderly, CollectStopped
    PROVE  Orderly'
<1> USE DEF IInv, Journal, Knowledge
<1>1. \A n \in TxNr : flash[n] # None => ~isRunning(flash[n].tx)
  BY RunningFile DEF Orderly, CollectStopped, isRunning
<1>2. /\ flash' = flash /\ txNrEnd' = txNrEnd /\ txNrBegin' = txNrBegin
      /\ mem' = mem /\ authQueue' = authQueue /\ sendReqFront' = sendReqFront
  BY DEF CollectStopped, rpcVars, txNrs
<1>3. StartedIsCurrent'
  BY <1>1, <1>2 DEF StartedIsCurrent
<1>4. BeforeEnd'
  BY <1>2 DEF BeforeEnd, Ahead, Orderly
<1>5. Waiting'
  BY <1>2 DEF Waiting, Orderly, InSlot, AuthorizePending
<1>6. QED
  BY <1>3, <1>4, <1>5 DEF Orderly

\* What the checks of loop() do to a transaction that waits for its Authorize.
LEMMA CleanEnded ==
    ASSUME NEW m \in Tx, Clean(m), NEW unplugged, NEW policy
    PROVE  LET u == EndedDeauthorized(
                       EndedWaiting(EndedUnplugged(m, unplugged, policy), unplugged, FALSE), policy)
           IN  u \in Tx /\ Clean(u) /\ u.silent = FALSE
               /\ Clean(Started(u)) /\ Clean(Stopped(u))
  BY DEF Clean, IsGood, isAborted, EndedDeauthorized, EndedWaiting, EndedUnplugged, isRunning,
         Inactive, Started, Stopped, Tx

\* The session goes on.  A session that waits for its Authorize is not ended for it.
LEMMA SessionOrderly ==
    ASSUME IInv, Orderly, ~EndEarly, SessionLoop
    PROVE  Orderly'
<1> USE DEF IInv, Journal, Knowledge
<1>1. PICK s \in Referenced : s = transaction /\ s \in Session /\ mem[s] \in Tx /\ s # None
  BY HeldIs, CopyTypes DEF SessionLoop
<1>2. mem[s].stop = "no"
  BY <1>1 DEF SessionLoop
<1>3. PICK t \in Tx : /\ Commit(s, t) /\ t.nr = mem[s].nr
                      /\ AuthorizePending(s) => Clean(t)
  <2>1. PICK unplugged, timedOut, policy, ready \in BOOLEAN :
           LET u == EndedDeauthorized(EndedWaiting(EndedUnplugged(mem[s], unplugged, policy),
                                                   unplugged, timedOut), policy)
               v == IF ready /\ MayStart(u, unplugged) THEN Started(u)
                    ELSE IF ready /\ MayStop(u) THEN Stopped(u) ELSE u
           IN  Commit(s, v) /\ (timedOut => EndEarly \/ ~AuthorizePending(s))
    BY <1>1 DEF SessionLoop
  <2>2. PICK u : u = EndedDeauthorized(EndedWaiting(EndedUnplugged(mem[s], unplugged, policy),
                                                    unplugged, timedOut), policy)
    OBVIOUS
  <2>3. u \in {mem[s], Inactive(mem[s])}
    BY <1>1, <2>2, EndedIs
  <2>4. PICK v : v = IF ready /\ MayStart(u, unplugged) THEN Started(u)
                     ELSE IF ready /\ MayStop(u) THEN Stopped(u) ELSE u
    OBVIOUS
  <2>5. Commit(s, v) /\ (timedOut => ~AuthorizePending(s))
    BY <2>1, <2>2, <2>4
  <2>6. \/ v = Started(u) /\ u.start = "no" /\ u.active
        \/ v = Stopped(u) /\ MayStop(u)
        \/ v = u
    BY <2>4 DEF MayStart
  <2>7. v \in Tx /\ v.nr = mem[s].nr
    BY <1>1, <1>2, <2>3, <2>6, SessionLoopIs
  <2>8. ASSUME AuthorizePending(s) PROVE Clean(v)
    <3>1. Clean(mem[s])
      BY <1>1, <2>8 DEF Orderly, Waiting
    <3>2. timedOut = FALSE
      BY <2>5, <2>8
    <3>3. u = EndedDeauthorized(EndedWaiting(EndedUnplugged(mem[s], unplugged, policy),
                                             unplugged, FALSE), policy)
      BY <2>2, <3>2
    <3>4. Clean(u) /\ Clean(Started(u)) /\ Clean(Stopped(u))
      BY <1>1, <3>1, <3>3, CleanEnded
    <3>5. QED
      BY <2>6, <3>4
  <2>9. QED
    BY <2>5, <2>7, <2>8
<1>4. UNCHANGED <<txNrs, refVars, rpcVars>>
  BY DEF SessionLoop
<1>5. UNCHANGED <<txNrs, transaction>> /\ sendReqFront' = sendReqFront /\ authQueue' = authQueue
  BY <1>4 DEF refVars, rpcVars
<1>6. InJournal(s)
  BY <1>1, FiledIs
<1>7. BeforeEnd' /\ StartedIsCurrent'
  BY <1>1, <1>3, <1>5, <1>6, CommitOrderly DEF Orderly
<1>8. Waiting'
  <2>1. mem'[s] = t /\ \A r \in Session : r # s => mem'[r] = mem[r]
    BY <1>1, <1>3, CommitEffect
  <2>2. AuthorizePending(s)' => AuthorizePending(s)
    BY <1>5 DEF AuthorizePending
  <2>3. QED
    BY <1>3, <1>5, <2>1, <2>2, WaitingKept DEF Orderly
<1>9. QED
  BY <1>7, <1>8 DEF Orderly

\* No file is added, and none is started.
LEMMA FilesKept ==
    ASSUME BeforeEnd, StartedIsCurrent, UNCHANGED <<txNrBegin, txNrEnd, transaction>>,
           \A n \in TxNr : flash'[n] # None =>
              /\ flash[n] # None /\ flash'[n].session = flash[n].session
              /\ isRunning(flash'[n].tx) => isRunning(flash[n].tx)
    PROVE  BeforeEnd' /\ StartedIsCurrent'
<1>1. BeforeEnd'
  BY DEF BeforeEnd, Ahead
<1>2. \A n \in TxNr : flash'[n] # None /\ isRunning(flash'[n].tx) => transaction = flash'[n].session
  BY DEF StartedIsCurrent
<1>3. StartedIsCurrent'
  BY <1>2 DEF StartedIsCurrent
<1>4. QED
  BY <1>1, <1>3

\* An Authorize is sent from the default send queue.
LEMMA PollAuthorizeOrderly ==
    ASSUME IInv, Orderly, Polling, PollAuthorize
    PROVE  Orderly'
<1>1. TypeOK /\ Journal /\ Waiting /\ BeforeEnd /\ StartedIsCurrent
  BY DEF IInv, Orderly
<1>2. /\ KeepFront /\ flash' = flash /\ authQueue' = Tail(authQueue) /\ authQueue # <<>>
      /\ UNCHANGED <<txNrBegin, txNrEnd, transaction>> /\ sendReqFront = None
  BY DEF PollAuthorize, Polling, getFrontRequestOpNr
<1>3. PICK q \in Seq(Session) : q = authQueue /\ q # <<>>
  BY <1>1, <1>2 DEF TypeOK
<1>4. /\ Head(q) \in Session /\ Head(q) = q[1] /\ 1 \in DOMAIN q
      /\ Tail(q) \in Seq(Session) /\ DOMAIN Tail(q) \subseteq Nat \ {0}
      /\ \A k \in DOMAIN Tail(q) : k + 1 \in DOMAIN q /\ Tail(q)[k] = q[k + 1]
  BY <1>3
<1>5. PICK h \in Session, z \in Seq(Session) : h = Head(q) /\ z = Tail(q)
  BY <1>4
<1>6. sendReqFront' = [kind |-> "Authorize", session |-> h] /\ authQueue' = z
  BY <1>2, <1>3, <1>5 DEF PollAuthorize, Transmit
<1>7. \A j, k \in DOMAIN q : q[j] = q[k] => j = k
  BY <1>1, <1>3 DEF Waiting
<1>8. \A j, k \in DOMAIN z : z[j] = z[k] => j = k
  BY <1>4, <1>5, <1>7
<1>9. \A k \in DOMAIN z : z[k] # h
  BY <1>4, <1>5, <1>7
<1>10. \A s \in Session : InSlot(s)' => s = h
  BY <1>6 DEF InSlot
<1>11. \A s \in Session : AuthorizePending(s)' => AuthorizePending(s)
  BY <1>3, <1>4, <1>5, <1>6 DEF AuthorizePending
<1>12. \A s \in Session : AuthorizePending(s) => mem'[s] = mem[s]
  <2>1. SUFFICES ASSUME NEW s \in Session, AuthorizePending(s) PROVE mem'[s] = mem[s]
    OBVIOUS
  <2>2. s \in Referenced
    BY <1>1, <2>1, PendingIs
  <2>3. newFront = s => newFrontTx = mem[s]
    BY <1>1, <2>2, NewFrontIs
  <2>4. QED
    BY <1>1, <1>2, <2>1, <2>3 DEF KeepFront, TypeOK
<1>13. Waiting'
  <2>1. \A s \in Session : AuthorizePending(s)' => Clean(mem'[s])
    BY <1>1, <1>11, <1>12 DEF Waiting
  <2>2. \A s \in Session : InSlot(s)' => \A k \in DOMAIN authQueue' : authQueue'[k] # s
    BY <1>6, <1>9, <1>10
  <2>3. \A j, k \in DOMAIN authQueue' : authQueue'[j] = authQueue'[k] => j = k
    BY <1>6, <1>8
  <2>4. QED
    BY <2>1, <2>2, <2>3 DEF Waiting
<1>14. BeforeEnd' /\ StartedIsCurrent'
  BY <1>1, <1>2, FilesKept
<1>15. QED
  BY <1>13, <1>14 DEF Orderly

\* No Authorize waits when a transaction message is polled.
LEMMA NoneWaits ==
    ASSUME authQueue' = <<>>, sendReqFront' = None \/ sendReqFront'.kind # "Authorize"
    PROVE  Waiting'
<1>1. \A s : ~InSlot(s)'
  BY DEF InSlot
<1>2. \A s : ~AuthorizePending(s)'
  BY DEF AuthorizePending
<1>3. QED
  BY <1>1, <1>2 DEF Waiting

\* The other polls.
LEMMA PollMessageOrderly ==
    ASSUME IInv, Orderly, Polling, PollNothing \/ PollStartTx \/ PollStopTx
    PROVE  Orderly'
<1>1. TypeOK /\ Journal /\ BeforeEnd /\ StartedIsCurrent
  BY DEF IInv, Orderly
<1>2. /\ UNCHANGED <<txNrBegin, txNrEnd, transaction>> /\ sendReqFront = None
      /\ authQueue' = authQueue /\ authQueue = <<>>
  BY DEF PollNothing, PollStartTx, PollStopTx, Polling, getFrontRequestOpNr
<1>3. sendReqFront' = None \/ sendReqFront'.kind # "Authorize"
  BY <1>2 DEF PollNothing, PollStartTx, PollStopTx, Transmit, NoTransmission
<1>4. Waiting'
  BY <1>2, <1>3, NoneWaits
<1>5. CASE flash' = flash
  BY <1>1, <1>2, <1>4, <1>5, FilesKept DEF Orderly
<1>6. CASE flash' # flash
  <2>1. PICK s, t, n : s = newFront /\ t = newFrontTx /\ n = FrontNr(Collected)
    OBVIOUS
  <2>2. PICK u : /\ s # None /\ flash' = Write(flash, s, u) /\ u.nr = t.nr
                 /\ u.start = t.start /\ u.stop = t.stop
    <3>1. CASE PollStartTx
      <4>1. s # None
        BY <2>1, <3>1 DEF PollStartTx
      <4>2. t \in Tx
        BY <2>1, <4>1, PolledIs
      <4>3. PICK u \in {[t EXCEPT !.silent = TRUE, !.active = FALSE], [t EXCEPT !.startTry = @ + 1]} :
               flash' = Write(flash, s, u)
        BY <2>1, <3>1 DEF PollStartTx, CommitFront
      <4>4. u.nr = t.nr /\ u.start = t.start /\ u.stop = t.stop
        BY <4>2, <4>3 DEF Tx
      <4>5. QED
        BY <4>1, <4>3, <4>4
    <3>2. CASE PollStopTx
      <4>1. s # None
        BY <2>1, <3>2 DEF PollStopTx
      <4>2. t \in Tx
        BY <2>1, <4>1, PolledIs
      <4>3. flash' = Write(flash, s, [t EXCEPT !.stopTry = @ + 1])
        BY <1>6, <2>1, <3>2 DEF PollStopTx, CommitFront
      <4>4. PICK u : u = [t EXCEPT !.stopTry = @ + 1]
        OBVIOUS
      <4>5. u.nr = t.nr /\ u.start = t.start /\ u.stop = t.stop
        BY <4>2, <4>4 DEF Tx
      <4>6. QED
        BY <4>1, <4>3, <4>4, <4>5
    <3>3. QED
      BY <1>6, <3>1, <3>2 DEF PollNothing
  <2>3. /\ s \in Session /\ n \in TxNr /\ t \in Tx /\ t.nr = n
        /\ HasFile(s, n) /\ Agree(t, flash[n].tx)
    BY <2>1, <2>2, PolledIs
  <2>4. \A m \in TxNr : flash'[m] = IF m = n THEN [session |-> s, tx |-> u] ELSE flash[m]
    BY <1>1, <2>2, <2>3 DEF Write, TypeOK
  <2>5. isRunning(u) => isRunning(flash[n].tx)
    BY <2>2, <2>3 DEF isRunning, Agree
  <2>6. \A m \in TxNr : flash'[m] # None =>
           /\ flash[m] # None /\ flash'[m].session = flash[m].session
           /\ isRunning(flash'[m].tx) => isRunning(flash[m].tx)
    BY <2>3, <2>4, <2>5 DEF HasFile
  <2>7. QED
    BY <1>1, <1>2, <1>4, <2>6, FilesKept DEF Orderly
<1>7. QED
  BY <1>5, <1>6

\* The Request in flight is released, after its object has been committed or left alone.
LEMMA ReleasedOrderly ==
    ASSUME IInv, Orderly, sendReqFront # None, NEW s \in Session, s = sendReqFront.session,
           UNCHANGED <<txNrs, transaction, authQueue>>, sendReqFront' = None,
           \/ UNCHANGED <<mem, flash>>
           \/ \E t \in Tx : /\ Commit(s, t) /\ t.nr = mem[s].nr
                            /\ isRunning(t) => isRunning(mem[s])
    PROVE  Orderly'
<1> USE DEF IInv, Journal, Knowledge
<1>1. s \in Referenced /\ mem[s] \in Tx
  BY HeldIs, CopyTypes
<1>2. ~IsRolledBack(mem[s])
  <2>1. CASE sendReqFront.kind = "Authorize"
    <3>1. Clean(mem[s])
      BY <2>1 DEF Orderly, Waiting, AuthorizePending
    <3>2. QED
      BY <3>1 DEF Clean, IsGood, IsRolledBack
  <2>2. CASE sendReqFront.kind \in {"StartTransaction", "StopTransaction"}
    BY <2>2 DEF InFlight, IsRolledBack, isAborted
  <2>3. QED
    BY <2>1, <2>2, HeldIs DEF Request
<1>3. ~AuthorizePending(s)'
  <2>1. SUFFICES ASSUME NEW k \in DOMAIN authQueue, authQueue[k] = s PROVE FALSE
    BY DEF AuthorizePending
  <2>2. Clean(mem[s])
    BY <2>1 DEF Orderly, Waiting, AuthorizePending
  <2>3. sendReqFront.kind # "Authorize"
    BY <2>1 DEF Orderly, Waiting, InSlot
  <2>4. sendReqFront.kind \in {"StartTransaction", "StopTransaction"}
    BY <2>3, HeldIs DEF Request
  <2>5. QED
    BY <2>2, <2>4 DEF Clean, InFlight
<1>4. CASE UNCHANGED <<mem, flash>>
  BY <1>4, QuietOrderly DEF txNrs
<1>5. CASE \E t \in Tx : Commit(s, t) /\ t.nr = mem[s].nr /\ (isRunning(t) => isRunning(mem[s]))
  <2>1. PICK t \in Tx : Commit(s, t) /\ t.nr = mem[s].nr /\ (isRunning(t) => isRunning(mem[s]))
    BY <1>5
  <2>2. InJournal(s)
    BY <1>1, <1>2, FiledIs
  <2>3. BeforeEnd' /\ StartedIsCurrent'
    BY <1>1, <2>1, <2>2, CommitOrderly DEF Orderly
  <2>4. \A r \in Session : r # s => mem'[r] = mem[r]
    BY <1>1, <2>1, CommitEffect
  <2>5. Waiting'
    BY <1>3, <2>4, WaitingKept DEF Orderly
  <2>6. QED
    BY <2>3, <2>5 DEF Orderly
<1>6. QED
  BY <1>4, <1>5

\* The Request in flight times out.
LEMMA SlotOrderly ==
    ASSUME IInv, Orderly, SlotTimeout
    PROVE  Orderly'
<1>1. PICK s \in Session : sendReqFront # None /\ s = sendReqFront.session /\ mem[s] \in Tx
  BY HeldIs, CopyTypes DEF SlotTimeout, IInv
<1>2. /\ UNCHANGED <<txNrs, transaction, authQueue>> /\ sendReqFront' = None
  BY DEF SlotTimeout, GiveUp, refVars
<1>3. \/ UNCHANGED <<mem, flash>>
      \/ \E t \in Tx : /\ Commit(s, t) /\ t.nr = mem[s].nr
                       /\ isRunning(t) => isRunning(mem[s])
  <2>1. CASE RequestAborted
    <3>1. PICK t \in Tx : t = [mem[s] EXCEPT !.silent = TRUE, !.active = FALSE]
      BY <1>1 DEF Tx
    <3>2. Commit(s, t) \/ UNCHANGED <<mem, flash>>
      BY <1>1, <2>1, <3>1 DEF RequestAborted, Aborted
    <3>3. t.nr = mem[s].nr /\ (isRunning(t) => isRunning(mem[s]))
      BY <1>1, <3>1 DEF Tx, isRunning
    <3>4. QED
      BY <3>2, <3>3
  <2>2. CASE \E t \in Offline(mem[s]) : Commit(s, t)
    <3>1. PICK t \in Offline(mem[s]) : Commit(s, t)
      BY <2>2
    <3>2. t \in Tx /\ t.nr = mem[s].nr /\ (isRunning(t) => isRunning(mem[s]))
      BY <1>1, <3>1, OfflineIs DEF SameProgress, isRunning
    <3>3. QED
      BY <3>1, <3>2
  <2>3. QED
    BY <1>1, <2>1, <2>2 DEF SlotTimeout
<1>4. QED
  BY <1>1, <1>2, <1>3, ReleasedOrderly

\* The Request in flight is answered.
LEMMA ReceiveOrderly ==
    ASSUME IInv, Orderly, receiveResponse
    PROVE  Orderly'
<1>1. PICK s \in Session : sendReqFront # None /\ s = sendReqFront.session /\ mem[s] \in Tx
  BY HeldIs, CopyTypes DEF receiveResponse, IInv, TypeOK
<1>2. /\ UNCHANGED <<txNrs, transaction, authQueue>> /\ sendReqFront' = None
  BY DEF receiveResponse, refVars
<1>3. \/ UNCHANGED <<mem, flash>>
      \/ \E t \in Tx : /\ Commit(s, t) /\ t.nr = mem[s].nr
                       /\ isRunning(t) => isRunning(mem[s])
  <2>1. CASE \E t \in {[mem[s] EXCEPT !.authorized = TRUE], Inactive(mem[s]),
                       [mem[s] EXCEPT !.deauthorized = TRUE],
                       [mem[s] EXCEPT !.silent = TRUE, !.active = FALSE]} : Commit(s, t)
    <3>1. PICK t \in {[mem[s] EXCEPT !.authorized = TRUE], Inactive(mem[s]),
                      [mem[s] EXCEPT !.deauthorized = TRUE],
                      [mem[s] EXCEPT !.silent = TRUE, !.active = FALSE]} : Commit(s, t)
      BY <2>1
    <3>2. t \in Tx /\ t.nr = mem[s].nr /\ (isRunning(t) => isRunning(mem[s]))
      BY <1>1, <3>1 DEF Tx, Inactive, isRunning
    <3>3. QED
      BY <3>1, <3>2
  <2>2. CASE /\ sendReqFront.kind = "StartTransaction"
             /\ \E d \in BOOLEAN : Commit(s, [mem[s] EXCEPT !.start = "confirmed", !.deauthorized = d])
    <3>1. PICK d \in BOOLEAN : Commit(s, [mem[s] EXCEPT !.start = "confirmed", !.deauthorized = d])
      BY <2>2
    <3>2. PICK t \in Tx : t = [mem[s] EXCEPT !.start = "confirmed", !.deauthorized = d]
      BY <1>1 DEF Tx
    <3>3. mem[s].start = "requested"
      BY <1>1, <2>2 DEF IInv, Knowledge, InFlight
    <3>4. t.nr = mem[s].nr /\ (isRunning(t) => isRunning(mem[s]))
      BY <1>1, <3>2, <3>3 DEF Tx, isRunning
    <3>5. QED
      BY <3>1, <3>2, <3>4
  <2>3. CASE Commit(s, [mem[s] EXCEPT !.stop = "confirmed"])
    <3>1. PICK t \in Tx : t = [mem[s] EXCEPT !.stop = "confirmed"]
      BY <1>1 DEF Tx
    <3>2. t.nr = mem[s].nr /\ ~isRunning(t)
      BY <1>1, <3>1 DEF Tx, isRunning
    <3>3. QED
      BY <2>3, <3>1, <3>2
  <2>4. CASE UNCHANGED <<mem, flash>>
    BY <2>4
  <2>5. CASE sendReqFront.kind = "StartTransaction" /\ StartTransactionAnswered(s, exchange)
    <3>1. CASE exchange = "error"
      BY <1>1, <2>1, <2>4, <2>5, <3>1 DEF StartTransactionAnswered, RequestAborted, Aborted
    <3>2. CASE exchange # "error"
      <4>1. PICK d : d = (mem[s].deauthorized \/ exchange = "rejected")
        OBVIOUS
      <4>2. d \in BOOLEAN
        BY <1>1, <4>1 DEF Tx
      <4>3. Commit(s, [mem[s] EXCEPT !.start = "confirmed", !.deauthorized = d])
        BY <1>1, <2>5, <3>2, <4>1 DEF StartTransactionAnswered
      <4>4. QED
        BY <2>2, <2>5, <4>2, <4>3
    <3>3. QED
      BY <3>1, <3>2
  <2>6. QED
    BY <1>1, <2>1, <2>3, <2>4, <2>5 DEF receiveResponse, AuthorizeAnswered, StopTransactionAnswered
<1>4. QED
  BY <1>1, <1>2, <1>3, ReleasedOrderly

\* An Authorize that waits times out.
LEMMA QueueOrderly ==
    ASSUME IInv, Orderly, GiveUpAnAuthorize
    PROVE  Orderly'
<1> USE DEF IInv, Journal, Knowledge
<1>1. PICK k \in DOMAIN authQueue : QueueTimeout(k)
  BY DEF GiveUpAnAuthorize
<1>2. PICK s \in Referenced : s = authQueue[k] /\ s \in Session /\ mem[s] \in Tx
  BY HeldIs, CopyTypes
<1>3. PICK t \in Tx : t \in Offline(mem[s]) /\ Commit(s, t)
  BY <1>1, <1>2, OfflineIs DEF QueueTimeout
<1>4. /\ authQueue' = SubSeq(authQueue, 1, k - 1) \o SubSeq(authQueue, k + 1, Len(authQueue))
      /\ UNCHANGED <<txNrs, transaction, sendReqFront>>
  BY <1>1 DEF QueueTimeout, refVars
<1>5. t.nr = mem[s].nr /\ (isRunning(t) => isRunning(mem[s]))
  BY <1>2, <1>3, OfflineIs DEF SameProgress, isRunning
<1>6. InJournal(s)
  <2>1. Clean(mem[s])
    BY <1>2 DEF Orderly, Waiting, AuthorizePending
  <2>2. QED
    BY <1>2, <2>1, FiledIs DEF Clean, IsGood, IsRolledBack
<1>7. BeforeEnd' /\ StartedIsCurrent'
  BY <1>2, <1>3, <1>4, <1>5, <1>6, CommitOrderly DEF Orderly
<1>8. PICK q \in Seq(Session) : q = authQueue /\ k \in DOMAIN q
  BY DEF TypeOK
<1>9. PICK z :
         /\ z = SubSeq(q, 1, k - 1) \o SubSeq(q, k + 1, Len(q))
         /\ z \in Seq(Session) /\ Len(z) = Len(q) - 1
         /\ \A i \in DOMAIN z : \E j \in DOMAIN q :
               j = (IF i < k THEN i ELSE i + 1) /\ z[i] = q[j]
  BY <1>8, RemovedIs
<1>10. authQueue' = z /\ DOMAIN z \subseteq Nat /\ k \in Nat
  BY <1>4, <1>8, <1>9
<1>11. \A i, j \in DOMAIN q : q[i] = q[j] => i = j
  BY <1>8 DEF Orderly, Waiting
<1>12. \A i \in DOMAIN z : \E j \in DOMAIN q : j = (IF i < k THEN i ELSE i + 1) /\ z[i] = q[j] /\ j # k
  <2>1. SUFFICES ASSUME NEW i \in DOMAIN z
                 PROVE  \E j \in DOMAIN q : j = (IF i < k THEN i ELSE i + 1) /\ z[i] = q[j] /\ j # k
    OBVIOUS
  <2>2. PICK j \in DOMAIN q : j = (IF i < k THEN i ELSE i + 1) /\ z[i] = q[j]
    BY <1>9, <2>1
  <2>3. i \in Nat /\ k \in Nat
    BY <1>10, <2>1
  <2>4. j # k
    BY <2>2, <2>3
  <2>5. QED
    BY <2>2, <2>4
<1>13. \A i, j \in DOMAIN z : z[i] = z[j] => i = j
  BY <1>10, <1>11, <1>12
<1>14. \A i \in DOMAIN z : z[i] # s
  BY <1>2, <1>8, <1>11, <1>12
<1>15. \A r \in Session : InSlot(r)' <=> InSlot(r)
  BY <1>4 DEF InSlot
<1>16. \A r \in Session : AuthorizePending(r)' => AuthorizePending(r) /\ r # s
  <2>1. ~InSlot(s)
    BY <1>2 DEF Orderly, Waiting
  <2>2. \A r \in Session : AuthorizePending(r) <=> InSlot(r) \/ \E i \in DOMAIN authQueue : authQueue[i] = r
    BY DEF AuthorizePending, InSlot
  <2>3. \A r \in Session : AuthorizePending(r)' <=> InSlot(r) \/ \E i \in DOMAIN z : z[i] = r
    BY <1>4, <1>10 DEF AuthorizePending, InSlot
  <2>4. QED
    BY <1>8, <1>12, <1>14, <2>1, <2>2, <2>3
<1>17. \A r \in Session : r # s => mem'[r] = mem[r]
  BY <1>2, <1>3, <1>5, CommitEffect
<1>18. Waiting'
  <2>1. \A r \in Session : AuthorizePending(r)' => Clean(mem'[r])
    BY <1>16, <1>17 DEF Orderly, Waiting
  <2>2. \A r \in Session : InSlot(r)' => \A i \in DOMAIN authQueue' : authQueue'[i] # r
    BY <1>8, <1>10, <1>12, <1>15 DEF Orderly, Waiting
  <2>3. \A i, j \in DOMAIN authQueue' : authQueue'[i] = authQueue'[j] => i = j
    BY <1>10, <1>13
  <2>4. QED
    BY <2>1, <2>2, <2>3 DEF Waiting
<1>19. QED
  BY <1>7, <1>18 DEF Orderly

\* The steps that leave the objects and the files alone.
LEMMA OtherOrderly ==
    ASSUME IInv, Orderly,
           receiveStrayResponse \/ ServerAnswers \/ Connect \/ Disconnect \/ SetClock \/ UNCHANGED vars
    PROVE  Orderly'
<1>1. UNCHANGED <<txNrBegin, txNrEnd, transaction, mem, flash, authQueue>>
  BY DEF receiveStrayResponse, ServerAnswers, Connect, Disconnect, SetClock, vars, txNrs, refVars, rpcVars
<1>2. sendReqFront' \in {sendReqFront, None}
  BY DEF receiveStrayResponse, GiveUp, ServerAnswers, Connect, Disconnect, SetClock, vars, rpcVars
<1>3. QED
  BY <1>1, <1>2, QuietOrderly DEF IInv

\* A boot restores the transaction of the newest file.
LEMMA BootOrderly ==
    ASSUME TypeOK, NEW fs, Bootable(fs), BootFrom(fs),
           \A n \in TxNr : fs[n] # None /\ isRunning(fs[n].tx) =>
              \A m \in TxNr : fs[m] # None => Ahead(m) <= Ahead(n)
    PROVE  Orderly'
<1>1. /\ flash' = fs /\ \A n \in TxNr : fs[n] # None => InQueue(n)'
      /\ transaction' # None => \E n \in TxNr : fs[n] # None /\ transaction' = fs[n].session
            /\ \A m \in TxNr : fs[m] # None => Ahead(m) <= Ahead(n)
      /\ sendReqFront' = None /\ authQueue' = <<>>
  BY JournalBoot
<1>2. Waiting'
  BY <1>1, NoneWaits
<1>3. BeforeEnd'
  BY <1>1 DEF BeforeEnd, InQueue
<1>4. StartedIsCurrent'
  <2>1. SUFFICES ASSUME NEW n \in TxNr, fs[n] # None, isRunning(fs[n].tx)
                 PROVE  transaction' = fs[n].session
    BY <1>1 DEF StartedIsCurrent
  <2>2. PICK ns : ns = Files(fs)
    OBVIOUS
  <2>3. ns # {} /\ ns \subseteq TxNr /\ (\A m \in ns : fs[m] # None) /\ InWindow(ns)
    BY <2>1, <2>2 DEF Files, InWindow, Bootable
  <2>4. transaction' = fs[Newest(ns)].session
    BY <2>2, <2>3 DEF BootFrom
  <2>5. PICK k \in ns : k = Newest(ns) /\ \A m \in ns : Ahead(m) <= Ahead(k)
    BY <2>3, NewestIs
  <2>6. n \in ns /\ k \in TxNr
    BY <2>1, <2>2, <2>3, <2>5 DEF Files
  <2>7. Ahead(n) <= Ahead(k) /\ Ahead(k) <= Ahead(n) /\ Ahead(n) \in Nat /\ Ahead(k) \in Nat
    BY <2>1, <2>3, <2>5, <2>6, AheadType
  <2>8. n = k
    <3>1. Ahead(n) = Ahead(k)
      BY <2>7
    <3>2. QED
      BY <2>6, <3>1, MinusInjective DEF Ahead, TypeOK
  <2>9. QED
    BY <2>4, <2>5, <2>8
<1>5. QED
  BY <1>2, <1>3, <1>4 DEF Orderly

LEMMA RebootOrderly ==
    ASSUME IInv, Orderly, Reboot
    PROVE  Orderly'
<1>1. TypeOK /\ Journal /\ Ends /\ BootFrom(flash) /\ Bootable(flash)
  BY FlashBootable DEF IInv, Journal, Reboot
<1>2. ASSUME NEW n \in TxNr, flash[n] # None, isRunning(flash[n].tx), NEW m \in TxNr, flash[m] # None
      PROVE  Ahead(m) <= Ahead(n)
  <2>1. Ahead(n) + 1 = Ahead(txNrEnd)
    BY <1>1, <1>2, RunningFile DEF Ends, Orderly
  <2>2. Ahead(m) < Ahead(txNrEnd)
    BY <1>2 DEF BeforeEnd, Orderly
  <2>3. Ahead(m) \in Nat /\ Ahead(n) \in Nat
    BY <1>1, AheadType
  <2>4. QED
    BY <2>1, <2>2, <2>3
<1>3. QED
  BY <1>1, <1>2, BootOrderly

\* No transaction runs when a session begins.
LEMMA NoneRuns ==
    ASSUME IInv, Orderly, CanBegin
    PROVE  \A n \in TxNr : flash[n] # None => ~isRunning(flash[n].tx)
  BY RunningFile DEF IInv, Orderly, CanBegin

LEMMA InterruptedOrderly ==
    ASSUME IInv, Orderly, ~BeginEarly, BeginInterrupted
    PROVE  Orderly'
<1>1. TypeOK /\ Journal /\ CanBegin /\ MemSound /\ FlashSound /\ FreshOnes
      /\ nextSession' = nextSession + 1
      /\ waived' = (IF Silent THEN waived \cup {nextSession} ELSE waived)
      /\ UNCHANGED <<charged, confirmed, sends>>
  BY DEF BeginInterrupted, IInv, Knowledge
<1>2. PICK fs \in Interrupted : BootFrom(fs)
  BY DEF BeginInterrupted
<1>3. Older
  BY <1>1, NextSessionIs
<1>4. /\ Bootable(fs)
      /\ \A n \in TxNr : fs[n] # None =>
            fs[n] = flash[n] \/ fs[n] = [session |-> nextSession, tx |-> NewTx(newEnd, Silent)]
  BY <1>1, <1>2, <1>3, BeginBootable
<1>5. \A n \in TxNr : fs[n] # None => ~isRunning(fs[n].tx)
  BY <1>1, <1>4, NoneRuns DEF NewTx, isRunning
<1>6. QED
  BY <1>1, <1>2, <1>4, <1>5, BootOrderly

\* The files when a session has begun: the ones that are left, and the new one, which
\* is the last.
LEMMA BeginOrderly ==
    ASSUME IInv, Orderly, ~SilentOffline, CanBegin, ~BeginEarly, Allocate, NEW e, e = newEnd,
           ~isRunning(flash'[e].tx),
           \A n \in TxNr : n # e /\ flash'[n] # None =>
              Cleared[n] # None /\ (isRunning(flash'[n].tx) => isRunning(flash[n].tx))
    PROVE  BeforeEnd' /\ StartedIsCurrent'
<1> USE DEF IInv, Journal
<1>1. PICK b \in TxNr, c \in TxNr : b = txNrBegin /\ c = Next1(e) /\ e \in TxNr
  BY Trimming, Next1Is DEF TypeOK
<1>2. e \in TxNr /\ Ahead(e) <= RecordSize /\ Ahead(e) \in Nat
  BY <1>1, Trimming, AheadType
<1>3. txNrEnd' = c /\ txNrBegin' = IF Evicting THEN Next1(b) ELSE b
  BY <1>1 DEF Allocate
<1>4. Minus(c, b) = Minus(e, b) + 1
  BY <1>1, <1>2, Next1Is, ConstantsAssumption DEF Ahead
<1>5. ASSUME NEW n \in TxNr, flash'[n] # None
      PROVE  /\ Minus(n, b) \in Nat /\ Minus(n, b) <= Minus(e, b) /\ (Evicting => n # b)
             /\ ~isRunning(flash'[n].tx)
  <2>1. CASE n = e
    <3>1. Evicting => Ahead(e) = RecordSize
      BY Eviction
    <3>2. Evicting => n # b
      BY <1>1, <2>1, <3>1, AheadType, ConstantsAssumption
    <3>3. QED
      BY <1>1, <1>2, <2>1, <3>2 DEF Ahead
  <2>2. CASE n # e
    <3>1. Cleared[n] # None /\ (isRunning(flash'[n].tx) => isRunning(flash[n].tx))
      BY <1>5, <2>2
    <3>2. /\ Cleared[n] = flash[n] /\ (Evicting => n # txNrBegin)
          /\ Ahead(n) < Ahead(newEnd) \/ Ahead(txNrEnd) <= Ahead(n)
      BY <3>1, ClearedIs
    <3>3. Ahead(n) < Ahead(txNrEnd) /\ ~isRunning(flash[n].tx)
      BY <3>1, <3>2, NoneRuns DEF Orderly, BeforeEnd
    <3>4. Ahead(n) \in Nat /\ Ahead(txNrEnd) \in Nat
      BY AheadType DEF TypeOK
    <3>5. QED
      BY <1>1, <1>2, <3>1, <3>2, <3>3, <3>4 DEF Ahead
  <2>3. QED
    BY <2>1, <2>2
<1>6. StartedIsCurrent'
  BY <1>5 DEF StartedIsCurrent
<1>7. BeforeEnd'
  <2>1. SUFFICES ASSUME NEW n \in TxNr, flash'[n] # None
                 PROVE  Minus(n, txNrBegin') < Minus(c, txNrBegin')
    BY <1>3 DEF BeforeEnd, Ahead
  <2>2. CASE ~Evicting
    BY <1>1, <1>2, <1>3, <1>4, <1>5, <2>1, <2>2 DEF Ahead
  <2>3. CASE Evicting
    <3>1. n # b /\ c # b
      <4>1. Minus(c, b) # 0
        BY <1>1, <1>2, <1>4 DEF Ahead
      <4>2. QED
        BY <1>1, <1>5, <2>1, <2>3, <4>1, MinusType
    <3>2. Minus(n, Next1(b)) = Minus(n, b) - 1 /\ Minus(c, Next1(b)) = Minus(c, b) - 1
      BY <1>1, <3>1, Next1Is
    <3>3. QED
      BY <1>1, <1>2, <1>3, <1>4, <1>5, <2>1, <2>3, <3>2 DEF Ahead
  <2>4. QED
    BY <2>2, <2>3
<1>8. QED
  BY <1>6, <1>7

\* A new transaction is not started yet.
LEMMA BegunClean ==
    ASSUME ~SilentOffline, Allocate
    PROVE  ~Silent /\ \A a \in BOOLEAN : Clean(Begun(a)) /\ ~isRunning(Begun(a))
<1>1. ~Silent
  BY DEF Allocate
<1>2. QED
  BY <1>1 DEF Begun, NewTx, Clean, IsGood, isAborted, isRunning

\* beginTransaction_authorized().
LEMMA BeginAuthorizedOrderly ==
    ASSUME IInv, Orderly, ~SilentOffline, ~BeginEarly, beginTransaction_authorized
    PROVE  Orderly'
<1>1. CanBegin /\ Allocate /\ TypeOK /\ Journal
  BY DEF beginTransaction_authorized, IInv
<1>2. PICK e, q : e = newEnd /\ q = nextSession
  OBVIOUS
<1>3. PICK p \in BOOLEAN : p = TRUE
  OBVIOUS
<1>4. PICK t \in Tx : t = Begun(p) /\ t.nr = e /\ ~isRunning(t)
  BY <1>1, <1>2, Trimming, FreshIs, BegunClean
<1>5. PICK m, f : m = [Objects EXCEPT ![q] = t] /\ f = Write(Cleared, q, t)
  OBVIOUS
<1>6. /\ \A s \in Referenced : m[s] = mem[s] /\ s # q
      /\ e \in TxNr /\ f[e].tx = t
      /\ \A n \in TxNr : n # e => f[n] = Cleared[n]
  BY <1>1, <1>2, <1>4, <1>5, BegunIs
<1>7. mem' = m /\ flash' = f /\ authQueue' = authQueue /\ sendReqFront' = sendReqFront
  BY <1>2, <1>3, <1>4, <1>5 DEF beginTransaction_authorized, rpcVars
<1>8. BeforeEnd' /\ StartedIsCurrent'
  <2>1. \A n \in TxNr : Cleared[n] # None => Cleared[n] = flash[n]
    BY <1>1, ClearedIs
  <2>2. ~isRunning(flash'[e].tx)
    BY <1>4, <1>6, <1>7
  <2>3. \A n \in TxNr : n # e /\ flash'[n] # None =>
           Cleared[n] # None /\ (isRunning(flash'[n].tx) => isRunning(flash[n].tx))
    BY <1>6, <1>7, <2>1
  <2>4. QED
    BY <1>1, <1>2, <2>2, <2>3, BeginOrderly
<1>9. Waiting'
  <2>1. \A s \in Session : AuthorizePending(s)' => AuthorizePending(s)
    BY <1>7 DEF AuthorizePending
  <2>2. \A s \in Session : AuthorizePending(s)' => Clean(mem'[s])
    BY <1>1, <1>6, <1>7, <2>1, PendingIs DEF Orderly, Waiting
  <2>3. \A s \in Session : InSlot(s)' => \A k \in DOMAIN authQueue' : authQueue'[k] # s
    BY <1>7 DEF Orderly, Waiting, InSlot
  <2>4. \A j, k \in DOMAIN authQueue' : authQueue'[j] = authQueue'[k] => j = k
    BY <1>7 DEF Orderly, Waiting
  <2>5. QED
    BY <2>2, <2>3, <2>4 DEF Waiting
<1>10. QED
  BY <1>8, <1>9 DEF Orderly

\* The Authorize of a new session joins those that wait, all or the ones but the first.
LEMMA JoinedIs ==
    ASSUME NEW z \in Seq(Session), NEW q \in Session,
           \A j, k \in DOMAIN z : z[j] = z[k] => j = k,
           \A k \in DOMAIN z : z[k] # q
    PROVE  \E y \in Seq(Session) :
              /\ y = Append(z, q)
              /\ \A j, k \in DOMAIN y : y[j] = y[k] => j = k
              /\ \A k \in DOMAIN y : y[k] = q \/ \E j \in DOMAIN z : y[k] = z[j]
<1>1. PICK y \in Seq(Session) : y = Append(z, q)
  <2>1. Append(z, q) \in Seq(Session)
    OBVIOUS
  <2>2. QED
    BY <2>1
<1>2. /\ DOMAIN y = 1 .. Len(z) + 1 /\ DOMAIN z = 1 .. Len(z) /\ Len(z) \in Nat
      /\ y[Len(z) + 1] = q /\ \A k \in 1 .. Len(z) : y[k] = z[k]
  BY <1>1
<1>3. \A k \in DOMAIN y : k = Len(z) + 1 \/ k \in DOMAIN z
  BY <1>2
<1>4. \A j, k \in DOMAIN y : y[j] = y[k] => j = k
  BY <1>2, <1>3
<1>5. \A k \in DOMAIN y : y[k] = q \/ \E j \in DOMAIN z : y[k] = z[j]
  BY <1>2, <1>3
<1>6. QED
  BY <1>1, <1>4, <1>5

\* Those that wait, when the new session q joins the queue z of some of them.
LEMMA WaitingJoined ==
    ASSUME TypeOK, Waiting, NEW q \in Session, q \notin Referenced,
           NEW z \in Seq(Session), \A j, k \in DOMAIN z : z[j] = z[k] => j = k,
           \A k \in DOMAIN z : \E j \in DOMAIN authQueue : z[k] = authQueue[j],
           authQueue' = Append(z, q), sendReqFront' = sendReqFront,
           Clean(mem'[q]),
           \A s \in Session : InSlot(s) \/ (\E k \in DOMAIN z : z[k] = s) => mem'[s] = mem[s]
    PROVE  Waiting'
<1>1. \A k \in DOMAIN z : z[k] # q
  BY HeldIs
<1>2. PICK y \in Seq(Session) :
         /\ y = Append(z, q)
         /\ \A j, k \in DOMAIN y : y[j] = y[k] => j = k
         /\ \A k \in DOMAIN y : y[k] = q \/ \E j \in DOMAIN z : y[k] = z[j]
  BY <1>1, JoinedIs
<1>3. authQueue' = y
  BY <1>2
<1>4. \A s : InSlot(s)' <=> InSlot(s)
  BY DEF InSlot
<1>5. \A s \in Session : AuthorizePending(s)' <=> InSlot(s) \/ \E k \in DOMAIN y : y[k] = s
  BY <1>3 DEF AuthorizePending, InSlot
<1>6. ASSUME NEW s \in Session, AuthorizePending(s)' PROVE Clean(mem'[s])
  <2>1. CASE s = q
    BY <2>1
  <2>2. CASE s # q
    <3>1. InSlot(s) \/ \E k \in DOMAIN z : z[k] = s
      BY <1>2, <1>5, <1>6, <2>2
    <3>2. AuthorizePending(s)
      BY <3>1 DEF AuthorizePending, InSlot
    <3>3. QED
      BY <3>1, <3>2 DEF Waiting
  <2>3. QED
    BY <2>1, <2>2
<1>7. ASSUME NEW s \in Session, InSlot(s)' PROVE \A k \in DOMAIN authQueue' : authQueue'[k] # s
  <2>1. InSlot(s) /\ s \in Referenced /\ s # q
    BY <1>4, <1>7, HeldIs DEF InSlot
  <2>2. \A j \in DOMAIN authQueue : authQueue[j] # s
    BY <2>1 DEF Waiting
  <2>3. \A k \in DOMAIN y : y[k] # s
    BY <1>2, <2>1, <2>2
  <2>4. QED
    BY <1>3, <2>3
<1>8. \A j, k \in DOMAIN authQueue' : authQueue'[j] = authQueue'[k] => j = k
  BY <1>2, <1>3
<1>9. QED
  BY <1>6, <1>7, <1>8 DEF Waiting

\* beginTransaction().  If the queue is full, its first Authorize is given up.
LEMMA BeginTransactionOrderly ==
    ASSUME IInv, Orderly, ~SilentOffline, ~BeginEarly, beginTransaction
    PROVE  Orderly'
<1>1. CanBegin /\ Allocate /\ TypeOK /\ Journal /\ Waiting
  BY DEF beginTransaction, IInv, Orderly
<1>2. PICK e, q : e = newEnd /\ q = nextSession
  OBVIOUS
<1>3. PICK p \in BOOLEAN :
         LET t == Begun(p)
             m == [Objects EXCEPT ![q] = t]
             f == Write(Cleared, q, t)
         IN  IF Len(authQueue) < CacheSize
             THEN mem' = m /\ flash' = f /\ authQueue' = Append(authQueue, q)
             ELSE \E u \in Offline(mem[Head(authQueue)]) :
                     /\ mem' = [m EXCEPT ![Head(authQueue)] = u]
                     /\ flash' = Write(f, Head(authQueue), u)
                     /\ authQueue' = Append(Tail(authQueue), q)
  BY <1>2 DEF beginTransaction
<1>4. PICK t \in Tx : t = Begun(p) /\ t.nr = e /\ ~isRunning(t) /\ Clean(t)
  BY <1>1, <1>2, Trimming, FreshIs, BegunClean
<1>5. PICK m, f : m = [Objects EXCEPT ![q] = t] /\ f = Write(Cleared, q, t)
  OBVIOUS
<1>6. /\ m \in [Session -> Tx] /\ m[q] = t
      /\ \A s \in Referenced : m[s] = mem[s] /\ s # q
      /\ f \in [TxNr -> File \cup {None}] /\ e \in TxNr
      /\ f[e] # None /\ f[e].tx = t
      /\ \A n \in TxNr : n # e => f[n] = Cleared[n]
      /\ \A s \in Referenced : mem[s].nr \in TxNr /\ mem[s].nr # e
  BY <1>1, <1>2, <1>4, <1>5, BegunIs
<1>7. sendReqFront' = sendReqFront
  BY DEF beginTransaction
<1>8. q \in Session /\ q \notin Referenced /\ authQueue \in Seq(Session) /\ Len(authQueue) <= CacheSize
  BY <1>1, <1>2, <1>6, ConstantsAssumption DEF CanBegin, TypeOK, Session
<1>9. \A n \in TxNr : Cleared[n] # None => Cleared[n] = flash[n]
  BY <1>1, ClearedIs
<1>10. CASE Len(authQueue) < CacheSize
  <2>1. mem' = m /\ flash' = f /\ authQueue' = Append(authQueue, q)
    BY <1>3, <1>4, <1>5, <1>10
  <2>2. BeforeEnd' /\ StartedIsCurrent'
    <3>1. ~isRunning(flash'[e].tx)
      BY <1>4, <1>6, <2>1
    <3>2. \A n \in TxNr : n # e /\ flash'[n] # None =>
             Cleared[n] # None /\ (isRunning(flash'[n].tx) => isRunning(flash[n].tx))
      BY <1>6, <1>9, <2>1
    <3>3. QED
      BY <1>1, <1>2, <3>1, <3>2, BeginOrderly
  <2>3. Waiting'
    <3>1. Clean(mem'[q]) /\ \A s \in Referenced : mem'[s] = mem[s]
      BY <1>4, <1>6, <2>1
    <3>2. \A s \in Session : InSlot(s) \/ (\E k \in DOMAIN authQueue : authQueue[k] = s) => mem'[s] = mem[s]
      BY <1>1, <3>1, HeldIs DEF InSlot
    <3>3. PICK z \in Seq(Session) : z = authQueue
      BY <1>8
    <3>4. authQueue' = Append(z, q)
      BY <2>1, <3>3
    <3>5. /\ \A j, k \in DOMAIN z : z[j] = z[k] => j = k
          /\ \A k \in DOMAIN z : \E j \in DOMAIN authQueue : z[k] = authQueue[j]
          /\ \A s \in Session : InSlot(s) \/ (\E k \in DOMAIN z : z[k] = s) => mem'[s] = mem[s]
      BY <1>1, <3>2, <3>3 DEF Waiting
    <3>6. QED
      BY <1>1, <1>7, <1>8, <3>1, <3>4, <3>5, WaitingJoined
  <2>4. QED
    BY <2>2, <2>3 DEF Orderly
<1>11. CASE ~(Len(authQueue) < CacheSize)
  <2>1. authQueue # <<>> /\ 1 \in DOMAIN authQueue /\ Head(authQueue) = authQueue[1]
    BY <1>8, <1>11, ConstantsAssumption
  <2>2. PICK h \in Session : h = Head(authQueue) /\ h = authQueue[1]
    BY <1>8, <2>1
  <2>3. h \in Referenced /\ mem[h] \in Tx /\ h # q /\ m[h] = mem[h]
    BY <1>1, <1>6, <2>1, <2>2, HeldIs, CopyTypes
  <2>4. PICK u \in Offline(mem[h]) :
           /\ mem' = [m EXCEPT ![h] = u]
           /\ flash' = Write(f, h, u)
           /\ authQueue' = Append(Tail(authQueue), q)
    BY <1>3, <1>4, <1>5, <1>11, <2>2
  <2>5. u \in Tx /\ u.nr = mem[h].nr /\ (isRunning(u) => isRunning(mem[h]))
    BY <2>3, <2>4, OfflineIs DEF SameProgress, isRunning
  <2>6. PICK k \in TxNr : k = mem[h].nr /\ k # e
    BY <1>6, <2>3
  <2>7. Cleared[k] = flash[k] /\ flash[k] # None /\ (isRunning(mem[h]) => isRunning(flash[k].tx))
    <3>1. InJournal(h)
      BY <1>1, <2>3, Trimming
    <3>2. Cleared[k] = flash[k]
      BY <1>1, <2>3, <2>6, ClearedIs
    <3>3. QED
      BY <2>6, <3>1, <3>2 DEF InJournal, HasFile, Agree, isRunning
  <2>8. /\ flash'[k] = [session |-> h, tx |-> u]
        /\ \A n \in TxNr : n # k => flash'[n] = f[n]
    BY <1>6, <2>4, <2>5, <2>6 DEF Write
  <2>9. BeforeEnd' /\ StartedIsCurrent'
    <3>1. ~isRunning(flash'[e].tx)
      BY <1>4, <1>6, <2>6, <2>8
    <3>2. \A n \in TxNr : n # e /\ flash'[n] # None =>
             Cleared[n] # None /\ (isRunning(flash'[n].tx) => isRunning(flash[n].tx))
      BY <1>6, <1>9, <2>5, <2>7, <2>8
    <3>3. QED
      BY <1>1, <1>2, <3>1, <3>2, BeginOrderly
  <2>10. mem'[q] = t /\ \A s \in Referenced : s # h => mem'[s] = mem[s]
    BY <1>6, <2>3, <2>4
  <2>11. PICK z \in Seq(Session) : z = Tail(authQueue)
    <3>1. Tail(authQueue) \in Seq(Session)
      BY <1>8, <2>1
    <3>2. QED
      BY <3>1
  <2>12. \A i \in DOMAIN z : i \in Nat \ {0} /\ i + 1 \in DOMAIN authQueue /\ z[i] = authQueue[i + 1]
    BY <1>8, <2>1, <2>11
  <2>13. \A i, j \in DOMAIN authQueue : authQueue[i] = authQueue[j] => i = j
    BY <1>1 DEF Waiting
  <2>14. \A i \in DOMAIN z : z[i] # h
    BY <2>1, <2>2, <2>12, <2>13
  <2>15. \A i, j \in DOMAIN z : z[i] = z[j] => i = j
    BY <2>12, <2>13
  <2>16. \A i \in DOMAIN z : \E j \in DOMAIN authQueue : z[i] = authQueue[j]
    BY <2>12
  <2>17. Waiting'
    <3>1. ~InSlot(h)
      BY <1>1, <2>1, <2>2 DEF Waiting
    <3>2. ASSUME NEW s \in Session, InSlot(s) \/ \E i \in DOMAIN z : z[i] = s
          PROVE  mem'[s] = mem[s]
      <4>1. s \in Referenced /\ s # h
        BY <1>1, <2>14, <2>16, <3>1, <3>2, HeldIs DEF InSlot
      <4>2. QED
        BY <2>10, <4>1
    <3>3. Clean(mem'[q])
      BY <1>4, <2>10
    <3>4. authQueue' = Append(z, q)
      BY <2>4, <2>11
    <3>5. QED
      BY <1>1, <1>7, <1>8, <2>15, <2>16, <3>2, <3>3, <3>4, WaitingJoined
  <2>18. QED
    BY <2>9, <2>17 DEF Orderly
<1>12. QED
  BY <1>10, <1>11

LEMMA InitOrderly == Init => Orderly
<1> SUFFICES ASSUME Init PROVE Orderly
  OBVIOUS
<1>1. IInv
  BY InitIInv
<1>2. authQueue = <<>> /\ sendReqFront = None
  BY DEF Init
<1>3. Waiting
  BY <1>2 DEF Waiting, InSlot, AuthorizePending
<1>4. \A n \in TxNr : flash[n] # None => flash[n].tx.stop = "confirmed" /\ n = txNrBegin
  BY NoneAssumption DEF Init
<1>5. StartedIsCurrent
  BY <1>4 DEF StartedIsCurrent, isRunning
<1>6. BeforeEnd
  <2>1. SUFFICES ASSUME NEW n \in TxNr, flash[n] # None PROVE Ahead(n) < Ahead(txNrEnd)
    BY DEF BeforeEnd
  <2>2. n = txNrBegin /\ History /\ txNrEnd = Next1(txNrBegin)
    BY <2>1 DEF Init
  <2>3. TypeOK /\ Ahead(n) = 0
    BY <1>1, <2>2, AheadType DEF IInv
  <2>4. Minus(txNrEnd, n) = Minus(n, n) + 1
    BY <2>2, <2>3, Next1Is, ConstantsAssumption DEF Ahead
  <2>5. QED
    BY <2>2, <2>3, <2>4 DEF Ahead
<1>7. QED
  BY <1>3, <1>5, <1>6 DEF Orderly

LEMMA OrderlyInductive ==
    ASSUME IInv, Orderly, ~BeginEarly, ~EndEarly, ~SilentOffline, [Next]_vars
    PROVE  Orderly'
<1>1. CASE beginTransaction \/ beginTransaction_authorized \/ BeginInterrupted
  BY <1>1, BeginTransactionOrderly, BeginAuthorizedOrderly, InterruptedOrderly
<1>2. CASE endTransaction \/ Loop
  BY <1>2, EndOrderly, RollbackOrderly, CollectOrderly, SessionOrderly DEF Loop
<1>3. CASE Poll
  BY <1>3, PollAuthorizeOrderly, PollMessageOrderly DEF Poll, PollRequest
<1>4. CASE SlotTimeout \/ GiveUpAnAuthorize \/ receiveResponse
  BY <1>4, SlotOrderly, QueueOrderly, ReceiveOrderly
<1>5. CASE \/ receiveStrayResponse \/ ServerAnswers \/ Connect \/ Disconnect \/ SetClock
           \/ UNCHANGED vars
  BY <1>5, OtherOrderly
<1>6. CASE Reboot
  BY <1>6, RebootOrderly
<1>7. QED
  BY <1>1, <1>2, <1>3, <1>4, <1>5, <1>6 DEF Next

\* A running transaction always is the current one, so that loop() can stop it: no
\* timeout, rollback or reboot, and no power failure in beginTransaction(), leaves one
\* behind.  It needs that the firmware does not end a session while its Authorize is
\* pending and that no transaction is silent from the beginning.
THEOREM NoneIsOrphaned ==
    ASSUME ~BeginEarly, ~EndEarly, ~SilentOffline
    PROVE  Spec => []StartedIsCurrent
<1>1. Init => Orderly
  BY InitOrderly
<1>2. IInv /\ Orderly /\ [Next]_vars => Orderly'
  BY OrderlyInductive
<1>3. Orderly => StartedIsCurrent
  BY DEF Orderly
<1>4. QED
  BY <1>1, <1>2, <1>3, Invariance, PTL DEF Spec
=============================================================================
