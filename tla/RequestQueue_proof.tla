------------------------- MODULE RequestQueue_proof -------------------------
(***************************************************************************)
(* For queues of any size, any Requests, emitters and numbers of attempts: *)
(* the safety properties of the RPC engine.  Tracked says where the        *)
(* requests of one kind are, TxTracked where the transaction messages are; *)
(* both are about values, so that one lemma for each thing that happens to *)
(* a queue serves all queues and both sides of a step.                     *)
(***************************************************************************)
EXTENDS RequestQueue, FiniteSetTheorems, SequenceTheorems, TLAPS

-----------------------------------------------------------------------------
(* Queues as sequences.                                                    *)

Distinct(q) == \A j, k \in 1 .. Len(q) : q[j] = q[k] => j = k
Rising(q) == \A j, k \in 1 .. Len(q) : j < k => q[j] < q[k]

\* An element at the end.
LEMMA Appended ==
    ASSUME NEW S, NEW q \in Seq(S), NEW m \in S
    PROVE  /\ Append(q, m) \in Seq(S) /\ Len(Append(q, m)) = Len(q) + 1
           /\ \A k \in 1 .. Len(q) : Append(q, m)[k] = q[k]
           /\ Append(q, m)[Len(q) + 1] = m
           /\ Elements(Append(q, m)) = Elements(q) \cup {m}
<1>1. /\ Append(q, m) \in Seq(S) /\ Len(Append(q, m)) = Len(q) + 1 /\ Len(q) \in Nat
      /\ \A k \in 1 .. Len(q) : Append(q, m)[k] = q[k]
      /\ Append(q, m)[Len(q) + 1] = m
  BY AppendProperties, LenProperties
<1>2. 1 .. Len(q) + 1 = 1 .. Len(q) \cup {Len(q) + 1}
  BY <1>1
<1>3. QED
  BY <1>1, <1>2 DEF Elements

\* The front is taken away.
LEMMA Popped ==
    ASSUME NEW S, NEW q \in Seq(S), q # <<>>
    PROVE  /\ Head(q) \in S /\ Tail(q) \in Seq(S)
           /\ Len(q) \in Nat \ {0} /\ Len(Tail(q)) = Len(q) - 1
           /\ Head(q) = q[1] /\ \A k \in 1 .. Len(Tail(q)) : Tail(q)[k] = q[k + 1]
           /\ Elements(q) = {Head(q)} \cup Elements(Tail(q))
<1>1. /\ Head(q) \in S /\ Tail(q) \in Seq(S) /\ Len(Tail(q)) = Len(q) - 1
      /\ Len(q) \in Nat \ {0}
      /\ \A k \in 1 .. Len(Tail(q)) : Tail(q)[k] = q[k + 1]
  BY HeadTailProperties, EmptySeq
<1>2. Head(q) = q[1]
  OBVIOUS
<1>3. ASSUME NEW k \in 1 .. Len(q) PROVE q[k] \in {Head(q)} \cup Elements(Tail(q))
  <2>1. CASE k = 1
    BY <2>1, <1>2
  <2>2. CASE k # 1
    <3>1. k - 1 \in 1 .. Len(Tail(q)) /\ q[k] = Tail(q)[k - 1]
      BY <2>2, <1>1
    <3>2. QED
      BY <3>1 DEF Elements
  <2>3. QED
    BY <2>1, <2>2
<1>4. Elements(q) \subseteq {Head(q)} \cup Elements(Tail(q))
  BY <1>3 DEF Elements
<1>5. Elements(Tail(q)) \subseteq Elements(q)
  <2>1. ASSUME NEW k \in 1 .. Len(Tail(q)) PROVE k + 1 \in 1 .. Len(q) /\ Tail(q)[k] = q[k + 1]
    BY <1>1
  <2>2. QED
    BY <2>1 DEF Elements
<1>6. Head(q) \in Elements(q)
  BY <1>1, <1>2 DEF Elements
<1>7. QED
  BY <1>1, <1>2, <1>4, <1>5, <1>6

\* Both keep a queue free of duplicates.
LEMMA DistinctKept ==
    ASSUME NEW S, NEW q \in Seq(S), Distinct(q)
    PROVE  /\ \A m \in S : m \notin Elements(q) => Distinct(Append(q, m))
           /\ q # <<>> => Distinct(Tail(q)) /\ Head(q) \notin Elements(Tail(q))
<1>1. ASSUME NEW m \in S, m \notin Elements(q) PROVE Distinct(Append(q, m))
  <2>1. Len(q) \in Nat /\ 1 .. Len(q) + 1 = 1 .. Len(q) \cup {Len(q) + 1}
    BY LenProperties
  <2>2. \A k \in 1 .. Len(q) : q[k] # m
    BY <1>1 DEF Elements
  <2>3. QED
    BY <2>1, <2>2, Appended DEF Distinct
<1>2. ASSUME q # <<>> PROVE Distinct(Tail(q)) /\ Head(q) \notin Elements(Tail(q))
  <2>1. /\ Len(q) \in Nat \ {0} /\ Len(Tail(q)) = Len(q) - 1 /\ Head(q) = q[1]
        /\ \A k \in 1 .. Len(Tail(q)) : Tail(q)[k] = q[k + 1]
    BY <1>2, Popped
  <2>2. \A k \in 1 .. Len(Tail(q)) : k + 1 \in 1 .. Len(q) /\ k + 1 # 1
    BY <2>1
  <2>3. \A k \in 1 .. Len(Tail(q)) : Tail(q)[k] # Head(q)
    BY <2>1, <2>2 DEF Distinct
  <2>4. Distinct(Tail(q))
    <3>1. SUFFICES ASSUME NEW j \in 1 .. Len(Tail(q)), NEW k \in 1 .. Len(Tail(q)),
                          Tail(q)[j] = Tail(q)[k]
                   PROVE  j = k
      BY DEF Distinct
    <3>2. q[j + 1] = q[k + 1]
      BY <3>1, <2>1
    <3>3. j + 1 = k + 1
      BY <3>2, <2>2 DEF Distinct
    <3>4. QED
      BY <3>3
  <2>5. QED
    BY <2>3, <2>4 DEF Elements
<1>3. QED
  BY <1>1, <1>2

\* In a rising queue the front is the smallest.
LEMMA RisingKept ==
    ASSUME NEW S \in SUBSET Int, NEW q \in Seq(S), Rising(q)
    PROVE  /\ \A m \in S : (\A k \in Elements(q) : k < m) => Rising(Append(q, m))
           /\ q # <<>> => Rising(Tail(q)) /\ \A k \in Elements(Tail(q)) : Head(q) < k
<1>1. ASSUME NEW m \in S, \A k \in Elements(q) : k < m PROVE Rising(Append(q, m))
  <2>1. Len(q) \in Nat
    BY LenProperties
  <2>2. \A k \in 1 .. Len(q) : q[k] < m
    BY <1>1 DEF Elements
  <2>3. SUFFICES ASSUME NEW j \in 1 .. Len(q) + 1, NEW k \in 1 .. Len(q) + 1, j < k
                 PROVE  Append(q, m)[j] < Append(q, m)[k]
    BY Appended DEF Rising
  <2>4. j \in 1 .. Len(q) /\ (k \in 1 .. Len(q) \/ k = Len(q) + 1)
    BY <2>1, <2>3
  <2>5. QED
    BY <2>2, <2>3, <2>4, Appended DEF Rising
<1>2. ASSUME q # <<>> PROVE Rising(Tail(q)) /\ \A k \in Elements(Tail(q)) : Head(q) < k
  <2>1. /\ Len(q) \in Nat \ {0} /\ Len(Tail(q)) = Len(q) - 1 /\ Head(q) = q[1]
        /\ \A k \in 1 .. Len(Tail(q)) : Tail(q)[k] = q[k + 1]
    BY <1>2, Popped
  <2>2. \A k \in 1 .. Len(Tail(q)) : k + 1 \in 1 .. Len(q) /\ 1 < k + 1 /\ 1 \in 1 .. Len(q)
    BY <2>1
  <2>3. \A k \in 1 .. Len(Tail(q)) : Head(q) < Tail(q)[k]
    BY <2>1, <2>2 DEF Rising
  <2>4. Rising(Tail(q))
    <3>1. SUFFICES ASSUME NEW j \in 1 .. Len(Tail(q)), NEW k \in 1 .. Len(Tail(q)), j < k
                   PROVE  Tail(q)[j] < Tail(q)[k]
      BY DEF Rising
    <3>2. q[j + 1] < q[k + 1]
      <4>1. j + 1 < k + 1
        BY <3>1
      <4>2. QED
        BY <4>1, <2>2 DEF Rising
    <3>3. QED
      BY <3>2, <2>1
  <2>5. QED
    BY <2>3, <2>4 DEF Elements
<1>3. QED
  BY <1>1, <1>2

\* The queue without some of its elements: the others stay, in their order.
LEMMA KeptSeq ==
    ASSUME NEW S, NEW q \in Seq(S), NEW gone
    PROVE  /\ Kept(q, gone) \in Seq(S) /\ Len(Kept(q, gone)) <= Len(q)
           /\ Elements(Kept(q, gone)) = Elements(q) \ gone
           /\ Distinct(q) => Distinct(Kept(q, gone))
           /\ Rising(q) => Rising(Kept(q, gone))
<1> DEFINE K == KeptAt(q, gone)
           n == Cardinality(K)
           P(k) == Cardinality(K \cap (1 .. k))
<1>1. Len(q) \in Nat /\ K \subseteq 1 .. Len(q) /\ \A k \in K : k \in Nat
  BY LenProperties DEF KeptAt
<1>2. IsFiniteSet(1 .. Len(q)) /\ Cardinality(1 .. Len(q)) = Len(q)
  <2>1. 1 \in Int /\ Len(q) \in Int
    BY <1>1
  <2>2. /\ IsFiniteSet(1 .. Len(q))
        /\ Cardinality(1 .. Len(q)) = IF 1 > Len(q) THEN 0 ELSE Len(q) - 1 + 1
    BY ONLY <2>1, FS_Interval
  <2>3. QED
    BY <2>2, <1>1
<1>3. IsFiniteSet(K) /\ n <= Len(q) /\ n \in Nat
  BY <1>1, <1>2, FS_Subset, FS_CardinalityType
<1>4. ASSUME NEW k \in K PROVE P(k) \in 1 .. n /\ IsFiniteSet(K \cap (1 .. k))
  <2>1. k \in 1 .. k
    BY <1>1
  <2>2. IsFiniteSet(K \cap (1 .. k)) /\ P(k) <= n
    BY <1>3, FS_Subset
  <2>3. P(k) \in Nat /\ P(k) # 0
    <3>1. K \cap (1 .. k) # {}
      BY <2>1
    <3>2. QED
      BY <3>1, <2>2, FS_CardinalityType, FS_EmptySet
  <2>4. QED
    BY <1>3, <2>2, <2>3
<1>5. ASSUME NEW j \in K, NEW k \in K, j < k PROVE P(j) < P(k)
  <2>1. j \in Nat /\ k \in Nat
    BY <1>1
  <2>2. K \cap (1 .. j) \subseteq K \cap (1 .. k)
    BY <1>5, <2>1
  <2>3. k \in K \cap (1 .. k) /\ k \notin K \cap (1 .. j)
    BY <1>1, <1>5, <2>1
  <2>4. P(j) <= P(k) /\ P(j) # P(k)
    BY <2>2, <2>3, <1>4, FS_Subset
  <2>5. QED
    BY <2>4, <1>4
<1> DEFINE f == [k \in K |-> P(k)]
<1>6. f \in Injection(K, 1 .. n)
  <2>1. f \in [K -> 1 .. n]
    BY <1>4
  <2>2. ASSUME NEW j \in K, NEW k \in K, f[j] = f[k] PROVE j = k
    <3>1. j \in Nat /\ k \in Nat /\ P(j) = P(k) /\ P(j) \in Nat
      BY <1>1, <1>4, <2>2
    <3>2. ~(j < k) /\ ~(k < j)
      BY <1>5, <3>1
    <3>3. QED
      BY <3>1, <3>2
  <2>3. QED
    BY <2>1, <2>2 DEF Injection, IsInjective
<1>7. f \in Surjection(K, 1 .. n)
  <2>1. IsFiniteSet(1 .. n) /\ Cardinality(1 .. n) = n
    BY <1>3, FS_Interval
  <2>2. QED
    BY <2>1, <1>6, FS_Injection
<1> DEFINE c(i) == CHOOSE k \in K : P(k) = i
<1>8. ASSUME NEW i \in 1 .. n PROVE c(i) \in K /\ P(c(i)) = i
  BY <1>7 DEF Surjection
<1> DEFINE t == [i \in 1 .. n |-> q[c(i)]]
<1>9. Kept(q, gone) = t
  BY DEF Kept
<1> HIDE DEF K, n, P, c, f
<1>10. ASSUME NEW i \in 1 .. n, NEW j \in 1 .. n, i < j PROVE c(i) < c(j)
  <2>1. c(i) \in K /\ c(j) \in K /\ P(c(i)) = i /\ P(c(j)) = j
    BY <1>8
  <2>2. c(i) \in Nat /\ c(j) \in Nat /\ c(i) # c(j)
    <3>1. i # j
      BY <1>3, <1>10
    <3>2. c(i) # c(j)
      BY <3>1, <2>1, Zenon
    <3>3. QED
      BY <3>2, <2>1, <1>1
  <2>3. ~(c(j) < c(i))
    BY <2>1, <1>3, <1>5, <1>10
  <2>4. QED
    BY <2>2, <2>3
<1>11. ASSUME NEW i \in 1 .. n PROVE c(i) \in 1 .. Len(q) /\ q[c(i)] \in S
  BY <1>1, <1>8, ElementOfSeq
<1>12. t \in Seq(S) /\ Len(t) = n
  BY <1>3, <1>11
<1>13. Elements(t) = Elements(q) \ gone
  <2>1. ASSUME NEW k \in K PROVE \E i \in 1 .. n : c(i) = k
    <3>1. P(k) \in 1 .. n
      BY <1>4
    <3>2. c(P(k)) \in K /\ P(c(P(k))) = P(k)
      BY <3>1, <1>8
    <3>3. ~(c(P(k)) < k) /\ ~(k < c(P(k)))
      BY <3>1, <3>2, <1>3, <1>5
    <3>4. c(P(k)) \in Nat /\ k \in Nat
      BY <3>2, <1>1
    <3>5. c(P(k)) = k
      BY <3>3, <3>4
    <3>6. QED
      BY <3>1, <3>5, Zenon
  <2>2. Elements(t) = {q[k] : k \in K}
    BY <1>8, <1>12, <2>1 DEF Elements
  <2>3. QED
    BY <2>2 DEF Elements, KeptAt, K
<1>14. Distinct(q) => Distinct(t)
  <2> SUFFICES ASSUME Distinct(q), NEW i \in 1 .. n, NEW j \in 1 .. n, q[c(i)] = q[c(j)]
               PROVE  i = j
    BY <1>12 DEF Distinct
  <2>1. c(i) = c(j)
    BY <1>11 DEF Distinct
  <2>2. QED
    BY <2>1, <1>8
<1>15. Rising(q) => Rising(t)
  <2> SUFFICES ASSUME Rising(q), NEW i \in 1 .. n, NEW j \in 1 .. n, i < j
               PROVE  q[c(i)] < q[c(j)]
    BY <1>12 DEF Rising
  <2>1. QED
    BY <1>10, <1>11 DEF Rising
<1>16. QED
  BY <1>3, <1>9, <1>12, <1>13, <1>14, <1>15

-----------------------------------------------------------------------------
(* The requests of one kind: their queue, and the slot they share.  Those  *)
(* in one of the two are the pending ones, and each is there once.         *)

Tracked(kind, o, front, q) ==
    /\ q \in Seq(kind) /\ Len(q) <= CacheSize /\ Distinct(q)
    /\ front \notin Elements(q)
    /\ \A m \in kind : o[m] = "pending" <=> m \in {front} \cup Elements(q)

LEMMA ElementsType ==
    ASSUME NEW S, NEW q \in Seq(S)
    PROVE  Elements(q) \subseteq S /\ (q # <<>> => Head(q) \in Elements(q))
<1>1. Elements(q) \subseteq S
  BY ElementOfSeq DEF Elements
<1>2. QED
  BY <1>1, Popped

\* A new request enters the queue, for which another one may have to leave.
LEMMA PushTracked ==
    ASSUME NEW kind, NEW o, NEW p, NEW front, NEW q, NEW m \in kind,
           Tracked(kind, o, front, q), o[m] # "pending",
           \A x \in kind : p[x] = IF x = m THEN "pending"
                                  ELSE IF x \in Evicted(q) THEN "timeout" ELSE o[x]
    PROVE  Tracked(kind, p, front, Pushed(q, m))
<1>1. /\ q \in Seq(kind) /\ Len(q) \in Nat /\ Len(q) <= CacheSize /\ Distinct(q)
      /\ front \notin Elements(q) /\ m # front /\ m \notin Elements(q)
      /\ CacheSize \in Nat \ {0}
  BY LenProperties, ConstantsAssumption DEF Tracked
<1>2. CASE Len(q) < CacheSize
  <2>1. Pushed(q, m) = Append(q, m) /\ Evicted(q) = {}
    BY <1>2 DEF Pushed, Evicted
  <2>2. /\ Append(q, m) \in Seq(kind) /\ Len(Append(q, m)) <= CacheSize
        /\ Elements(Append(q, m)) = Elements(q) \cup {m}
    BY <1>1, <1>2, Appended
  <2>3. Distinct(Append(q, m))
    BY <1>1, DistinctKept
  <2>4. QED
    BY <1>1, <2>1, <2>2, <2>3 DEF Tracked
<1>3. CASE ~(Len(q) < CacheSize)
  <2>1. Pushed(q, m) = Append(Tail(q), m) /\ Evicted(q) = {Head(q)}
    BY <1>3 DEF Pushed, Evicted
  <2>2. q # <<>>
    BY <1>1, <1>3, EmptySeq
  <2>3. /\ Tail(q) \in Seq(kind) /\ Len(Tail(q)) = Len(q) - 1 /\ Distinct(Tail(q))
        /\ Elements(q) = {Head(q)} \cup Elements(Tail(q)) /\ Head(q) \notin Elements(Tail(q))
        /\ Head(q) \in kind
    BY <1>1, <2>2, Popped, DistinctKept
  <2>4. m \notin Elements(Tail(q))
    BY <1>1, <2>3
  <2>5. /\ Append(Tail(q), m) \in Seq(kind) /\ Len(Append(Tail(q), m)) <= CacheSize
        /\ Elements(Append(Tail(q), m)) = Elements(Tail(q)) \cup {m}
    <3>1. PICK t \in Seq(kind) : t = Tail(q)
      BY <2>3
    <3>2. /\ Append(t, m) \in Seq(kind) /\ Len(Append(t, m)) = Len(t) + 1
          /\ Elements(Append(t, m)) = Elements(t) \cup {m}
      BY Appended
    <3>3. QED
      BY <3>1, <3>2, <1>1, <2>3
  <2>6. Distinct(Append(Tail(q), m))
    BY <2>3, <2>4, DistinctKept
  <2>7. \A x \in kind : p[x] = "pending" <=> x \in {front} \cup Elements(Append(Tail(q), m))
    <3>1. SUFFICES ASSUME NEW x \in kind
                   PROVE  p[x] = "pending" <=> x \in {front, m} \cup Elements(Tail(q))
      BY <2>5
    <3>2. o[x] = "pending" <=> x \in {front, Head(q)} \cup Elements(Tail(q))
      BY <2>3 DEF Tracked
    <3>3. Head(q) # front /\ Head(q) # m
      BY <1>1, <2>3
    <3>4. QED
      BY <2>1, <2>3, <3>2, <3>3
  <2>8. QED
    BY <1>1, <2>1, <2>3, <2>5, <2>6, <2>7 DEF Tracked
<1>4. QED
  BY <1>2, <1>3

\* What has timed out leaves the queue.
LEMMA SweepTracked ==
    ASSUME NEW kind, NEW o, NEW p, NEW front, NEW q, NEW gone, Tracked(kind, o, front, q),
           \A x \in kind : p[x] = IF x \in Elements(q) \cap gone THEN "timeout" ELSE o[x]
    PROVE  Tracked(kind, p, front, Kept(q, gone))
<1>1. /\ q \in Seq(kind) /\ Len(q) \in Nat /\ Len(q) <= CacheSize /\ Distinct(q)
      /\ CacheSize \in Nat
  BY LenProperties, ConstantsAssumption DEF Tracked
<1>2. /\ Kept(q, gone) \in Seq(kind) /\ Len(Kept(q, gone)) <= Len(q)
      /\ Elements(Kept(q, gone)) = Elements(q) \ gone /\ Distinct(Kept(q, gone))
  BY <1>1, KeptSeq
<1>3. Len(Kept(q, gone)) <= CacheSize
  BY <1>1, <1>2, LenProperties
<1>4. QED
  BY <1>2, <1>3 DEF Tracked

\* The slot is emptied, or used by a request of another kind.
LEMMA ReleaseTracked ==
    ASSUME NEW kind, NEW o, NEW p, NEW front, NEW next, NEW q,
           Tracked(kind, o, front, q), next \notin kind,
           \A x \in kind : p[x] = "pending" <=> x # front /\ o[x] = "pending"
    PROVE  Tracked(kind, p, next, q)
<1>1. q \in Seq(kind) /\ Elements(q) \subseteq kind
  BY ElementsType DEF Tracked
<1>2. QED
  BY <1>1 DEF Tracked

\* Nothing happens to the requests of this kind.
LEMMA SameTracked ==
    ASSUME NEW kind, NEW o, NEW p, NEW front, NEW q, Tracked(kind, o, front, q),
           \A x \in kind : p[x] = o[x]
    PROVE  Tracked(kind, p, front, q)
BY DEF Tracked

\* The front moves into the free slot.
LEMMA FetchTracked ==
    ASSUME NEW kind, NEW o, NEW front, NEW q, Tracked(kind, o, front, q),
           front \notin kind, q # <<>>
    PROVE  Tracked(kind, o, Head(q), Tail(q))
<1>1. q \in Seq(kind) /\ Len(q) \in Nat /\ Len(q) <= CacheSize /\ Distinct(q) /\ CacheSize \in Nat
  BY LenProperties, ConstantsAssumption DEF Tracked
<1>2. /\ Tail(q) \in Seq(kind) /\ Len(Tail(q)) = Len(q) - 1 /\ Distinct(Tail(q))
      /\ Elements(q) = {Head(q)} \cup Elements(Tail(q)) /\ Head(q) \notin Elements(Tail(q))
  BY <1>1, Popped, DistinctKept
<1>3. Len(Tail(q)) <= CacheSize
  BY <1>1, <1>2
<1>4. QED
  BY <1>2, <1>3 DEF Tracked

-----------------------------------------------------------------------------
(* The transaction messages: each emitter has its own queue, in the order  *)
(* of the OpNrs, and a message in the slot stays in its queue.             *)

TxTracked(o, front, tq, op, att) ==
    /\ tq \in [Emitter -> Seq(TxMsg)]
    /\ \A e \in Emitter : Rising(tq[e])
    /\ \A e, f \in Emitter : e # f => Elements(tq[e]) \cap Elements(tq[f]) = {}
    /\ \A m \in TxMsg : o[m] = "pending" <=> \E e \in Emitter : m \in Elements(tq[e])
    /\ \A m \in TxMsg : m >= op => o[m] = "none"
    /\ front \in TxMsg => /\ o[front] = "pending" /\ att[front] > 0
                          /\ \A e \in Emitter : \A m \in Elements(tq[e]) : front <= m

LEMMA TxNumbers ==
    TxMsg \subseteq Int /\ (\A m \in TxMsg : m \in Int) /\ FirstOpNr \in Int /\ MaxTx \in Nat
BY ConstantsAssumption DEF TxMsg, FirstOpNr

\* Nothing happens to these messages, the slot is emptied, or another kind of
\* request enters it.
LEMMA SameTx ==
    ASSUME NEW o, NEW p, NEW front, NEW next, NEW tq, NEW op, NEW att, NEW att2,
           TxTracked(o, front, tq, op, att),
           \A m \in TxMsg : p[m] = o[m] /\ att2[m] = att[m], next \in TxMsg => next = front
    PROVE  TxTracked(p, next, tq, op, att2)
BY DEF TxTracked

\* getNextOpNr(): the new number is greater than all.
LEMMA EmitKeepsTx ==
    ASSUME NEW o, NEW p, NEW front, NEW tq, NEW op \in TxMsg, NEW att, NEW e \in Emitter,
           TxTracked(o, front, tq, op, att),
           \A m \in TxMsg : p[m] = IF m = op THEN "pending" ELSE o[m]
    PROVE  TxTracked(p, front, [tq EXCEPT ![e] = Append(@, op)], op + 1, att)
<1> DEFINE new == [tq EXCEPT ![e] = Append(@, op)]
<1>1. /\ tq \in [Emitter -> Seq(TxMsg)] /\ tq[e] \in Seq(TxMsg) /\ Rising(tq[e])
      /\ new \in [Emitter -> Seq(TxMsg)]
      /\ new[e] = Append(tq[e], op) /\ \A f \in Emitter : f # e => new[f] = tq[f]
      /\ Elements(new[e]) = Elements(tq[e]) \cup {op}
  BY Appended DEF TxTracked
<1>2. ASSUME NEW f \in Emitter, NEW k \in Elements(tq[f]) PROVE k \in TxMsg /\ k < op
  <2>1. tq[f] \in Seq(TxMsg)
    BY <1>1
  <2>2. k \in TxMsg /\ o[k] = "pending"
    BY <2>1, ElementsType DEF TxTracked
  <2>3. ~(k >= op)
    BY <2>2 DEF TxTracked
  <2>4. QED
    BY <2>2, <2>3, TxNumbers
<1>3. \A f \in Emitter : Rising(new[f])
  <2>1. Rising(Append(tq[e], op))
    BY <1>1, <1>2, TxNumbers, RisingKept
  <2>2. QED
    BY <1>1, <2>1 DEF TxTracked
<1>4. \A f \in Emitter : Elements(new[f]) = Elements(tq[f]) \cup (IF f = e THEN {op} ELSE {})
  BY <1>1
<1>5. \A f \in Emitter : op \notin Elements(tq[f])
  BY <1>2, TxNumbers
<1>6. \A f, g \in Emitter : f # g => Elements(new[f]) \cap Elements(new[g]) = {}
  BY <1>4, <1>5 DEF TxTracked
<1>7. \A m \in TxMsg : p[m] = "pending" <=> \E f \in Emitter : m \in Elements(new[f])
  BY <1>4, <1>5 DEF TxTracked
<1>8. \A m \in TxMsg : m >= op + 1 => p[m] = "none"
  BY TxNumbers DEF TxTracked
<1>9. front \in TxMsg => /\ p[front] = "pending" /\ att[front] > 0
                         /\ \A f \in Emitter : \A m \in Elements(new[f]) : front <= m
  <2>1. SUFFICES ASSUME front \in TxMsg
                 PROVE  /\ p[front] = "pending" /\ att[front] > 0
                        /\ \A f \in Emitter : \A m \in Elements(new[f]) : front <= m
    OBVIOUS
  <2>2. /\ o[front] = "pending" /\ att[front] > 0
        /\ \A f \in Emitter : \A m \in Elements(tq[f]) : front <= m
    BY <2>1 DEF TxTracked
  <2>3. PICK f \in Emitter : front \in Elements(tq[f])
    BY <2>1, <2>2 DEF TxTracked
  <2>4. front < op
    BY <1>2, <2>3
  <2>5. QED
    BY <1>4, <2>1, <2>2, <2>4, TxNumbers
<1>10. QED
  BY <1>1, <1>3, <1>6, <1>7, <1>8, <1>9 DEF TxTracked

\* The front of all queues is fetched for another attempt.
LEMMA FetchKeepsTx ==
    ASSUME NEW o, NEW front, NEW tq, NEW op, NEW att, NEW att2, NEW e \in Emitter,
           TxTracked(o, front, tq, op, att), tq[e] # <<>>,
           \A f \in Emitter : tq[f] # <<>> => Head(tq[e]) <= Head(tq[f]),
           att2[Head(tq[e])] > 0
    PROVE  TxTracked(o, Head(tq[e]), tq, op, att2)
<1>1. \A f \in Emitter : tq[f] \in Seq(TxMsg) /\ Rising(tq[f])
  BY DEF TxTracked
<1>2. Head(tq[e]) \in TxMsg /\ Head(tq[e]) \in Elements(tq[e])
  BY <1>1, Popped
<1>3. ASSUME NEW f \in Emitter, NEW m \in Elements(tq[f]) PROVE Head(tq[e]) <= m
  <2>1. tq[f] # <<>>
    BY <1>1, EmptySeq DEF Elements
  <2>2. /\ Elements(tq[f]) = {Head(tq[f])} \cup Elements(Tail(tq[f])) /\ Head(tq[f]) \in TxMsg
        /\ Elements(Tail(tq[f])) \subseteq TxMsg
    BY <1>1, <2>1, Popped, ElementsType
  <2>3. \A k \in Elements(Tail(tq[f])) : Head(tq[f]) < k
    BY <1>1, <2>1, TxNumbers, RisingKept
  <2>4. m \in Int /\ Head(tq[f]) \in Int /\ Head(tq[e]) \in Int
    BY <1>2, <2>2, TxNumbers
  <2>5. Head(tq[e]) <= Head(tq[f])
    BY <2>1
  <2>6. m = Head(tq[f]) \/ Head(tq[f]) < m
    BY <2>2, <2>3
  <2>7. QED
    BY <2>4, <2>5, <2>6
<1>4. QED
  BY <1>2, <1>3 DEF TxTracked

\* The message m is answered or given up, and leaves its queue.
Leaves(m, o, p, tq, tq2) ==
    /\ m \in TxMsg /\ o[m] = "pending"
    /\ tq2 \in [Emitter -> Seq(TxMsg)]
    /\ \A e \in Emitter : Rising(tq2[e]) /\ Elements(tq2[e]) = Elements(tq[e]) \ {m}
    /\ p[m] \notin {"none", "pending"} /\ \A x \in TxMsg : x # m => p[x] = o[x]

\* That keeps track of the others.
LEMMA DoneKeepsTx ==
    ASSUME NEW o, NEW p, NEW front, NEW next, NEW tq, NEW tq2, NEW op, NEW att, NEW m,
           next \notin TxMsg, TxTracked(o, front, tq, op, att), Leaves(m, o, p, tq, tq2)
    PROVE  TxTracked(p, next, tq2, op, att)
<1> USE DEF Leaves
<1>1. ~(m >= op)
  BY DEF TxTracked
<1>2. \A x \in TxMsg : x >= op => p[x] = "none"
  BY <1>1 DEF TxTracked
<1>3. ASSUME NEW x \in TxMsg
      PROVE  p[x] = "pending" <=> \E e \in Emitter : x \in Elements(tq2[e])
  <2>1. o[x] = "pending" <=> \E e \in Emitter : x \in Elements(tq[e])
    BY DEF TxTracked
  <2>2. \A e \in Emitter : x \in Elements(tq2[e]) <=> x \in Elements(tq[e]) /\ x # m
    OBVIOUS
  <2>3. p[x] = "pending" <=> o[x] = "pending" /\ x # m
    OBVIOUS
  <2>4. QED
    BY <2>1, <2>2, <2>3
<1>4. \A e, f \in Emitter : e # f => Elements(tq2[e]) \cap Elements(tq2[f]) = {}
  BY DEF TxTracked
<1>5. QED
  BY <1>2, <1>3, <1>4 DEF TxTracked

-----------------------------------------------------------------------------
(* The inductive invariant.                                                *)

\* Only a request of the PreBoot queue is in flight before the activation.
Gate == sendReqFront \notin PreBootMsg \cup {None} => postBoot

\* A request that is not a transaction message has one attempt.
Attempted == \A m \in DefaultMsg \cup PreBootMsg : outcome[m] # "none" => attempt[m] = 1

\* A response was sent once, and its request is done with.
Answered ==
    Distinct(responses) /\ \A k \in 1 .. Len(responses) : outcome[responses[k]] = "conf"

Inv ==
    /\ TypeOK
    /\ Tracked(DefaultMsg, outcome, sendReqFront, defaultSendQueue)
    /\ Tracked(PreBootMsg, outcome, sendReqFront, preBootQueue)
    /\ Tracked(InMsg, outcome, recvReqFront, recvQueue)
    /\ TxTracked(outcome, sendReqFront, txQueue, nextOpNr, attempt)
    /\ Gate /\ Attempted /\ Answered

\* What a step may do: the action properties of the engine.
Lawful ==
    /\ \A m \in OutMsg \cup InMsg :
          outcome[m] \notin {"none", "pending"} => outcome'[m] = outcome[m]
    /\ \A m \in OutMsg : outcome[m] = "pending" /\ outcome'[m] = "conf" =>
          \E a \in answers : a.msg = m /\ a.kind = "conf" /\ a.attempt = attempt[m]
    /\ \A c \in calls' \ calls : c[1] \notin PreBootMsg => postBoot
    /\ \A c \in calls' \ calls : c[1] \in TxMsg =>
          \A e \in Emitter : \A m \in Elements(txQueue[e]) : c[1] <= m

LEMMA Kinds ==
    /\ None \notin OutMsg /\ None \notin InMsg /\ None \notin DefaultMsg
    /\ None \notin PreBootMsg /\ None \notin TxMsg
    /\ \A m \in DefaultMsg : m \in OutMsg /\ m \notin PreBootMsg /\ m \notin TxMsg /\ m \notin InMsg
    /\ \A m \in PreBootMsg : m \in OutMsg /\ m \notin DefaultMsg /\ m \notin TxMsg /\ m \notin InMsg
    /\ \A m \in TxMsg : m \in OutMsg /\ m \notin DefaultMsg /\ m \notin PreBootMsg /\ m \notin InMsg
    /\ \A m \in InMsg : m \notin OutMsg /\ m \notin DefaultMsg /\ m \notin PreBootMsg /\ m \notin TxMsg
    /\ \A m \in OutMsg : m \in DefaultMsg \/ m \in PreBootMsg \/ m \in TxMsg
    /\ BootMsg \subseteq PreBootMsg
BY ConstantsAssumption, KindsAssumption DEF OutMsg

LEMMA InitInv == Init => Inv
<1> SUFFICES ASSUME Init PROVE Inv
  OBVIOUS
<1> USE DEF Init
<1>1. \A S : <<>> \in Seq(S) /\ Len(<<>>) = 0 /\ Elements(<<>>) = {} /\ Distinct(<<>>)
  BY EmptySeq DEF Elements, Distinct
<1>2. TypeOK
  <2>1. CacheSize \in Nat \ {0} /\ MaxTx \in Nat /\ MaxAttempts \in Nat \ {0}
    BY ConstantsAssumption
  <2>2. nextOpNr \in FirstOpNr .. FirstOpNr + MaxTx
    BY <2>1 DEF FirstOpNr
  <2>3. attempt \in [OutMsg -> 0 .. MaxAttempts]
    BY <2>1
  <2>4. outcome \in [OutMsg \cup InMsg -> Outcomes]
    BY DEF Outcomes
  <2>5. txQueue \in [Emitter -> Seq(TxMsg)]
    BY <1>1
  <2>6. /\ defaultSendQueue \in Seq(DefaultMsg) /\ Len(defaultSendQueue) <= CacheSize
        /\ preBootQueue \in Seq(PreBootMsg) /\ Len(preBootQueue) <= CacheSize
        /\ recvQueue \in Seq(InMsg) /\ Len(recvQueue) <= CacheSize
        /\ responses \in Seq(InMsg)
    BY <1>1, <2>1
  <2>7. /\ connected \in BOOLEAN /\ accepted \in BOOLEAN /\ postBoot \in BOOLEAN
        /\ requestSent \in BOOLEAN /\ ~requestSent
        /\ sendReqFront \in OutMsg \cup {None} /\ recvReqFront \in InMsg \cup {None}
        /\ expired = {} /\ calls = {} /\ answers = {}
    OBVIOUS
  <2>8. QED
    BY <2>2, <2>3, <2>4, <2>5, <2>6, <2>7 DEF TypeOK
<1>3. \A m \in OutMsg \cup InMsg : outcome[m] = "none"
  OBVIOUS
<1>4. /\ Tracked(DefaultMsg, outcome, sendReqFront, defaultSendQueue)
      /\ Tracked(PreBootMsg, outcome, sendReqFront, preBootQueue)
      /\ Tracked(InMsg, outcome, recvReqFront, recvQueue)
  BY <1>1, <1>3, Kinds, ConstantsAssumption DEF Tracked
<1>5. TxTracked(outcome, sendReqFront, txQueue, nextOpNr, attempt)
  <2>1. \A e \in Emitter : Elements(txQueue[e]) = {} /\ Rising(txQueue[e])
    BY <1>1 DEF Rising
  <2>2. txQueue \in [Emitter -> Seq(TxMsg)] /\ sendReqFront \notin TxMsg
    BY <1>1, Kinds
  <2>3. \A m \in TxMsg : outcome[m] = "none"
    BY <1>3, Kinds
  <2>4. QED
    BY <2>1, <2>2, <2>3 DEF TxTracked
<1>6. Gate /\ Attempted /\ Answered
  BY <1>1, <1>3, Kinds DEF Gate, Attempted, Answered
<1>7. QED
  BY <1>2, <1>4, <1>5, <1>6 DEF Inv

LEMMA Resolving ==
    ASSUME TypeOK, NEW msgs, NEW to \in Outcomes
    PROVE  /\ Resolve(msgs, to) \in [OutMsg \cup InMsg -> Outcomes]
           /\ \A x \in OutMsg \cup InMsg :
                 Resolve(msgs, to)[x] = IF x \in msgs THEN to ELSE outcome[x]
BY DEF TypeOK, Resolve

-----------------------------------------------------------------------------
(* The first part of loop().                                               *)

\* What has timed out is answered by its listeners, and gone from the slots
\* and from the default queue.
LEMMA Timeouts ==
    ASSUME Inv
    PROVE  /\ AfterTimeouts \in [OutMsg \cup InMsg -> Outcomes]
           /\ \A x \in OutMsg \cup InMsg :
                 \/ AfterTimeouts[x] = outcome[x]
                 \/ outcome[x] = "pending" /\ AfterTimeouts[x] = "timeout"
           /\ slot \in OutMsg \cup {None} /\ slot \in {None, sendReqFront}
           /\ recvSlot \in InMsg \cup {None}
           /\ ExpiredLeft \subseteq OutMsg \cup InMsg
           /\ Tracked(DefaultMsg, AfterTimeouts, slot, cached)
           /\ Tracked(PreBootMsg, AfterTimeouts, slot, preBootQueue)
           /\ Tracked(InMsg, AfterTimeouts, recvSlot, recvQueue)
           /\ TxTracked(AfterTimeouts, slot, txQueue, nextOpNr, attempt)
<1> DEFINE gone == (SlotTimedOut \ TxMsg) \cup QueueTimedOut \cup RecvTimedOut
<1>1. /\ TypeOK
      /\ sendReqFront \in OutMsg \cup {None} /\ recvReqFront \in InMsg \cup {None}
      /\ defaultSendQueue \in Seq(DefaultMsg)
      /\ expired \subseteq OutMsg \cup InMsg
  BY DEF Inv, TypeOK
<1>2. /\ AfterTimeouts \in [OutMsg \cup InMsg -> Outcomes]
      /\ \A x \in OutMsg \cup InMsg :
            AfterTimeouts[x] = IF x \in gone THEN "timeout" ELSE outcome[x]
  <2>1. AfterTimeouts = Resolve(gone, "timeout")
    BY DEF AfterTimeouts
  <2>2. TypeOK /\ "timeout" \in Outcomes
    BY DEF Inv, Outcomes
  <2> HIDE DEF gone
  <2>3. /\ Resolve(gone, "timeout") \in [OutMsg \cup InMsg -> Outcomes]
        /\ \A x \in OutMsg \cup InMsg :
              Resolve(gone, "timeout")[x] = IF x \in gone THEN "timeout" ELSE outcome[x]
    BY <2>2, Resolving
  <2>4. QED
    BY <2>1, <2>3
<1>3. Elements(defaultSendQueue) \subseteq DefaultMsg
  BY <1>1, ElementsType
<1>4. /\ slot \in OutMsg \cup {None} /\ slot \in {None, sendReqFront}
      /\ recvSlot \in InMsg \cup {None} /\ ExpiredLeft \subseteq OutMsg \cup InMsg
  BY <1>1 DEF slot, recvSlot, ExpiredLeft
<1>5. /\ \A x \in DefaultMsg : x \in gone <=>
            x \in SlotTimedOut \/ x \in Elements(defaultSendQueue) \cap expired
      /\ \A x \in PreBootMsg : x \in gone <=> x \in SlotTimedOut
      /\ \A x \in TxMsg : x \notin gone
      /\ \A x \in InMsg : x \in gone <=> x \in RecvTimedOut
  BY <1>1, <1>3, Kinds DEF SlotTimedOut, QueueTimedOut, RecvTimedOut
<1> HIDE DEF gone
<1>6. Tracked(DefaultMsg, AfterTimeouts, slot, cached)
  <2> DEFINE o == Resolve(SlotTimedOut, "timeout")
  <2>1. \A x \in DefaultMsg : o[x] = IF x \in SlotTimedOut THEN "timeout" ELSE outcome[x]
    BY <1>1, Kinds, Resolving DEF Outcomes
  <2> HIDE DEF o
  <2>2. Tracked(DefaultMsg, outcome, sendReqFront, defaultSendQueue)
    BY DEF Inv
  <2>3. Tracked(DefaultMsg, o, slot, defaultSendQueue)
    <3>1. CASE sendReqFront \in expired
      <4>1. slot = None /\ SlotTimedOut = {sendReqFront}
        BY <3>1 DEF slot, SlotTimedOut
      <4>2. \A x \in DefaultMsg : o[x] = "pending" <=> x # sendReqFront /\ outcome[x] = "pending"
        BY <2>1, <4>1
      <4>3. QED
        BY <2>2, <4>1, <4>2, Kinds, ReleaseTracked
    <3>2. CASE sendReqFront \notin expired
      <4>1. slot = sendReqFront /\ \A x \in DefaultMsg : o[x] = outcome[x]
        BY <2>1, <3>2 DEF slot, SlotTimedOut
      <4>2. QED
        BY <2>2, <4>1, SameTracked
    <3>3. QED
      BY <3>1, <3>2
  <2>4. \A x \in DefaultMsg :
           AfterTimeouts[x] = IF x \in Elements(defaultSendQueue) \cap expired
                              THEN "timeout" ELSE o[x]
    BY <1>2, <1>5, <2>1, Kinds
  <2>5. QED
    BY <2>3, <2>4, SweepTracked DEF cached
<1>7. Tracked(PreBootMsg, AfterTimeouts, slot, preBootQueue)
  <2>1. \A x \in PreBootMsg :
           AfterTimeouts[x] = IF x \in SlotTimedOut THEN "timeout" ELSE outcome[x]
    BY <1>2, <1>5, Kinds
  <2>2. Tracked(PreBootMsg, outcome, sendReqFront, preBootQueue)
    BY DEF Inv
  <2>3. CASE sendReqFront \in expired
    <3>1. slot = None /\ SlotTimedOut = {sendReqFront}
      BY <2>3 DEF slot, SlotTimedOut
    <3>2. \A x \in PreBootMsg :
             AfterTimeouts[x] = "pending" <=> x # sendReqFront /\ outcome[x] = "pending"
      BY <2>1, <3>1
    <3>3. QED
      BY <2>2, <3>1, <3>2, Kinds, ReleaseTracked
  <2>4. CASE sendReqFront \notin expired
    <3>1. slot = sendReqFront /\ \A x \in PreBootMsg : AfterTimeouts[x] = outcome[x]
      BY <2>1, <2>4 DEF slot, SlotTimedOut
    <3>2. QED
      BY <2>2, <3>1, SameTracked
  <2>5. QED
    BY <2>3, <2>4
<1>8. Tracked(InMsg, AfterTimeouts, recvSlot, recvQueue)
  <2>1. \A x \in InMsg :
           AfterTimeouts[x] = IF x \in RecvTimedOut THEN "timeout" ELSE outcome[x]
    BY <1>2, <1>5, Kinds
  <2>2. Tracked(InMsg, outcome, recvReqFront, recvQueue)
    BY DEF Inv
  <2>3. CASE recvReqFront \in expired
    <3>1. recvSlot = None /\ RecvTimedOut = {recvReqFront}
      BY <2>3 DEF recvSlot, RecvTimedOut
    <3>2. \A x \in InMsg :
             AfterTimeouts[x] = "pending" <=> x # recvReqFront /\ outcome[x] = "pending"
      BY <2>1, <3>1
    <3>3. QED
      BY <2>2, <3>1, <3>2, Kinds, ReleaseTracked
  <2>4. CASE recvReqFront \notin expired
    <3>1. recvSlot = recvReqFront /\ \A x \in InMsg : AfterTimeouts[x] = outcome[x]
      BY <2>1, <2>4 DEF recvSlot, RecvTimedOut
    <3>2. QED
      BY <2>2, <3>1, SameTracked
  <2>5. QED
    BY <2>3, <2>4
<1>9. TxTracked(AfterTimeouts, slot, txQueue, nextOpNr, attempt)
  <2>1. \A x \in TxMsg : AfterTimeouts[x] = outcome[x]
    BY <1>2, <1>5, Kinds
  <2>2. slot \in TxMsg => slot = sendReqFront
    BY <1>4, Kinds
  <2>3. TxTracked(outcome, sendReqFront, txQueue, nextOpNr, attempt)
    BY DEF Inv
  <2>4. QED
    BY <2>1, <2>2, <2>3, SameTx
<1>10. ASSUME NEW x \in OutMsg \cup InMsg, AfterTimeouts[x] # outcome[x]
       PROVE  outcome[x] = "pending" /\ AfterTimeouts[x] = "timeout"
  <2>1. x \in gone /\ AfterTimeouts[x] = "timeout"
    BY <1>2, <1>10
  <2>2. CASE x \in TxMsg
    BY <1>5, <2>1, <2>2
  <2>3. CASE x \in DefaultMsg
    <3>1. x \in {sendReqFront} \cup Elements(defaultSendQueue)
      BY <1>5, <2>1, <2>3 DEF SlotTimedOut
    <3>2. QED
      BY <2>1, <2>3, <3>1 DEF Inv, Tracked
  <2>4. CASE x \in PreBootMsg
    <3>1. x = sendReqFront
      BY <1>5, <2>1, <2>4 DEF SlotTimedOut
    <3>2. QED
      BY <2>1, <2>4, <3>1 DEF Inv, Tracked
  <2>5. CASE x \in InMsg
    <3>1. x = recvReqFront
      BY <1>5, <2>1, <2>5 DEF RecvTimedOut
    <3>2. QED
      BY <2>1, <2>5, <3>1 DEF Inv, Tracked
  <2>6. QED
    BY <2>2, <2>3, <2>4, <2>5, Kinds
<1>11. QED
  BY <1>2, <1>4, <1>6, <1>7, <1>8, <1>9, <1>10

\* loop() sends its next response: what waits moves into the free slot.
LEMMA NextResponse ==
    ASSUME Inv
    PROVE  /\ recvFront \in InMsg \cup {None}
           /\ Tracked(InMsg, AfterTimeouts, recvFront, recvRest)
<1>1. Tracked(InMsg, AfterTimeouts, recvSlot, recvQueue) /\ recvSlot \in InMsg \cup {None}
  BY Timeouts
<1>2. CASE recvSlot = None /\ recvQueue # <<>>
  <2>1. recvFront = Head(recvQueue) /\ recvRest = Tail(recvQueue)
    BY <1>2 DEF recvFront, recvRest
  <2>2. recvQueue \in Seq(InMsg)
    BY <1>1 DEF Tracked
  <2>3. Head(recvQueue) \in InMsg
    BY <1>2, <2>2, Popped
  <2>4. QED
    BY <1>1, <1>2, <2>1, <2>3, FetchTracked, Kinds
<1>3. CASE ~(recvSlot = None /\ recvQueue # <<>>)
  <2>1. recvFront = recvSlot /\ recvRest = recvQueue
    BY <1>3 DEF recvFront, recvRest
  <2>2. QED
    BY <1>1, <2>1
<1>4. QED
  BY <1>2, <1>3


-----------------------------------------------------------------------------
(* One lemma per action.                                                   *)

\* A new message enters its queue; the one that leaves it has timed out.
LEMMA PushedOutcome ==
    ASSUME TypeOK, NEW gone, NEW m \in OutMsg \cup InMsg
    PROVE  /\ [Resolve(gone, "timeout") EXCEPT ![m] = "pending"] \in [OutMsg \cup InMsg -> Outcomes]
           /\ \A x \in OutMsg \cup InMsg :
                 [Resolve(gone, "timeout") EXCEPT ![m] = "pending"][x] =
                     IF x = m THEN "pending" ELSE IF x \in gone THEN "timeout" ELSE outcome[x]
<1>1. "timeout" \in Outcomes /\ "pending" \in Outcomes
  BY DEF Outcomes
<1>2. /\ Resolve(gone, "timeout") \in [OutMsg \cup InMsg -> Outcomes]
      /\ \A x \in OutMsg \cup InMsg :
            Resolve(gone, "timeout")[x] = IF x \in gone THEN "timeout" ELSE outcome[x]
  BY <1>1, Resolving
<1>3. QED
  BY <1>1, <1>2

\* Those that leave a queue are pending messages of its kind.
LEMMA EvictedPending ==
    ASSUME NEW kind, NEW o, NEW front, NEW q, Tracked(kind, o, front, q)
    PROVE  \A x \in Evicted(q) : x \in kind /\ o[x] = "pending"
<1>1. /\ q \in Seq(kind) /\ Len(q) \in Nat /\ CacheSize \in Nat \ {0}
      /\ Elements(q) \subseteq kind
  BY LenProperties, ElementsType, ConstantsAssumption DEF Tracked
<1>2. SUFFICES ASSUME NEW x \in Evicted(q) PROVE x \in kind /\ o[x] = "pending"
  OBVIOUS
<1>3. x = Head(q) /\ q # <<>>
  BY <1>1, <1>2, EmptySeq DEF Evicted
<1>4. QED
  BY <1>1, <1>3, ElementsType DEF Tracked

LEMMA SendRequestStep ==
    ASSUME Inv, NEW m \in DefaultMsg, SendRequest(m)
    PROVE  Inv' /\ Lawful
<1> DEFINE gone == Evicted(defaultSendQueue)
<1>1. /\ TypeOK /\ m \in OutMsg \cup InMsg /\ outcome[m] = "none"
      /\ Tracked(DefaultMsg, outcome, sendReqFront, defaultSendQueue)
      /\ \A x \in gone : x \in DefaultMsg /\ outcome[x] = "pending"
  BY EvictedPending, Kinds DEF Inv, SendRequest
<1>2. /\ outcome' \in [OutMsg \cup InMsg -> Outcomes]
      /\ \A x \in OutMsg \cup InMsg :
            outcome'[x] = IF x = m THEN "pending"
                          ELSE IF x \in gone THEN "timeout" ELSE outcome[x]
  BY <1>1, PushedOutcome DEF SendRequest
<1>3. /\ sendReqFront' = sendReqFront /\ preBootQueue' = preBootQueue
      /\ recvReqFront' = recvReqFront /\ recvQueue' = recvQueue /\ txQueue' = txQueue
      /\ nextOpNr' = nextOpNr /\ responses' = responses /\ calls' = calls
      /\ requestSent' = requestSent /\ accepted' = accepted /\ postBoot' = postBoot
      /\ connected' = connected /\ answers' = answers
      /\ defaultSendQueue' = Pushed(defaultSendQueue, m)
      /\ attempt' = [attempt EXCEPT ![m] = 1] /\ expired' = expired \ gone
  BY DEF SendRequest, bootVars, txVars, recvVars, netVars
<1> HIDE DEF gone
<1>4. \A x \in PreBootMsg \cup TxMsg \cup InMsg : outcome'[x] = outcome[x]
  BY <1>1, <1>2, Kinds
<1>5. Tracked(DefaultMsg, outcome', sendReqFront', defaultSendQueue')
  <2>1. \A x \in DefaultMsg :
           outcome'[x] = IF x = m THEN "pending"
                         ELSE IF x \in Evicted(defaultSendQueue) THEN "timeout" ELSE outcome[x]
    BY <1>2, Kinds DEF gone
  <2>2. QED
    BY <1>1, <1>3, <2>1, PushTracked
<1>6. /\ Tracked(PreBootMsg, outcome', sendReqFront', preBootQueue')
      /\ Tracked(InMsg, outcome', recvReqFront', recvQueue')
  BY <1>3, <1>4, SameTracked DEF Inv
<1>7. TxTracked(outcome', sendReqFront', txQueue', nextOpNr', attempt')
  <2>1. \A x \in TxMsg : attempt'[x] = attempt[x] /\ outcome'[x] = outcome[x]
    BY <1>1, <1>3, <1>4, Kinds DEF TypeOK
  <2>2. QED
    BY <1>3, <2>1 DEF Inv, TxTracked
<1>8. TypeOK'
  <2>1. attempt' \in [OutMsg -> 0 .. MaxAttempts]
    BY <1>1, <1>3, Kinds, ConstantsAssumption DEF TypeOK
  <2>2. QED
    BY <1>1, <1>2, <1>3, <1>5, <2>1 DEF TypeOK, Tracked
<1>9. Gate' /\ Attempted' /\ Answered'
  <2>1. Gate'
    BY <1>3 DEF Inv, Gate
  <2>2. Attempted'
    BY <1>1, <1>2, <1>3, Kinds DEF Inv, Attempted, TypeOK
  <2>3. Answered'
    BY <1>1, <1>3, <1>4 DEF Inv, Answered, TypeOK
  <2>4. QED
    BY <2>1, <2>2, <2>3
<1>10. Lawful
  BY <1>1, <1>2, <1>3 DEF Lawful
<1>11. QED
  BY <1>5, <1>6, <1>7, <1>8, <1>9, <1>10 DEF Inv

\* Steps that concern the PreBoot queue alone.
LEMMA PreBootQueueStep ==
    ASSUME Inv,
           UNCHANGED <<sendReqFront, requestSent, defaultSendQueue, txVars, recvVars, netVars>>,
           Tracked(PreBootMsg, outcome', sendReqFront', preBootQueue'),
           outcome' \in [OutMsg \cup InMsg -> Outcomes],
           \A x \in OutMsg \cup InMsg :
              \/ outcome'[x] = outcome[x]
              \/ /\ x \in PreBootMsg
                 /\ outcome[x] \in {"none", "pending"} /\ outcome'[x] \in {"pending", "timeout"},
           attempt' \in [OutMsg -> 0 .. MaxAttempts],
           \A x \in OutMsg : \/ attempt'[x] = attempt[x] /\ (outcome[x] = "none" => outcome'[x] = "none")
                             \/ attempt'[x] = 1 /\ x \in PreBootMsg,
           expired' \subseteq expired,
           accepted' = accepted, postBoot' \in BOOLEAN, postBoot => postBoot'
    PROVE  Inv' /\ Lawful
<1>1. /\ sendReqFront' = sendReqFront /\ defaultSendQueue' = defaultSendQueue
      /\ recvReqFront' = recvReqFront /\ recvQueue' = recvQueue /\ txQueue' = txQueue
      /\ nextOpNr' = nextOpNr /\ responses' = responses /\ calls' = calls
      /\ requestSent' = requestSent /\ connected' = connected /\ answers' = answers
  BY DEF txVars, recvVars, netVars
<1>2. \A x \in DefaultMsg \cup TxMsg \cup InMsg : outcome'[x] = outcome[x]
  BY Kinds
<1>3. \A x \in TxMsg : attempt'[x] = attempt[x]
  BY Kinds
<1>4. /\ Tracked(DefaultMsg, outcome', sendReqFront', defaultSendQueue')
      /\ Tracked(InMsg, outcome', recvReqFront', recvQueue')
  BY <1>1, <1>2, SameTracked DEF Inv
<1>5. TxTracked(outcome', sendReqFront', txQueue', nextOpNr', attempt')
  <2>1. TxTracked(outcome, sendReqFront, txQueue, nextOpNr, attempt)
    BY DEF Inv
  <2>2. \A x \in TxMsg : outcome'[x] = outcome[x] /\ attempt'[x] = attempt[x]
    BY <1>2, <1>3
  <2>3. QED
    BY <1>1, <2>1, <2>2, SameTx
<1>6. TypeOK'
  BY <1>1, <1>4 DEF Inv, TypeOK, Tracked
<1>7. Gate'
  BY <1>1 DEF Inv, Gate
<1>8. Attempted'
  BY Kinds DEF Inv, Attempted
<1>9. Answered'
  BY <1>1, <1>2 DEF Inv, Answered, TypeOK
<1>10. Lawful
  BY <1>1, Kinds DEF Lawful
<1>11. QED
  BY <1>4, <1>5, <1>6, <1>7, <1>8, <1>9, <1>10 DEF Inv

LEMMA SendRequestPreBootStep ==
    ASSUME Inv, NEW m \in PreBootMsg, SendRequestPreBoot(m)
    PROVE  Inv' /\ Lawful
<1> DEFINE gone == Evicted(preBootQueue)
<1>1. /\ TypeOK /\ m \in OutMsg \cup InMsg /\ outcome[m] = "none"
      /\ Tracked(PreBootMsg, outcome, sendReqFront, preBootQueue)
      /\ \A x \in gone : x \in PreBootMsg /\ outcome[x] = "pending"
  BY EvictedPending, Kinds DEF Inv, SendRequestPreBoot
<1>2. /\ outcome' \in [OutMsg \cup InMsg -> Outcomes]
      /\ \A x \in OutMsg \cup InMsg :
            outcome'[x] = IF x = m THEN "pending"
                          ELSE IF x \in gone THEN "timeout" ELSE outcome[x]
  <2>1. outcome' = [Resolve(gone, "timeout") EXCEPT ![m] = "pending"]
    BY DEF SendRequestPreBoot
  <2> HIDE DEF gone
  <2>2. QED
    BY <1>1, <2>1, PushedOutcome
<1>3. /\ UNCHANGED <<sendReqFront, requestSent, defaultSendQueue, txVars, recvVars, netVars>>
      /\ accepted' = accepted /\ postBoot' = postBoot
      /\ preBootQueue' = Pushed(preBootQueue, m)
      /\ attempt' = [attempt EXCEPT ![m] = 1] /\ expired' = expired \ gone
  BY DEF SendRequestPreBoot, bootVars
<1>4. Tracked(PreBootMsg, outcome', sendReqFront', preBootQueue')
  <2>1. \A x \in PreBootMsg :
           outcome'[x] = IF x = m THEN "pending"
                         ELSE IF x \in Evicted(preBootQueue) THEN "timeout" ELSE outcome[x]
    BY <1>2, Kinds
  <2>2. QED
    BY <1>1, <1>3, <2>1, PushTracked
<1> HIDE DEF gone
<1>5. \A x \in OutMsg \cup InMsg :
         \/ outcome'[x] = outcome[x]
         \/ /\ x \in PreBootMsg
            /\ outcome[x] \in {"none", "pending"} /\ outcome'[x] \in {"pending", "timeout"}
  BY <1>1, <1>2
<1>6. /\ attempt' \in [OutMsg -> 0 .. MaxAttempts]
      /\ \A x \in OutMsg : attempt'[x] = IF x = m THEN 1 ELSE attempt[x]
  BY <1>1, <1>3, Kinds, ConstantsAssumption DEF TypeOK
<1>7. \A x \in OutMsg : \/ attempt'[x] = attempt[x] /\ (outcome[x] = "none" => outcome'[x] = "none")
                        \/ attempt'[x] = 1 /\ x \in PreBootMsg
  BY <1>1, <1>2, <1>6
<1>8. postBoot' \in BOOLEAN /\ expired' \subseteq expired
  BY <1>1, <1>3 DEF TypeOK
<1>9. QED
  BY <1>2, <1>3, <1>4, <1>5, <1>6, <1>7, <1>8, PreBootQueueStep

LEMMA BootServiceLoopStep ==
    ASSUME Inv, BootServiceLoop
    PROVE  Inv' /\ Lawful
<1> DEFINE kept == Kept(preBootQueue, expired)
           gone == Elements(preBootQueue) \cap expired
           swept == Resolve(gone, "timeout")
<1>1. /\ TypeOK /\ "timeout" \in Outcomes
      /\ Tracked(PreBootMsg, outcome, sendReqFront, preBootQueue)
  BY DEF Inv, Outcomes
<1>2. \A x \in gone : x \in PreBootMsg /\ x \in OutMsg /\ outcome[x] = "pending"
  <2>1. Elements(preBootQueue) \subseteq PreBootMsg
    BY <1>1, ElementsType DEF Tracked
  <2>2. QED
    BY <1>1, <2>1, Kinds DEF Tracked
<1>3. /\ UNCHANGED <<sendReqFront, requestSent, defaultSendQueue, txVars, recvVars, netVars>>
      /\ accepted' = accepted /\ postBoot' \in BOOLEAN /\ (postBoot => postBoot')
      /\ sendReqFront' = sendReqFront
  BY <1>1 DEF BootServiceLoop, TypeOK
<1>4. /\ swept \in [OutMsg \cup InMsg -> Outcomes]
      /\ \A x \in OutMsg \cup InMsg : swept[x] = IF x \in gone THEN "timeout" ELSE outcome[x]
  BY <1>1, Resolving
<1>5. Tracked(PreBootMsg, swept, sendReqFront, kept)
  <2>1. \A x \in PreBootMsg :
           swept[x] = IF x \in Elements(preBootQueue) \cap expired THEN "timeout" ELSE outcome[x]
    BY <1>4, Kinds
  <2> HIDE DEF swept
  <2>2. QED
    BY <1>1, <2>1, SweepTracked
<1>6. \/ /\ preBootQueue' = kept /\ outcome' = swept
         /\ expired' = expired \ gone /\ attempt' = attempt
      \/ \E m \in BootMsg :
            /\ outcome[m] = "none" /\ preBootQueue' = Pushed(kept, m)
            /\ outcome' = [Resolve(gone \cup Evicted(kept), "timeout") EXCEPT ![m] = "pending"]
            /\ expired' = expired \ (gone \cup Evicted(kept))
            /\ attempt' = [attempt EXCEPT ![m] = 1]
  BY DEF BootServiceLoop
<1> HIDE DEF kept, gone, swept
<1>7. CASE /\ preBootQueue' = kept /\ outcome' = swept
           /\ expired' = expired \ gone /\ attempt' = attempt
  <2>1. /\ attempt' \in [OutMsg -> 0 .. MaxAttempts] /\ expired' \subseteq expired
        /\ Tracked(PreBootMsg, outcome', sendReqFront', preBootQueue')
        /\ outcome' \in [OutMsg \cup InMsg -> Outcomes]
    BY <1>1, <1>3, <1>4, <1>5, <1>7 DEF TypeOK
  <2>2. \A x \in OutMsg \cup InMsg :
           \/ outcome'[x] = outcome[x]
           \/ /\ x \in PreBootMsg
              /\ outcome[x] \in {"none", "pending"} /\ outcome'[x] \in {"pending", "timeout"}
    BY <1>2, <1>4, <1>7
  <2>3. \A x \in OutMsg : outcome[x] = "none" => outcome'[x] = "none"
    BY <1>2, <1>4, <1>7
  <2>4. QED
    BY <1>3, <1>7, <2>1, <2>2, <2>3, PreBootQueueStep
<1>8. ASSUME NEW m \in BootMsg,
             outcome[m] = "none", preBootQueue' = Pushed(kept, m),
             outcome' = [Resolve(gone \cup Evicted(kept), "timeout") EXCEPT ![m] = "pending"],
             expired' = expired \ (gone \cup Evicted(kept)),
             attempt' = [attempt EXCEPT ![m] = 1]
      PROVE  Inv' /\ Lawful
  <2>1. m \in PreBootMsg /\ m \in OutMsg /\ m \in OutMsg \cup InMsg /\ m \notin gone
    BY <1>2, <1>8, Kinds
  <2>2. /\ outcome' \in [OutMsg \cup InMsg -> Outcomes]
        /\ \A x \in OutMsg \cup InMsg :
              outcome'[x] = IF x = m THEN "pending"
                            ELSE IF x \in gone \cup Evicted(kept) THEN "timeout" ELSE outcome[x]
    BY <1>1, <1>8, <2>1, PushedOutcome
  <2>3. \A x \in Evicted(kept) : x \in PreBootMsg /\ x \in OutMsg /\ outcome[x] = "pending"
    <3>1. \A x \in Evicted(kept) : x \in PreBootMsg /\ swept[x] = "pending"
      BY <1>5, EvictedPending
    <3>2. QED
      BY <1>4, <3>1, Kinds
  <2>4. Tracked(PreBootMsg, outcome', sendReqFront', preBootQueue')
    <3>1. \A x \in PreBootMsg :
             outcome'[x] = IF x = m THEN "pending"
                           ELSE IF x \in Evicted(kept) THEN "timeout" ELSE swept[x]
      BY <1>4, <2>2, Kinds
    <3>2. swept[m] # "pending"
      BY <1>4, <1>8, <2>1
    <3>3. QED
      BY <1>3, <1>5, <1>8, <2>1, <3>1, <3>2, PushTracked
  <2>5. \A x \in OutMsg \cup InMsg :
           \/ outcome'[x] = outcome[x]
           \/ /\ x \in PreBootMsg
              /\ outcome[x] \in {"none", "pending"} /\ outcome'[x] \in {"pending", "timeout"}
    BY <1>2, <1>8, <2>1, <2>2, <2>3
  <2>6. /\ attempt' \in [OutMsg -> 0 .. MaxAttempts]
        /\ \A x \in OutMsg : attempt'[x] = IF x = m THEN 1 ELSE attempt[x]
    BY <1>1, <1>8, <2>1, ConstantsAssumption DEF TypeOK
  <2>7. \A x \in OutMsg :
           \/ attempt'[x] = attempt[x] /\ (outcome[x] = "none" => outcome'[x] = "none")
           \/ attempt'[x] = 1 /\ x \in PreBootMsg
    BY <1>2, <2>1, <2>2, <2>3, <2>6
  <2>8. expired' \subseteq expired
    BY <1>8
  <2>9. QED
    BY <1>3, <2>2, <2>4, <2>5, <2>6, <2>7, <2>8, PreBootQueueStep
<1>9. QED
  BY <1>6, <1>7, <1>8

LEMMA EmitTxStep ==
    ASSUME Inv, NEW e \in Emitter, EmitTx(e)
    PROVE  Inv' /\ Lawful
<1>1. /\ TypeOK /\ TxTracked(outcome, sendReqFront, txQueue, nextOpNr, attempt)
      /\ nextOpNr \in TxMsg /\ nextOpNr + 1 \in FirstOpNr .. FirstOpNr + MaxTx
  BY TxNumbers DEF Inv, EmitTx, TypeOK, TxMsg
<1>2. outcome[nextOpNr] = "none"
  BY <1>1, TxNumbers DEF TxTracked
<1>3. /\ outcome' \in [OutMsg \cup InMsg -> Outcomes]
      /\ \A x \in OutMsg \cup InMsg :
            outcome'[x] = IF x = nextOpNr THEN "pending" ELSE outcome[x]
  BY <1>1, Kinds DEF EmitTx, TypeOK, Outcomes
<1>4. /\ sendReqFront' = sendReqFront /\ requestSent' = requestSent
      /\ defaultSendQueue' = defaultSendQueue /\ preBootQueue' = preBootQueue
      /\ recvReqFront' = recvReqFront /\ recvQueue' = recvQueue
      /\ responses' = responses /\ calls' = calls /\ answers' = answers
      /\ accepted' = accepted /\ postBoot' = postBoot /\ connected' = connected
      /\ attempt' = attempt /\ expired' = expired
      /\ txQueue' = [txQueue EXCEPT ![e] = Append(@, nextOpNr)] /\ nextOpNr' = nextOpNr + 1
  BY DEF EmitTx, sendVars, bootVars, recvVars, netVars
<1>5. \A x \in DefaultMsg \cup PreBootMsg \cup InMsg : outcome'[x] = outcome[x]
  BY <1>1, <1>3, Kinds
<1>6. /\ Tracked(DefaultMsg, outcome', sendReqFront', defaultSendQueue')
      /\ Tracked(PreBootMsg, outcome', sendReqFront', preBootQueue')
      /\ Tracked(InMsg, outcome', recvReqFront', recvQueue')
  BY <1>4, <1>5, SameTracked DEF Inv
<1>7. TxTracked(outcome', sendReqFront', txQueue', nextOpNr', attempt')
  <2>1. \A m \in TxMsg : outcome'[m] = IF m = nextOpNr THEN "pending" ELSE outcome[m]
    BY <1>3, Kinds
  <2>2. QED
    BY <1>1, <1>4, <2>1, EmitKeepsTx
<1>8. TypeOK'
  BY <1>1, <1>3, <1>4, <1>7 DEF TypeOK, TxTracked
<1>9. Gate' /\ Attempted' /\ Answered'
  <2>1. Gate'
    BY <1>4 DEF Inv, Gate
  <2>2. Attempted'
    BY <1>4, <1>5 DEF Inv, Attempted
  <2>3. Answered'
    BY <1>1, <1>4, <1>5 DEF Inv, Answered, TypeOK
  <2>4. QED
    BY <2>1, <2>2, <2>3
<1>10. Lawful
  BY <1>2, <1>3, <1>4 DEF Lawful
<1>11. QED
  BY <1>6, <1>7, <1>8, <1>9, <1>10 DEF Inv

LEMMA ReceiveRequestStep ==
    ASSUME Inv, NEW m \in InMsg, ReceiveRequest(m)
    PROVE  Inv' /\ Lawful
<1> DEFINE gone == Evicted(recvQueue)
<1>1. /\ TypeOK /\ m \in OutMsg \cup InMsg /\ outcome[m] = "none"
      /\ Tracked(InMsg, outcome, recvReqFront, recvQueue)
      /\ \A x \in gone : x \in InMsg /\ outcome[x] = "pending"
  BY EvictedPending DEF Inv, ReceiveRequest
<1>2. /\ outcome' \in [OutMsg \cup InMsg -> Outcomes]
      /\ \A x \in OutMsg \cup InMsg :
            outcome'[x] = IF x = m THEN "pending"
                          ELSE IF x \in gone THEN "timeout" ELSE outcome[x]
  <2>1. outcome' = [Resolve(gone, "timeout") EXCEPT ![m] = "pending"]
    BY DEF ReceiveRequest
  <2>2. TypeOK /\ m \in OutMsg \cup InMsg
    BY <1>1
  <2> HIDE DEF gone
  <2>3. /\ [Resolve(gone, "timeout") EXCEPT ![m] = "pending"] \in [OutMsg \cup InMsg -> Outcomes]
        /\ \A x \in OutMsg \cup InMsg :
              [Resolve(gone, "timeout") EXCEPT ![m] = "pending"][x] =
                  IF x = m THEN "pending" ELSE IF x \in gone THEN "timeout" ELSE outcome[x]
    BY <2>2, PushedOutcome
  <2>4. QED
    BY <2>1, <2>3
<1>3. /\ sendReqFront' = sendReqFront /\ requestSent' = requestSent
      /\ defaultSendQueue' = defaultSendQueue /\ preBootQueue' = preBootQueue
      /\ recvReqFront' = recvReqFront /\ txQueue' = txQueue /\ nextOpNr' = nextOpNr
      /\ responses' = responses /\ calls' = calls /\ answers' = answers
      /\ accepted' = accepted /\ postBoot' = postBoot /\ connected' = connected
      /\ attempt' = attempt
      /\ recvQueue' = Pushed(recvQueue, m) /\ expired' = expired \ gone
  BY DEF ReceiveRequest, sendVars, bootVars, txVars, netVars
<1>4. Tracked(InMsg, outcome', recvReqFront', recvQueue')
  <2>1. \A x \in InMsg :
           outcome'[x] = IF x = m THEN "pending"
                         ELSE IF x \in Evicted(recvQueue) THEN "timeout" ELSE outcome[x]
    BY <1>2
  <2>2. QED
    BY <1>1, <1>3, <2>1, PushTracked
<1> HIDE DEF gone
<1>5. \A x \in DefaultMsg \cup PreBootMsg \cup TxMsg : outcome'[x] = outcome[x]
  BY <1>1, <1>2, Kinds
<1>6. /\ Tracked(DefaultMsg, outcome', sendReqFront', defaultSendQueue')
      /\ Tracked(PreBootMsg, outcome', sendReqFront', preBootQueue')
  BY <1>3, <1>5, SameTracked DEF Inv
<1>7. TxTracked(outcome', sendReqFront', txQueue', nextOpNr', attempt')
  BY <1>3, <1>5, SameTx DEF Inv
<1>8. TypeOK'
  BY <1>1, <1>2, <1>3, <1>4 DEF TypeOK, Tracked
<1>9. Gate' /\ Attempted' /\ Answered'
  <2>1. Gate'
    BY <1>3 DEF Inv, Gate
  <2>2. Attempted'
    BY <1>3, <1>5 DEF Inv, Attempted
  <2>3. Answered'
    <3>1. \A k \in 1 .. Len(responses) : responses[k] \in InMsg
      BY <1>1, ElementOfSeq DEF TypeOK
    <3>2. \A k \in 1 .. Len(responses) : outcome[responses[k]] = "conf"
      BY DEF Inv, Answered
    <3>3. \A k \in 1 .. Len(responses) : outcome'[responses[k]] = "conf"
      BY <1>1, <1>2, <3>1, <3>2
    <3>4. QED
      BY <1>3, <3>3 DEF Inv, Answered
  <2>4. QED
    BY <2>1, <2>2, <2>3
<1>10. Lawful
  BY <1>1, <1>2, <1>3, Kinds DEF Lawful
<1>11. QED
  BY <1>4, <1>6, <1>7, <1>8, <1>9, <1>10 DEF Inv

\* Steps of the clocks and of the network.
LEMMA EnvironmentStep ==
    ASSUME Inv,
           UNCHANGED <<sendVars, bootVars, txVars, attempt, outcome, recvVars>>,
           connected' \in BOOLEAN, expired' \subseteq OutMsg \cup InMsg, calls' \subseteq calls,
           answers' \subseteq [msg : OutMsg, attempt : 1 .. MaxAttempts, kind : {"conf", "error"}]
    PROVE  Inv' /\ Lawful
<1>1. /\ sendReqFront' = sendReqFront /\ requestSent' = requestSent
      /\ defaultSendQueue' = defaultSendQueue /\ preBootQueue' = preBootQueue
      /\ recvReqFront' = recvReqFront /\ recvQueue' = recvQueue
      /\ txQueue' = txQueue /\ nextOpNr' = nextOpNr
      /\ responses' = responses /\ accepted' = accepted /\ postBoot' = postBoot
      /\ attempt' = attempt /\ outcome' = outcome
  BY DEF sendVars, bootVars, txVars, recvVars
<1>2. TypeOK'
  BY <1>1 DEF Inv, TypeOK
<1>3. Gate' /\ Attempted' /\ Answered'
  BY <1>1 DEF Inv, Gate, Attempted, Answered
<1>4. Lawful
  BY <1>1, Kinds DEF Lawful
<1>5. QED
  BY <1>1, <1>2, <1>3, <1>4 DEF Inv

LEMMA EnvironmentSteps ==
    ASSUME Inv,
           \/ \E m \in OutMsg \cup InMsg : Tick(m)
           \/ Connect \/ Disconnect
           \/ \E c \in calls : ServerAnswers(c)
    PROVE  Inv' /\ Lawful
<1>1. /\ connected \in BOOLEAN /\ expired \subseteq OutMsg \cup InMsg
      /\ calls \subseteq OutMsg \X (1 .. MaxAttempts)
      /\ answers \subseteq [msg : OutMsg, attempt : 1 .. MaxAttempts, kind : {"conf", "error"}]
  BY DEF Inv, TypeOK
<1>2. ASSUME NEW m \in OutMsg \cup InMsg, Tick(m) PROVE Inv' /\ Lawful
  BY <1>1, <1>2, EnvironmentStep DEF Tick, netVars
<1>3. ASSUME Connect PROVE Inv' /\ Lawful
  BY <1>1, <1>3, EnvironmentStep DEF Connect, msgVars
<1>4. ASSUME Disconnect PROVE Inv' /\ Lawful
  BY <1>1, <1>4, EnvironmentStep DEF Disconnect, msgVars
<1>5. ASSUME NEW c \in calls, ServerAnswers(c) PROVE Inv' /\ Lawful
  <2>1. c[1] \in OutMsg /\ c[2] \in 1 .. MaxAttempts
    BY <1>1
  <2>2. answers' \subseteq [msg : OutMsg, attempt : 1 .. MaxAttempts, kind : {"conf", "error"}]
    BY <1>1, <1>5, <2>1 DEF ServerAnswers
  <2>3. QED
    BY <1>1, <1>5, <2>2, EnvironmentStep DEF ServerAnswers, msgVars
<1>6. QED
  BY <1>2, <1>3, <1>4, <1>5

-----------------------------------------------------------------------------
(* The steps of loop().                                                    *)

\* Attempts and responses are as before the timeouts.
LEMMA TimeoutsKeep ==
    ASSUME Inv
    PROVE  /\ \A m \in DefaultMsg \cup PreBootMsg : AfterTimeouts[m] # "none" => attempt[m] = 1
           /\ \A k \in 1 .. Len(responses) : /\ responses[k] \in InMsg
                                             /\ AfterTimeouts[responses[k]] = "conf"
           /\ \A m \in OutMsg \cup InMsg :
                 outcome[m] \notin {"none", "pending"} => AfterTimeouts[m] = outcome[m]
           /\ \A m \in OutMsg \cup InMsg :
                 outcome[m] = "pending" => AfterTimeouts[m] \in {"pending", "timeout"}
           /\ \A m \in OutMsg \cup InMsg : AfterTimeouts[m] = "pending" => outcome[m] = "pending"
<1>1. \A x \in OutMsg \cup InMsg :
         \/ AfterTimeouts[x] = outcome[x]
         \/ outcome[x] = "pending" /\ AfterTimeouts[x] = "timeout"
  BY Timeouts
<1>2. \A m \in DefaultMsg \cup PreBootMsg : AfterTimeouts[m] # "none" => attempt[m] = 1
  BY <1>1, Kinds DEF Inv, Attempted
<1>3. \A k \in 1 .. Len(responses) : responses[k] \in InMsg
  BY ElementOfSeq DEF Inv, TypeOK
<1>4. \A k \in 1 .. Len(responses) : AfterTimeouts[responses[k]] = "conf"
  BY <1>1, <1>3 DEF Inv, Answered
<1>5. QED
  BY <1>1, <1>2, <1>3, <1>4

LEMMA LoopOfflineStep ==
    ASSUME Inv, LoopOffline
    PROVE  Inv' /\ Lawful
<1>1. /\ sendReqFront' = slot /\ requestSent' = (requestSent /\ slot # None)
      /\ recvReqFront' = recvSlot /\ defaultSendQueue' = cached
      /\ outcome' = AfterTimeouts /\ expired' = ExpiredLeft
      /\ preBootQueue' = preBootQueue /\ accepted' = accepted /\ postBoot' = postBoot
      /\ txQueue' = txQueue /\ nextOpNr' = nextOpNr /\ attempt' = attempt
      /\ recvQueue' = recvQueue /\ responses' = responses
      /\ connected' = connected /\ calls' = calls /\ answers' = answers
  BY DEF LoopOffline, bootVars, txVars, netVars
<1>2. /\ Tracked(DefaultMsg, outcome', sendReqFront', defaultSendQueue')
      /\ Tracked(PreBootMsg, outcome', sendReqFront', preBootQueue')
      /\ Tracked(InMsg, outcome', recvReqFront', recvQueue')
      /\ TxTracked(outcome', sendReqFront', txQueue', nextOpNr', attempt')
  BY <1>1, Timeouts
<1>3. TypeOK'
  <2>1. /\ outcome' \in [OutMsg \cup InMsg -> Outcomes]
        /\ sendReqFront' \in OutMsg \cup {None} /\ recvReqFront' \in InMsg \cup {None}
        /\ expired' \subseteq OutMsg \cup InMsg
    BY <1>1, Timeouts
  <2>2. requestSent' \in BOOLEAN /\ (requestSent' => sendReqFront' # None)
    BY <1>1
  <2>3. QED
    BY <1>1, <1>2, <2>1, <2>2 DEF Inv, TypeOK, Tracked
<1>4. Gate' /\ Attempted' /\ Answered'
  <2>1. Gate'
    BY <1>1, Timeouts DEF Inv, Gate
  <2>2. Attempted'
    BY <1>1, TimeoutsKeep DEF Attempted
  <2>3. Answered'
    BY <1>1, TimeoutsKeep DEF Inv, Answered
  <2>4. QED
    BY <2>1, <2>2, <2>3
<1>5. Lawful
  BY <1>1, TimeoutsKeep DEF Lawful
<1>6. QED
  BY <1>2, <1>3, <1>4, <1>5 DEF Inv

LEMMA LoopRespondStep ==
    ASSUME Inv, LoopRespond
    PROVE  Inv' /\ Lawful
<1>1. /\ sendReqFront' = slot /\ requestSent' = (requestSent /\ slot # None)
      /\ recvQueue' = recvRest /\ defaultSendQueue' = cached /\ expired' = ExpiredLeft
      /\ preBootQueue' = preBootQueue /\ accepted' = accepted /\ postBoot' = postBoot
      /\ txQueue' = txQueue /\ nextOpNr' = nextOpNr /\ attempt' = attempt
      /\ connected' = connected /\ calls' = calls /\ answers' = answers
  BY DEF LoopRespond, bootVars, txVars, netVars
<1>2. \/ /\ recvReqFront' = None /\ responses' = Append(responses, recvFront)
         /\ outcome' = [AfterTimeouts EXCEPT ![recvFront] = "conf"]
      \/ /\ recvReqFront' = recvFront /\ responses' = responses
         /\ outcome' = AfterTimeouts
  BY DEF LoopRespond
<1>3. /\ recvFront \in InMsg /\ recvFront \notin OutMsg
      /\ Tracked(InMsg, AfterTimeouts, recvFront, recvRest)
      /\ AfterTimeouts[recvFront] = "pending" /\ outcome[recvFront] = "pending"
  <2>1. recvFront \in InMsg /\ Tracked(InMsg, AfterTimeouts, recvFront, recvRest)
    BY NextResponse DEF LoopRespond
  <2>2. AfterTimeouts[recvFront] = "pending"
    BY <2>1 DEF Tracked
  <2>3. QED
    BY <2>1, <2>2, TimeoutsKeep, Kinds
<1>4. /\ outcome' \in [OutMsg \cup InMsg -> Outcomes]
      /\ \A x \in OutMsg : outcome'[x] = AfterTimeouts[x]
      /\ \A x \in InMsg : \/ outcome'[x] = AfterTimeouts[x]
                          \/ x = recvFront /\ outcome'[x] = "conf"
  BY <1>2, <1>3, Timeouts DEF Outcomes
<1>5. Tracked(InMsg, outcome', recvReqFront', recvQueue')
  <2>1. CASE recvReqFront' = None /\ outcome' = [AfterTimeouts EXCEPT ![recvFront] = "conf"]
    <3>1. \A x \in InMsg : outcome'[x] = IF x = recvFront THEN "conf" ELSE AfterTimeouts[x]
      BY <2>1, Timeouts
    <3>2. \A x \in InMsg : outcome'[x] = "pending" <=> x # recvFront /\ AfterTimeouts[x] = "pending"
      BY <3>1
    <3>3. QED
      BY <1>1, <1>3, <2>1, <3>2, ReleaseTracked, Kinds
  <2>2. CASE recvReqFront' = recvFront /\ outcome' = AfterTimeouts
    BY <1>1, <1>3, <2>2
  <2>3. QED
    BY <1>2, <2>1, <2>2
<1>6. /\ Tracked(DefaultMsg, outcome', sendReqFront', defaultSendQueue')
      /\ Tracked(PreBootMsg, outcome', sendReqFront', preBootQueue')
  <2>1. \A x \in DefaultMsg \cup PreBootMsg : outcome'[x] = AfterTimeouts[x]
    BY <1>4, Kinds
  <2>2. QED
    BY <1>1, <2>1, Timeouts, SameTracked
<1>7. TxTracked(outcome', sendReqFront', txQueue', nextOpNr', attempt')
  <2>1. \A x \in TxMsg : outcome'[x] = AfterTimeouts[x]
    BY <1>4, Kinds
  <2>2. QED
    BY <1>1, <2>1, Timeouts, SameTx
<1>8. Distinct(responses') /\ responses' \in Seq(InMsg)
      /\ \A k \in 1 .. Len(responses') : outcome'[responses'[k]] = "conf"
  <2>1. /\ responses \in Seq(InMsg) /\ Distinct(responses)
        /\ \A k \in 1 .. Len(responses) : /\ responses[k] \in InMsg
                                          /\ AfterTimeouts[responses[k]] = "conf"
    BY TimeoutsKeep DEF Inv, TypeOK, Answered
  <2>2. CASE responses' = responses /\ outcome' = AfterTimeouts
    BY <2>1, <2>2
  <2>3. CASE /\ responses' = Append(responses, recvFront)
             /\ outcome' = [AfterTimeouts EXCEPT ![recvFront] = "conf"]
    <3>1. /\ Append(responses, recvFront) \in Seq(InMsg) /\ Len(responses) \in Nat
          /\ Len(Append(responses, recvFront)) = Len(responses) + 1
          /\ \A k \in 1 .. Len(responses) : Append(responses, recvFront)[k] = responses[k]
          /\ Append(responses, recvFront)[Len(responses) + 1] = recvFront
      BY <1>3, <2>1, Appended, LenProperties
    <3>2. recvFront \notin Elements(responses)
      BY <1>3, <2>1 DEF Elements
    <3>3. Distinct(Append(responses, recvFront))
      BY <1>3, <2>1, <3>2, DistinctKept
    <3>4. \A x \in InMsg : outcome'[x] = IF x = recvFront THEN "conf" ELSE AfterTimeouts[x]
      BY <2>3, Timeouts
    <3>5. ASSUME NEW k \in 1 .. Len(responses')
          PROVE  outcome'[responses'[k]] = "conf"
      <4>1. k \in 1 .. Len(responses) \/ k = Len(responses) + 1
        BY <2>3, <3>1, <3>5
      <4>2. QED
        BY <1>3, <2>1, <2>3, <3>1, <3>4, <4>1
    <3>6. QED
      BY <2>3, <3>1, <3>3, <3>5
  <2>4. QED
    BY <1>2, <2>2, <2>3
<1>9. TypeOK'
  <2>1. /\ sendReqFront' \in OutMsg \cup {None} /\ recvReqFront' \in InMsg \cup {None}
        /\ expired' \subseteq OutMsg \cup InMsg
    BY <1>1, <1>2, <1>3, Timeouts
  <2>2. requestSent' \in BOOLEAN /\ (requestSent' => sendReqFront' # None)
    BY <1>1
  <2>3. QED
    BY <1>1, <1>4, <1>5, <1>6, <1>8, <2>1, <2>2 DEF Inv, TypeOK, Tracked
<1>10. Gate' /\ Attempted' /\ Answered'
  <2>1. Gate'
    BY <1>1, Timeouts DEF Inv, Gate
  <2>2. Attempted'
    BY <1>1, <1>4, TimeoutsKeep, Kinds DEF Attempted
  <2>3. Answered'
    BY <1>8 DEF Answered
  <2>4. QED
    BY <2>1, <2>2, <2>3
<1>11. Lawful
  BY <1>1, <1>3, <1>4, TimeoutsKeep DEF Lawful
<1>12. QED
  BY <1>5, <1>6, <1>7, <1>9, <1>10, <1>11 DEF Inv

\* What the choice of the next Request and its sending leave behind.
Fetched ==
    /\ Tracked(DefaultMsg, outcome', sendReqFront', defaultSendQueue')
    /\ Tracked(PreBootMsg, outcome', sendReqFront', preBootQueue')
    /\ TxTracked(outcome', sendReqFront', txQueue', nextOpNr, attempt')
    /\ outcome' \in [OutMsg \cup InMsg -> Outcomes]
    /\ \A x \in DefaultMsg \cup PreBootMsg \cup InMsg : outcome'[x] = AfterTimeouts[x]
    /\ \A x \in TxMsg : \/ outcome'[x] = AfterTimeouts[x]
                        \/ outcome[x] = "pending" /\ outcome'[x] = "discarded"
    /\ attempt' \in [OutMsg -> 0 .. MaxAttempts]
    /\ \A x \in DefaultMsg \cup PreBootMsg : attempt'[x] = attempt[x]
    /\ sendReqFront' \in OutMsg \cup {None}
    /\ requestSent' \in BOOLEAN /\ (requestSent' => sendReqFront' # None)
    /\ sendReqFront' \notin PreBootMsg \cup {None} => postBoot
    /\ \/ calls' = calls
       \/ \E try \in 1 .. MaxAttempts :
             sendReqFront' \in OutMsg /\ calls' = calls \cup {<<sendReqFront', try>>}
    /\ sendReqFront' \in TxMsg =>
          \A e \in Emitter : \A m \in Elements(txQueue[e]) : sendReqFront' <= m

LEMMA LoopRequestStep ==
    ASSUME Inv, LoopRequest, Fetched
    PROVE  Inv' /\ Lawful
<1>1. /\ recvReqFront' = recvFront /\ recvQueue' = recvRest /\ expired' = ExpiredLeft
      /\ accepted' = accepted /\ postBoot' = postBoot /\ nextOpNr' = nextOpNr
      /\ responses' = responses /\ connected' = connected /\ answers' = answers
  BY DEF LoopRequest, bootVars
<1>2. Tracked(InMsg, outcome', recvReqFront', recvQueue')
  <2>1. \A x \in InMsg : outcome'[x] = AfterTimeouts[x]
    BY DEF Fetched
  <2>2. QED
    BY <1>1, <2>1, NextResponse, SameTracked
<1>3. TypeOK'
  <2>1. calls' \subseteq OutMsg \X (1 .. MaxAttempts)
    BY DEF Inv, TypeOK, Fetched
  <2>2. recvReqFront' \in InMsg \cup {None} /\ expired' \subseteq OutMsg \cup InMsg
    BY <1>1, NextResponse, Timeouts
  <2>3. /\ connected' \in BOOLEAN /\ accepted' \in BOOLEAN /\ postBoot' \in BOOLEAN
        /\ nextOpNr' \in FirstOpNr .. FirstOpNr + MaxTx /\ responses' \in Seq(InMsg)
        /\ answers' \subseteq [msg : OutMsg, attempt : 1 .. MaxAttempts, kind : {"conf", "error"}]
    BY <1>1 DEF Inv, TypeOK
  <2>4. QED
    BY <1>2, <2>1, <2>2, <2>3 DEF Fetched, TypeOK, Tracked, TxTracked
<1>4. Gate' /\ Attempted' /\ Answered'
  <2>1. Gate'
    BY <1>1 DEF Fetched, Gate
  <2>2. Attempted'
    BY TimeoutsKeep DEF Fetched, Attempted
  <2>3. Answered'
    BY <1>1, TimeoutsKeep DEF Inv, Answered, Fetched
  <2>4. QED
    BY <2>1, <2>2, <2>3
<1>5. Lawful
  <2>1. ASSUME NEW m \in OutMsg \cup InMsg
        PROVE  /\ outcome[m] \notin {"none", "pending"} => outcome'[m] = outcome[m]
               /\ outcome[m] = "pending" => outcome'[m] # "conf"
    <3>1. \/ outcome'[m] = AfterTimeouts[m]
          \/ outcome[m] = "pending" /\ outcome'[m] = "discarded"
      BY Kinds DEF Fetched
    <3>2. QED
      BY <3>1, TimeoutsKeep
  <2>2. ASSUME NEW c \in calls' \ calls
        PROVE  /\ c[1] \notin PreBootMsg => postBoot
               /\ c[1] \in TxMsg =>
                     \A e \in Emitter : \A m \in Elements(txQueue[e]) : c[1] <= m
    <3>1. c[1] = sendReqFront' /\ sendReqFront' \in OutMsg
      BY <2>2 DEF Fetched
    <3>2. QED
      BY <3>1, Kinds DEF Fetched
  <2>3. QED
    BY <2>1, <2>2 DEF Lawful
<1>6. QED
  BY <1>1, <1>2, <1>3, <1>4, <1>5 DEF Inv, Fetched

\* Before the activation the PreBoot queue is polled.
LEMMA Polling ==
    /\ PollDefault => cached # <<>> /\ postBoot
    /\ ~PollDefault /\ ~PollPreBoot => postBoot
<1>1. MaxTx \in Nat
  BY ConstantsAssumption
<1>2. QED
  BY <1>1 DEF PollDefault, PollPreBoot, defaultOpNr, preBootOpNr, NoOperation, FirstOpNr

\* The facts about sending that all cases share.
LEMMA Sending ==
    ASSUME NEW m \in OutMsg, NEW try \in 1 .. MaxAttempts, Send(m, try)
    PROVE  /\ sendReqFront' = m /\ requestSent' \in BOOLEAN /\ sendReqFront' # None
           /\ \/ calls' = calls
              \/ \E n \in 1 .. MaxAttempts :
                    sendReqFront' \in OutMsg /\ calls' = calls \cup {<<sendReqFront', n>>}
BY Kinds DEF Send

LEMMA FetchDefaultStep ==
    ASSUME Inv, slot = None, FetchDefault
    PROVE  Fetched
<1>1. /\ cached # <<>> /\ postBoot
      /\ defaultSendQueue' = Tail(cached) /\ outcome' = AfterTimeouts
      /\ preBootQueue' = preBootQueue /\ txQueue' = txQueue /\ attempt' = attempt
      /\ Send(Head(cached), 1)
  BY Polling DEF FetchDefault
<1>2. /\ Tracked(DefaultMsg, AfterTimeouts, None, cached)
      /\ Tracked(PreBootMsg, AfterTimeouts, None, preBootQueue)
      /\ TxTracked(AfterTimeouts, None, txQueue, nextOpNr, attempt)
      /\ AfterTimeouts \in [OutMsg \cup InMsg -> Outcomes]
  BY Timeouts
<1>3. Head(cached) \in DefaultMsg
  BY <1>1, <1>2, Popped DEF Tracked
<1>4. 1 \in 1 .. MaxAttempts
  BY ConstantsAssumption
<1>5. /\ sendReqFront' = Head(cached) /\ requestSent' \in BOOLEAN
      /\ \/ calls' = calls
         \/ \E n \in 1 .. MaxAttempts :
               sendReqFront' \in OutMsg /\ calls' = calls \cup {<<sendReqFront', n>>}
  BY <1>1, <1>3, <1>4, Sending, Kinds
<1>6. Tracked(DefaultMsg, outcome', sendReqFront', defaultSendQueue')
  BY <1>1, <1>2, <1>5, FetchTracked, Kinds
<1>7. Tracked(PreBootMsg, outcome', sendReqFront', preBootQueue')
  <2>1. \A x \in PreBootMsg : outcome'[x] = "pending" <=> x # None /\ AfterTimeouts[x] = "pending"
    BY <1>1, Kinds
  <2>2. QED
    BY <1>1, <1>2, <1>3, <1>5, <2>1, ReleaseTracked, Kinds
<1>8. TxTracked(outcome', sendReqFront', txQueue', nextOpNr, attempt')
  BY <1>1, <1>2, <1>3, <1>5, SameTx, Kinds
<1>9. attempt' \in [OutMsg -> 0 .. MaxAttempts]
  BY <1>1 DEF Inv, TypeOK
<1>10. QED
  BY <1>1, <1>2, <1>3, <1>5, <1>6, <1>7, <1>8, <1>9, Kinds DEF Fetched

LEMMA FetchPreBootStep ==
    ASSUME Inv, slot = None, FetchPreBoot
    PROVE  Fetched
<1>1. /\ defaultSendQueue' = cached /\ outcome' = AfterTimeouts
      /\ txQueue' = txQueue /\ attempt' = attempt
  BY DEF FetchPreBoot
<1>2. /\ Tracked(DefaultMsg, AfterTimeouts, None, cached)
      /\ Tracked(PreBootMsg, AfterTimeouts, None, preBootQueue)
      /\ TxTracked(AfterTimeouts, None, txQueue, nextOpNr, attempt)
      /\ AfterTimeouts \in [OutMsg \cup InMsg -> Outcomes]
  BY Timeouts
<1>3. attempt' \in [OutMsg -> 0 .. MaxAttempts]
  BY <1>1 DEF Inv, TypeOK
<1>4. CASE preBootQueue = <<>>
  <2>1. /\ sendReqFront' = None /\ requestSent' = FALSE /\ calls' = calls
        /\ preBootQueue' = preBootQueue
    BY <1>4 DEF FetchPreBoot, FetchNothing
  <2>2. QED
    BY <1>1, <1>2, <1>3, <2>1, Kinds DEF Fetched
<1>5. CASE preBootQueue # <<>>
  <2>1. Send(Head(preBootQueue), 1) /\ preBootQueue' = Tail(preBootQueue)
    BY <1>5 DEF FetchPreBoot
  <2>2. Head(preBootQueue) \in PreBootMsg
    BY <1>2, <1>5, Popped DEF Tracked
  <2>3. 1 \in 1 .. MaxAttempts
    BY ConstantsAssumption
  <2>4. /\ sendReqFront' = Head(preBootQueue) /\ requestSent' \in BOOLEAN
        /\ \/ calls' = calls
           \/ \E n \in 1 .. MaxAttempts :
                 sendReqFront' \in OutMsg /\ calls' = calls \cup {<<sendReqFront', n>>}
    BY <2>1, <2>2, <2>3, Sending, Kinds
  <2>5. Tracked(PreBootMsg, outcome', sendReqFront', preBootQueue')
    BY <1>1, <1>2, <1>5, <2>1, <2>4, FetchTracked, Kinds
  <2>6. Tracked(DefaultMsg, outcome', sendReqFront', defaultSendQueue')
    <3>1. \A x \in DefaultMsg : outcome'[x] = "pending" <=> x # None /\ AfterTimeouts[x] = "pending"
      BY <1>1, Kinds
    <3>2. QED
      BY <1>1, <1>2, <2>2, <2>4, <3>1, ReleaseTracked, Kinds
  <2>7. TxTracked(outcome', sendReqFront', txQueue', nextOpNr, attempt')
    BY <1>1, <1>2, <2>2, <2>4, SameTx, Kinds
  <2>8. QED
    BY <1>1, <1>2, <1>3, <2>2, <2>4, <2>5, <2>6, <2>7, Kinds DEF Fetched
<1>6. QED
  BY <1>4, <1>5

LEMMA FetchTxStep ==
    ASSUME Inv, slot = None, NEW e \in Emitter, FetchTx(e)
    PROVE  Fetched
<1> DEFINE m == Head(txQueue[e])
<1>1. /\ Tracked(DefaultMsg, AfterTimeouts, None, cached)
      /\ Tracked(PreBootMsg, AfterTimeouts, None, preBootQueue)
      /\ TxTracked(AfterTimeouts, None, txQueue, nextOpNr, attempt)
      /\ AfterTimeouts \in [OutMsg \cup InMsg -> Outcomes]
      /\ attempt \in [OutMsg -> 0 .. MaxAttempts] /\ MaxAttempts \in Nat \ {0}
  BY Timeouts, ConstantsAssumption DEF Inv, TypeOK
<1>2. /\ txQueue \in [Emitter -> Seq(TxMsg)] /\ txQueue[e] \in Seq(TxMsg)
      /\ Rising(txQueue[e]) /\ txQueue[e] # <<>> /\ postBoot
  BY <1>1, Polling DEF FetchTx, PollTx, TxTracked
<1>3. /\ m \in TxMsg /\ m \in OutMsg /\ m \in Elements(txQueue[e])
      /\ AfterTimeouts[m] = "pending" /\ outcome[m] = "pending"
  <2>1. m \in TxMsg /\ m \in Elements(txQueue[e])
    BY <1>2, Popped
  <2>2. AfterTimeouts[m] = "pending"
    BY <1>1, <2>1 DEF TxTracked
  <2>3. QED
    BY <2>1, <2>2, TimeoutsKeep, Kinds
<1>4. \A f \in Emitter : txQueue[f] # <<>> => m <= Head(txQueue[f])
  BY <1>2 DEF FetchTx, PollTx, txOpNr
<1>5. defaultSendQueue' = cached /\ preBootQueue' = preBootQueue
  BY DEF FetchTx
<1>6. \/ /\ attempt[m] < MaxAttempts /\ attempt' = [attempt EXCEPT ![m] = @ + 1]
         /\ Send(m, attempt[m] + 1) /\ outcome' = AfterTimeouts /\ txQueue' = txQueue
      \/ /\ FetchNothing /\ outcome' = AfterTimeouts
         /\ txQueue' = txQueue /\ attempt' = attempt
      \/ /\ FetchNothing /\ txQueue' = [txQueue EXCEPT ![e] = Tail(@)]
         /\ outcome' = [AfterTimeouts EXCEPT ![m] = "discarded"] /\ attempt' = attempt
  BY DEF FetchTx
<1> HIDE DEF m
<1>7. CASE /\ attempt[m] < MaxAttempts /\ attempt' = [attempt EXCEPT ![m] = @ + 1]
           /\ Send(m, attempt[m] + 1) /\ outcome' = AfterTimeouts /\ txQueue' = txQueue
  <2>1. attempt[m] \in Nat /\ attempt[m] + 1 \in 1 .. MaxAttempts
    BY <1>1, <1>3, <1>7
  <2>2. /\ sendReqFront' = m /\ requestSent' \in BOOLEAN
        /\ \/ calls' = calls
           \/ \E n \in 1 .. MaxAttempts :
                 sendReqFront' \in OutMsg /\ calls' = calls \cup {<<sendReqFront', n>>}
    BY <1>3, <1>7, <2>1, Sending
  <2>3. /\ attempt' \in [OutMsg -> 0 .. MaxAttempts] /\ attempt'[m] > 0
        /\ \A x \in OutMsg : x # m => attempt'[x] = attempt[x]
    BY <1>1, <1>3, <1>7, <2>1
  <2>4. TxTracked(outcome', sendReqFront', txQueue', nextOpNr, attempt')
    <3>1. TxTracked(AfterTimeouts, m, txQueue, nextOpNr, attempt')
      BY <1>1, <1>2, <1>4, <2>3, FetchKeepsTx DEF m
    <3>2. QED
      BY <1>7, <2>2, <3>1
  <2>5. Tracked(DefaultMsg, outcome', sendReqFront', defaultSendQueue')
    <3>1. \A x \in DefaultMsg : outcome'[x] = "pending" <=> x # None /\ AfterTimeouts[x] = "pending"
      BY <1>7, Kinds
    <3>2. QED
      BY <1>1, <1>3, <1>5, <2>2, <3>1, ReleaseTracked, Kinds
  <2>6. Tracked(PreBootMsg, outcome', sendReqFront', preBootQueue')
    <3>1. \A x \in PreBootMsg : outcome'[x] = "pending" <=> x # None /\ AfterTimeouts[x] = "pending"
      BY <1>7, Kinds
    <3>2. QED
      BY <1>1, <1>3, <1>5, <2>2, <3>1, ReleaseTracked, Kinds
  <2>7. \A f \in Emitter : \A k \in Elements(txQueue[f]) : sendReqFront' <= k
    BY <1>3, <1>7, <2>2, <2>4 DEF TxTracked
  <2>8. \A x \in DefaultMsg \cup PreBootMsg : attempt'[x] = attempt[x]
    BY <1>3, <2>3, Kinds
  <2>9. QED
    BY <1>1, <1>2, <1>3, <1>7, <2>2, <2>3, <2>4, <2>5, <2>6, <2>7, <2>8, Kinds DEF Fetched
<1>8. CASE /\ FetchNothing /\ outcome' = AfterTimeouts
           /\ txQueue' = txQueue /\ attempt' = attempt
  <2>1. sendReqFront' = None /\ requestSent' = FALSE /\ calls' = calls
    BY <1>8 DEF FetchNothing
  <2>2. QED
    BY <1>1, <1>5, <1>8, <2>1, Kinds DEF Fetched
<1>9. CASE /\ FetchNothing /\ txQueue' = [txQueue EXCEPT ![e] = Tail(@)]
           /\ outcome' = [AfterTimeouts EXCEPT ![m] = "discarded"] /\ attempt' = attempt
  <2>1. sendReqFront' = None /\ requestSent' = FALSE /\ calls' = calls
    BY <1>9 DEF FetchNothing
  <2>2. /\ outcome' \in [OutMsg \cup InMsg -> Outcomes]
        /\ \A x \in OutMsg \cup InMsg :
              outcome'[x] = IF x = m THEN "discarded" ELSE AfterTimeouts[x]
    BY <1>1, <1>3, <1>9 DEF Outcomes
  <2>3. /\ Tail(txQueue[e]) \in Seq(TxMsg) /\ Rising(Tail(txQueue[e]))
        /\ Elements(Tail(txQueue[e])) = Elements(txQueue[e]) \ {m}
    <3>1. /\ Tail(txQueue[e]) \in Seq(TxMsg)
          /\ Elements(txQueue[e]) = {m} \cup Elements(Tail(txQueue[e]))
      BY <1>2, Popped DEF m
    <3>2. /\ Rising(Tail(txQueue[e]))
          /\ \A k \in Elements(Tail(txQueue[e])) : m < k
      BY <1>2, TxNumbers, RisingKept DEF m
    <3>3. m \notin Elements(Tail(txQueue[e]))
      BY <1>3, <3>2, TxNumbers
    <3>4. QED
      BY <3>1, <3>2, <3>3
  <2>4. txQueue' \in [Emitter -> Seq(TxMsg)]
    BY <1>2, <1>9, <2>3
  <2>5. ASSUME NEW f \in Emitter
        PROVE  Rising(txQueue'[f]) /\ Elements(txQueue'[f]) = Elements(txQueue[f]) \ {m}
    <3>1. CASE f = e
      <4>1. txQueue'[f] = Tail(txQueue[e])
        BY <1>2, <1>9, <3>1
      <4>2. QED
        BY <2>3, <3>1, <4>1
    <3>2. CASE f # e
      <4>1. txQueue'[f] = txQueue[f] /\ Rising(txQueue[f])
        BY <1>1, <1>2, <1>9, <3>2 DEF TxTracked
      <4>2. m \notin Elements(txQueue[f])
        BY <1>1, <1>3, <3>2 DEF TxTracked
      <4>3. QED
        BY <4>1, <4>2
    <3>3. QED
      BY <3>1, <3>2
  <2>6. TxTracked(outcome', sendReqFront', txQueue', nextOpNr, attempt')
    <3>1. outcome'[m] = "discarded" /\ \A x \in TxMsg : x # m => outcome'[x] = AfterTimeouts[x]
      BY <1>3, <2>2, Kinds
    <3>2. TxTracked(outcome', None, txQueue', nextOpNr, attempt)
      <4>1. Leaves(m, AfterTimeouts, outcome', txQueue, txQueue')
        BY <1>3, <2>4, <2>5, <3>1 DEF Leaves
      <4>2. TxTracked(AfterTimeouts, None, txQueue, nextOpNr, attempt) /\ None \notin TxMsg
        BY <1>1, Kinds
      <4>3. QED
        BY <4>1, <4>2, DoneKeepsTx
    <3>3. QED
      BY <1>9, <2>1, <3>2
  <2>7. \A x \in DefaultMsg \cup PreBootMsg \cup InMsg : outcome'[x] = AfterTimeouts[x]
    BY <1>3, <2>2, Kinds
  <2>8. /\ Tracked(DefaultMsg, outcome', sendReqFront', defaultSendQueue')
        /\ Tracked(PreBootMsg, outcome', sendReqFront', preBootQueue')
    BY <1>1, <1>5, <2>1, <2>7, SameTracked
  <2>9. \A x \in TxMsg : \/ outcome'[x] = AfterTimeouts[x]
                         \/ outcome[x] = "pending" /\ outcome'[x] = "discarded"
    BY <1>3, <2>2, Kinds
  <2>10. QED
    BY <1>1, <1>9, <2>1, <2>2, <2>6, <2>7, <2>8, <2>9, Kinds DEF Fetched
<1>10. QED
  BY <1>6, <1>7, <1>8, <1>9

LEMMA KeepSlotStep ==
    ASSUME Inv, KeepSlot
    PROVE  Fetched
<1>1. /\ Tracked(DefaultMsg, AfterTimeouts, slot, cached)
      /\ Tracked(PreBootMsg, AfterTimeouts, slot, preBootQueue)
      /\ TxTracked(AfterTimeouts, slot, txQueue, nextOpNr, attempt)
      /\ AfterTimeouts \in [OutMsg \cup InMsg -> Outcomes]
      /\ slot \in OutMsg \cup {None} /\ slot \in {None, sendReqFront}
  BY Timeouts
<1>2. /\ defaultSendQueue' = cached /\ outcome' = AfterTimeouts
      /\ preBootQueue' = preBootQueue /\ txQueue' = txQueue /\ attempt' = attempt
      /\ attempt \in [OutMsg -> 0 .. MaxAttempts]
  BY DEF KeepSlot, Inv, TypeOK
<1>3. slot \notin PreBootMsg \cup {None} => postBoot
  BY <1>1 DEF Inv, Gate
<1>4. slot \in TxMsg => \A e \in Emitter : \A m \in Elements(txQueue[e]) : slot <= m
  BY <1>1 DEF TxTracked
<1>5. CASE slot # None /\ ~requestSent
  <2>1. slot \in OutMsg /\ Send(slot, attempt[slot])
    BY <1>1, <1>5 DEF KeepSlot
  <2>2. attempt[slot] \in 1 .. MaxAttempts
    <3>1. attempt[slot] \in 0 .. MaxAttempts /\ MaxAttempts \in Nat \ {0}
      BY <1>2, <2>1, ConstantsAssumption
    <3>2. CASE slot \in TxMsg
      <4>1. attempt[slot] > 0
        BY <1>1, <3>2 DEF TxTracked
      <4>2. QED
        BY <3>1, <4>1
    <3>3. CASE slot \in DefaultMsg \cup PreBootMsg
      <4>1. AfterTimeouts[slot] = "pending"
        BY <1>1, <3>3 DEF Tracked
      <4>2. attempt[slot] = 1
        BY <3>3, <4>1, TimeoutsKeep
      <4>3. QED
        BY <3>1, <4>2
    <3>4. QED
      BY <2>1, <3>2, <3>3, Kinds
  <2>3. /\ sendReqFront' = slot /\ requestSent' \in BOOLEAN
        /\ \/ calls' = calls
           \/ \E n \in 1 .. MaxAttempts :
                 sendReqFront' \in OutMsg /\ calls' = calls \cup {<<sendReqFront', n>>}
    BY <2>1, <2>2, Sending
  <2>4. QED
    BY <1>1, <1>2, <1>3, <1>4, <1>5, <2>3 DEF Fetched
<1>6. CASE ~(slot # None /\ ~requestSent)
  <2>1. sendReqFront' = slot /\ requestSent' = (slot # None) /\ calls' = calls
    BY <1>6 DEF KeepSlot
  <2>2. requestSent' \in BOOLEAN /\ (requestSent' => sendReqFront' # None)
    BY <2>1
  <2>3. QED
    BY <1>1, <1>2, <1>3, <1>4, <2>1, <2>2 DEF Fetched
<1>7. QED
  BY <1>5, <1>6

-----------------------------------------------------------------------------
(* The steps of receiveMessage().                                          *)

LEMMA ReceiveResponseStep ==
    ASSUME Inv, NEW a \in answers, ReceiveResponse(a)
    PROVE  Inv' /\ Lawful
<1>1. /\ TypeOK /\ a.msg \in OutMsg /\ a.kind \in {"conf", "error"}
      /\ a.attempt \in 1 .. MaxAttempts
      /\ Tracked(DefaultMsg, outcome, sendReqFront, defaultSendQueue)
      /\ Tracked(PreBootMsg, outcome, sendReqFront, preBootQueue)
      /\ Tracked(InMsg, outcome, recvReqFront, recvQueue)
      /\ TxTracked(outcome, sendReqFront, txQueue, nextOpNr, attempt)
  BY DEF Inv, TypeOK
<1>2. /\ answers' = answers \ {a} /\ sendReqFront' = None /\ requestSent' = FALSE
      /\ expired' = expired \ {sendReqFront} /\ calls' = calls /\ connected' = connected
      /\ defaultSendQueue' = defaultSendQueue /\ preBootQueue' = preBootQueue
      /\ postBoot' = postBoot /\ nextOpNr' = nextOpNr /\ attempt' = attempt
      /\ recvQueue' = recvQueue /\ recvReqFront' = recvReqFront /\ responses' = responses
  BY DEF ReceiveResponse, recvVars
<1>3. sendReqFront \in OutMsg => outcome[sendReqFront] = "pending"
  BY <1>1, Kinds DEF Tracked, TxTracked
\* Either the listeners of the Request in flight are called for good, or it is a
\* transaction message that stays with its emitter.
<1>4. /\ outcome' \in [OutMsg \cup InMsg -> Outcomes]
      /\ \A x \in OutMsg \cup InMsg : x # sendReqFront => outcome'[x] = outcome[x]
      /\ accepted' \in BOOLEAN
      /\ \/ /\ sendReqFront \in OutMsg
            /\ outcome'[sendReqFront] \notin {"none", "pending"}
            /\ outcome'[sendReqFront] = "conf" => IsForFront(a) /\ a.kind = "conf"
            /\ \/ txQueue' = [f \in Emitter |-> Kept(txQueue[f], {sendReqFront})]
               \/ sendReqFront \notin TxMsg /\ txQueue' = txQueue
         \/ outcome' = outcome /\ txQueue' = txQueue /\ sendReqFront \notin DefaultMsg \cup PreBootMsg
  <2>1. CASE IsForFront(a)
    <3>1. sendReqFront = a.msg /\ sendReqFront \in OutMsg
      BY <1>1, <2>1 DEF IsForFront
    <3>2. PICK done \in BOOLEAN :
             /\ (sendReqFront \notin TxMsg \/ a.kind = "conf") => done
             /\ outcome' = IF done THEN Resolve({sendReqFront}, a.kind) ELSE outcome
             /\ txQueue' = IF done THEN [f \in Emitter |-> Kept(txQueue[f], {sendReqFront})]
                                   ELSE txQueue
             /\ accepted' = accepted \/ accepted' = TRUE
      BY <2>1 DEF ReceiveResponse, ReceiveMatching
    <3>3. accepted' \in BOOLEAN
      BY <1>1, <3>2 DEF TypeOK
    <3>4. a.kind \in Outcomes /\ a.kind \notin {"none", "pending"}
      BY <1>1 DEF Outcomes
    <3>5. /\ Resolve({sendReqFront}, a.kind) \in [OutMsg \cup InMsg -> Outcomes]
          /\ \A x \in OutMsg \cup InMsg :
                Resolve({sendReqFront}, a.kind)[x] =
                    IF x \in {sendReqFront} THEN a.kind ELSE outcome[x]
      BY <1>1, <3>4, Resolving
    <3>6. CASE done
      BY <2>1, <3>1, <3>2, <3>3, <3>4, <3>5, <3>6
    <3>7. CASE ~done
      <4>1. sendReqFront \in TxMsg /\ outcome' = outcome /\ txQueue' = txQueue
        BY <3>2, <3>7
      <4>2. sendReqFront \notin DefaultMsg \cup PreBootMsg
        BY <4>1, Kinds
      <4>3. outcome' \in [OutMsg \cup InMsg -> Outcomes]
        BY <1>1, <4>1 DEF TypeOK
      <4>4. QED
        BY <3>3, <4>1, <4>2, <4>3
    <3>8. QED
      BY <3>6, <3>7
  <2>2. CASE ~IsForFront(a)
    <3>1. /\ outcome' = Resolve({sendReqFront} \cap (DefaultMsg \cup PreBootMsg), "dropped")
          /\ txQueue' = txQueue /\ accepted' = accepted
      BY <2>2 DEF ReceiveResponse, ReceiveStray
    <3>2. "dropped" \in Outcomes /\ accepted' \in BOOLEAN
      BY <1>1, <3>1 DEF Outcomes, TypeOK
    <3>3. /\ outcome' \in [OutMsg \cup InMsg -> Outcomes]
          /\ \A x \in OutMsg \cup InMsg :
                outcome'[x] = IF x \in {sendReqFront} \cap (DefaultMsg \cup PreBootMsg)
                              THEN "dropped" ELSE outcome[x]
      <4> DEFINE msgs == {sendReqFront} \cap (DefaultMsg \cup PreBootMsg)
      <4>1. outcome' = Resolve(msgs, "dropped") /\ TypeOK
        BY <1>1, <3>1
      <4> HIDE DEF msgs
      <4>2. /\ Resolve(msgs, "dropped") \in [OutMsg \cup InMsg -> Outcomes]
            /\ \A x \in OutMsg \cup InMsg :
                  Resolve(msgs, "dropped")[x] = IF x \in msgs THEN "dropped" ELSE outcome[x]
        BY <3>2, <4>1 DEF TypeOK, Resolve
      <4>3. QED
        BY <4>1, <4>2 DEF msgs
    <3>4. CASE sendReqFront \in DefaultMsg \cup PreBootMsg
      <4>1. sendReqFront \in OutMsg /\ sendReqFront \notin TxMsg
        BY <3>4, Kinds
      <4>2. outcome'[sendReqFront] = "dropped"
        BY <3>3, <3>4, <4>1
      <4>3. QED
        BY <3>1, <3>2, <3>3, <4>1, <4>2
    <3>5. CASE sendReqFront \notin DefaultMsg \cup PreBootMsg
      <4>1. \A x \in OutMsg \cup InMsg : outcome'[x] = outcome[x]
        BY <3>3, <3>5
      <4>2. outcome' = outcome
        BY <1>1, <3>3, <4>1 DEF TypeOK
      <4>3. QED
        BY <3>1, <3>2, <3>3, <3>5, <4>2
    <3>6. QED
      BY <3>4, <3>5
  <2>3. QED
    BY <2>1, <2>2
<1>5. Tracked(DefaultMsg, outcome', sendReqFront', defaultSendQueue')
  <2>1. \A x \in DefaultMsg : outcome'[x] = "pending" <=> x # sendReqFront /\ outcome[x] = "pending"
    BY <1>3, <1>4, Kinds
  <2>2. QED
    BY <1>1, <1>2, <2>1, ReleaseTracked, Kinds
<1>6. Tracked(PreBootMsg, outcome', sendReqFront', preBootQueue')
  <2>1. \A x \in PreBootMsg : outcome'[x] = "pending" <=> x # sendReqFront /\ outcome[x] = "pending"
    BY <1>3, <1>4, Kinds
  <2>2. QED
    BY <1>1, <1>2, <2>1, ReleaseTracked, Kinds
<1>7. \A x \in InMsg : outcome'[x] = outcome[x]
  BY <1>1, <1>4, Kinds DEF TypeOK
<1>8. Tracked(InMsg, outcome', recvReqFront', recvQueue')
  BY <1>1, <1>2, <1>7, SameTracked
<1>9. TxTracked(outcome', sendReqFront', txQueue', nextOpNr', attempt')
  <2>1. CASE sendReqFront \in TxMsg /\ outcome'[sendReqFront] \notin {"none", "pending"}
             /\ txQueue' = [f \in Emitter |-> Kept(txQueue[f], {sendReqFront})]
    <3>1. ASSUME NEW f \in Emitter
          PROVE  /\ txQueue'[f] \in Seq(TxMsg) /\ Rising(txQueue'[f])
                 /\ Elements(txQueue'[f]) = Elements(txQueue[f]) \ {sendReqFront}
      <4>1. txQueue[f] \in Seq(TxMsg) /\ Rising(txQueue[f])
        BY <1>1 DEF TxTracked
      <4>2. txQueue'[f] = Kept(txQueue[f], {sendReqFront})
        BY <2>1
      <4>3. QED
        BY <4>1, <4>2, KeptSeq
    <3>2. txQueue' \in [Emitter -> Seq(TxMsg)]
      BY <2>1, <3>1
    <3>3. outcome[sendReqFront] = "pending"
      BY <1>3, <2>1, Kinds
    <3>4. \A x \in TxMsg : x # sendReqFront => outcome'[x] = outcome[x]
      BY <1>4, Kinds
    <3>5. /\ TxTracked(outcome, sendReqFront, txQueue, nextOpNr, attempt)
          /\ sendReqFront \in TxMsg /\ None \notin TxMsg
          /\ outcome'[sendReqFront] \notin {"none", "pending"}
      BY <1>1, <2>1, Kinds
    <3>6. Leaves(sendReqFront, outcome, outcome', txQueue, txQueue')
      BY <3>1, <3>2, <3>3, <3>4, <3>5 DEF Leaves
    <3>7. QED
      BY <1>2, <3>5, <3>6, DoneKeepsTx
  <2>2. CASE /\ sendReqFront \in OutMsg /\ sendReqFront \notin TxMsg
             /\ txQueue' = [f \in Emitter |-> Kept(txQueue[f], {sendReqFront})]
    <3>1. \A x \in TxMsg : outcome'[x] = outcome[x]
      BY <1>4, <2>2, Kinds
    <3>2. ASSUME NEW f \in Emitter
          PROVE  /\ txQueue'[f] \in Seq(TxMsg) /\ Rising(txQueue'[f])
                 /\ Elements(txQueue'[f]) = Elements(txQueue[f])
      <4>1. txQueue[f] \in Seq(TxMsg) /\ Rising(txQueue[f])
        BY <1>1 DEF TxTracked
      <4>2. txQueue'[f] = Kept(txQueue[f], {sendReqFront})
        BY <2>2
      <4>3. sendReqFront \notin Elements(txQueue[f])
        BY <2>2, <4>1, ElementsType
      <4>4. /\ Kept(txQueue[f], {sendReqFront}) \in Seq(TxMsg)
            /\ Rising(Kept(txQueue[f], {sendReqFront}))
            /\ Elements(Kept(txQueue[f], {sendReqFront})) = Elements(txQueue[f]) \ {sendReqFront}
        BY <4>1, KeptSeq
      <4>5. QED
        BY <4>2, <4>3, <4>4
    <3>3. txQueue' \in [Emitter -> Seq(TxMsg)]
      BY <2>2, <3>2
    <3>4. QED
      BY <1>1, <1>2, <3>1, <3>2, <3>3, Kinds DEF TxTracked
  <2>3. CASE txQueue' = txQueue /\ \A x \in TxMsg : outcome'[x] = outcome[x]
    <3>1. TxTracked(outcome', None, txQueue, nextOpNr, attempt)
      BY <1>1, <2>3, SameTx, Kinds
    <3>2. QED
      BY <1>2, <2>3, <3>1
  <2>4. sendReqFront \notin TxMsg => \A x \in TxMsg : outcome'[x] = outcome[x]
    BY <1>4, Kinds
  <2>5. QED
    BY <1>4, <2>1, <2>2, <2>3, <2>4
<1>10. TypeOK'
  <2>1. requestSent' \in BOOLEAN /\ ~requestSent'
    BY <1>2
  <2>2. QED
    BY <1>1, <1>2, <1>4, <1>5, <1>9, <2>1 DEF TypeOK, TxTracked
<1>11. Gate' /\ Attempted' /\ Answered'
  <2>1. Gate'
    BY <1>2 DEF Gate
  <2>2. Attempted'
    BY <1>2, <1>3, <1>4, Kinds DEF Inv, Attempted
  <2>3. Answered'
    <3>1. \A k \in 1 .. Len(responses) : responses[k] \in InMsg
      BY <1>1, ElementOfSeq DEF TypeOK
    <3>2. QED
      BY <1>2, <1>7, <3>1 DEF Inv, Answered
  <2>4. QED
    BY <2>1, <2>2, <2>3
<1>12. Lawful
  <2>1. ASSUME NEW m \in OutMsg \cup InMsg, outcome[m] \notin {"none", "pending"}
        PROVE  outcome'[m] = outcome[m]
    BY <1>3, <1>4, <2>1
  <2>2. ASSUME NEW m \in OutMsg, outcome[m] = "pending", outcome'[m] = "conf"
        PROVE  a.msg = m /\ a.kind = "conf" /\ a.attempt = attempt[m]
    BY <1>4, <2>2 DEF IsForFront
  <2>3. QED
    BY <1>2, <2>1, <2>2 DEF Lawful
<1>13. QED
  BY <1>5, <1>6, <1>8, <1>9, <1>10, <1>11, <1>12 DEF Inv

-----------------------------------------------------------------------------
(* The theorems.                                                           *)

LEMMA NextStep == Inv /\ [Next]_vars => Inv' /\ (Lawful \/ UNCHANGED vars)
<1> SUFFICES ASSUME Inv, [Next]_vars PROVE Inv' /\ (Lawful \/ UNCHANGED vars)
  OBVIOUS
<1>1. ASSUME NEW m \in DefaultMsg, SendRequest(m) PROVE Inv' /\ Lawful
  BY <1>1, SendRequestStep
<1>2. ASSUME NEW m \in PreBootMsg, SendRequestPreBoot(m) PROVE Inv' /\ Lawful
  BY <1>2, SendRequestPreBootStep
<1>3. ASSUME BootServiceLoop PROVE Inv' /\ Lawful
  BY <1>3, BootServiceLoopStep
<1>4. ASSUME NEW e \in Emitter, EmitTx(e) PROVE Inv' /\ Lawful
  BY <1>4, EmitTxStep
<1>5. ASSUME Loop PROVE Inv' /\ Lawful
  <2>1. CASE LoopOffline
    BY <2>1, LoopOfflineStep
  <2>2. CASE LoopRespond
    BY <2>2, LoopRespondStep
  <2>3. CASE LoopRequest
    <3>1. \/ slot = None /\ FetchDefault
          \/ slot = None /\ FetchPreBoot
          \/ \E e \in Emitter : slot = None /\ FetchTx(e)
          \/ KeepSlot
      BY <2>3 DEF LoopRequest
    <3>2. Fetched
      BY <3>1, FetchDefaultStep, FetchPreBootStep, FetchTxStep, KeepSlotStep
    <3>3. QED
      BY <2>3, <3>2, LoopRequestStep
  <2>4. QED
    BY <1>5, <2>1, <2>2, <2>3 DEF Loop
<1>6. ASSUME NEW a \in answers, ReceiveResponse(a) PROVE Inv' /\ Lawful
  BY <1>6, ReceiveResponseStep
<1>7. ASSUME NEW m \in InMsg, ReceiveRequest(m) PROVE Inv' /\ Lawful
  BY <1>7, ReceiveRequestStep
<1>8. CASE \/ \E m \in OutMsg \cup InMsg : Tick(m)
           \/ Connect \/ Disconnect
           \/ \E c \in calls : ServerAnswers(c)
  BY <1>8, EnvironmentSteps
<1>9. CASE UNCHANGED vars
  <2>1. UNCHANGED <<sendVars, bootVars, txVars, attempt, expired, outcome, recvVars, netVars>>
    BY <1>9 DEF vars, msgVars
  <2>2. /\ connected' \in BOOLEAN /\ expired' \subseteq OutMsg \cup InMsg /\ calls' \subseteq calls
        /\ answers' \subseteq [msg : OutMsg, attempt : 1 .. MaxAttempts, kind : {"conf", "error"}]
    BY <2>1 DEF netVars, Inv, TypeOK
  <2>3. QED
    BY <1>9, <2>1, <2>2, EnvironmentStep
<1>10. QED
  BY <1>1, <1>2, <1>3, <1>4, <1>5, <1>6, <1>7, <1>8, <1>9 DEF Next

\* The invariant that the others follow from.
THEOREM Invariance == Spec => []Inv
<1>1. Inv /\ [Next]_vars => Inv'
  BY NextStep
<1>2. QED
  BY InitInv, <1>1, PTL DEF Spec

\* Every queue stays within its limit, every message has one outcome, and the
\* Request in flight is one of the requests of the charger.
THEOREM TypeCorrect == Spec => []TypeOK
<1>1. Inv => TypeOK
  BY DEF Inv
<1>2. QED
  BY Invariance, <1>1, PTL

\* No request handed to the engine is leaked between queue, slot and network, or
\* worked on after its listeners ran, and the server gets one response for each of
\* its requests.
THEOREM NothingLost == Spec => []Conservation
<1>1. Inv => Conservation
  <2> SUFFICES ASSUME Inv PROVE Conservation
    OBVIOUS
  <2>1. \A m \in DefaultMsg : outcome[m] = "pending" <=>
           m \in {sendReqFront} \cup Elements(defaultSendQueue)
    BY DEF Inv, Tracked
  <2>2. \A m \in PreBootMsg : outcome[m] = "pending" <=>
           m \in {sendReqFront} \cup Elements(preBootQueue)
    BY DEF Inv, Tracked
  <2>3. \A m \in InMsg : outcome[m] = "pending" <=>
           m \in {recvReqFront} \cup Elements(recvQueue)
    BY DEF Inv, Tracked
  <2>4. \A m \in TxMsg : outcome[m] = "pending" <=>
           \E e \in Emitter : m \in Elements(txQueue[e])
    BY DEF Inv, TxTracked
  <2>5. \A j, k \in 1 .. Len(responses) : responses[j] = responses[k] => j = k
    BY DEF Inv, Answered, Distinct
  <2>6. QED
    BY <2>1, <2>2, <2>3, <2>4, <2>5 DEF Conservation
<1>2. QED
  BY Invariance, <1>1, PTL

\* Nothing but requests of the PreBoot queue reaches the server before the
\* BootNotification has been accepted.
THEOREM GateHolds == Spec => PreBootGate
<1>1. Inv /\ [Next]_vars => [\A c \in calls' \ calls : c[1] \notin PreBootMsg => postBoot]_vars
  BY NextStep DEF Lawful
<1>2. QED
  BY Invariance, <1>1, PTL DEF Spec, PreBootGate

\* The transaction messages of all connectors reach the server in the order of
\* their numbers; a retried one is not overtaken.
THEOREM TransactionsInOrder == Spec => TxInOrder
<1>1. Inv /\ [Next]_vars =>
         [\A c \in calls' \ calls : c[1] \in TxMsg =>
             \A e \in Emitter : \A m \in Elements(txQueue[e]) : c[1] <= m]_vars
  BY NextStep DEF Lawful
<1>2. QED
  BY Invariance, <1>1, PTL DEF Spec, TxInOrder

\* The listeners of a request run for one reason only.
THEOREM OutcomesAreFinal == Spec => OutcomeIsFinal
<1>1. Inv /\ [Next]_vars =>
         [\A m \in OutMsg \cup InMsg :
             outcome[m] \notin {"none", "pending"} => outcome'[m] = outcome[m]]_vars
  BY NextStep DEF Lawful
<1>2. QED
  BY Invariance, <1>1, PTL DEF Spec, OutcomeIsFinal

\* A request is confirmed by the response to its own last attempt, never by a late
\* one to another.
THEOREM ConfsAreGenuine == Spec => ConfIsGenuine
<1>1. Inv /\ [Next]_vars =>
         [\A m \in OutMsg : outcome[m] = "pending" /\ outcome'[m] = "conf" =>
             \E a \in answers : a.msg = m /\ a.kind = "conf" /\ a.attempt = attempt[m]]_vars
  BY NextStep DEF Lawful
<1>2. QED
  BY Invariance, <1>1, PTL DEF Spec, ConfIsGenuine
=============================================================================
