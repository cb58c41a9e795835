---------------------------- MODULE TxPoolProofs ----------------------------
(***************************************************************************)
(* The transaction pool, for any transactions, readers, limits and bounds. *)
(*                                                                         *)
(* The invariant is the three that the runs check, with the domains and    *)
(* the finite account maps they take for granted.  The accounts stay sound *)
(* because an entry of another nonce or sender is another transaction; a   *)
(* reader's result stays pending because nothing leaves the pool while     *)
(* anyone reads.                                                           *)
(***************************************************************************)
EXTENDS TxPool, SequenceTheorems, FiniteSetTheorems, TLAPS

Calls == [limit: Limits \cup {0}, level: 1..4, txs: Seq(Items)]

\* The domains of the maps, and that an account map is finite.
Domains ==
    /\ DOMAIN all = Senders
    /\ \A s \in Senders : IsFiniteSet(DOMAIN all[s])
    /\ DOMAIN queue = Levels
    /\ reader \in [Readers -> Calls]

IInv ==
    /\ Domains
    /\ TypeOK
    /\ AccountsSound
    /\ OnlyPendingReturned

----------------------------------------------------------------------------
(* Sequences.                                                              *)

Distinct(s) == \A i, j \in DOMAIN s : s[i] = s[j] => i = j

LEMMA ElemsOf ==
    ASSUME NEW S, NEW s \in Seq(S)
    PROVE  /\ Elems(s) = {s[i] : i \in 1..Len(s)}
           /\ Elems(s) \subseteq S
  BY DEF Elems

LEMMA AppendDistinct ==
    ASSUME NEW S, NEW s \in Seq(S), NEW x \in S, Distinct(s), x \notin Elems(s)
    PROVE  /\ Append(s, x) \in Seq(S)
           /\ Len(Append(s, x)) = Len(s) + 1
           /\ Distinct(Append(s, x))
           /\ Elems(s) \subseteq Elems(Append(s, x))
           /\ x \in Elems(Append(s, x))
<1> DEFINE t == Append(s, x)
<1>1. /\ t \in Seq(S) /\ Len(t) = Len(s) + 1 /\ Len(s) \in Nat
      /\ DOMAIN s = 1..Len(s) /\ DOMAIN t = 1..(Len(s) + 1)
      /\ t[Len(s) + 1] = x
      /\ \A i \in 1..Len(s) : t[i] = s[i]
  OBVIOUS
<1>2. \A i \in 1..Len(s) : s[i] # x
  BY <1>1 DEF Elems
<1> HIDE DEF t
<1>3. Distinct(t)
  <2> SUFFICES ASSUME NEW i \in 1..(Len(s) + 1), NEW j \in 1..(Len(s) + 1), t[i] = t[j]
               PROVE  i = j
    BY <1>1 DEF Distinct
  <2>1. CASE i \in 1..Len(s) /\ j \in 1..Len(s)
    BY <1>1, <2>1 DEF Distinct
  <2>2. CASE i = Len(s) + 1 /\ j = Len(s) + 1
    BY <2>2
  <2>3. CASE i \in 1..Len(s) /\ j = Len(s) + 1
    BY <1>1, <1>2, <2>3
  <2>4. CASE i = Len(s) + 1 /\ j \in 1..Len(s)
    BY <1>1, <1>2, <2>4
  <2>5. QED
    BY <1>1, <2>1, <2>2, <2>3, <2>4
<1>4. Elems(s) \subseteq Elems(t) /\ x \in Elems(t)
  BY <1>1 DEF Elems
<1>5. QED
  BY <1>1, <1>3, <1>4 DEF t

\* The sequence t picks elements of s, each once: its element j is s[f[j]].
Picks(s, t, D, E, f) ==
    /\ Distinct(s)
    /\ DOMAIN s = D /\ DOMAIN t = E
    /\ \A j \in E : f[j] \in D /\ t[j] = s[f[j]]
    /\ \A j, k \in E : f[j] = f[k] => j = k

\* It has the elements it picked, and no other.
Picked(s, t, D, E, f) ==
    /\ Distinct(t)
    /\ Elems(t) \subseteq Elems(s)
    /\ \A k \in D : s[k] \in Elems(t) <=> \E j \in E : k = f[j]

LEMMA Reindex ==
    ASSUME NEW s, NEW t, NEW D, NEW E, NEW f, Picks(s, t, D, E, f)
    PROVE  Picked(s, t, D, E, f)
<1> USE DEF Picks, Picked
<1>1. Distinct(t)
  BY DEF Distinct
<1>2. Elems(t) \subseteq Elems(s)
  BY DEF Elems
<1>3. ASSUME NEW k \in D, s[k] \in Elems(t)
      PROVE  \E j \in E : k = f[j]
  BY <1>3 DEF Elems, Distinct
<1>4. ASSUME NEW k \in D, \E j \in E : k = f[j]
      PROVE  s[k] \in Elems(t)
  BY <1>4 DEF Elems
<1>5. QED
  BY <1>1, <1>2, <1>3, <1>4

\* A sequence of distinct elements without the one at position i.
LEMMA RemoveAt ==
    ASSUME NEW S, NEW s \in Seq(S), Distinct(s), NEW i \in 1..Len(s),
           NEW t, t = SubSeq(s, 1, i - 1) \o SubSeq(s, i + 1, Len(s))
    PROVE  /\ t \in Seq(S)
           /\ Len(t) = Len(s) - 1
           /\ Distinct(t)
           /\ Elems(t) = Elems(s) \ {s[i]}
<1>1. PICK n \in Nat : n = Len(s) /\ DOMAIN s = 1..n /\ \A j \in 1..n : s[j] \in S
  OBVIOUS
<1>2. i \in 1..n
  BY <1>1
<1>3. PICK a \in Seq(S) : /\ a = SubSeq(s, 1, i - 1) /\ Len(a) = i - 1
                         /\ \A j \in 1..(i - 1) : a[j] = s[j]
  <2>1. 1 \in Int /\ i - 1 \in Int /\ \A j \in 1..(i - 1) : s[j] \in S
    BY <1>1, <1>2
  <2>2. PICK a : a = SubSeq(s, 1, i - 1)
    OBVIOUS
  <2>3. /\ a \in Seq(S) /\ Len(a) = IF 1 <= i - 1 THEN (i - 1) - 1 + 1 ELSE 0
        /\ \A j \in 1..((i - 1) - 1 + 1) : a[j] = s[1 + j - 1]
    BY <2>1, <2>2, SubSeqProperties
  <2>4. Len(a) = i - 1 /\ \A j \in 1..(i - 1) : a[j] = s[j]
    BY <1>2, <2>3
  <2>5. QED
    BY <2>2, <2>3, <2>4
<1>4. PICK b \in Seq(S) : /\ b = SubSeq(s, i + 1, n) /\ Len(b) = n - i
                         /\ \A j \in 1..(n - i) : b[j] = s[i + j]
  <2>1. i + 1 \in Int /\ n \in Int /\ \A j \in (i + 1)..n : s[j] \in S
    BY <1>1, <1>2
  <2>2. PICK b : b = SubSeq(s, i + 1, n)
    OBVIOUS
  <2>3. /\ b \in Seq(S) /\ Len(b) = IF i + 1 <= n THEN n - (i + 1) + 1 ELSE 0
        /\ \A j \in 1..(n - (i + 1) + 1) : b[j] = s[(i + 1) + j - 1]
    BY <2>1, <2>2, SubSeqProperties
  <2>4. Len(b) = n - i
    BY <1>2, <2>3
  <2>5. ASSUME NEW j \in 1..(n - i) PROVE b[j] = s[i + j]
    <3>1. j \in 1..(n - (i + 1) + 1) /\ (i + 1) + j - 1 = i + j
      BY <1>2
    <3>2. QED
      BY <2>3, <3>1
  <2>6. QED
    BY <2>2, <2>3, <2>4, <2>5
<1>5. /\ t \in Seq(S) /\ Len(t) = n - 1
      /\ \A j \in 1..(n - 1) : t[j] = IF j <= i - 1 THEN a[j] ELSE b[j - (i - 1)]
  <2>1. /\ t \in Seq(S) /\ Len(t) = Len(a) + Len(b)
        /\ \A j \in 1..(Len(a) + Len(b)) : t[j] = IF j <= Len(a) THEN a[j] ELSE b[j - Len(a)]
    <3>1. t = a \o b
      BY <1>1, <1>3, <1>4
    <3>2. QED
      BY <3>1, ConcatProperties, Zenon
  <2>2. Len(a) + Len(b) = n - 1
    BY <1>2, <1>3, <1>4
  <2>3. QED
    BY <1>3, <2>1, <2>2
<1>6. DOMAIN t = 1..(n - 1)
  BY <1>5
<1> DEFINE f == [j \in 1..(n - 1) |-> IF j <= i - 1 THEN j ELSE j + 1]
<1>7. ASSUME NEW j \in 1..(n - 1) PROVE t[j] = s[f[j]]
  <2>1. CASE j <= i - 1
    <3>1. j \in 1..(i - 1)
      BY <1>2, <2>1
    <3>2. QED
      BY <1>3, <1>5, <2>1, <3>1
  <2>2. CASE ~(j <= i - 1)
    <3>1. j - (i - 1) \in 1..(n - i) /\ i + (j - (i - 1)) = j + 1
      BY <1>2, <2>2
    <3>2. b[j - (i - 1)] = s[j + 1]
      BY <1>4, <3>1
    <3>3. QED
      BY <1>5, <2>2, <3>2
  <2>3. QED
    BY <2>1, <2>2
<1>8. /\ f \in [1..(n - 1) -> 1..n]
      /\ \A j, k \in 1..(n - 1) : f[j] = f[k] => j = k
      /\ \A j \in 1..(n - 1) : f[j] # i
  BY <1>2
<1>9. ASSUME NEW k \in 1..n, k # i PROVE \E j \in 1..(n - 1) : k = f[j]
  <2>1. CASE k < i
    <3>1. k \in 1..(n - 1) /\ f[k] = k
      BY <1>2, <2>1
    <3>2. QED
      BY <3>1
  <2>2. CASE k > i
    <3>1. k - 1 \in 1..(n - 1) /\ f[k - 1] = k
      BY <1>2, <2>2
    <3>2. QED
      BY <3>1
  <2>3. QED
    BY <1>2, <1>9, <2>1, <2>2
<1> HIDE DEF f
<1>10. /\ Distinct(t)
       /\ Elems(t) \subseteq Elems(s)
       /\ \A k \in 1..n : s[k] \in Elems(t) <=> \E j \in 1..(n - 1) : k = f[j]
  <2>1. \A j \in 1..(n - 1) : f[j] \in 1..n /\ t[j] = s[f[j]]
    BY <1>7, <1>8
  <2>2. \A j, k \in 1..(n - 1) : f[j] = f[k] => j = k
    BY <1>8
  <2>3. DOMAIN s = 1..n /\ DOMAIN t = 1..(n - 1)
    BY <1>1, <1>6
  <2>4. Picks(s, t, 1..n, 1..(n - 1), f)
    BY <2>1, <2>2, <2>3 DEF Picks
  <2>5. Picked(s, t, 1..n, 1..(n - 1), f)
    BY <2>4, Reindex
  <2>6. QED
    BY <2>5 DEF Picked
<1>11. Elems(t) = Elems(s) \ {s[i]}
  <2>1. s[i] \notin Elems(t)
    BY <1>2, <1>8, <1>10, Zenon
  <2>2. ASSUME NEW k \in 1..n, s[k] # s[i] PROVE s[k] \in Elems(t)
    BY <1>9, <1>10, <2>2, Zenon
  <2>3. Elems(s) = {s[k] : k \in 1..n}
    BY <1>1 DEF Elems
  <2>4. QED
    BY <1>10, <2>1, <2>2, <2>3
<1>12. QED
  BY <1>1, <1>5, <1>10, <1>11

\* The first m elements of a sequence, and the others.
Cut(s, m, d, t) == d = SubSeq(s, 1, m) /\ t = SubSeq(s, m + 1, Len(s))

\* A sequence of distinct elements without its first m.
LEMMA DropFirst ==
    ASSUME NEW S, NEW s \in Seq(S), Distinct(s), NEW m \in 0..Len(s),
           NEW d, NEW t, Cut(s, m, d, t)
    PROVE  /\ t \in Seq(S)
           /\ Len(t) = Len(s) - m
           /\ Distinct(t)
           /\ Len(d) = m
           /\ Elems(t) = Elems(s) \ Elems(d)
<1>1. PICK n \in Nat : n = Len(s) /\ DOMAIN s = 1..n /\ \A j \in 1..n : s[j] \in S
  OBVIOUS
<1>2. m \in 0..n
  BY <1>1
<1>3. /\ t \in Seq(S) /\ Len(t) = n - m /\ DOMAIN t = 1..(n - m)
      /\ \A j \in 1..(n - m) : t[j] = s[m + j]
  <2>1. m + 1 \in Int /\ n \in Int /\ \A j \in (m + 1)..n : s[j] \in S
    BY <1>1, <1>2
  <2>2. /\ t \in Seq(S) /\ Len(t) = IF m + 1 <= n THEN n - (m + 1) + 1 ELSE 0
        /\ \A j \in 1..(n - (m + 1) + 1) : t[j] = s[(m + 1) + j - 1]
    <3>1. t = SubSeq(s, m + 1, n)
      BY <1>1 DEF Cut
    <3>2. QED
      BY <1>1, <2>1, <3>1, SubSeqProperties
  <2>3. Len(t) = n - m
    BY <1>2, <2>2
  <2>4. DOMAIN t = 1..(n - m)
    BY <2>2, <2>3
  <2>5. ASSUME NEW j \in 1..(n - m) PROVE t[j] = s[m + j]
    <3>1. j \in 1..(n - (m + 1) + 1) /\ (m + 1) + j - 1 = m + j
      BY <1>2
    <3>2. QED
      BY <2>2, <3>1
  <2>6. QED
    BY <2>2, <2>3, <2>4, <2>5
<1>4. /\ d \in Seq(S) /\ Len(d) = m /\ DOMAIN d = 1..m
      /\ \A j \in 1..m : d[j] = s[j]
  <2>1. 1 \in Int /\ m \in Int /\ \A j \in 1..m : s[j] \in S
    BY <1>1, <1>2
  <2>2. /\ d \in Seq(S) /\ Len(d) = IF 1 <= m THEN m - 1 + 1 ELSE 0
        /\ \A j \in 1..(m - 1 + 1) : d[j] = s[1 + j - 1]
    <3>1. d = SubSeq(s, 1, m)
      BY DEF Cut
    <3>2. QED
      BY <2>1, <3>1, SubSeqProperties
  <2>3. Len(d) = m
    BY <1>2, <2>2
  <2>4. DOMAIN d = 1..m
    BY <2>2, <2>3
  <2>5. ASSUME NEW j \in 1..m PROVE d[j] = s[j]
    <3>1. j \in 1..(m - 1 + 1) /\ 1 + j - 1 = j
      BY <1>2
    <3>2. QED
      BY <2>2, <3>1
  <2>6. QED
    BY <2>2, <2>3, <2>4, <2>5
<1> DEFINE f == [j \in 1..(n - m) |-> m + j]
<1>5. /\ f \in [1..(n - m) -> 1..n]
      /\ \A j, k \in 1..(n - m) : f[j] = f[k] => j = k
      /\ \A j \in 1..(n - m) : t[j] = s[f[j]]
      /\ \A j \in 1..(n - m) : f[j] \notin 1..m
  BY <1>2, <1>3
<1>6. ASSUME NEW k \in 1..n, k \notin 1..m PROVE \E j \in 1..(n - m) : k = f[j]
  <2>1. k - m \in 1..(n - m) /\ f[k - m] = k
    BY <1>2, <1>6
  <2>2. QED
    BY <2>1
<1> HIDE DEF f
<1>7. /\ Distinct(t)
      /\ Elems(t) \subseteq Elems(s)
      /\ \A k \in 1..n : s[k] \in Elems(t) <=> \E j \in 1..(n - m) : k = f[j]
  <2>1. \A j \in 1..(n - m) : f[j] \in 1..n /\ t[j] = s[f[j]]
    BY <1>5
  <2>2. \A j, k \in 1..(n - m) : f[j] = f[k] => j = k
    BY <1>5
  <2>3. DOMAIN s = 1..n /\ DOMAIN t = 1..(n - m)
    BY <1>1, <1>3
  <2>4. Picks(s, t, 1..n, 1..(n - m), f)
    BY <2>1, <2>2, <2>3 DEF Picks
  <2>5. Picked(s, t, 1..n, 1..(n - m), f)
    BY <2>4, Reindex
  <2>6. QED
    BY <2>5 DEF Picked
<1>8. Elems(t) = Elems(s) \ Elems(d)
  <2>1. \A k \in 1..m : k \in 1..n
    BY <1>2
  <2>2. ASSUME NEW k \in 1..m PROVE s[k] \notin Elems(t)
    BY <1>5, <1>7, <2>1, <2>2
  <2>3. ASSUME NEW k \in 1..n, k \notin 1..m PROVE s[k] \in Elems(t)
    BY <1>6, <1>7, <2>3, Zenon
  <2>4. Elems(s) = {s[k] : k \in 1..n} /\ Elems(d) = {s[k] : k \in 1..m}
    BY <1>1, <1>4 DEF Elems
  <2>5. QED
    BY <1>7, <2>1, <2>2, <2>3, <2>4
<1>9. QED
  BY <1>1, <1>3, <1>4, <1>7, <1>8

----------------------------------------------------------------------------
(* The queues.                                                             *)

LEMMA PushType ==
    ASSUME NEW q \in Seq(Items), NEW item \in Items
    PROVE  Push(q, item) \in Seq(Items)
<1> DEFINE above == {i \in DOMAIN q : q[i].priority >= item.priority}
           k == Cardinality(above)
<1>1. PICK n \in Nat : n = Len(q) /\ DOMAIN q = 1..n /\ \A i \in 1..n : q[i] \in Items
  OBVIOUS
<1>2. IsFiniteSet(1..n) /\ Cardinality(1..n) = n
  <2>1. 1 \in Int /\ n \in Int
    OBVIOUS
  <2>2. IsFiniteSet(1..n) /\ Cardinality(1..n) = IF 1 > n THEN 0 ELSE n - 1 + 1
    BY <2>1, FS_Interval
  <2>3. QED
    BY <2>2
<1>3. k \in Nat /\ k <= n
  <2>1. above \subseteq 1..n
    BY <1>1
  <2> HIDE DEF above
  <2>2. IsFiniteSet(above) /\ Cardinality(above) <= n
    BY <1>2, <2>1, FS_Subset
  <2>3. QED
    BY <2>2, FS_CardinalityType
<1>4. Push(q, item) = SubSeq(q, 1, k) \o <<item>> \o SubSeq(q, k + 1, n)
  BY <1>1 DEF Push
<1> HIDE DEF k
<1>5. SubSeq(q, 1, k) \in Seq(Items)
  BY <1>1, <1>3, SubSeqProperties
<1>6. SubSeq(q, k + 1, n) \in Seq(Items)
  BY <1>1, <1>3, SubSeqProperties
<1>7. <<item>> \in Seq(Items)
  OBVIOUS
<1>8. SubSeq(q, 1, k) \o <<item>> \in Seq(Items)
  BY <1>5, <1>7, ConcatProperties
<1>9. QED
  BY <1>4, <1>6, <1>8, ConcatProperties

LEMMA CollectType ==
    ASSUME NEW txs \in Seq(Items), NEW item \in Items,
           \A i \in DOMAIN txs : txs[i].tx \in Elems(pending)
    PROVE  /\ Collect(txs, item) \in Seq(Items)
           /\ \A i \in DOMAIN Collect(txs, item) : Collect(txs, item)[i].tx \in Elems(pending)
<1>1. CASE item.tx \in Elems(pending)
  <2>1. PICK t : t = Append(txs, item)
    OBVIOUS
  <2>2. PICK n \in Nat : n = Len(txs) /\ DOMAIN txs = 1..n
    OBVIOUS
  <2>3. /\ t \in Seq(Items) /\ DOMAIN t = 1..(n + 1) /\ t[n + 1] = item
        /\ \A i \in 1..n : t[i] = txs[i]
    BY <2>1, <2>2
  <2>4. ASSUME NEW i \in 1..(n + 1) PROVE t[i].tx \in Elems(pending)
    <3>1. CASE i = n + 1
      BY <1>1, <2>3, <3>1
    <3>2. CASE i \in 1..n
      BY <2>2, <2>3, <3>2
    <3>3. QED
      BY <3>1, <3>2
  <2>5. QED
    BY <1>1, <2>1, <2>3, <2>4 DEF Collect
<1>2. CASE item.tx \notin Elems(pending)
  BY <1>2 DEF Collect
<1>3. QED
  BY <1>1, <1>2

----------------------------------------------------------------------------
LEMMA InitIInv == Init => IInv
<1> SUFFICES ASSUME Init PROVE IInv
  OBVIOUS
<1> USE DEF Init
<1>1. Idle \in Calls
  BY DEF Idle, Calls
<1>2. Domains
  BY <1>1, FS_EmptySet DEF Domains, EmptyMap
<1>3. TypeOK
  <2>1. \A r \in Readers : /\ reader[r].limit \in Limits \cup {0}
                           /\ reader[r].level \in 1..4
                           /\ reader[r].txs \in Seq(Items)
    <3>1. \A r \in Readers : reader[r] \in Calls
      BY <1>1
    <3>2. QED
      BY <3>1 DEF Calls
  <2>2. \A x \in Senders : DOMAIN all[x] = {}
    BY DEF EmptyMap
  <2>3. pending \in Seq(Txs) /\ DOMAIN pending = {} /\ aged \in 0..Len(pending)
    OBVIOUS
  <2>4. \A l \in Levels : queue[l] \in Seq(Items)
    OBVIOUS
  <2>5. QED
    BY <2>1, <2>2, <2>3, <2>4 DEF TypeOK
<1>4. AccountsSound
  <2>1. \A x \in Senders : DOMAIN all[x] = {}
    BY DEF EmptyMap
  <2>2. Cardinality({}) = 0
    BY FS_EmptySet
  <2>3. QED
    BY <2>1, <2>2, TxPoolAssumption DEF AccountsSound
<1>5. OnlyPendingReturned
  BY DEF OnlyPendingReturned, Idle
<1>6. QED
  BY <1>2, <1>3, <1>4, <1>5 DEF IInv

\* TypeOK without the maps and the sequences: what the steps below reuse.
LEMMA Parts ==
    ASSUME IInv
    PROVE  /\ pending \in Seq(Txs) /\ Distinct(pending) /\ aged \in 0..Len(pending)
           /\ \A l \in Levels : queue[l] \in Seq(Items)
           /\ DOMAIN all = Senders /\ DOMAIN queue = Levels /\ reader \in [Readers -> Calls]
  BY DEF IInv, Domains, TypeOK, Distinct

----------------------------------------------------------------------------
(* The readers.                                                            *)

\* A step of GetPending changes the call and the queues only.
LEMMA ReaderStep ==
    ASSUME IInv, NEW r \in Readers, NEW c \in Calls,
           \A i \in DOMAIN c.txs : c.txs[i].tx \in Elems(pending),
           reader' = [reader EXCEPT ![r] = c],
           DOMAIN queue' = Levels, \A l \in Levels : queue'[l] \in Seq(Items),
           UNCHANGED <<pending, aged, all, cleaning>>
    PROVE  IInv'
<1>1. reader' \in [Readers -> Calls]
  BY Parts
<1>2. Domains'
  BY <1>1 DEF IInv, Domains
<1>3. TypeOK'
  <2>1. \A p \in Readers : /\ reader'[p].limit \in Limits \cup {0}
                           /\ reader'[p].level \in 1..4
                           /\ reader'[p].txs \in Seq(Items)
    BY <1>1 DEF Calls
  <2>2. QED
    BY <2>1 DEF IInv, TypeOK
<1>4. AccountsSound'
  BY DEF IInv, AccountsSound, Elems
<1>5. OnlyPendingReturned'
  <2>1. reader'[r] = c /\ \A p \in Readers : p # r => reader'[p] = reader[p]
    BY Parts
  <2>2. QED
    BY <2>1 DEF IInv, OnlyPendingReturned, Elems
<1>6. QED
  BY <1>2, <1>3, <1>4, <1>5 DEF IInv

LEMMA IdleCall == Idle \in Calls /\ DOMAIN Idle.txs = {}
  BY DEF Idle, Calls

LEMMA GetPendingStep ==
    ASSUME IInv, NEW r \in Readers, NEW limit \in Limits, GetPending(r, limit)
    PROVE  IInv'
<1> DEFINE c == [limit |-> limit, level |-> 1, txs |-> <<>>]
<1>1. c \in Calls /\ DOMAIN c.txs = {}
  BY DEF Calls
<1>2. reader' = [reader EXCEPT ![r] = c] /\ UNCHANGED <<pending, aged, all, queue, cleaning>>
  BY DEF GetPending
<1> HIDE DEF c
<1>3. QED
  BY <1>1, <1>2, Parts, ReaderStep

\* What a pop, racing or not, leaves of the call and of the queue.
LEMMA PopOutcome ==
    ASSUME IInv, NEW r \in Readers, NEW l \in Levels, NEW item \in Items,
           NEW left \in Seq(Items),
           reader' = [reader EXCEPT ![r].txs = Collect(@, item)],
           queue' = [queue EXCEPT ![l] = left],
           UNCHANGED <<pending, aged, all, cleaning>>
    PROVE  IInv'
<1> DEFINE txs == Collect(reader[r].txs, item)
           c == [reader[r] EXCEPT !.txs = txs]
<1>1. reader[r] \in Calls
  BY Parts
<1>2. reader[r].txs \in Seq(Items)
      /\ \A i \in DOMAIN reader[r].txs : reader[r].txs[i].tx \in Elems(pending)
  BY <1>1 DEF Calls, IInv, OnlyPendingReturned
<1>3. txs \in Seq(Items) /\ \A i \in DOMAIN txs : txs[i].tx \in Elems(pending)
  BY <1>2, CollectType
<1>4. reader' = [reader EXCEPT ![r] = c]
  BY Parts
<1> HIDE DEF txs
<1>5. c \in Calls /\ c.txs = txs
  BY <1>1, <1>3 DEF Calls
<1> HIDE DEF c
<1>6. DOMAIN queue' = Levels /\ \A k \in Levels : queue'[k] \in Seq(Items)
  BY Parts
<1>7. QED
  BY <1>3, <1>4, <1>5, <1>6, ReaderStep

LEMMA PopStep ==
    ASSUME IInv, NEW r \in Readers, Pop(r) \/ RacingPop(r)
    PROVE  IInv'
<1> DEFINE l == reader[r].level
<1>1. l \in Levels /\ queue[l] # <<>>
  BY DEF Pop, RacingPop
<1>2. queue[l] \in Seq(Items)
  BY <1>1, Parts
<1>3. Head(queue[l]) \in Items /\ Tail(queue[l]) \in Seq(Items)
  BY <1>1, <1>2
<1>4. \A i \in DOMAIN queue[l] : queue[l][i] \in Items
  BY <1>2
<1>5. <<>> \in Seq(Items)
  OBVIOUS
<1>6. CASE Pop(r)
  BY <1>1, <1>3, <1>6, PopOutcome DEF Pop
<1>7. CASE RacingPop(r)
  <2>1. PICK i \in DOMAIN queue[l], left \in {queue[l], Tail(queue[l]), <<>>} :
          /\ reader' = [reader EXCEPT ![r].txs = Collect(@, queue[l][i])]
          /\ queue' = [queue EXCEPT ![l] = left]
    BY <1>7 DEF RacingPop
  <2>2. left \in Seq(Items) /\ queue[l][i] \in Items
    BY <1>2, <1>3, <1>4, <1>5
  <2>3. QED
    BY <1>1, <1>7, <2>1, <2>2, PopOutcome DEF RacingPop
<1>8. QED
  BY <1>6, <1>7

LEMMA EndStep ==
    ASSUME IInv, NEW r \in Readers, PopPanics(r) \/ Return(r)
    PROVE  IInv'
  BY IdleCall, Parts, ReaderStep DEF PopPanics, Return

LEMMA NextQueueStep ==
    ASSUME IInv, NEW r \in Readers, NextQueue(r)
    PROVE  IInv'
<1> DEFINE c == [reader[r] EXCEPT !.level = reader[r].level + 1]
<1>1. reader[r] \in Calls /\ reader[r].level \in 1..3
  BY Parts DEF NextQueue, Levels
<1>2. c \in Calls /\ c.txs = reader[r].txs
  BY <1>1 DEF Calls
<1>3. reader' = [reader EXCEPT ![r] = c] /\ UNCHANGED <<pending, aged, all, queue, cleaning>>
  BY Parts DEF NextQueue
<1>4. \A i \in DOMAIN reader[r].txs : reader[r].txs[i].tx \in Elems(pending)
  BY DEF IInv, OnlyPendingReturned
<1> HIDE DEF c
<1>5. QED
  BY <1>2, <1>3, <1>4, Parts, ReaderStep

----------------------------------------------------------------------------
(* The writers: nobody reads.                                              *)

LEMMA NobodyReads ==
    ASSUME IInv, Reading = {}, UNCHANGED reader
    PROVE  OnlyPendingReturned'
<1>1. \A r \in Readers : reader[r] = Idle
  BY DEF Reading
<1>2. QED
  BY <1>1, IdleCall DEF OnlyPendingReturned

\* A step of a writer, from what it does to the pool and to the accounts.
LEMMA WriterStep ==
    ASSUME IInv, Reading = {}, UNCHANGED reader,
           pending' \in Seq(Txs), Distinct(pending)', aged' \in 0..Len(pending'),
           DOMAIN all' = Senders,
           \A s \in Senders : /\ IsFiniteSet(DOMAIN all'[s])
                             /\ DOMAIN all'[s] \subseteq Nonces
                             /\ Cardinality(DOMAIN all'[s]) <= MaxTxPerAccount
                             /\ \A k \in DOMAIN all'[s] :
                                  /\ all'[s][k] \in Elems(pending')
                                  /\ all'[s][k].from = s
                                  /\ all'[s][k].nonce = k,
           DOMAIN queue' = Levels, \A l \in Levels : queue'[l] \in Seq(Items),
           cleaning' \in BOOLEAN
    PROVE  IInv'
<1>1. Domains'
  BY DEF IInv, Domains
<1>2. TypeOK'
  <2>1. \A r \in Readers : reader'[r] \in Calls
    BY Parts
  <2>2. \A r \in Readers : /\ reader'[r].limit \in Limits \cup {0}
                           /\ reader'[r].level \in 1..4
                           /\ reader'[r].txs \in Seq(Items)
    BY <2>1 DEF Calls
  <2>3. \A s \in Senders : \A k \in DOMAIN all'[s] : all'[s][k] \in Txs
    BY ElemsOf
  <2>4. QED
    BY <2>2, <2>3 DEF TypeOK, Distinct
<1>3. AccountsSound'
  BY DEF AccountsSound, Elems
<1>4. OnlyPendingReturned'
  BY NobodyReads
<1>5. QED
  BY <1>1, <1>2, <1>3, <1>4 DEF IInv

LEMMA LevelType == \A priority \in Int : Level(priority) \in Levels
  BY DEF Level, Levels

\* The account has room for one entry more.
LEMMA AddTxStep ==
    ASSUME IInv, NEW tx \in Txs, NEW priority \in Priorities, AddTx(tx, priority)
    PROVE  IInv'
<1> USE DEF AddTx
<1>1. /\ pending' \in Seq(Txs) /\ Len(pending') = Len(pending) + 1 /\ Distinct(pending')
      /\ Elems(pending) \subseteq Elems(pending') /\ tx \in Elems(pending')
  BY Parts, AppendDistinct
<1>2. aged' \in 0..Len(pending')
  BY <1>1, Parts
<1>3. tx.from \in Senders /\ tx.nonce \in Nonces
  BY DEF Senders, Nonces
<1>4. /\ DOMAIN all' = Senders
      /\ all'[tx.from] = Put(all[tx.from], tx.nonce, tx)
      /\ \A s \in Senders : s # tx.from => all'[s] = all[s]
  BY <1>3, Parts
<1>5. ASSUME NEW s \in Senders
      PROVE  /\ IsFiniteSet(DOMAIN all'[s])
             /\ DOMAIN all'[s] \subseteq Nonces
             /\ Cardinality(DOMAIN all'[s]) <= MaxTxPerAccount
             /\ \A k \in DOMAIN all'[s] : /\ all'[s][k] \in Elems(pending')
                                          /\ all'[s][k].from = s
                                          /\ all'[s][k].nonce = k
  <2>1. /\ IsFiniteSet(DOMAIN all[s])
        /\ DOMAIN all[s] \subseteq Nonces
        /\ Cardinality(DOMAIN all[s]) <= MaxTxPerAccount
        /\ \A k \in DOMAIN all[s] : /\ all[s][k] \in Elems(pending)
                                    /\ all[s][k].from = s
                                    /\ all[s][k].nonce = k
    BY DEF IInv, Domains, TypeOK, AccountsSound
  <2>2. CASE s # tx.from
    BY <1>1, <1>4, <2>1, <2>2
  <2>3. CASE s = tx.from
    <3>1. /\ DOMAIN all'[s] = DOMAIN all[s] \cup {tx.nonce}
          /\ all'[s][tx.nonce] = tx
          /\ \A k \in DOMAIN all[s] : k # tx.nonce => all'[s][k] = all[s][k]
      BY <1>4, <2>3 DEF Put
    <3>2. Cardinality(DOMAIN all[s]) < MaxTxPerAccount
      BY <2>3 DEF ValidateTx
    <3>3. IsFiniteSet(DOMAIN all'[s]) /\ Cardinality(DOMAIN all'[s]) <= MaxTxPerAccount
      <4>1. IsFiniteSet(DOMAIN all[s] \cup {tx.nonce})
            /\ \/ Cardinality(DOMAIN all[s] \cup {tx.nonce}) = Cardinality(DOMAIN all[s])
               \/ Cardinality(DOMAIN all[s] \cup {tx.nonce}) = Cardinality(DOMAIN all[s]) + 1
        BY <2>1, FS_AddElement
      <4>2. Cardinality(DOMAIN all[s]) \in Nat
        BY <2>1, FS_CardinalityType
      <4>3. PICK c \in Nat : c = Cardinality(DOMAIN all[s])
        BY <4>2
      <4>4. c < MaxTxPerAccount /\ Cardinality(DOMAIN all'[s]) \in {c, c + 1}
        BY <3>1, <3>2, <4>1, <4>3
      <4>5. MaxTxPerAccount \in Nat
        BY TxPoolAssumption
      <4>6. Cardinality(DOMAIN all'[s]) <= MaxTxPerAccount
        BY <4>3, <4>4, <4>5
      <4>7. QED
        BY <3>1, <4>1, <4>6
    <3>4. QED
      BY <1>1, <1>3, <2>1, <2>3, <3>1, <3>3
  <2>4. QED
    BY <2>2, <2>3
<1>6. DOMAIN queue' = Levels /\ \A l \in Levels : queue'[l] \in Seq(Items)
  <2>1. priority \in Int /\ Level(priority) \in Levels
    BY LevelType, TxPoolAssumption
  <2>2. [tx |-> tx, priority |-> priority] \in Items
    BY DEF Items
  <2>3. Push(queue[Level(priority)], [tx |-> tx, priority |-> priority]) \in Seq(Items)
    BY <2>1, <2>2, Parts, PushType
  <2>4. QED
    BY <2>1, <2>3, Parts
<1>7. cleaning' \in BOOLEAN
  BY DEF IInv, TypeOK
<1>8. QED
  BY <1>1, <1>2, <1>4, <1>5, <1>6, <1>7, WriterStep

\* What Forget leaves of the accounts is what the pool keeps.
LEMMA ForgetStep ==
    ASSUME IInv, NEW gone \in SUBSET Txs, all' = Forget(all, gone),
           Elems(pending') = Elems(pending) \ gone
    PROVE  /\ DOMAIN all' = Senders
           /\ \A s \in Senders :
                /\ IsFiniteSet(DOMAIN all'[s])
                /\ DOMAIN all'[s] \subseteq Nonces
                /\ Cardinality(DOMAIN all'[s]) <= MaxTxPerAccount
                /\ \A k \in DOMAIN all'[s] : /\ all'[s][k] \in Elems(pending')
                                             /\ all'[s][k].from = s
                                             /\ all'[s][k].nonce = k
<1>1. DOMAIN all' = Senders
  BY DEF Forget
<1>2. ASSUME NEW s \in Senders
      PROVE  /\ IsFiniteSet(DOMAIN all'[s])
             /\ DOMAIN all'[s] \subseteq Nonces
             /\ Cardinality(DOMAIN all'[s]) <= MaxTxPerAccount
             /\ \A k \in DOMAIN all'[s] : /\ all'[s][k] \in Elems(pending')
                                          /\ all'[s][k].from = s
                                          /\ all'[s][k].nonce = k
  <2>1. /\ IsFiniteSet(DOMAIN all[s])
        /\ DOMAIN all[s] \subseteq Nonces
        /\ Cardinality(DOMAIN all[s]) <= MaxTxPerAccount
        /\ \A k \in DOMAIN all[s] : /\ all[s][k] \in Elems(pending)
                                    /\ all[s][k].from = s
                                    /\ all[s][k].nonce = k
    BY DEF IInv, Domains, TypeOK, AccountsSound
  <2>2. /\ DOMAIN all'[s] = DOMAIN all[s] \ {tx.nonce : tx \in {t \in gone : t.from = s}}
        /\ \A k \in DOMAIN all'[s] : all'[s][k] = all[s][k]
    BY DEF Forget
  <2>3. IsFiniteSet(DOMAIN all'[s]) /\ Cardinality(DOMAIN all'[s]) <= MaxTxPerAccount
    <3>1. DOMAIN all'[s] \subseteq DOMAIN all[s]
      BY <2>2
    <3>2. IsFiniteSet(DOMAIN all'[s])
          /\ Cardinality(DOMAIN all'[s]) <= Cardinality(DOMAIN all[s])
      BY <2>1, <3>1, FS_Subset
    <3>3. Cardinality(DOMAIN all'[s]) \in Nat /\ Cardinality(DOMAIN all[s]) \in Nat
      BY <2>1, <3>2, FS_CardinalityType
    <3>4. QED
      BY <2>1, <3>2, <3>3, TxPoolAssumption
  <2>4. ASSUME NEW k \in DOMAIN all'[s]
        PROVE  all'[s][k] \in Elems(pending')
    <3>1. k \in DOMAIN all[s] /\ all[s][k] \notin gone
      BY <2>1, <2>2, <2>4
    <3>2. QED
      BY <2>1, <2>2, <3>1
  <2>5. QED
    BY <2>1, <2>2, <2>3, <2>4
<1>3. QED
  BY <1>1, <1>2

LEMMA RemoveTxStep ==
    ASSUME IInv, NEW tx \in Txs, RemoveTx(tx)
    PROVE  IInv'
<1> DEFINE i == CHOOSE i \in DOMAIN pending : pending[i] = tx
<1>1. /\ Reading = {} /\ tx \in Elems(pending)
      /\ pending' = SubSeq(pending, 1, i - 1) \o SubSeq(pending, i + 1, Len(pending))
      /\ aged' = IF i <= aged THEN aged - 1 ELSE aged
      /\ all' = Forget(all, {tx})
      /\ UNCHANGED <<queue, reader, cleaning>>
  BY DEF RemoveTx
<1>2. i \in DOMAIN pending /\ pending[i] = tx
  BY <1>1 DEF Elems
<1> HIDE DEF i
<1>3. i \in 1..Len(pending)
  BY <1>2, Parts
<1>4. /\ pending' \in Seq(Txs) /\ Len(pending') = Len(pending) - 1 /\ Distinct(pending')
      /\ Elems(pending') = Elems(pending) \ {tx}
  BY <1>1, <1>2, <1>3, Parts, RemoveAt
<1>5. aged' \in 0..Len(pending')
  <2>1. PICK n \in Nat : n = Len(pending) /\ aged \in 0..n /\ i \in 1..n
    BY <1>3, Parts
  <2>2. Len(pending') = n - 1
    BY <1>4, <2>1
  <2>3. aged' = IF i <= aged THEN aged - 1 ELSE aged
    BY <1>1
  <2>4. aged' \in 0..(n - 1)
    BY <2>1, <2>3
  <2>5. QED
    BY <2>2, <2>4
<1>6. cleaning' \in BOOLEAN
  BY <1>1 DEF IInv, TypeOK
<1>7. QED
  BY <1>1, <1>4, <1>5, <1>6, Parts, ForgetStep, WriterStep

LEMMA CleanupExpiredStep ==
    ASSUME IInv, CleanupExpired
    PROVE  IInv'
<1> USE DEF CleanupExpired
<1>1. /\ pending' \in Seq(Txs) /\ Len(pending') = Len(pending) - aged /\ Distinct(pending')
      /\ Len(Expired) = aged
      /\ Elems(pending') = Elems(pending) \ Elems(Expired)
      /\ Elems(Expired) \subseteq Txs
  <2>1. PICK d : d = Expired
    OBVIOUS
  <2>2. Len(d) = aged
    <3>1. Cut(pending, aged, d, SubSeq(pending, aged + 1, Len(pending)))
      BY <2>1 DEF Cut, Expired
    <3>2. QED
      BY <3>1, Parts, DropFirst
  <2>3. pending' = SubSeq(pending, aged + 1, Len(pending))
    BY <2>1, <2>2
  <2>4. d = SubSeq(pending, 1, aged)
    BY <2>1 DEF Expired
  <2>5. /\ pending' \in Seq(Txs) /\ Len(pending') = Len(pending) - aged
        /\ Distinct(pending') /\ Elems(pending') = Elems(pending) \ Elems(d)
    <3>1. PICK t : t = pending'
      OBVIOUS
    <3>2. PICK m \in 0..Len(pending) : m = aged
      BY Parts
    <3>3. pending \in Seq(Txs) /\ Distinct(pending)
      BY Parts
    <3>4. Cut(pending, m, d, t)
      BY <2>3, <2>4, <3>1, <3>2 DEF Cut
    <3>5. /\ t \in Seq(Txs) /\ Len(t) = Len(pending) - m
          /\ Distinct(t) /\ Elems(t) = Elems(pending) \ Elems(d)
      BY <3>2, <3>3, <3>4, DropFirst
    <3>6. QED
      BY <3>1, <3>2, <3>5
  <2>6. Elems(d) \subseteq Txs
    <3>1. d \in Seq(Txs)
      BY <2>4, Parts, SubSeqProperties
    <3>2. QED
      BY <3>1, ElemsOf
  <2>7. QED
    BY <2>1, <2>2, <2>5, <2>6
<1>2. aged' \in 0..Len(pending')
  BY <1>1, Parts
<1>3. QED
  BY <1>1, <1>2, Parts, ForgetStep, WriterStep

LEMMA ClockStep ==
    ASSUME IInv, TimePasses \/ CleanupTick
    PROVE  IInv'
<1>1. aged' \in 0..Len(pending) /\ cleaning' \in BOOLEAN
  <2>1. PICK n \in Nat : n = Len(pending) /\ aged \in 0..n
    BY Parts
  <2>2. cleaning \in BOOLEAN
    BY DEF IInv, TypeOK
  <2>3. CASE TimePasses
    BY <2>1, <2>2, <2>3 DEF TimePasses
  <2>4. CASE CleanupTick
    <3>1. aged' \in 0..Len(pending)
      BY <2>4, Parts DEF CleanupTick
    <3>2. QED
      BY <2>4, <3>1 DEF CleanupTick
  <2>5. QED
    BY <2>3, <2>4
<1>2. UNCHANGED <<pending, all, queue, reader>>
  BY DEF TimePasses, CleanupTick
<1>3. QED
  BY <1>1, <1>2 DEF IInv, Domains, TypeOK, AccountsSound, OnlyPendingReturned, Elems

----------------------------------------------------------------------------
LEMMA NextIInv == IInv /\ [Next]_vars => IInv'
<1> SUFFICES ASSUME IInv, [Next]_vars PROVE IInv'
  OBVIOUS
<1>1. CASE UNCHANGED vars
  BY <1>1 DEF vars, IInv, Domains, TypeOK, AccountsSound, OnlyPendingReturned, Elems
<1>2. CASE Next
  BY <1>2, AddTxStep, RemoveTxStep, ClockStep, CleanupExpiredStep, GetPendingStep,
     PopStep, EndStep, NextQueueStep
  DEF Next
<1>3. QED
  BY <1>1, <1>2

LEMMA AlwaysIInv == Spec => []IInv
<1>1. Init => IInv
  BY InitIInv
<1>2. IInv /\ [Next]_vars => IInv'
  BY NextIInv
<1>3. QED
  BY <1>1, <1>2, PTL DEF Spec

\* Every variable has its type and no transaction is pending twice, through
\* additions, removals, expiry and the races of the readers.
\* (txpool/pool.go AddTx, RemoveTx, cleanupExpired, GetPending)
THEOREM TypeCorrect == Spec => []TypeOK
<1>1. IInv => TypeOK
  BY DEF IInv
<1>2. QED
  BY <1>1, AlwaysIInv, PTL

\* What the map of a sender holds is pending under its sender and nonce, and
\* no sender has more than MaxTxPerAccount entries.
\* (txpool/pool.go AddTx, RemoveTx, cleanupExpired)
THEOREM AccountsCorrect == Spec => []AccountsSound
<1>1. IInv => AccountsSound
  BY DEF IInv
<1>2. QED
  BY <1>1, AlwaysIInv, PTL

\* A GetPending call holds only pending transactions until it returns, however
\* its pops race with those of other readers.  (txpool/pool.go GetPending)
THEOREM ReturnedCorrect == Spec => []OnlyPendingReturned
<1>1. IInv => OnlyPendingReturned
  BY DEF IInv
<1>2. QED
  BY <1>1, AlwaysIInv, PTL
=============================================================================
