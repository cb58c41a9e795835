-------------------------- MODULE HeaderSyncProofs --------------------------
(***************************************************************************)
(* What the light client keeps in memory, for every set of headers and     *)
(* every MaxHeadersInMemory, by itself and under synchronisation.          *)
(*                                                                         *)
(* None of the invariants is inductive alone.  The one that is describes   *)
(* the heights in memory exactly: none, genesis only, or genesis and an    *)
(* interval that ends in the newest height, where the interval starts      *)
(* above 1 only if memory is full.  Fullness is what makes a late header   *)
(* at height 1 the first to be evicted again.                              *)
(*                                                                         *)
(* Header synchronisation implements the light client, so what is proved   *)
(* of the light client holds while batches are added and other callers     *)
(* interfere.  The only invariant needed is that a batch holds headers.    *)
(***************************************************************************)
EXTENDS HeaderSync, FiniteSetTheorems, SequenceTheorems, TLAPS

M == MaxHeadersInMemory

\* The heights D that are in memory when L is the newest.
Shape(D, L) ==
    \/ D = {} /\ L = 0
    \/ D = {0} /\ L = 0
    \/ \E lo \in 1..L : /\ D = {0} \cup (lo..L)
                        /\ lo = 1 \/ L - lo + 2 >= M
                        /\ lo = L \/ L - lo + 2 <= M

Linked ==
    \A h \in DOMAIN headers :
        h - 1 \in DOMAIN headers => headers[h].prev = headers[h - 1].hash

LatestHashKept ==
    latestHeight > 0 => latestHash = headers[latestHeight].hash

IInv ==
    /\ TypeOK
    /\ Shape(DOMAIN headers, latestHeight)
    /\ Linked
    /\ LatestHashKept
    /\ IndexMatchesMemory

----------------------------------------------------------------------------
\* How many heights genesis and an interval above it are.
LEMMA IntervalCardinality ==
    ASSUME NEW lo \in Nat, NEW L \in Nat, 1 <= lo, lo <= L
    PROVE  /\ IsFiniteSet({0} \cup (lo..L))
           /\ Cardinality({0} \cup (lo..L)) = L - lo + 2
<1>1. IsFiniteSet(lo..L) /\ Cardinality(lo..L) = L - lo + 1
  BY FS_Interval
<1>2. 0 \notin lo..L
  OBVIOUS
<1>3. /\ IsFiniteSet((lo..L) \cup {0})
      /\ Cardinality((lo..L) \cup {0}) = Cardinality(lo..L) + 1
  BY <1>1, <1>2, FS_AddElement
<1>4. {0} \cup (lo..L) = (lo..L) \cup {0}
  OBVIOUS
<1>5. QED
  BY <1>1, <1>3, <1>4

\* evictOldHeaders on genesis and an interval: it removes from the interval's
\* lower end, as many as there are too many, and never the newest.
LEMMA EvictInterval ==
    ASSUME NEW hs, NEW lo \in Nat, NEW L \in Nat, 1 <= lo, lo <= L,
           DOMAIN hs = {0} \cup (lo..L)
    PROVE  EvictedHeights(hs, L) = {h \in lo..(L-1) : h - lo + 1 <= L - lo + 2 - M}
<1>1. Cardinality(DOMAIN hs) = L - lo + 2
  BY IntervalCardinality
<1>2. ASSUME NEW h \in DOMAIN hs, 1 <= h
      PROVE  Cardinality({k \in DOMAIN hs : 1 <= k /\ k <= h}) = h - lo + 1
  <2>1. h \in lo..L
    BY <1>2
  <2>2. {k \in DOMAIN hs : 1 <= k /\ k <= h} = lo..h
    BY <2>1
  <2>3. Cardinality(lo..h) = h - lo + 1
    BY <2>1, FS_Interval
  <2>4. QED
    BY <2>2, <2>3
<1>3. QED
  BY <1>1, <1>2, ConfigAssumption DEF EvictedHeights, M

\* evictOldHeaders after a late header at height 1 joined a full memory: that
\* header is the only one removed.
LEMMA EvictLateHeader ==
    ASSUME NEW hs, NEW lo \in Nat, NEW L \in Nat, 2 <= lo, lo <= L,
           DOMAIN hs = ({0} \cup (lo..L)) \cup {1},
           L - lo + 2 >= M,
           lo = L \/ L - lo + 2 <= M
    PROVE  EvictedHeights(hs, L) = {1}
<1>1. Cardinality(DOMAIN hs) = L - lo + 3
  <2>1. 1 \notin {0} \cup (lo..L)
    OBVIOUS
  <2>2. /\ IsFiniteSet({0} \cup (lo..L))
        /\ Cardinality({0} \cup (lo..L)) = L - lo + 2
    BY IntervalCardinality
  <2>3. Cardinality(({0} \cup (lo..L)) \cup {1}) = Cardinality({0} \cup (lo..L)) + 1
    BY <2>1, <2>2, FS_AddElement
  <2>4. QED
    BY <2>2, <2>3
<1>2. Cardinality({k \in DOMAIN hs : 1 <= k /\ k <= 1}) = 1
  <2>1. {k \in DOMAIN hs : 1 <= k /\ k <= 1} = {1}
    OBVIOUS
  <2>2. QED
    BY <2>1, FS_Singleton
<1>3. 1 \in EvictedHeights(hs, L)
  BY <1>1, <1>2, ConfigAssumption DEF EvictedHeights, M
<1>4. ASSUME NEW h \in EvictedHeights(hs, L), h # 1
      PROVE  FALSE
  <2>1. /\ h \in lo..(L-1)
        /\ Cardinality({k \in DOMAIN hs : 1 <= k /\ k <= h}) <= L - lo + 3 - M
    BY <1>1, <1>4, ConfigAssumption DEF EvictedHeights, M
  <2>2. {k \in DOMAIN hs : 1 <= k /\ k <= h} = (lo..h) \cup {1}
    BY <2>1
  <2>3. Cardinality((lo..h) \cup {1}) = h - lo + 2
    <3>1. 1 \notin lo..h
      BY <2>1
    <3>2. IsFiniteSet(lo..h) /\ Cardinality(lo..h) = h - lo + 1
      BY <2>1, FS_Interval
    <3>3. Cardinality((lo..h) \cup {1}) = Cardinality(lo..h) + 1
      BY <3>1, <3>2, FS_AddElement
    <3>4. QED
      BY <2>1, <3>2, <3>3
  <2>4. QED
    BY <2>1, <2>2, <2>3, ConfigAssumption DEF M
<1>5. QED
  BY <1>3, <1>4

----------------------------------------------------------------------------
\* Memory holds genesis and lo..latestHeight; it is full if lo is above 1.
Holds(lo) ==
    /\ DOMAIN headers = {0} \cup (lo..latestHeight)
    /\ lo = 1 \/ latestHeight - lo + 2 >= M
    /\ lo = latestHeight \/ latestHeight - lo + 2 <= M

\* Where an accepted header can be: the first genesis, the next height above
\* the newest, or height 1 again when it was evicted.
LEMMA AcceptedHeight ==
    ASSUME IInv, NEW hd \in Headers, ValidateHeader(hd)
    PROVE  \/ hd.height = 0 /\ DOMAIN headers = {} /\ latestHeight = 0
           \/ hd.height = latestHeight + 1 /\ DOMAIN headers = {0} /\ latestHeight = 0
           \/ /\ hd.height = latestHeight + 1
              /\ \E lo \in 1..latestHeight : Holds(lo)
           \/ /\ hd.height = 1
              /\ \E lo \in 2..latestHeight : Holds(lo)
<1>1. hd.height \in Nat /\ latestHeight \in Nat /\ M \in Nat
  BY HeaderAssumption, ConfigAssumption DEF IInv, TypeOK, M
<1>2. /\ hd.height \notin DOMAIN headers
      /\ hd.height > 0 => hd.height - 1 \in DOMAIN headers
  BY DEF ValidateHeader, ParentLinked
<1>3. Shape(DOMAIN headers, latestHeight)
  BY DEF IInv
<1>4. CASE DOMAIN headers \in {{}, {0}} /\ latestHeight = 0
  BY <1>1, <1>2, <1>4
<1>5. ASSUME NEW lo \in 1..latestHeight, Holds(lo)
      PROVE  \/ hd.height = latestHeight + 1
             \/ hd.height = 1 /\ lo \in 2..latestHeight
  BY <1>1, <1>2, <1>5 DEF Holds
<1>6. \/ DOMAIN headers \in {{}, {0}} /\ latestHeight = 0
      \/ \E lo \in 1..latestHeight : Holds(lo)
  BY <1>3 DEF Shape, Holds
<1>7. QED
  BY <1>4, <1>5, <1>6

\* The three values AddHeader computes for an accepted header.
Added(hd) == Put(headers, hd.height, hd)
Latest(hd) == IF Newest(hd) THEN hd.height ELSE latestHeight
Gone(hd) == EvictedHeights(Added(hd), Latest(hd))

\* What Accept does to the heights: either the header becomes the newest and
\* the memory keeps its shape, or it came late and memory is as before.
LEMMA AcceptShape ==
    ASSUME IInv, NEW hd \in Headers, ValidateHeader(hd)
    PROVE  \/ /\ Latest(hd) = hd.height
              /\ hd.height \in {latestHeight, latestHeight + 1}
              /\ hd.height = latestHeight => DOMAIN headers = {}
              /\ hd.height \notin Gone(hd)
              /\ Gone(hd) \subseteq DOMAIN headers
              /\ Shape(DOMAIN Added(hd) \ Gone(hd), Latest(hd))
           \/ /\ hd.height = 1
              /\ Latest(hd) = latestHeight
              /\ latestHeight > 1
              /\ Gone(hd) = {1}
              /\ DOMAIN Added(hd) \ Gone(hd) = DOMAIN headers
<1>1. hd.height \in Nat /\ latestHeight \in Nat /\ M \in Nat
  BY HeaderAssumption, ConfigAssumption DEF IInv, TypeOK, M
<1>2. DOMAIN Added(hd) = DOMAIN headers \cup {hd.height}
  BY DEF Put, Added
<1>3. CASE hd.height = 0 /\ DOMAIN headers = {} /\ latestHeight = 0
  <2>1. Latest(hd) = 0 /\ DOMAIN Added(hd) = {0}
    BY <1>2, <1>3 DEF Newest, Latest
  <2>2. Gone(hd) = {}
    BY <2>1 DEF EvictedHeights, Gone
  <2>3. QED
    BY <1>3, <2>1, <2>2 DEF Shape
<1>4. ASSUME NEW lo \in Nat, 1 <= lo, lo <= latestHeight + 1,
             hd.height = latestHeight + 1,
             DOMAIN headers = {0} \cup (lo..latestHeight),
             lo = 1 \/ latestHeight - lo + 2 >= M
      PROVE  /\ Latest(hd) = hd.height
             /\ hd.height \notin Gone(hd)
             /\ Gone(hd) \subseteq DOMAIN headers
             /\ Shape(DOMAIN Added(hd) \ Gone(hd), Latest(hd))
  <2>1. Latest(hd) = hd.height /\ Latest(hd) \in Nat /\ Latest(hd) = latestHeight + 1
    BY <1>1, <1>4 DEF Newest, Latest
  <2>2. DOMAIN Added(hd) = {0} \cup (lo..Latest(hd))
    BY <1>1, <1>2, <1>4, <2>1
  <2>3. Gone(hd) = {h \in lo..(Latest(hd)-1) : h - lo + 1 <= Latest(hd) - lo + 2 - M}
    <3>1. lo <= Latest(hd)
      BY <1>4, <2>1
    <3>2. EvictedHeights(Added(hd), Latest(hd))
            = {h \in lo..(Latest(hd)-1) : h - lo + 1 <= Latest(hd) - lo + 2 - M}
      BY <1>4, <2>1, <2>2, <3>1, EvictInterval
    <3>3. QED
      BY <3>2 DEF Gone
  <2>4. hd.height \notin Gone(hd) /\ Gone(hd) \subseteq DOMAIN headers
    BY <1>1, <1>4, <2>1, <2>3
  <2> DEFINE low == IF Latest(hd) - lo + 2 <= M THEN lo
                    ELSE IF lo + (Latest(hd) - lo + 2 - M) <= Latest(hd)
                         THEN lo + (Latest(hd) - lo + 2 - M)
                         ELSE Latest(hd)
  <2>5. low \in 1..Latest(hd)
    BY <1>1, <1>4, <2>1
  <2>6. DOMAIN Added(hd) \ Gone(hd) = {0} \cup (low..Latest(hd))
    BY <1>1, <1>4, <2>1, <2>2, <2>3
  <2>7. /\ low = 1 \/ Latest(hd) - low + 2 >= M
        /\ low = Latest(hd) \/ Latest(hd) - low + 2 <= M
    BY <1>1, <1>4, <2>1
  <2> HIDE DEF low
  <2>8. Shape(DOMAIN Added(hd) \ Gone(hd), Latest(hd))
    BY <2>5, <2>6, <2>7 DEF Shape
  <2>9. QED
    BY <2>1, <2>4, <2>8
<1>5. CASE hd.height = latestHeight + 1 /\ DOMAIN headers = {0} /\ latestHeight = 0
  <2>1. DOMAIN headers = {0} \cup (1..latestHeight)
    BY <1>5
  <2>2. QED
    BY <1>1, <1>4, <1>5, <2>1
<1>6. ASSUME NEW lo \in 1..latestHeight, Holds(lo), hd.height = latestHeight + 1
      PROVE  /\ Latest(hd) = hd.height
             /\ hd.height \notin Gone(hd)
             /\ Gone(hd) \subseteq DOMAIN headers
             /\ Shape(DOMAIN Added(hd) \ Gone(hd), Latest(hd))
  <2>1. lo \in Nat /\ 1 <= lo /\ lo <= latestHeight + 1
    BY <1>1
  <2>2. QED
    BY <1>4, <1>6, <2>1 DEF Holds
<1>7. ASSUME NEW lo \in 2..latestHeight, Holds(lo), hd.height = 1
      PROVE  /\ Latest(hd) = latestHeight
             /\ latestHeight > 1
             /\ Gone(hd) = {1}
             /\ DOMAIN Added(hd) \ Gone(hd) = DOMAIN headers
  <2>1. Latest(hd) = latestHeight /\ latestHeight > 1
    BY <1>1, <1>7 DEF Newest, Latest
  <2>2. DOMAIN Added(hd) = ({0} \cup (lo..latestHeight)) \cup {1}
    BY <1>2, <1>7 DEF Holds
  <2>3. lo \in Nat /\ 2 <= lo /\ lo <= latestHeight
    BY <1>1, <1>7
  <2>4. Gone(hd) = {1}
    BY <1>1, <1>7, <2>1, <2>2, <2>3, EvictLateHeader DEF Holds, Gone
  <2>5. QED
    BY <1>7, <2>1, <2>2, <2>3, <2>4 DEF Holds
<1>8. CASE hd.height = latestHeight + 1 /\ \E lo \in 1..latestHeight : Holds(lo)
  <2>1. PICK lo \in 1..latestHeight : Holds(lo)
    BY <1>8
  <2>2. hd.height # latestHeight
    BY <1>1, <1>8
  <2>3. QED
    BY <1>6, <1>8, <2>1, <2>2
<1>9. CASE hd.height = 1 /\ \E lo \in 2..latestHeight : Holds(lo)
  BY <1>7, <1>9
<1>10. QED
  BY <1>3, <1>5, <1>8, <1>9, AcceptedHeight

----------------------------------------------------------------------------
\* The two maps after Accept, height by height and hash by hash.
LEMMA AcceptMaps ==
    ASSUME IInv, NEW hd \in Headers, AddHeader(hd)
    PROVE  /\ DOMAIN headers' = (DOMAIN headers \cup {hd.height}) \ Gone(hd)
           /\ \A h \in DOMAIN headers' :
                 headers'[h] = IF h = hd.height THEN hd ELSE headers[h]
           /\ DOMAIN hashToHeight' = (DOMAIN hashToHeight \cup {hd.hash}) \
                 {IF h = hd.height THEN hd.hash ELSE headers[h].hash : h \in Gone(hd)}
           /\ \A x \in DOMAIN hashToHeight' :
                 hashToHeight'[x] = IF x = hd.hash THEN hd.height ELSE hashToHeight[x]
           /\ latestHeight' = IF Newest(hd) THEN hd.height ELSE latestHeight
           /\ latestHash' = IF Newest(hd) THEN hd.hash ELSE latestHash
           /\ Gone(hd) \subseteq DOMAIN headers \cup {hd.height}
           /\ \/ /\ latestHeight' = hd.height
                 /\ hd.height \in {latestHeight, latestHeight + 1}
                 /\ hd.height = latestHeight => DOMAIN headers = {}
                 /\ hd.height \notin Gone(hd)
                 /\ Gone(hd) \subseteq DOMAIN headers
                 /\ Shape(DOMAIN headers', latestHeight')
              \/ /\ hd.height = 1
                 /\ latestHeight' = latestHeight
                 /\ latestHeight > 1
                 /\ Gone(hd) = {1}
                 /\ DOMAIN headers' = DOMAIN headers
<1>1. /\ headers' = Without(Added(hd), Gone(hd))
      /\ hashToHeight' = Unindex(Put(hashToHeight, hd.hash, hd.height), Added(hd), Gone(hd))
      /\ latestHeight' = Latest(hd)
      /\ latestHash' = IF Newest(hd) THEN hd.hash ELSE latestHash
  BY DEF AddHeader, Accept, Added, Latest, Gone
<1>2. DOMAIN Added(hd) = DOMAIN headers \cup {hd.height}
  BY DEF Put, Added
<1>3. \A h \in DOMAIN Added(hd) : Added(hd)[h] = IF h = hd.height THEN hd ELSE headers[h]
  BY DEF Put, Added
<1>4. Gone(hd) \subseteq DOMAIN Added(hd)
  BY DEF EvictedHeights, Gone
<1>5. /\ DOMAIN headers' = DOMAIN Added(hd) \ Gone(hd)
      /\ \A h \in DOMAIN headers' : headers'[h] = Added(hd)[h]
  BY <1>1 DEF Without
<1>6. ValidateHeader(hd)
  BY DEF AddHeader
<1>7. \/ /\ Latest(hd) = hd.height
         /\ hd.height \in {latestHeight, latestHeight + 1}
         /\ hd.height = latestHeight => DOMAIN headers = {}
         /\ hd.height \notin Gone(hd)
         /\ Gone(hd) \subseteq DOMAIN headers
         /\ Shape(DOMAIN Added(hd) \ Gone(hd), Latest(hd))
      \/ /\ hd.height = 1
         /\ Latest(hd) = latestHeight
         /\ latestHeight > 1
         /\ Gone(hd) = {1}
         /\ DOMAIN Added(hd) \ Gone(hd) = DOMAIN headers
  BY <1>6, AcceptShape
<1>8. {Added(hd)[h].hash : h \in Gone(hd)}
         = {IF h = hd.height THEN hd.hash ELSE headers[h].hash : h \in Gone(hd)}
  BY <1>3, <1>4
<1>9. /\ DOMAIN hashToHeight' = (DOMAIN hashToHeight \cup {hd.hash}) \ {Added(hd)[h].hash : h \in Gone(hd)}
      /\ \A x \in DOMAIN hashToHeight' :
            hashToHeight'[x] = IF x = hd.hash THEN hd.height ELSE hashToHeight[x]
  BY <1>1 DEF Unindex, Without, Put
<1>10. QED
  BY <1>1, <1>2, <1>3, <1>4, <1>5, <1>7, <1>8, <1>9 DEF Latest

\* A new header's hash is not in the index: an indexed hash is that of a header
\* in memory, and the new one's height is not in memory.
LEMMA FreshHash ==
    ASSUME IInv, NEW hd \in Headers, ValidateHeader(hd)
    PROVE  hd.hash \notin DOMAIN hashToHeight
<1>1. SUFFICES ASSUME hd.hash \in DOMAIN hashToHeight
               PROVE  FALSE
  OBVIOUS
<1> DEFINE k == hashToHeight[hd.hash]
<1>2. k \in DOMAIN headers /\ headers[k].hash = hd.hash
  BY <1>1 DEF IInv, IndexMatchesMemory
<1>3. headers[k] \in Headers /\ headers[k].intact /\ headers[k].height = k
  BY <1>2 DEF IInv, TypeOK
<1>4. hd.intact /\ hd.height \notin DOMAIN headers
  BY DEF ValidateHeader
<1>5. QED
  BY <1>2, <1>3, <1>4, HeaderAssumption

\* AddHeader keeps the types.
LEMMA AddHeaderType ==
    ASSUME IInv, NEW hd \in Headers, AddHeader(hd)
    PROVE  TypeOK'
<1>0. /\ DOMAIN headers' = (DOMAIN headers \cup {hd.height}) \ Gone(hd)
      /\ \A h \in DOMAIN headers' :
            headers'[h] = IF h = hd.height THEN hd ELSE headers[h]
      /\ DOMAIN hashToHeight' = (DOMAIN hashToHeight \cup {hd.hash}) \
            {IF h = hd.height THEN hd.hash ELSE headers[h].hash : h \in Gone(hd)}
      /\ \A x \in DOMAIN hashToHeight' :
            hashToHeight'[x] = IF x = hd.hash THEN hd.height ELSE hashToHeight[x]
  BY AcceptMaps
<1>1. TypeOK /\ hd.intact
  BY DEF IInv, AddHeader, ValidateHeader
<1>2. hd.height \in Nat /\ hd.hash \in Hashes
  BY HeaderAssumption
<1>3. /\ DOMAIN headers' \subseteq Nat
      /\ \A h \in DOMAIN headers' : /\ headers'[h] \in Headers
                                    /\ headers'[h].height = h
                                    /\ headers'[h].intact
  BY <1>0, <1>1, <1>2 DEF TypeOK
<1>4. headers' = [h \in DOMAIN headers' |-> headers'[h]]
  BY DEF AddHeader, Accept, Without
<1>5. /\ DOMAIN hashToHeight' \subseteq Hashes
      /\ \A x \in DOMAIN hashToHeight' : hashToHeight'[x] \in Nat
  BY <1>0, <1>1, <1>2 DEF TypeOK
<1>6. hashToHeight' = [x \in DOMAIN hashToHeight' |-> hashToHeight'[x]]
  BY DEF AddHeader, Accept, Unindex, Without
<1>7. latestHeight' \in Nat /\ latestHash' \in Hashes \cup {NoHash}
  BY <1>1, <1>2, AcceptMaps DEF TypeOK
<1>8. /\ DOMAIN stored' \subseteq Nat
      /\ \A h \in DOMAIN stored' : stored'[h] \in Headers /\ stored'[h].height = h
  <2>1. CASE stored' = stored
    BY <1>1, <2>1 DEF TypeOK
  <2>2. CASE stored' = Put(stored, hd.height, hd)
    BY <1>1, <1>2, <2>2 DEF TypeOK, Put
  <2>3. QED
    BY <2>1, <2>2 DEF AddHeader, Accept
<1>9. QED
  BY <1>3, <1>4, <1>5, <1>6, <1>7, <1>8 DEF TypeOK

\* The header became the newest.
AtTip(hd) ==
    /\ latestHeight' = hd.height
    /\ hd.height \in {latestHeight, latestHeight + 1}
    /\ hd.height = latestHeight => DOMAIN headers = {}
    /\ hd.height \notin Gone(hd)
    /\ Gone(hd) \subseteq DOMAIN headers
    /\ Shape(DOMAIN headers', latestHeight')

\* The header came for an evicted height and memory is what it was.
CameLate(hd) ==
    /\ hd.height = 1
    /\ latestHeight' = latestHeight
    /\ latestHeight > 1
    /\ Gone(hd) = {1}
    /\ DOMAIN headers' = DOMAIN headers

\* The heights in memory are at most the newest.
LEMMA ShapeBound ==
    ASSUME NEW D, NEW L \in Nat, Shape(D, L), NEW h \in D
    PROVE  h \in Nat /\ h <= L
  BY DEF Shape

\* An accepted header at the tip keeps the invariant.
LEMMA TipKeepsIInv ==
    ASSUME IInv, NEW hd \in Headers, AddHeader(hd), AtTip(hd)
    PROVE  IInv'
<1>1. TypeOK'
  BY AddHeaderType
<1>2. Shape(DOMAIN headers', latestHeight')
  BY DEF AtTip
<1>3. /\ DOMAIN headers' = (DOMAIN headers \cup {hd.height}) \ Gone(hd)
      /\ \A h \in DOMAIN headers' :
            headers'[h] = IF h = hd.height THEN hd ELSE headers[h]
      /\ DOMAIN hashToHeight' = (DOMAIN hashToHeight \cup {hd.hash}) \
            {IF h = hd.height THEN hd.hash ELSE headers[h].hash : h \in Gone(hd)}
      /\ \A x \in DOMAIN hashToHeight' :
            hashToHeight'[x] = IF x = hd.hash THEN hd.height ELSE hashToHeight[x]
      /\ latestHeight' = IF Newest(hd) THEN hd.height ELSE latestHeight
      /\ latestHash' = IF Newest(hd) THEN hd.hash ELSE latestHash
  BY AcceptMaps
<1>4. /\ hd.height \notin DOMAIN headers
      /\ hd.height > 0 => hd.prev = headers[hd.height - 1].hash
  BY DEF AddHeader, ValidateHeader, ParentLinked
<1>5. hd.height \in Nat /\ latestHeight \in Nat /\ DOMAIN headers \subseteq Nat
  BY HeaderAssumption DEF IInv, TypeOK
<1>6. \A h \in DOMAIN headers : h <= latestHeight
  BY <1>5, ShapeBound DEF IInv
<1>7. hd.height \in DOMAIN headers' /\ headers'[hd.height] = hd
  BY <1>3 DEF AtTip
<1>8. Linked'
  <2>1. SUFFICES ASSUME NEW h \in DOMAIN headers', h - 1 \in DOMAIN headers'
                 PROVE  headers'[h].prev = headers'[h-1].hash
    BY DEF Linked
  <2>2. h \in Nat /\ h - 1 # hd.height
    BY <1>3, <1>5, <1>6, <2>1 DEF AtTip
  <2>3. headers'[h-1] = headers[h-1] /\ h - 1 \in DOMAIN headers
    BY <1>3, <2>1, <2>2
  <2>4. CASE h = hd.height
    BY <1>4, <1>5, <1>7, <2>1, <2>2, <2>3, <2>4
  <2>5. CASE h # hd.height
    BY <1>3, <2>1, <2>3, <2>5 DEF IInv, Linked
  <2>6. QED
    BY <2>4, <2>5
<1>9. LatestHashKept'
  <2>1. DOMAIN headers = {} => latestHeight = 0
    BY <1>5 DEF IInv, Shape
  <2>2. hd.height > 0 => Newest(hd)
    BY <1>5, <2>1 DEF AtTip, Newest
  <2>3. QED
    BY <1>3, <1>5, <1>7, <2>2 DEF LatestHashKept, AtTip
<1>10. IndexMatchesMemory'
  <2>1. hd.hash \notin DOMAIN hashToHeight
    BY FreshHash DEF AddHeader
  <2>2. {IF h = hd.height THEN hd.hash ELSE headers[h].hash : h \in Gone(hd)}
          = {headers[h].hash : h \in Gone(hd)}
    BY DEF AtTip
  <2>3. Gone(hd) \subseteq DOMAIN headers /\ hd.height \notin Gone(hd)
    BY DEF AtTip
  <2>4. /\ \A x \in DOMAIN hashToHeight :
              hashToHeight[x] \in DOMAIN headers /\ headers[hashToHeight[x]].hash = x
        /\ \A h \in DOMAIN headers :
              headers[h].hash \in DOMAIN hashToHeight /\ hashToHeight[headers[h].hash] = h
    BY DEF IInv, IndexMatchesMemory
  <2>5. hd.hash \notin {headers[h].hash : h \in Gone(hd)}
    BY <2>1, <2>3, <2>4
  <2>6. ASSUME NEW x \in DOMAIN hashToHeight'
        PROVE  hashToHeight'[x] \in DOMAIN headers' /\ headers'[hashToHeight'[x]].hash = x
    <3>1. CASE x = hd.hash
      BY <1>3, <1>7, <3>1, <2>6
    <3>2. CASE x # hd.hash
      <4>1. /\ x \in DOMAIN hashToHeight
            /\ hashToHeight'[x] = hashToHeight[x]
            /\ hashToHeight[x] \notin Gone(hd)
        BY <1>3, <2>2, <2>3, <2>4, <2>6, <3>2
      <4>2. hashToHeight[x] \in DOMAIN headers /\ headers[hashToHeight[x]].hash = x
        BY <2>4, <4>1
      <4>3. QED
        BY <1>3, <1>4, <4>1, <4>2
    <3>3. QED
      BY <3>1, <3>2
  <2>7. ASSUME NEW h \in DOMAIN headers'
        PROVE  /\ headers'[h].hash \in DOMAIN hashToHeight'
               /\ hashToHeight'[headers'[h].hash] = h
    <3>1. CASE h = hd.height
      BY <1>3, <1>7, <2>2, <2>5, <3>1
    <3>2. CASE h # hd.height
      <4>1. h \in DOMAIN headers /\ h \notin Gone(hd) /\ headers'[h] = headers[h]
        BY <1>3, <2>7, <3>2
      <4>2. /\ headers[h].hash \in DOMAIN hashToHeight
            /\ hashToHeight[headers[h].hash] = h
        BY <2>4, <4>1
      <4>3. headers[h].hash \notin {headers[k].hash : k \in Gone(hd)}
        BY <2>3, <2>4, <4>1, <4>2
      <4>4. QED
        BY <1>3, <2>1, <2>2, <4>1, <4>2, <4>3
    <3>3. QED
      BY <3>1, <3>2
  <2>8. QED
    BY <2>6, <2>7 DEF IndexMatchesMemory
<1>11. QED
  BY <1>1, <1>2, <1>8, <1>9, <1>10 DEF IInv

\* A late header leaves memory and index as they were.
LEMMA LateKeepsMemory ==
    ASSUME IInv, NEW hd \in Headers, AddHeader(hd), CameLate(hd)
    PROVE  /\ headers' = headers
           /\ hashToHeight' = hashToHeight
           /\ latestHeight' = latestHeight
           /\ latestHash' = latestHash
<1>0. /\ DOMAIN headers' = (DOMAIN headers \cup {hd.height}) \ Gone(hd)
      /\ \A h \in DOMAIN headers' :
            headers'[h] = IF h = hd.height THEN hd ELSE headers[h]
      /\ DOMAIN hashToHeight' = (DOMAIN hashToHeight \cup {hd.hash}) \
            {IF h = hd.height THEN hd.hash ELSE headers[h].hash : h \in Gone(hd)}
      /\ \A x \in DOMAIN hashToHeight' :
            hashToHeight'[x] = IF x = hd.hash THEN hd.height ELSE hashToHeight[x]
  BY AcceptMaps
<1>1. hd.height \notin DOMAIN headers
  BY DEF AddHeader, ValidateHeader
<1>2. hd.hash \notin DOMAIN hashToHeight
  BY FreshHash DEF AddHeader
<1>3. \A h \in DOMAIN headers' : headers'[h] = headers[h]
  BY <1>0, <1>1 DEF CameLate
<1>4. headers' = [h \in DOMAIN headers' |-> headers'[h]]
  BY AddHeaderType DEF TypeOK
<1>5. headers = [h \in DOMAIN headers |-> headers[h]]
  BY DEF IInv, TypeOK
<1>6. headers' = headers
  BY <1>3, <1>4, <1>5 DEF CameLate
<1>7. {IF h = hd.height THEN hd.hash ELSE headers[h].hash : h \in Gone(hd)} = {hd.hash}
  BY DEF CameLate
<1>8. /\ DOMAIN hashToHeight' = DOMAIN hashToHeight
      /\ \A x \in DOMAIN hashToHeight' : hashToHeight'[x] = hashToHeight[x]
  BY <1>0, <1>2, <1>7
<1>9. hashToHeight' = [x \in DOMAIN hashToHeight' |-> hashToHeight'[x]]
  BY AddHeaderType DEF TypeOK
<1>10. hashToHeight = [x \in DOMAIN hashToHeight |-> hashToHeight[x]]
  BY DEF IInv, TypeOK
<1>11. latestHeight' = latestHeight /\ latestHash' = latestHash
  <2>1. latestHeight \in Nat
    BY DEF IInv, TypeOK
  <2>2. ~Newest(hd)
    BY <2>1 DEF CameLate, Newest
  <2>3. QED
    BY <2>2, AcceptMaps
<1>12. QED
  BY <1>6, <1>8, <1>9, <1>10, <1>11

\* Every step keeps the inductive invariant.
LEMMA StepKeepsIInv ==
    ASSUME IInv, [Next]_vars
    PROVE  IInv'
<1>1. ASSUME NEW hd \in Headers, AddHeader(hd)
      PROVE  IInv'
  <2>1. AtTip(hd) \/ CameLate(hd)
    BY <1>1, AcceptMaps DEF AtTip, CameLate
  <2>2. CASE AtTip(hd)
    BY <1>1, <2>2, TipKeepsIInv
  <2>3. CASE CameLate(hd)
    <3>1. TypeOK'
      BY <1>1, AddHeaderType
    <3>2. /\ headers' = headers
          /\ hashToHeight' = hashToHeight
          /\ latestHeight' = latestHeight
          /\ latestHash' = latestHash
      BY <1>1, <2>3, LateKeepsMemory
    <3>3. QED
      BY <3>1, <3>2 DEF IInv, Linked, LatestHashKept, IndexMatchesMemory
  <2>4. QED
    BY <2>1, <2>2, <2>3
<1>2. ASSUME Clear
      PROVE  IInv'
  BY <1>2, ConfigAssumption
  DEF Clear, EmptyMap, IInv, TypeOK, Shape, Linked, LatestHashKept, IndexMatchesMemory
<1>3. CASE UNCHANGED vars
  BY <1>3 DEF vars, IInv, TypeOK, Linked, LatestHashKept, IndexMatchesMemory
<1>4. QED
  BY <1>1, <1>2, <1>3 DEF Next, Reset, Restart

\* The inductive invariant holds throughout.
THEOREM Inductive == Spec => []IInv
<1>1. Init => IInv
  BY DEF Init, EmptyMap, IInv, TypeOK, Shape, Linked, LatestHashKept, IndexMatchesMemory
<1>2. IInv /\ [Next]_vars => IInv'
  BY StepKeepsIInv
<1>3. QED
  BY <1>1, <1>2, PTL DEF Spec

\* The light client's variables always have their types, and a header is
\* always kept and stored under its own height (AddHeader, persistHeader).
THEOREM TypeCorrect == Spec => []TypeOK
<1>1. IInv => TypeOK
  BY DEF IInv
<1>2. QED
  BY <1>1, Inductive, PTL

\* The index always finds exactly the headers in memory, whatever was evicted
\* and however late headers arrive (AddHeader, evictOldHeaders, Reset).
THEOREM IndexCorrect == Spec => []IndexMatchesMemory
<1>1. IInv => IndexMatchesMemory
  BY DEF IInv
<1>2. QED
  BY <1>1, Inductive, PTL

\* What is in memory is always one hash-linked chain that ends in the newest
\* header, for any headers and any MaxHeadersInMemory.
THEOREM ChainCorrect == Spec => []MemoryIsChain
<1>1. ASSUME IInv
      PROVE  MemoryIsChain
  <2>1. latestHeight \in Nat /\ DOMAIN headers \subseteq Nat
    BY <1>1 DEF IInv, TypeOK
  <2>2. Shape(DOMAIN headers, latestHeight)
    BY <1>1 DEF IInv
  <2>3. /\ \A h \in DOMAIN headers :
              /\ h <= latestHeight
              /\ h >= 1 => \A k \in h..latestHeight : k \in DOMAIN headers
        /\ DOMAIN headers # {} => {0, latestHeight} \subseteq DOMAIN headers
        /\ latestHeight > 0 => latestHeight \in DOMAIN headers
    <3>1. CASE DOMAIN headers \in {{}, {0}} /\ latestHeight = 0
      BY <3>1
    <3>2. CASE \E lo \in 1..latestHeight : DOMAIN headers = {0} \cup (lo..latestHeight)
      BY <2>1, <3>2
    <3>3. QED
      BY <2>2, <3>1, <3>2 DEF Shape
  <2>4. QED
    BY <1>1, <2>3 DEF IInv, Linked, LatestHashKept, MemoryIsChain
<1>2. QED
  BY <1>1, Inductive, PTL

\* Eviction always keeps memory within MaxHeadersInMemory, genesis and the
\* newest header excepted.
THEOREM BoundCorrect == Spec => []MemoryBounded
<1>1. ASSUME IInv
      PROVE  MemoryBounded
  <2>1. latestHeight \in Nat /\ M \in Nat
    BY <1>1, ConfigAssumption DEF IInv, TypeOK, M
  <2>2. CASE DOMAIN headers \in {{}, {0}}
    BY <2>2 DEF MemoryBounded
  <2>3. CASE \E lo \in 1..latestHeight :
               /\ DOMAIN headers = {0} \cup (lo..latestHeight)
               /\ lo = latestHeight \/ latestHeight - lo + 2 <= M
    <3>1. PICK lo \in 1..latestHeight :
               /\ DOMAIN headers = {0} \cup (lo..latestHeight)
               /\ lo = latestHeight \/ latestHeight - lo + 2 <= M
      BY <2>3
    <3>2. CASE lo = latestHeight
      <4>1. DOMAIN headers \subseteq {0, latestHeight}
        BY <2>1, <3>1, <3>2
      <4>2. QED
        BY <4>1 DEF MemoryBounded
    <3>3. CASE latestHeight - lo + 2 <= M
      <4>1. lo \in Nat /\ 1 <= lo /\ lo <= latestHeight
        BY <2>1, <3>1
      <4>2. Cardinality(DOMAIN headers) = latestHeight - lo + 2
        BY <2>1, <3>1, <4>1, IntervalCardinality
      <4>3. QED
        BY <3>3, <4>2 DEF MemoryBounded, M
    <3>4. QED
      BY <3>1, <3>2, <3>3
  <2>4. QED
    BY <1>1, <2>2, <2>3 DEF IInv, Shape
<1>2. QED
  BY <1>1, Inductive, PTL

\* A step changes memory only by extending the chain at its tip or by
\* clearing it: a header offered again for an evicted height never displaces
\* or precedes one that does not descend from it.
THEOREM TipCorrect == Spec => OnlyTipExtends
<1> DEFINE Extends ==
      \/ DOMAIN headers' = {}
      \/ /\ latestHeight' \in {latestHeight, latestHeight + 1}
         /\ \A h \in DOMAIN headers' : h \in DOMAIN headers \/ h = latestHeight'
         /\ \A h \in DOMAIN headers \cap DOMAIN headers' : headers'[h] = headers[h]
<1>1. ASSUME IInv, NEW hd \in Headers, AddHeader(hd)
      PROVE  Extends
  <2>1. AtTip(hd) \/ CameLate(hd)
    BY <1>1, AcceptMaps DEF AtTip, CameLate
  <2>2. CASE AtTip(hd)
    <3>1. hd.height \notin DOMAIN headers
      BY <1>1 DEF AddHeader, ValidateHeader
    <3>2. /\ DOMAIN headers' = (DOMAIN headers \cup {hd.height}) \ Gone(hd)
          /\ \A h \in DOMAIN headers' :
                headers'[h] = IF h = hd.height THEN hd ELSE headers[h]
      BY <1>1, AcceptMaps
    <3>3. QED
      BY <2>2, <3>1, <3>2 DEF AtTip
  <2>3. CASE CameLate(hd)
    BY <1>1, <2>3, LateKeepsMemory
  <2>4. QED
    BY <2>1, <2>2, <2>3
<1>2. ASSUME Clear
      PROVE  Extends
  BY <1>2 DEF Clear, EmptyMap
<1>3. IInv /\ [Next]_vars => [Extends]_vars
  BY <1>1, <1>2 DEF Next, Reset, Restart
<1>4. QED
  BY <1>3, Inductive, PTL DEF Spec, OnlyTipExtends

----------------------------------------------------------------------------
(* Header synchronisation.                                                 *)

\* The headers left in a batch are headers.
BatchOK == batch \in Seq(Headers)

\* Every step leaves headers in the batch.
LEMMA BatchStep ==
    ASSUME BatchOK, [SyncNext]_syncVars
    PROVE  BatchOK'
<1>1. CASE batch' = batch
  BY <1>1 DEF BatchOK
<1>2. CASE batch' = <<>>
  BY <1>2 DEF BatchOK
<1>3. ASSUME NEW hs \in Batches, ProcessHeaders(hs)
      PROVE  BatchOK'
  BY <1>3, BatchAssumption DEF ProcessHeaders, BatchOK
<1>4. ASSUME NEW cps \in Checkpoints, FastSync(cps)
      PROVE  BatchOK'
  <2>1. cps \in Seq(Headers) /\ RequestHeaders \in Seq(Headers)
    BY <1>4, BatchAssumption DEF RequestHeaders
  <2>2. cps \o RequestHeaders \in Seq(Headers)
    BY <2>1
  <2>3. QED
    BY <1>4, <2>2 DEF FastSync, BatchOK
<1>5. ASSUME AddNext
      PROVE  BatchOK'
  <2>1. batch # <<>> => Tail(batch) \in Seq(Headers)
    BY DEF BatchOK
  <2>2. batch # <<>> /\ (batch' = Tail(batch) \/ batch' = <<>>)
    BY <1>5 DEF AddNext, GiveUp
  <2>3. CASE batch' = Tail(batch)
    BY <2>1, <2>2, <2>3 DEF BatchOK
  <2>4. QED
    BY <1>2, <2>2, <2>3
<1>6. CASE UNCHANGED syncVars
  BY <1>1, <1>6 DEF syncVars
<1>7. CASE SyncNext
  BY <1>1, <1>2, <1>3, <1>4, <1>5, <1>7
  DEF SyncNext, Alive, Start, Stop, LoopStops, Other, SyncRestart
<1>8. QED
  BY <1>6, <1>7

\* Every step of the synchroniser is a step of the light client or leaves it
\* alone.
LEMMA StepRefines ==
    ASSUME BatchOK, [SyncNext]_syncVars
    PROVE  [Next]_vars
<1>1. CASE UNCHANGED vars
  BY <1>1
<1>2. ASSUME AddNext
      PROVE  [Next]_vars
  <2>1. batch # <<>> => Head(batch) \in Headers
    BY DEF BatchOK
  <2>2. QED
    BY <1>2, <2>1 DEF AddNext, AddHeader, Next
<1>3. CASE Other
  BY <1>3 DEF Other, Next
<1>4. CASE SyncRestart
  BY <1>4 DEF SyncRestart, Next
<1>5. CASE UNCHANGED syncVars
  BY <1>1, <1>5 DEF syncVars
<1>6. CASE Alive
  BY <1>1, <1>2, <1>3, <1>6
  DEF Alive, Start, Stop, LoopStops, ProcessHeaders, FastSync
<1>7. QED
  BY <1>4, <1>5, <1>6 DEF SyncNext

\* ProcessHeaders and FastSync, whatever they are given and however other
\* callers interleave with their AddHeader calls, do to the light client only
\* what a sequence of AddHeader and Reset calls can.
THEOREM SyncImplements == SyncSpec => ImplementsLightClient
<1>1. SyncInit => Init /\ BatchOK
  BY DEF SyncInit, BatchOK
<1>2. BatchOK /\ [SyncNext]_syncVars => BatchOK' /\ [Next]_vars
  BY BatchStep, StepRefines
<1>3. QED
  BY <1>1, <1>2, PTL DEF SyncSpec, Spec, ImplementsLightClient
=============================================================================
