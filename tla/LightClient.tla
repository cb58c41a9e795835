---------------------------- MODULE LightClient ----------------------------
(***************************************************************************)
(* The header store of internal/core/blockchain/lightclient.go.            *)
(*                                                                         *)
(* Every exported method takes lc.mu for its whole body, so one call is    *)
(* one action.  Two maps are kept in memory: height -> header and          *)
(* hash -> height; the newest header is cached beside them.  When the maps *)
(* outgrow MaxHeadersInMemory the lowest non-genesis heights are evicted.  *)
(* Every accepted header is also written to storage, under its height.     *)
(*                                                                         *)
(* A header is a record; what its bytes hash to is abstracted to `intact', *)
(* whether the Hash field equals CalculateHash().                          *)
(***************************************************************************)
EXTENDS Integers, FiniteSets

CONSTANTS
    Headers,             \* the headers peers may send
    Hashes,              \* block hashes
    NoHash,              \* the zero Hash{}
    MaxHeadersInMemory,  \* LightClientConfig.MaxHeadersInMemory
    VerifySignatures     \* LightClientConfig.VerifySignatures

Signatures == {"none", "validator"}

\* CalculateHash covers the height, so two intact headers with one hash are
\* at one height (Keccak-256 has no collisions here).
ASSUME HeaderAssumption ==
    /\ Headers \subseteq [height: Nat, prev: Hashes \cup {NoHash}, hash: Hashes,
                          sig: Signatures, intact: BOOLEAN]
    /\ \A x, y \in Headers :
          x.intact /\ y.intact /\ x.hash = y.hash => x.height = y.height

ASSUME ConfigAssumption ==
    /\ NoHash \notin Hashes
    /\ MaxHeadersInMemory \in Nat
    /\ VerifySignatures \in BOOLEAN

VARIABLES
    headers,        \* height -> header, in memory
    hashToHeight,   \* hash -> height, the index of `headers'
    latestHeight,   \* height of the newest header
    latestHash,     \* its hash
    stored          \* height -> header, the light_header_<height> keys in storage

vars == <<headers, hashToHeight, latestHeight, latestHash, stored>>

\* The map f with f[k] = v added or replaced.
Put(f, k, v) == [x \in DOMAIN f \cup {k} |-> IF x = k THEN v ELSE f[x]]

\* The map f without the keys in S.
Without(f, S) == [x \in DOMAIN f \ S |-> f[x]]

EmptyMap == [x \in {} |-> NoHash]

Init ==
    /\ headers = EmptyMap
    /\ hashToHeight = EmptyMap
    /\ latestHeight = 0
    /\ latestHash = NoHash
    /\ stored = EmptyMap

----------------------------------------------------------------------------
\* The header bytes that both Sign and VerifySignature hash: the signature is
\* one of the fields.
SerializeWithoutHash(hd) == <<hd.prev, hd.sig, hd.height>>

\* Block.Sign hashes the header while its Signature is still empty.
SignedBytes(hd) == SerializeWithoutHash([hd EXCEPT !.sig = "none"])

\* Block.VerifySignature hashes the header with the Signature in place and
\* recovers the signer from that: it is the validator only if the bytes are
\* the ones that were signed.
VerifySignature(hd) ==
    /\ hd.sig # "none"
    /\ SerializeWithoutHash(hd) = SignedBytes(hd)

ParentLinked(hd) ==
    hd.height > 0 => /\ hd.height - 1 \in DOMAIN headers
                     /\ hd.prev = headers[hd.height - 1].hash

\* MUTANT: the PrevHash comparison is dropped.
ValidateHeaderUnlinked(hd) ==
    /\ hd.height \notin DOMAIN headers
    /\ hd.height > 0 => hd.height - 1 \in DOMAIN headers
    /\ hd.intact
    /\ VerifySignatures /\ hd.sig # "none" => VerifySignature(hd)

\* MUTANT: an existing header with another hash is taken as a replacement.
ValidateHeaderReplacing(hd) ==
    /\ hd.height \in DOMAIN headers => headers[hd.height].hash # hd.hash
    /\ ParentLinked(hd)
    /\ hd.intact
    /\ VerifySignatures /\ hd.sig # "none" => VerifySignature(hd)

\* The header passes every check of validateHeader.
ValidateHeader(hd) ==
    /\ hd.height \notin DOMAIN headers
    /\ ParentLinked(hd)
    /\ hd.intact
    /\ VerifySignatures /\ hd.sig # "none" => VerifySignature(hd)

\* MUTANT: one header too few is removed.
EvictedHeightsOneShort(hs, latest) ==
    LET toRemove == Cardinality(DOMAIN hs) - MaxHeadersInMemory
    IN  {h \in DOMAIN hs :
            /\ 1 <= h
            /\ h < latest
            /\ Cardinality({g \in DOMAIN hs : 1 <= g /\ g <= h}) < toRemove}

\* evictOldHeaders: the toRemove lowest heights from 1 up, the newest spared.
EvictedHeights(hs, latest) ==
    LET toRemove == Cardinality(DOMAIN hs) - MaxHeadersInMemory
    IN  {h \in DOMAIN hs :
            /\ 1 <= h
            /\ h < latest
            /\ Cardinality({g \in DOMAIN hs : 1 <= g /\ g <= h}) <= toRemove}

\* MUTANT: delete(lc.hashToHeight, header.Hash) is forgotten.
UnindexNothing(idx, hs, gone) == idx

\* The index entries that go with the evicted headers.
Unindex(idx, hs, gone) == Without(idx, {hs[h].hash : h \in gone})

\* The header moves latestHeight and latestHash.
Newest(hd) == hd.height > latestHeight

\* AddHeader, when validateHeader returns nil.  A failed persistHeader is only
\* logged, so storage may or may not change.
Accept(hd) ==
    LET added  == Put(headers, hd.height, hd)
        latest == IF Newest(hd) THEN hd.height ELSE latestHeight
        gone   == EvictedHeights(added, latest)
    IN  /\ headers' = Without(added, gone)
        /\ hashToHeight' = Unindex(Put(hashToHeight, hd.hash, hd.height), added, gone)
        /\ latestHeight' = latest
        /\ latestHash' = IF Newest(hd) THEN hd.hash ELSE latestHash
        /\ stored' \in {stored, Put(stored, hd.height, hd)}

AddHeader(hd) ==
    /\ ValidateHeader(hd)
    /\ Accept(hd)

\* Both maps and the latest pair start over; storage keeps what it has.
Clear ==
    /\ headers' = EmptyMap
    /\ hashToHeight' = EmptyMap
    /\ latestHeight' = 0
    /\ latestHash' = NoHash
    /\ UNCHANGED stored

Reset == Clear

\* The process ends and NewLightClient builds an empty client on the same
\* storage: loadHeaders loads nothing.
Restart == Clear

Next ==
    \/ \E hd \in Headers : AddHeader(hd)
    \/ Reset
    \/ Restart

Spec == Init /\ [][Next]_vars

----------------------------------------------------------------------------
\* The variables have their types, a header is kept under its own height, and
\* storage holds headers under their heights.
TypeOK ==
    /\ DOMAIN headers \subseteq Nat
    /\ headers = [h \in DOMAIN headers |-> headers[h]]
    /\ \A h \in DOMAIN headers : /\ headers[h] \in Headers
                                 /\ headers[h].height = h
                                 /\ headers[h].intact
    /\ DOMAIN hashToHeight \subseteq Hashes
    /\ hashToHeight = [x \in DOMAIN hashToHeight |-> hashToHeight[x]]
    /\ \A x \in DOMAIN hashToHeight : hashToHeight[x] \in Nat
    /\ latestHeight \in Nat
    /\ latestHash \in Hashes \cup {NoHash}
    /\ DOMAIN stored \subseteq Nat
    /\ \A h \in DOMAIN stored : stored[h] \in Headers /\ stored[h].height = h

\* The headers kept in memory are one chain that ends in the newest header
\* (AddHeader, evictOldHeaders), however evictions and late headers for evicted
\* heights interleave: a header whose predecessor is in memory names it by
\* hash, nothing is missing between a kept non-genesis header and the newest,
\* genesis and the newest are kept, and above genesis the cached hash is the
\* newest header's.
MemoryIsChain ==
    /\ \A h \in DOMAIN headers :
          /\ h <= latestHeight
          /\ h - 1 \in DOMAIN headers => headers[h].prev = headers[h - 1].hash
          /\ h >= 1 => \A k \in h..latestHeight : k \in DOMAIN headers
    /\ DOMAIN headers # {} => {0, latestHeight} \subseteq DOMAIN headers
    /\ latestHeight > 0 => /\ latestHeight \in DOMAIN headers
                           /\ latestHash = headers[latestHeight].hash

\* hashToHeight finds exactly the headers in memory (GetHeaderByHash returns
\* the header with that hash, never nil): no stale entry survives an eviction
\* and none is lost.
IndexMatchesMemory ==
    /\ \A x \in DOMAIN hashToHeight :
          /\ hashToHeight[x] \in DOMAIN headers
          /\ headers[hashToHeight[x]].hash = x
    /\ \A h \in DOMAIN headers :
          /\ headers[h].hash \in DOMAIN hashToHeight
          /\ hashToHeight[headers[h].hash] = h

\* Memory stays within MaxHeadersInMemory, except that genesis and the newest
\* header are always kept (evictOldHeaders starts at 1 and stops below latest).
MemoryBounded ==
    \/ Cardinality(DOMAIN headers) <= MaxHeadersInMemory
    \/ DOMAIN headers \subseteq {0, latestHeight}

\* An accepted header changes what is in memory only by extending the chain at
\* its tip: a header offered again for an evicted height is validated against
\* genesis alone, and must not stay in memory below headers that do not
\* descend from it.
OnlyTipExtends ==
    [][\/ DOMAIN headers' = {}
       \/ /\ latestHeight' \in {latestHeight, latestHeight + 1}
          /\ \A h \in DOMAIN headers' :
                h \in DOMAIN headers \/ h = latestHeight'
          /\ \A h \in DOMAIN headers \cap DOMAIN headers' :
                headers'[h] = headers[h]]_vars

\* "GetLatestHash returns the latest block hash" (lightclient.go:230).
LatestHashIsTip ==
    DOMAIN headers # {} => latestHash = headers[latestHeight].hash
============================================================================
