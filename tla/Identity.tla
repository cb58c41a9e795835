------------------------------ MODULE Identity ------------------------------
(***************************************************************************)
(* The identity service, internal/service/identity/service.go: the         *)
(* identities of vehicles, cached in memory and stored, and the list of    *)
(* revoked certificates (CRL), in memory and stored.                       *)
(*                                                                         *)
(* Calls run concurrently.  crlMu is held for the whole of                 *)
(* RevokeCertificate; cacheMu protects single accesses of the cache only,  *)
(* so a registration or a rotation is several steps.  The cache holds      *)
(* pointers: a rotation changes the cached identity in place.  A write to  *)
(* the store may fail, and the process may stop at any step and start      *)
(* again from what is stored.                                              *)
(*                                                                         *)
(* An identity is its certificate and its status.  A certificate has one   *)
(* serial number and one expiry date (NotAfter), so the hash, the serial   *)
(* number and ExpiresAt are functions of it.                               *)
(***************************************************************************)
EXTENDS Integers, FiniteSets

CONSTANTS
    Vehicles,    \* vehicle addresses
    Certs,       \* certificates, named by their serial number
    NotAfter,    \* NotAfter[c] is the last tick at which c is valid
    Callers,     \* goroutines that look identities up
    Writers,     \* the ones among them that register and rotate
    None,        \* no identity, no certificate
    Cached,      \* "the identity the cache holds", a pointer shared with it
    MaxTime      \* bound: the clock

ASSUME IdentityAssumption ==
    /\ NotAfter \in [Certs -> Nat]
    /\ Writers \subseteq Callers
    /\ MaxTime \in Nat
    /\ None \notin Certs

Status == {"active", "expired", "revoked"}
Identities == [cert: Certs, status: Status]
NoCall == [pc |-> "idle", vehicle |-> None, cert |-> None, identity |-> None]

VARIABLES
    cache,       \* identityCache
    stored,      \* the stored identities
    crl,         \* the serial numbers of s.crl
    storedCRL,   \* the stored CRL
    revoking,    \* the certificate RevokeCertificate is marking, under crlMu
    call,        \* the registration, rotation or lookup of each caller
    now,         \* the clock
    revoked      \* history: certificates whose revocation was reported done

idVars == <<cache, stored, crl, storedCRL, revoking, call, now, revoked>>

IdInit ==
    /\ cache = [v \in Vehicles |-> None]
    /\ stored = [v \in Vehicles |-> None]
    /\ crl = {}
    /\ storedCRL = {}
    /\ revoking = None
    /\ call = [c \in Callers |-> NoCall]
    /\ now = 0
    /\ revoked = {}

----------------------------------------------------------------------------
CertExpired(identity) == now > NotAfter[identity.cert]

\* The lookup of GetIdentity is settled: the cache has the identity, or the
\* store has none either.
Settled(v) == cache[v] # None \/ stored[v] = None

\* GetIdentity when the cache misses: reads the store, then caches what it read.
GetIdentity(c, v) ==
    /\ call[c] = NoCall
    /\ ~Settled(v)
    /\ call' = [call EXCEPT ![c] =
         [pc |-> "cache", vehicle |-> v, cert |-> stored[v].cert, identity |-> stored[v]]]
    /\ UNCHANGED <<cache, stored, crl, storedCRL, revoking, now, revoked>>

\* IsRevoked: waits for crlMu.
IsRevoked(cert, answer) ==
    /\ revoking = None
    /\ answer = (cert \in crl)

\* RegisterVehicle up to the new identity.  The requests are the ones whose
\* signature recovers the vehicle and whose key is the certificate's.
RegisterVehicle(c, v, cert) ==
    /\ call[c] = NoCall
    /\ cache[v] = None /\ stored[v] = None
    /\ IsRevoked(cert, FALSE)
    /\ call' = [call EXCEPT ![c] =
         [pc |-> "store", vehicle |-> v, cert |-> cert,
          identity |-> [cert |-> cert, status |-> "active"]]]
    /\ UNCHANGED <<cache, stored, crl, storedCRL, revoking, now, revoked>>

\* BatchRegisterVehicles registers one after the other and skips what fails; a
\* registration of its own is a batch of one.
BatchRegisterVehicles(c) == \E v \in Vehicles, cert \in Certs : RegisterVehicle(c, v, cert)

\* RotateCertificate up to its checks: the caller names the old certificate.
RotateCertificate(c, v, old, new) ==
    /\ call[c] = NoCall
    /\ cache[v] # None
    /\ cache[v].cert = old
    /\ call' = [call EXCEPT ![c] =
         [pc |-> "rotate", vehicle |-> v, cert |-> new, identity |-> Cached]]
    /\ UNCHANGED <<cache, stored, crl, storedCRL, revoking, now, revoked>>

\* The identity a call works on.
Held(c) == IF call[c].identity = Cached THEN cache[call[c].vehicle] ELSE call[c].identity

\* RotateCertificate changes the identity in place, whatever its status was.
UpdateIdentity(c) ==
    LET identity == [cert |-> call[c].cert, status |-> "active"] IN
    /\ call[c].pc = "rotate"
    /\ IF call[c].identity = Cached
       THEN /\ cache' = [cache EXCEPT ![call[c].vehicle] = identity]
            /\ call' = [call EXCEPT ![c].pc = "store"]
       ELSE /\ call' = [call EXCEPT ![c].pc = "store", ![c].identity = identity]
            /\ UNCHANGED cache
    /\ UNCHANGED <<stored, crl, storedCRL, revoking, now, revoked>>

\* storeIdentity of a registration or a rotation; when it fails the call ends.
StoreIdentity(c, ok) ==
    /\ call[c].pc = "store"
    /\ stored' = IF ok THEN [stored EXCEPT ![call[c].vehicle] = Held(c)] ELSE stored
    /\ call' = [call EXCEPT ![c] = IF ok THEN [@ EXCEPT !.pc = "cache"] ELSE NoCall]
    /\ UNCHANGED <<cache, crl, storedCRL, revoking, now, revoked>>

\* The last step of a registration, a rotation and a lookup.  A rotation that
\* shared the identity replaced here keeps that one to itself.
UpdateCache(c) ==
    LET v == call[c].vehicle
        Shares(d) == call[d].identity = Cached /\ call[d].vehicle = v
    IN
    /\ call[c].pc = "cache"
    /\ cache' = [cache EXCEPT ![v] = Held(c)]
    /\ call' = [d \in Callers |->
         CASE d = c -> NoCall
           [] d # c /\ Shares(d) /\ ~Shares(c) -> [call[d] EXCEPT !.identity = cache[v]]
           [] OTHER -> call[d]]
    /\ UNCHANGED <<stored, crl, storedCRL, revoking, now, revoked>>

----------------------------------------------------------------------------
\* storeCRL writes the list as it is in memory.
StoreCRL(ok) == storedCRL' = IF ok THEN crl' ELSE storedCRL

\* RevokeCertificate up to storeCRL.  A serial number that is listed is refused;
\* when the store fails the call reports an error and the entry stays listed.
RevokeCertificate(cert, ok) ==
    /\ revoking = None
    /\ cert \notin crl
    /\ crl' = crl \cup {cert}
    /\ StoreCRL(ok)
    /\ revoking' = IF ok THEN cert ELSE None
    /\ UNCHANGED <<cache, stored, call, now, revoked>>

\* The rest of RevokeCertificate, under cacheMu: the first identity found with
\* the certificate is marked and stored; an error of the store is ignored.
MarkRevoked(ok) ==
    LET with == {v \in Vehicles : cache[v] # None /\ cache[v].cert = revoking} IN
    /\ revoking # None
    /\ \/ /\ with = {}
          /\ UNCHANGED <<cache, stored>>
       \/ \E v \in with :
            /\ cache' = [cache EXCEPT ![v].status = "revoked"]
            /\ stored' = IF ok THEN [stored EXCEPT ![v] = cache'[v]] ELSE stored
    /\ revoking' = None
    /\ revoked' = revoked \cup {revoking}
    /\ UNCHANGED <<crl, storedCRL, call, now>>

\* checkExpiredCertificates, under cacheMu; the identities in `failed' are not
\* stored.
CheckExpiredCertificates(failed) ==
    LET Due(v) == cache[v] # None /\ cache[v].status = "active" /\ CertExpired(cache[v])
    IN
    /\ \E v \in Vehicles : Due(v)
    /\ cache' = [v \in Vehicles |->
         IF Due(v) THEN [cache[v] EXCEPT !.status = "expired"] ELSE cache[v]]
    /\ stored' = [v \in Vehicles |->
         IF Due(v) /\ v \notin failed THEN cache'[v] ELSE stored[v]]
    /\ UNCHANGED <<crl, storedCRL, revoking, call, now, revoked>>

Tick ==
    /\ now < MaxTime
    /\ now' = now + 1
    /\ UNCHANGED <<cache, stored, crl, storedCRL, revoking, call, revoked>>

\* MUTANT: the CRL is not read when the service starts.
RestartWithoutCRL ==
    /\ cache' = stored
    /\ crl' = {}
    /\ revoking' = None
    /\ call' = [c \in Callers |-> NoCall]
    /\ UNCHANGED <<stored, storedCRL, now, revoked>>

LoadIdentities == cache' = stored

LoadCRL == crl' = storedCRL

\* The process stops and NewService runs again.
Restart ==
    /\ LoadIdentities
    /\ LoadCRL
    /\ revoking' = None
    /\ call' = [c \in Callers |-> NoCall]
    /\ UNCHANGED <<stored, storedCRL, now, revoked>>

IdNext ==
    \/ \E c \in Callers, v \in Vehicles : GetIdentity(c, v)
    \/ \E c \in Writers :
         \/ BatchRegisterVehicles(c)
         \/ \E v \in Vehicles, old, new \in Certs : RotateCertificate(c, v, old, new)
    \/ \E c \in Callers :
         \/ UpdateIdentity(c)
         \/ \E ok \in BOOLEAN : StoreIdentity(c, ok)
         \/ UpdateCache(c)
    \/ \E cert \in Certs, ok \in BOOLEAN : RevokeCertificate(cert, ok)
    \/ \E ok \in BOOLEAN : MarkRevoked(ok)
    \/ \E failed \in SUBSET Vehicles : CheckExpiredCertificates(failed)
    \/ Tick

----------------------------------------------------------------------------
IdTypeOK ==
    /\ cache \in [Vehicles -> Identities \cup {None}]
    /\ stored \in [Vehicles -> Identities \cup {None}]
    /\ crl \subseteq Certs
    /\ storedCRL \subseteq Certs
    /\ revoking \in Certs \cup {None}
    /\ \A c \in Callers :
         /\ call[c].pc \in {"idle", "rotate", "store", "cache"}
         /\ call[c].pc # "idle" =>
              /\ call[c].vehicle \in Vehicles
              /\ call[c].cert \in Certs
              /\ Held(c) \in Identities
    /\ now \in 0..MaxTime
    /\ revoked \subseteq Certs

\* A revocation that was reported done is never undone: the certificate is in
\* the CRL that admission reads and in the stored one, whatever restarts,
\* failed writes and revocations of other certificates came since.
\* (identity/service.go RevokeCertificate, storeCRL, loadCRL)
RevocationDurable == revoked \subseteq crl \cap storedCRL
=============================================================================
