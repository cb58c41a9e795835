------------------------ MODULE MessageVerifyProofs -------------------------
(***************************************************************************)
(* Revocation and replay protection, for any vehicles, certificates,       *)
(* goroutines, clock skews, window and cache age with                      *)
(* MaxAge >= 2 * Window.                                                   *)
(*                                                                         *)
(* Two invariants carry the argument, and neither looks at the identities: *)
(* the CRL, in memory and stored, holds every certificate whose revocation *)
(* was reported done or is being finished (Listed); and an accepted        *)
(* message is remembered by an entry young enough, or its time has left    *)
(* the window for good (Remembered).                                       *)
(***************************************************************************)
EXTENDS MessageVerify, TLAPS

\* What is listed is stored, too, unless storing it failed.
Listed ==
    /\ revoked \subseteq crl \cap storedCRL
    /\ revoking # None => revoking \in crl \cap storedCRL

\* The certificate a verification was barred from stays revoked.
Barred ==
    \A p \in Verifiers :
        /\ check[p].barred \subseteq revoked
        /\ check[p].pc \in {"seq", "update", "add"} => check[p].cert \notin check[p].barred

Shape(c) ==
    /\ c = [pc |-> c.pc, msg |-> c.msg, cert |-> c.cert, replay |-> c.replay,
            barred |-> c.barred]
    /\ c.pc \in {"idle", "lookup", "crl", "seq", "update", "add"}
    /\ c.pc # "idle" => c.msg \in net

Types ==
    /\ now \in Nat
    /\ net \subseteq Messages
    /\ nextSeq \in [Vehicles -> 1..(MaxSeq + 1)]
    /\ idCache \in [Vehicles -> [1..MaxSeq -> Nat \cup {None}]]
    /\ accepted \subseteq net
    /\ DOMAIN check = Verifiers
    /\ \A p \in Verifiers : Shape(check[p])

\* The entry of message m in the id cache keeps it out until m leaves the window.
Kept(m) ==
    \/ /\ Has(m)
       /\ m.time <= idCache[m.sender][m.seq] + Window
    \/ now - m.time > Window

\* No entry is from the future, no message under verification is newer than
\* the window allows, and none is verified that was accepted before.
Remembered ==
    /\ \A v \in Vehicles, n \in 1..MaxSeq :
         idCache[v][n] # None => idCache[v][n] <= now
    /\ \A m \in accepted : Kept(m)
    /\ \A p \in Verifiers : check[p].pc # "idle" =>
         /\ check[p].msg.time <= now + Window
         /\ ~check[p].replay

IInv ==
    /\ Types
    /\ Listed
    /\ Barred
    /\ Remembered

----------------------------------------------------------------------------
LEMMA InitIInv == Init => IInv
<1> SUFFICES ASSUME Init PROVE IInv
  OBVIOUS
<1> USE DEF Init, IdInit, NoCheck
<1>1. Types
  <2>1. 1 \in 1..(MaxSeq + 1)
    BY MessageAssumption
  <2>2. Shape(NoCheck)
    BY DEF Shape
  <2>3. idCache \in [Vehicles -> [1..MaxSeq -> Nat \cup {None}]]
    BY DEF NoIds
  <2>4. QED
    BY <2>1, <2>2, <2>3 DEF Types
<1>2. Listed
  BY DEF Listed
<1>3. Barred
  BY DEF Barred
<1>4. Remembered
  BY DEF Remembered, NoIds
<1>5. QED
  BY <1>1, <1>2, <1>3, <1>4 DEF IInv

----------------------------------------------------------------------------
(* The identity service.                                                   *)

\* No step of the identity service takes a certificate from either list, and a
\* revocation is reported done when the certificate is on both.
LEMMA IdentityKeepsListed ==
    ASSUME Listed, IdNext
    PROVE  Listed' /\ revoked \subseteq revoked'
<1> USE DEF Listed
<1>1. ASSUME NEW cert \in Certs, NEW ok \in BOOLEAN, RevokeCertificate(cert, ok)
      PROVE  Listed' /\ revoked \subseteq revoked'
  BY <1>1 DEF RevokeCertificate, StoreCRL
<1>2. ASSUME NEW ok \in BOOLEAN, MarkRevoked(ok)
      PROVE  Listed' /\ revoked \subseteq revoked'
  BY <1>2 DEF MarkRevoked
<1>3. CASE UNCHANGED <<crl, storedCRL, revoking, revoked>>
  BY <1>3
<1>4. QED
  BY <1>1, <1>2, <1>3
  DEF IdNext, GetIdentity, BatchRegisterVehicles, RegisterVehicle, RotateCertificate,
      UpdateIdentity, StoreIdentity, UpdateCache, CheckExpiredCertificates, Tick

\* The clock does not go back.
LEMMA IdentityClock ==
    ASSUME IdNext, now \in Nat
    PROVE  now' \in Nat /\ now' >= now
<1>1. CASE Tick
  BY <1>1 DEF Tick
<1>2. CASE now' = now
  BY <1>2
<1>3. QED
  BY <1>1, <1>2
  DEF IdNext, GetIdentity, BatchRegisterVehicles, RegisterVehicle, RotateCertificate,
      UpdateIdentity, StoreIdentity, UpdateCache, RevokeCertificate, MarkRevoked,
      CheckExpiredCertificates

LEMMA IdentityStep ==
    ASSUME IInv, IdNext, UNCHANGED msgVars
    PROVE  IInv'
<1> USE DEF msgVars
<1>1. Types'
  BY IdentityClock DEF IInv, Types, Shape
<1>2. Listed' /\ revoked \subseteq revoked'
  BY IdentityKeepsListed DEF IInv
<1>3. Barred'
  BY <1>2 DEF IInv, Barred
<1>4. Remembered'
  <2>1. now \in Nat /\ now' \in Nat /\ now' >= now
    BY IdentityClock DEF IInv, Types
  <2>2. ASSUME NEW m \in accepted
        PROVE  Kept(m)'
    <3>1. m.time \in Int
      BY DEF IInv, Types, Messages
    <3>2. Kept(m)
      BY DEF IInv, Remembered
    <3>3. QED
      BY <2>1, <3>1, <3>2, MessageAssumption DEF Kept, Has
  <2>3. ASSUME NEW p \in Verifiers, check[p].pc # "idle"
        PROVE  check[p].msg.time <= now' + Window
    BY <2>1, <2>3, MessageAssumption DEF IInv, Types, Shape, Remembered, Messages
  <2>4. ASSUME NEW v \in Vehicles, NEW n \in 1..MaxSeq, idCache[v][n] # None
        PROVE  idCache[v][n] <= now'
    <3>1. idCache[v][n] \in Nat
      BY <2>4 DEF IInv, Types
    <3>2. idCache[v][n] <= now
      BY <2>4 DEF IInv, Remembered
    <3>3. QED
      BY <2>1, <3>1, <3>2
  <2>5. QED
    BY <2>2, <2>3, <2>4 DEF IInv, Remembered
<1>5. QED
  BY <1>1, <1>2, <1>3, <1>4 DEF IInv

----------------------------------------------------------------------------
(* The senders.                                                            *)

LEMMA CreateMessageStep ==
    ASSUME IInv, NEW v \in Vehicles, NEW skew \in Skews, CreateMessage(v, skew)
    PROVE  IInv'
<1> USE DEF CreateMessage, idVars
<1>1. Types'
  <2>1. nextSeq[v] \in 1..MaxSeq /\ nextSeq[v] + 1 \in 1..(MaxSeq + 1)
    <3>1. nextSeq[v] \in 1..(MaxSeq + 1)
      BY DEF IInv, Types
    <3>2. nextSeq[v] <= MaxSeq
      OBVIOUS
    <3>3. QED
      BY <3>1, <3>2, MessageAssumption
  <2>2. now + skew \in Int
    BY MessageAssumption DEF IInv, Types
  <2>3. net' \subseteq Messages /\ net \subseteq net'
    BY <2>1, <2>2 DEF IInv, Types, Messages
  <2>4. nextSeq' \in [Vehicles -> 1..(MaxSeq + 1)]
    BY <2>1 DEF IInv, Types
  <2>5. \A p \in Verifiers : Shape(check[p])'
    BY <2>3 DEF IInv, Types, Shape
  <2>6. QED
    BY <2>3, <2>4, <2>5 DEF IInv, Types
<1>2. Listed' /\ Barred'
  BY DEF IInv, Listed, Barred
<1>3. Remembered'
  BY DEF IInv, Remembered, Kept, Has
<1>4. QED
  BY <1>1, <1>2, <1>3 DEF IInv

LEMMA SenderRestartStep ==
    ASSUME IInv, NEW v \in Vehicles, SenderRestart(v)
    PROVE  IInv'
<1> USE DEF SenderRestart, idVars
<1>1. 1 \in 1..(MaxSeq + 1)
  BY MessageAssumption
<1>2. Types'
  BY <1>1 DEF IInv, Types, Shape
<1>3. Listed' /\ Barred'
  BY DEF IInv, Listed, Barred
<1>4. Remembered'
  BY DEF IInv, Remembered, Kept, Has
<1>5. QED
  BY <1>2, <1>3, <1>4 DEF IInv

----------------------------------------------------------------------------
(* VerifyMessage.                                                          *)

\* A message that was accepted and is in the window is in the id cache, so the
\* first look finds it.
LEMMA VerifyMessageStep ==
    ASSUME IInv, NEW p \in Verifiers, NEW m \in net, VerifyMessage(p, m)
    PROVE  IInv'
<1> USE DEF VerifyMessage, idVars
<1> DEFINE c == [pc |-> "lookup", msg |-> m, cert |-> None, replay |-> m \in accepted,
                 barred |-> revoked]
<1>1. m.time \in Int /\ now \in Nat
  BY DEF IInv, Types, Messages
<1>2. m \notin accepted
  BY <1>1 DEF IInv, Remembered, Kept, MsgExpired
<1>3. m.time <= now + Window
  BY <1>1, MessageAssumption DEF MsgExpired
<1>4. DOMAIN check' = Verifiers /\ check'[p] = c /\ \A q \in Verifiers : q # p => check'[q] = check[q]
  BY DEF IInv, Types
<1>5. Types'
  <2>1. Shape(check[p])'
    BY <1>4 DEF Shape
  <2>2. \A q \in Verifiers : Shape(check[q])'
    BY <1>4, <2>1 DEF IInv, Types, Shape
  <2>3. QED
    BY <1>4, <2>2 DEF IInv, Types
<1>6. Listed'
  BY DEF IInv, Listed
<1>7. Barred'
  BY <1>4 DEF IInv, Barred
<1>8. Remembered'
  BY <1>2, <1>3, <1>4 DEF IInv, Remembered, Kept, Has
<1>9. QED
  BY <1>5, <1>6, <1>7, <1>8 DEF IInv

\* A step that moves a verification on, or ends it, and changes nothing else,
\* keeps the invariant when it does not pass the CRL.
LEMMA MovesStep ==
    ASSUME IInv, NEW p \in Verifiers, NEW to \in {"crl", "seq", "update", "add"}, NEW cert,
           check[p].pc # "idle",
           UNCHANGED <<idVars, net, nextSeq, idCache, accepted>>,
           check' = [check EXCEPT ![p] = NoCheck] \/
             check' = [check EXCEPT ![p] = [@ EXCEPT !.pc = to, !.cert = cert]],
           to # "crl" => cert \notin check[p].barred
    PROVE  IInv'
<1> USE DEF idVars
<1>1. DOMAIN check' = Verifiers /\ \A q \in Verifiers : q # p => check'[q] = check[q]
  BY DEF IInv, Types
<1>2. \/ check'[p] = NoCheck
      \/ check'[p] = [pc |-> to, msg |-> check[p].msg, cert |-> cert,
                      replay |-> check[p].replay, barred |-> check[p].barred]
  BY DEF IInv, Types, Shape
<1>3. Types'
  <2>1. Shape(check[p])'
    <3>1. check[p].msg \in net
      BY DEF IInv, Types, Shape
    <3>2. CASE check'[p] = NoCheck
      BY <3>2 DEF Shape, NoCheck
    <3>3. CASE check'[p] = [pc |-> to, msg |-> check[p].msg, cert |-> cert,
                            replay |-> check[p].replay, barred |-> check[p].barred]
      BY <3>1, <3>3 DEF Shape
    <3>4. QED
      BY <1>2, <3>2, <3>3
  <2>2. \A q \in Verifiers : Shape(check[q])'
    BY <1>1, <2>1 DEF IInv, Types, Shape
  <2>3. QED
    BY <1>1, <2>2 DEF IInv, Types
<1>4. Listed'
  BY DEF IInv, Listed
<1>5. Barred'
  BY <1>1, <1>2 DEF IInv, Barred, NoCheck
<1>6. Remembered'
  BY <1>1, <1>2 DEF IInv, Remembered, Kept, Has, NoCheck
<1>7. QED
  BY <1>3, <1>4, <1>5, <1>6 DEF IInv

\* Where Moves leaves the call: the certificate is the one it had.
LEMMA MovesOn ==
    ASSUME IInv, NEW p \in Verifiers, NEW from, NEW good \in BOOLEAN, NEW to,
           Moves(p, from, good, to)
    PROVE  \/ check' = [check EXCEPT ![p] = NoCheck]
           \/ check' = [check EXCEPT ![p] = [@ EXCEPT !.pc = to, !.cert = check[p].cert]]
<1>1. Shape(check[p])
  BY DEF IInv, Types
<1>2. [check[p] EXCEPT !.pc = to] = [check[p] EXCEPT !.pc = to, !.cert = check[p].cert]
  BY <1>1 DEF Shape
<1>3. QED
  BY <1>2 DEF Moves

LEMMA LookupSenderStep ==
    ASSUME IInv, NEW p \in Verifiers, LookupSender(p)
    PROVE  IInv'
<1> DEFINE identity == cache[check[p].msg.sender]
<1>1. \/ check' = [check EXCEPT ![p] = NoCheck]
      \/ check' = [check EXCEPT ![p] = [@ EXCEPT !.pc = "crl", !.cert = identity.cert]]
  BY DEF LookupSender
<1>2. check[p].pc # "idle" /\ UNCHANGED <<idVars, net, nextSeq, idCache, accepted>>
  BY DEF LookupSender
<1>3. QED
  BY <1>1, <1>2, MovesStep

\* The CRL that admission reads has every certificate the call is barred from.
LEMMA CheckCRLStep ==
    ASSUME IInv, NEW p \in Verifiers, CheckCRL(p)
    PROVE  IInv'
<1>1. PICK answer \in BOOLEAN : /\ IsRevoked(check[p].cert, answer)
                               /\ Moves(p, "crl", ~answer, "seq")
  BY DEF CheckCRL
<1>2. check[p].pc # "idle" /\ UNCHANGED <<idVars, net, nextSeq, idCache, accepted>>
  BY <1>1 DEF CheckCRL, Moves
<1>3. check[p].barred \subseteq crl
  BY DEF IInv, Barred, Listed
<1>4. CASE check[p].cert \notin crl
  <2>1. check[p].cert \notin check[p].barred
    BY <1>3, <1>4
  <2>2. \/ check' = [check EXCEPT ![p] = NoCheck]
        \/ check' = [check EXCEPT ![p] = [@ EXCEPT !.pc = "seq", !.cert = check[p].cert]]
    BY <1>1, MovesOn
  <2>3. QED
    BY <1>2, <2>1, <2>2, MovesStep
<1>5. CASE check[p].cert \in crl
  <2>1. check' = [check EXCEPT ![p] = NoCheck]
    BY <1>1, <1>5 DEF Moves, IsRevoked
  <2>2. QED
    BY <1>2, <2>1, MovesStep
<1>6. QED
  BY <1>4, <1>5

LEMMA CheckSequenceStep ==
    ASSUME IInv, NEW p \in Verifiers, NEW intact \in BOOLEAN, CheckSequence(p, intact)
    PROVE  IInv'
<1>1. check[p].pc = "seq" /\ UNCHANGED <<idVars, net, nextSeq, idCache, accepted>>
  BY DEF CheckSequence, Moves
<1>2. check[p].cert \notin check[p].barred
  BY <1>1 DEF IInv, Barred
<1>3. \/ check' = [check EXCEPT ![p] = NoCheck]
      \/ check' = [check EXCEPT ![p] = [@ EXCEPT !.pc = "update"]]
  BY DEF CheckSequence, Moves
<1>4. [check[p] EXCEPT !.pc = "update"]
      = [check[p] EXCEPT !.pc = "update", !.cert = check[p].cert]
  BY DEF IInv, Types, Shape
<1>5. \/ check' = [check EXCEPT ![p] = NoCheck]
      \/ check' = [check EXCEPT ![p] = [@ EXCEPT !.pc = "update", !.cert = check[p].cert]]
  BY <1>3, <1>4
<1>6. QED
  BY <1>1, <1>2, <1>5, MovesStep

LEMMA UpdateSequenceStep ==
    ASSUME IInv, NEW p \in Verifiers, UpdateSequence(p)
    PROVE  IInv'
<1>1. check[p].pc = "update" /\ UNCHANGED <<idVars, net, nextSeq, idCache, accepted>>
  BY DEF UpdateSequence, Moves
<1>2. check[p].cert \notin check[p].barred
  BY <1>1 DEF IInv, Barred
<1>3. \/ check' = [check EXCEPT ![p] = NoCheck]
      \/ check' = [check EXCEPT ![p] = [@ EXCEPT !.pc = "add", !.cert = check[p].cert]]
  BY MovesOn DEF UpdateSequence
<1>4. QED
  BY <1>1, <1>2, <1>3, MovesStep

\* No accepted message is newer than the window allows.
LEMMA NotTooNew ==
    ASSUME IInv, NEW a \in accepted
    PROVE  a.time <= now + Window
<1>1. a.sender \in Vehicles /\ a.seq \in 1..MaxSeq /\ a.time \in Int /\ now \in Int
      /\ Window \in Nat
  BY MessageAssumption DEF IInv, Types, Messages
<1> DEFINE e == idCache[a.sender][a.seq]
<1>2. CASE now - a.time > Window
  BY <1>1, <1>2
<1>3. CASE e # None /\ a.time <= e + Window
  <2>1. e \in Nat
    BY <1>1, <1>3 DEF IInv, Types
  <2>2. e <= now
    BY <1>1, <1>3 DEF IInv, Remembered
  <2>3. QED
    BY <1>1, <1>3, <2>1, <2>2
<1>4. QED
  BY <1>2, <1>3 DEF IInv, Remembered, Kept, Has

\* The entry is as young as it can be, so it serves the messages that were
\* accepted under the same id before as well.
LEMMA AcceptStep ==
    ASSUME IInv, NEW p \in Verifiers, Accept(p)
    PROVE  IInv'
<1> USE DEF Accept, idVars
<1> DEFINE m == check[p].msg
<1>1. m \in net /\ m \in Messages /\ m.sender \in Vehicles /\ m.seq \in 1..MaxSeq
      /\ m.time \in Int /\ now \in Nat /\ m.time <= now + Window
  BY DEF IInv, Types, Shape, Messages, Remembered
<1>2. DOMAIN check' = Verifiers /\ check'[p] = NoCheck
      /\ \A q \in Verifiers : q # p => check'[q] = check[q]
  BY DEF IInv, Types
<1>3. idCache' \in [Vehicles -> [1..MaxSeq -> Nat \cup {None}]]
  BY <1>1 DEF IInv, Types
<1>4. \A v \in Vehicles, n \in 1..MaxSeq :
        idCache'[v][n] = IF v = m.sender /\ n = m.seq THEN now ELSE idCache[v][n]
  BY <1>1 DEF IInv, Types
<1>5. Types'
  <2>1. Shape(check[p])'
    BY <1>2 DEF Shape, NoCheck
  <2>2. \A q \in Verifiers : Shape(check[q])'
    BY <1>2, <2>1 DEF IInv, Types, Shape
  <2>3. QED
    BY <1>1, <1>2, <1>3, <2>2 DEF IInv, Types
<1>6. Listed'
  BY DEF IInv, Listed
<1>7. Barred'
  BY <1>2 DEF IInv, Barred, NoCheck
<1>8. Remembered'
  <2>1. ASSUME NEW v \in Vehicles, NEW n \in 1..MaxSeq, idCache'[v][n] # None
        PROVE  idCache'[v][n] <= now'
    <3>1. CASE v = m.sender /\ n = m.seq
      BY <1>1, <1>4, <3>1
    <3>2. CASE ~(v = m.sender /\ n = m.seq)
      BY <1>4, <2>1, <3>2 DEF IInv, Remembered
    <3>3. QED
      BY <3>1, <3>2
  <2>2. ASSUME NEW a \in accepted \cup {m}
        PROVE  Kept(a)'
    <3>1. a \in Messages /\ a.sender \in Vehicles /\ a.seq \in 1..MaxSeq /\ a.time \in Int
      BY <1>1 DEF IInv, Types, Messages
    <3>2. CASE a.sender = m.sender /\ a.seq = m.seq
      <4>1. idCache'[a.sender][a.seq] = now /\ now # None
        BY <1>1, <1>4, <3>2, MessageAssumption
      <4>2. a.time <= now + Window
        BY <1>1, NotTooNew
      <4>3. QED
        BY <4>1, <4>2 DEF Kept, Has
    <3>3. CASE ~(a.sender = m.sender /\ a.seq = m.seq)
      <4>1. a \in accepted
        BY <3>3
      <4>2. Kept(a)
        BY <4>1 DEF IInv, Remembered
      <4>3. idCache'[a.sender][a.seq] = idCache[a.sender][a.seq]
        BY <1>4, <3>1, <3>3
      <4>4. QED
        BY <4>2, <4>3 DEF Kept, Has
    <3>4. QED
      BY <3>2, <3>3
  <2>3. ASSUME NEW q \in Verifiers, check'[q].pc # "idle"
        PROVE  check'[q].msg.time <= now' + Window /\ ~check'[q].replay
    BY <1>2, <2>3 DEF IInv, Remembered, NoCheck
  <2>4. QED
    BY <2>1, <2>2, <2>3 DEF Remembered
<1>9. QED
  BY <1>5, <1>6, <1>7, <1>8 DEF IInv

----------------------------------------------------------------------------
(* The cleanup of the id cache and the restart of the node.                *)

\* An entry that is removed is older than twice the window, and the message it
\* stood for is out of the window: this is where MaxAge >= 2 * Window is used.
LEMMA CleanupStep ==
    ASSUME IInv, Cleanup
    PROVE  IInv'
<1> USE DEF Cleanup, idVars
<1>1. idCache' \in [Vehicles -> [1..MaxSeq -> Nat \cup {None}]]
  BY DEF IInv, Types
<1>2. ASSUME NEW v \in Vehicles, NEW n \in 1..MaxSeq
      PROVE  idCache'[v][n] = IF idCache[v][n] # None /\ now - idCache[v][n] > MaxAge
                              THEN None ELSE idCache[v][n]
  OBVIOUS
<1>3. Types'
  BY <1>1 DEF IInv, Types, Shape
<1>4. Listed' /\ Barred'
  BY DEF IInv, Listed, Barred
<1>5. Remembered'
  <2>1. ASSUME NEW v \in Vehicles, NEW n \in 1..MaxSeq, idCache'[v][n] # None
        PROVE  idCache'[v][n] <= now'
    BY <1>2, <2>1 DEF IInv, Remembered
  <2>2. ASSUME NEW a \in accepted
        PROVE  Kept(a)'
    <3>1. a.sender \in Vehicles /\ a.seq \in 1..MaxSeq /\ a.time \in Int /\ now \in Nat
      BY DEF IInv, Types, Messages
    <3>2. Kept(a)
      BY DEF IInv, Remembered
    <3> DEFINE e == idCache[a.sender][a.seq]
    <3>3. CASE now - a.time > Window
      BY <3>3 DEF Kept
    <3>4. CASE e # None /\ now - e > MaxAge /\ a.time <= e + Window
      <4>1. e \in Nat
        BY <3>1, <3>4 DEF IInv, Types
      <4>2. now - a.time > Window
        <5>1. \A x, y, z, w, k \in Int :
                x - y > k /\ k >= 2 * w /\ z <= y + w => x - z > w
          OBVIOUS
        <5> HIDE DEF e
        <5>2. now \in Int /\ a.time \in Int /\ e \in Int /\ Window \in Int /\ MaxAge \in Int
          BY <3>1, <4>1, MessageAssumption
        <5>3. QED
          BY <3>4, <5>1, <5>2, MessageAssumption
      <4>3. QED
        BY <4>2 DEF Kept
    <3>5. CASE e # None /\ ~(now - e > MaxAge) /\ a.time <= e + Window
      <4>1. idCache'[a.sender][a.seq] = e
        BY <1>2, <3>1, <3>5
      <4>2. QED
        BY <3>5, <4>1 DEF Kept, Has
    <3>6. QED
      BY <3>2, <3>3, <3>4, <3>5 DEF Kept, Has
  <2>3. QED
    BY <2>1, <2>2 DEF IInv, Remembered
<1>6. QED
  BY <1>3, <1>4, <1>5 DEF IInv

\* The stored CRL is read, and it has what was reported done.
LEMMA NodeRestartStep ==
    ASSUME IInv, NodeRestart
    PROVE  IInv'
<1> USE DEF NodeRestart, Restart, LoadCRL
<1>1. Types'
  <2>1. Shape(NoCheck)'
    BY DEF Shape, NoCheck
  <2>2. idCache' \in [Vehicles -> [1..MaxSeq -> Nat \cup {None}]]
    BY DEF NoIds
  <2>3. \A q \in Verifiers : Shape(check[q])'
    BY <2>1 DEF Shape
  <2>4. QED
    BY <2>2, <2>3 DEF IInv, Types
<1>2. Listed'
  BY DEF IInv, Listed
<1>3. Barred'
  BY DEF Barred, NoCheck
<1>4. Remembered'
  BY DEF Remembered, NoIds, NoCheck
<1>5. QED
  BY <1>1, <1>2, <1>3, <1>4 DEF IInv

----------------------------------------------------------------------------
LEMMA NextIInv == IInv /\ [Next]_vars => IInv'
<1> SUFFICES ASSUME IInv, [Next]_vars PROVE IInv'
  OBVIOUS
<1>1. CASE UNCHANGED vars
  BY <1>1 DEF vars, idVars, msgVars, IInv, Types, Shape, Listed, Barred, Remembered, Kept, Has
<1>2. CASE Next
  BY <1>2, IdentityStep, CreateMessageStep, SenderRestartStep, VerifyMessageStep,
     LookupSenderStep, CheckCRLStep, CheckSequenceStep, UpdateSequenceStep, AcceptStep,
     CleanupStep, NodeRestartStep
  DEF Next
<1>3. QED
  BY <1>1, <1>2

LEMMA AlwaysIInv == Spec => []IInv
<1>1. Init => IInv
  BY InitIInv
<1>2. IInv /\ [Next]_vars => IInv'
  BY NextIInv
<1>3. QED
  BY <1>1, <1>2, PTL DEF Spec

\* A revocation that was reported done is never undone, by any number of
\* restarts, failed writes and other revocations.
\* (identity/service.go RevokeCertificate, storeCRL, loadCRL)
THEOREM RevocationCorrect == Spec => []RevocationDurable
<1>1. IInv => RevocationDurable
  BY DEF IInv, Listed, RevocationDurable
<1>2. QED
  BY <1>1, AlwaysIInv, PTL

\* No verification gets past the CRL on a certificate whose revocation had been
\* reported done when it began, whatever the identity cache says of it.
\* (message/service.go VerifyMessage, identity/service.go VerifyNodeAdmission)
THEOREM RevokedCorrect == Spec => []RevokedNotAccepted
<1>1. IInv => RevokedNotAccepted
  BY DEF IInv, Barred, RevokedNotAccepted
<1>2. QED
  BY <1>1, AlwaysIInv, PTL

\* A message that was accepted is never accepted by a verification that begins
\* later, whatever the skew of the sender's clock and although the id cache
\* forgets its id: it is out of the window by then.
\* (message/service.go VerifyMessage, message/types.go Cleanup)
THEOREM ReplayCorrect == Spec => []NoReplayAfterReturn
<1>1. IInv => NoReplayAfterReturn
  BY DEF IInv, Remembered, NoReplayAfterReturn
<1>2. QED
  BY <1>1, AlwaysIInv, PTL
=============================================================================
