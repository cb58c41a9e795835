--------------------------- MODULE MessageVerify ----------------------------
(***************************************************************************)
(* Verification of V2V messages, internal/service/message, on top of the   *)
(* identity service.  Vehicles create messages on their own nodes; the     *)
(* network delivers any copy of any message at any time, intact or         *)
(* altered, and several goroutines of one node verify messages at once.    *)
(*                                                                         *)
(* Neither MessageIDCache nor SenderSeqTracker has a lock: VerifyMessage   *)
(* looks up, checks and records in separate steps, and CheckAndUpdate is a *)
(* read and a write.  The Go runtime may stop the process on such a race,  *)
(* which is one of the restarts below.  What VerifyMessage remembers is    *)
(* lost in a restart.                                                      *)
(***************************************************************************)
EXTENDS Identity

CONSTANTS
    Verifiers,   \* the callers of VerifyMessage
    Window,      \* 30 seconds, to either side
    MaxAge,      \* MessageIDCache.maxAge, 600 seconds
    Skews,       \* how far a sender's clock may be off
    MaxSeq,      \* bound: sequence numbers of one sender
    MaxMsgs      \* bound: messages created

ASSUME MessageAssumption ==
    /\ Verifiers \subseteq Callers
    /\ Window \in Nat
    /\ MaxAge \in Nat /\ MaxAge >= 2 * Window
    /\ Skews \subseteq Int
    /\ MaxSeq \in Nat
    /\ MaxMsgs \in Nat
    /\ None \notin Nat

Messages == [sender: Vehicles, seq: 1..MaxSeq, time: Int]

NoCheck == [pc |-> "idle", msg |-> None, cert |-> None, replay |-> FALSE,
            barred |-> {}]

VARIABLES
    net,        \* the messages created so far
    nextSeq,    \* SequenceManager.nextSeqNum of each sender, on its node
    idCache,    \* idCache[v][n] is when the id of sender v and number n was added
    lastSeq,    \* SenderSeqTracker.sequences, 0 for no entry
    check,      \* the VerifyMessage call of each verifier
    accepted    \* history: messages accepted since the process started

msgVars == <<net, nextSeq, idCache, lastSeq, check, accepted>>
vars == <<idVars, msgVars>>

NoIds == [v \in Vehicles |-> [n \in 1..MaxSeq |-> None]]

Init ==
    /\ IdInit
    /\ net = {}
    /\ nextSeq = [v \in Vehicles |-> 1]
    /\ idCache = NoIds
    /\ lastSeq = [v \in Vehicles |-> 0]
    /\ check = [p \in Verifiers |-> NoCheck]
    /\ accepted = {}

----------------------------------------------------------------------------
\* CreateMessage on the sender's node.  The id is a hash of sender and number.
CreateMessage(v, skew) ==
    /\ nextSeq[v] <= MaxSeq
    /\ Cardinality(net) < MaxMsgs
    /\ net' = net \cup {[sender |-> v, seq |-> nextSeq[v], time |-> now + skew]}
    /\ nextSeq' = [nextSeq EXCEPT ![v] = @ + 1]
    /\ UNCHANGED <<idVars, idCache, lastSeq, check, accepted>>

\* The sender's node starts again, and numbers its messages from 1 again.
SenderRestart(v) ==
    /\ nextSeq[v] > 1
    /\ nextSeq' = [nextSeq EXCEPT ![v] = 1]
    /\ UNCHANGED <<idVars, net, idCache, lastSeq, check, accepted>>

----------------------------------------------------------------------------
\* VerifyMessage, step by step.  A rejected message ends the call.
Moves(p, from, good, to) ==
    /\ check[p].pc = from
    /\ check' = [check EXCEPT ![p] = IF good THEN [@ EXCEPT !.pc = to] ELSE NoCheck]

Has(m) == idCache[m.sender][m.seq] # None

MsgExpired(m) == now - m.time > Window \/ now - m.time < -Window

\* MUTANT: the id is not looked up.
VerifyUnseen(p, m) ==
    /\ check[p] = NoCheck
    /\ ~MsgExpired(m)
    /\ check' = [check EXCEPT ![p] =
         [pc |-> "lookup", msg |-> m, cert |-> None,
          replay |-> m \in accepted, barred |-> revoked]]
    /\ UNCHANGED <<idVars, net, nextSeq, idCache, lastSeq, accepted>>

\* A message whose id was seen, or whose time is out of the window, is rejected
\* before anything else is looked at.
VerifyMessage(p, m) ==
    /\ check[p] = NoCheck
    /\ ~Has(m)
    /\ ~MsgExpired(m)
    /\ check' = [check EXCEPT ![p] =
         [pc |-> "lookup", msg |-> m, cert |-> None,
          replay |-> m \in accepted, barred |-> revoked]]
    /\ UNCHANGED <<idVars, net, nextSeq, idCache, lastSeq, accepted>>

\* VerifyNodeAdmission up to the certificate of the identity it found.
Admissible(identity) ==
    /\ identity # None
    /\ identity.status # "revoked"
    /\ ~CertExpired(identity)

\* VerifyMessage looks the sender up, and what it found is judged.
LookupSender(p) ==
    /\ check[p].pc = "lookup"
    /\ call[p] = NoCall
    /\ Settled(check[p].msg.sender)
    /\ LET identity == cache[check[p].msg.sender]
       IN check' = [check EXCEPT ![p] = IF Admissible(identity)
                                        THEN [@ EXCEPT !.pc = "crl", !.cert = identity.cert]
                                        ELSE NoCheck]
    /\ UNCHANGED <<idVars, net, nextSeq, idCache, lastSeq, accepted>>

\* MUTANT: the status of the identity is taken for the CRL's word.
CheckNoCRL(p) ==
    /\ Moves(p, "crl", TRUE, "seq")
    /\ UNCHANGED <<idVars, net, nextSeq, idCache, lastSeq, accepted>>

\* The rest of VerifyNodeAdmission.
CheckCRL(p) ==
    /\ \E answer \in BOOLEAN :
         /\ IsRevoked(check[p].cert, answer)
         /\ Moves(p, "crl", ~answer, "seq")
    /\ UNCHANGED <<idVars, net, nextSeq, idCache, lastSeq, accepted>>

\* msg.Verify, which an altered copy fails, and what CheckAndUpdate reads.
CheckSequence(p, intact) ==
    /\ Moves(p, "seq",
             intact /\ check[p].msg.seq > lastSeq[check[p].msg.sender], "update")
    /\ UNCHANGED <<idVars, net, nextSeq, idCache, lastSeq, accepted>>

\* What CheckAndUpdate writes.
UpdateSequence(p) ==
    /\ Moves(p, "update", TRUE, "add")
    /\ lastSeq' = [lastSeq EXCEPT ![check[p].msg.sender] = check[p].msg.seq]
    /\ UNCHANGED <<idVars, net, nextSeq, idCache, accepted>>

\* idCache.Add, and the message is accepted.
Accept(p) ==
    LET m == check[p].msg IN
    /\ check[p].pc = "add"
    /\ idCache' = [idCache EXCEPT ![m.sender][m.seq] = now]
    /\ accepted' = accepted \cup {m}
    /\ check' = [check EXCEPT ![p] = NoCheck]
    /\ UNCHANGED <<idVars, net, nextSeq, lastSeq>>

\* cleanupLoop.
Cleanup ==
    LET Old(v, n) == idCache[v][n] # None /\ now - idCache[v][n] > MaxAge IN
    /\ \E v \in Vehicles, n \in 1..MaxSeq : Old(v, n)
    /\ idCache' = [v \in Vehicles |-> [n \in 1..MaxSeq |->
         IF Old(v, n) THEN None ELSE idCache[v][n]]]
    /\ UNCHANGED <<idVars, net, nextSeq, lastSeq, check, accepted>>

\* The node stops, at any step, and starts again.
NodeRestart ==
    /\ Restart
    /\ idCache' = NoIds
    /\ lastSeq' = [v \in Vehicles |-> 0]
    /\ check' = [p \in Verifiers |-> NoCheck]
    /\ accepted' = {}
    /\ UNCHANGED <<net, nextSeq>>

Next ==
    \/ IdNext /\ UNCHANGED msgVars
    \/ \E v \in Vehicles, skew \in Skews : CreateMessage(v, skew)
    \/ \E v \in Vehicles : SenderRestart(v)
    \/ \E p \in Verifiers, m \in net : VerifyMessage(p, m)
    \/ \E p \in Verifiers :
         \/ LookupSender(p)
         \/ CheckCRL(p)
         \/ \E intact \in BOOLEAN : CheckSequence(p, intact)
         \/ UpdateSequence(p)
         \/ Accept(p)
    \/ Cleanup
    \/ NodeRestart

Spec == Init /\ [][Next]_vars

----------------------------------------------------------------------------
\* Every variable holds values of its type, and a call past admission has the
\* certificate it was admitted with.
MsgTypeOK ==
    /\ IdTypeOK
    /\ net \subseteq Messages
    /\ nextSeq \in [Vehicles -> 1..(MaxSeq + 1)]
    /\ idCache \in [Vehicles -> [1..MaxSeq -> 0..MaxTime \cup {None}]]
    /\ lastSeq \in [Vehicles -> 0..MaxSeq]
    /\ accepted \subseteq net
    /\ \A p \in Verifiers :
         /\ check[p].pc \in {"idle", "lookup", "crl", "seq", "update", "add"}
         /\ check[p].pc # "idle" => check[p].msg \in net
         /\ check[p].pc \in {"crl", "seq", "update", "add"} => check[p].cert \in Certs

\* No message is admitted on a certificate whose revocation had been reported
\* done, in this run of the process or an earlier one, when its verification
\* began: not when marking the identity failed to be stored, when a rotation
\* made it active again, or when a racing lookup cached it as it was before.
\* (message/service.go VerifyMessage, identity/service.go VerifyNodeAdmission)
RevokedNotAccepted ==
    \A p \in Verifiers :
        check[p].pc \in {"seq", "update", "add"} => check[p].cert \notin check[p].barred

\* A message whose verification begins after the same message was accepted is
\* not accepted again while the process runs, although racing calls may take
\* the sender's last sequence number back and the id cache forgets old ids.
\* (message/service.go VerifyMessage, message/types.go Cleanup)
NoReplayAfterReturn ==
    \A p \in Verifiers : check[p].pc = "add" => ~check[p].replay
=============================================================================
