------------------------------ MODULE Network -------------------------------
(***************************************************************************)
(* The connections of a node, internal/service/network: the host's map of  *)
(* peers, which libp2p's notifications keep (host.go), the connection      *)
(* manager, discovery (discovery.go) and the partition detector            *)
(* (partition.go).                                                         *)
(*                                                                         *)
(* A connection is opened by either side, and libp2p calls ConnectedF and, *)
(* once it is closed, DisconnectedF for it, in this order but some time    *)
(* after the fact.  A peer may have several connections.  Dialling a peer  *)
(* succeeds when the peer can be reached; peers come into reach and leave  *)
(* it, and close connections, as they like, MaxChurn times in all.  The    *)
(* goroutines that dial, one peer at a time, are the detector and the      *)
(* connection manager; what Start and mDNS dial counts as the peer's doing.*)
(***************************************************************************)
EXTENDS Integers, FiniteSets

CONSTANTS
    Peers,        \* the other nodes
    Bootstrap,    \* the configured bootstrap peers
    Tables,       \* what the routing table of the DHT may hold
    Conns,        \* bound: the connections that exist at a time
    Owner,        \* the peer at the other end of each
    MinPeers,     \* MinPeersForConnected
    MinConn,      \* host.minConn
    MaxConn,      \* host.maxConn
    Timeout,      \* PartitionRecoveryTimeout, in ticks
    MaxChurn      \* bound: what peers and the network do of their own accord

ASSUME NetworkAssumption ==
    /\ Bootstrap \subseteq Peers
    /\ Tables \subseteq SUBSET Peers
    /\ Owner \in [Conns -> Peers]
    /\ {MinPeers, MinConn, MaxConn, Timeout, MaxChurn} \subseteq Nat
    /\ MinConn <= MaxConn     \* config.go Validate
    /\ MinPeers <= MaxConn

VARIABLES
    reach,          \* the peers a dial reaches
    conn,           \* the phase of each connection
    peers,          \* h.peers, the peers of GetPeers
    state,          \* pd.state
    since,          \* time since pd.partitionStart
    lastPeerLow,    \* pd.lastPeerCount < MinPeersForConnected
    work,           \* what each goroutine is at, and the peers it has left
    churn           \* how much has happened of the environment's accord

vars == <<reach, conn, peers, state, since, lastPeerLow, work, churn>>
detector == <<state, since, lastPeerLow>>

Workers == {"detector", "manager"}

Idle == [step |-> "idle", left |-> {}]

\* NewHost and Host.Start, before a peer was dialled.
Init ==
    /\ reach \in SUBSET Peers
    /\ conn = [c \in Conns |-> "closed"]
    /\ peers = {}
    /\ state = "connected"
    /\ since = Timeout + 1
    /\ lastPeerLow = TRUE
    /\ work = [w \in Workers |-> Idle]
    /\ churn = 0

----------------------------------------------------------------------------
(* Connections.  A connection is new until ConnectedF was called for it,   *)
(* then known; once closed it is dropped (both calls to come) or gone (one *)
(* to come).                                                               *)

Open(c) == conn[c] \in {"new", "known"}

Connected(p) == \E c \in Conns : Owner[c] = p /\ Open(c)

\* Host.PeerCount: the peers libp2p has a connection to.
ConnectedPeers == {p \in Peers : Connected(p)}

PeerCount == Cardinality(ConnectedPeers)

Closed(phase) == IF phase = "new" THEN "dropped" ELSE "gone"

CloseAll(S) == [c \in Conns |-> IF c \in S /\ Open(c) THEN Closed(conn[c]) ELSE conn[c]]

\* MUTANT: it runs in a goroutine of its own, after DisconnectedF perhaps.
ConnectedLate(c) ==
    /\ \/ conn[c] = "new" /\ conn' = [conn EXCEPT ![c] = "known"]
       \/ conn[c] = "dropped" /\ conn' = [conn EXCEPT ![c] = "closed"]
    /\ peers' = peers \cup {Owner[c]}
    /\ UNCHANGED <<reach, detector, work, churn>>

\* setupConnectionHandlers, ConnectedF.
ConnectedF(c) ==
    /\ \/ conn[c] = "new" /\ conn' = [conn EXCEPT ![c] = "known"]
       \/ conn[c] = "dropped" /\ conn' = [conn EXCEPT ![c] = "gone"]
    /\ peers' = peers \cup {Owner[c]}
    /\ UNCHANGED <<reach, detector, work, churn>>

\* DisconnectedF: the peer is removed, another connection to it or not.
DisconnectedF(c) ==
    /\ conn[c] = "gone"
    /\ conn' = [conn EXCEPT ![c] = "closed"]
    /\ peers' = peers \ {Owner[c]}
    /\ UNCHANGED <<reach, detector, work, churn>>

\* libp2p's Connect, in Host.Connect and FindPeersViaDHT: nothing is done for
\* a peer that is connected, and nothing comes of it for one out of reach.
Dial(p) ==
    IF Connected(p) \/ p \notin reach
    THEN UNCHANGED conn
    ELSE \E c \in Conns : /\ Owner[c] = p
                          /\ conn[c] = "closed"
                          /\ conn' = [conn EXCEPT ![c] = "new"]

----------------------------------------------------------------------------
(* The goroutines.                                                         *)

\* connectToBootstrapPeers and FindPeersViaDHT: the next peer is dialled.
DialNext(w) ==
    \E p \in work[w].left :
        /\ work[w].step \in {"bootstrap", "table"}
        /\ Dial(p)
        /\ work' = [work EXCEPT ![w].left = @ \ {p}]
        /\ UNCHANGED <<reach, peers, detector, churn>>

\* FindPeersViaDHT lists the routing table.
ListTable(w) ==
    \E table \in Tables :
        work' = [work EXCEPT ![w] = [step |-> "table", left |-> table]]

\* The last peer was dialled.  The detector goes on with the routing table
\* after the bootstrap peers; refreshPeerConnections, at its end, compares the
\* Connectedness of each known peer with itself and so dials none.
EndDial(w) ==
    /\ work[w].left = {}
    /\ \/ work[w].step = "bootstrap" /\ ListTable(w)
       \/ work[w].step = "table" /\ work' = [work EXCEPT ![w] = Idle]
    /\ UNCHANGED <<reach, conn, peers, detector, churn>>

\* maintainConnections: too few, too many, or nothing to do.
MaintainConnections ==
    /\ work["manager"] = Idle
    /\ \/ PeerCount < MinConn /\ ListTable("manager")
       \/ /\ PeerCount > MaxConn
          /\ work' = [work EXCEPT !["manager"].step = "trim"]
    /\ UNCHANGED <<reach, conn, peers, detector, churn>>

\* MUTANT: one of the peers to close is left out.
ChooseAllButOne ==
    /\ work["manager"].step = "trim"
    /\ \E S \in SUBSET ConnectedPeers :
         /\ Cardinality(S) = IF PeerCount > MaxConn THEN PeerCount - MaxConn - 1 ELSE 0
         /\ work' = [work EXCEPT !["manager"] = [step |-> "close", left |-> S]]
    /\ UNCHANGED <<reach, conn, peers, detector, churn>>

\* The peers are read again, and the first of them beyond MaxConn are chosen.
ChooseExcess ==
    /\ work["manager"].step = "trim"
    /\ \E S \in SUBSET ConnectedPeers :
         /\ Cardinality(S) = IF PeerCount > MaxConn THEN PeerCount - MaxConn ELSE 0
         /\ work' = [work EXCEPT !["manager"] = [step |-> "close", left |-> S]]
    /\ UNCHANGED <<reach, conn, peers, detector, churn>>

\* ClosePeer closes every connection of the peer.
ClosePeer ==
    /\ work["manager"].step = "close"
    /\ \/ \E p \in work["manager"].left :
            /\ conn' = CloseAll({c \in Conns : Owner[c] = p})
            /\ work' = [work EXCEPT !["manager"].left = @ \ {p}]
       \/ /\ work["manager"].left = {}
          /\ work' = [work EXCEPT !["manager"] = Idle]
          /\ UNCHANGED conn
    /\ UNCHANGED <<reach, peers, detector, churn>>

----------------------------------------------------------------------------
(* The partition detector.                                                 *)

\* setPartitioned, up to attemptRecovery.
SetPartitioned ==
    /\ state' = "partitioned"
    /\ since' = 0
    /\ work' = [work EXCEPT !["detector"].step = "attempt"]

\* setRecovered; a node that is connected stays so.
SetRecovered ==
    /\ state' = "connected"
    /\ UNCHANGED <<since, work>>

\* MUTANT: a recovery that times out is attempted again, without going back to
\* partitioned first; attemptRecovery returns at once.
CheckRetriesInPlace ==
    /\ work["detector"] = Idle
    /\ lastPeerLow' = (PeerCount < MinPeers)
    /\ IF PeerCount >= MinPeers
       THEN SetRecovered
       ELSE IF state = "connected" /\ lastPeerLow
            THEN SetPartitioned
            ELSE UNCHANGED <<state, since, work>>
    /\ UNCHANGED <<reach, conn, peers, churn>>

\* checkPartition.  Its case for the state partitioned is
\* left out: see NetTypeOK.
CheckPartition ==
    /\ work["detector"] = Idle
    /\ lastPeerLow' = (PeerCount < MinPeers)
    /\ IF PeerCount >= MinPeers
       THEN SetRecovered
       ELSE IF \/ state = "connected" /\ lastPeerLow
               \/ state = "recovering" /\ since > Timeout
            THEN SetPartitioned
            ELSE UNCHANGED <<state, since, work>>
    /\ UNCHANGED <<reach, conn, peers, churn>>

\* MUTANT: the attempt is over before the state says so.
AttemptUnmarked ==
    /\ work["detector"].step = "attempt"
    /\ work' = [work EXCEPT !["detector"] = [step |-> "bootstrap", left |-> Bootstrap]]
    /\ UNCHANGED <<reach, conn, peers, detector, churn>>

\* attemptRecovery starts to dial.
AttemptRecovery ==
    /\ work["detector"].step = "attempt"
    /\ state' = "recovering"
    /\ work' = [work EXCEPT !["detector"] = [step |-> "bootstrap", left |-> Bootstrap]]
    /\ UNCHANGED <<reach, conn, peers, since, lastPeerLow, churn>>

Tick ==
    /\ since <= Timeout
    /\ since' = since + 1
    /\ UNCHANGED <<reach, conn, peers, state, lastPeerLow, work, churn>>

----------------------------------------------------------------------------
(* Peers and the network.                                                  *)

Churn == churn < MaxChurn /\ churn' = churn + 1

\* A peer leaves or comes back into reach.
Leave(p) ==
    /\ p \in reach
    /\ reach' = reach \ {p}
    /\ Churn
    /\ UNCHANGED <<conn, peers, detector, work>>

Return(p) ==
    /\ p \notin reach
    /\ reach' = reach \cup {p}
    /\ Churn
    /\ UNCHANGED <<conn, peers, detector, work>>

\* A peer in reach connects to this node, a second time perhaps, or is dialled
\* because it is a bootstrap peer (Start) or mDNS found it (HandlePeerFound).
Incoming(c) ==
    /\ Owner[c] \in reach
    /\ conn[c] = "closed"
    /\ conn' = [conn EXCEPT ![c] = "new"]
    /\ Churn
    /\ UNCHANGED <<reach, peers, detector, work>>

\* A peer closes a connection.
RemoteClose(c) ==
    /\ Open(c)
    /\ conn' = CloseAll({c})
    /\ Churn
    /\ UNCHANGED <<reach, peers, detector, work>>

\* A connection to a peer out of reach is found broken.
Break(c) ==
    /\ Open(c)
    /\ Owner[c] \notin reach
    /\ conn' = CloseAll({c})
    /\ UNCHANGED <<reach, peers, detector, work, churn>>

Notify == \E c \in Conns : ConnectedF(c) \/ DisconnectedF(c)

Environment ==
    \/ \E p \in Peers : Leave(p) \/ Return(p)
    \/ \E c \in Conns : Incoming(c) \/ RemoteClose(c)

Manage == MaintainConnections \/ ChooseExcess \/ ClosePeer

Detect == CheckPartition \/ AttemptRecovery

Next ==
    \/ Notify
    \/ \E w \in Workers : DialNext(w) \/ EndDial(w)
    \/ Manage
    \/ Detect
    \/ Tick
    \/ Environment
    \/ \E c \in Conns : Break(c)

Spec == Init /\ [][Next]_vars

\* The goroutines, their tickers, libp2p's notifications and its discovery of
\* broken connections go on; peers and the network need do nothing.
FairSpec ==
    /\ Spec
    /\ WF_vars(Notify)
    /\ \A w \in Workers : WF_vars(DialNext(w) \/ EndDial(w))
    /\ WF_vars(Manage)
    /\ WF_vars(Detect)
    /\ WF_vars(Tick)
    /\ \A c \in Conns : WF_vars(Break(c))

----------------------------------------------------------------------------
\* The variables have their types, and between two checks the detector is
\* never in the state partitioned: that case of checkPartition, and with it
\* MaxPartitionDuration, is dead code.  (partition.go setPartitioned)
NetTypeOK ==
    /\ reach \subseteq Peers
    /\ conn \in [Conns -> {"closed", "new", "known", "dropped", "gone"}]
    /\ peers \subseteq Peers
    /\ state \in {"connected", "partitioned", "recovering"}
    /\ since \in 0..(Timeout + 1)
    /\ lastPeerLow \in BOOLEAN
    /\ \A w \in Workers :
         /\ work[w].step \in {"idle", "bootstrap", "table", "trim", "close", "attempt"}
         /\ work[w].left \subseteq Peers
    /\ churn \in 0..MaxChurn
    /\ work["detector"].step # "attempt" => state # "partitioned"

\* No ghost peers: a peer that GetPeers returns has a connection, or one whose
\* DisconnectedF is still to come, whatever connections of it were opened and
\* closed, and in whatever order the handlers ran.
\* (host.go setupConnectionHandlers)
PeersMapSound ==
    \A p \in peers : \E c \in Conns : Owner[c] = p /\ conn[c] \in {"known", "gone"}

\* A node whose connections are and stay too few notices, and a node that
\* enough bootstrap peers come back to recovers for good, however many
\* attempts failed before.  (partition.go checkPartition, attemptRecovery)
DetectorTracks ==
    /\ <>[](PeerCount < MinPeers) => <>[](state # "connected")
    /\ <>[](Cardinality(Bootstrap \cap reach) >= MinPeers) => <>[](state = "connected")

\* Once peers leave it alone the node ends with no more connections than it
\* may have: the searches of the detector and the manager, which dial all they
\* find, and the trimming do not chase each other.  (host.go maintainConnections)
ConnectionsSettle == <>[](PeerCount <= MaxConn)
=============================================================================
