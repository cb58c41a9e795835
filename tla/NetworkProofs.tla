--------------------------- MODULE NetworkProofs ----------------------------
(***************************************************************************)
(* The map of peers and the detector, for any peers, connections and       *)
(* bounds.                                                                 *)
(*                                                                         *)
(* A connection whose ConnectedF was called and whose DisconnectedF was    *)
(* not is known or gone.  A step that calls no handler takes no connection *)
(* out of these phases, which is all the peers in the map depend on.       *)
(***************************************************************************)
EXTENDS Network, TLAPS

Phases == {"closed", "new", "known", "dropped", "gone"}
Steps == {"idle", "bootstrap", "table", "trim", "close", "attempt"}

IInv ==
    /\ NetTypeOK
    /\ work \in [Workers -> [step: Steps, left: SUBSET Peers]]
    /\ PeersMapSound

LEMMA Naturals0 == MinPeers \in Nat /\ MinConn \in Nat /\ MaxConn \in Nat
                   /\ Timeout \in Nat /\ MaxChurn \in Nat
  BY NetworkAssumption

\* What a step does to the connections and to the map, when it calls no handler.
Quiet ==
    /\ conn' \in [Conns -> Phases]
    /\ \A c \in Conns : conn[c] \in {"known", "gone"} => conn'[c] \in {"known", "gone"}
    /\ UNCHANGED peers

LEMMA QuietSound == PeersMapSound /\ Quiet => PeersMapSound'
  BY DEF PeersMapSound, Quiet

LEMMA SameQuiet == NetTypeOK /\ UNCHANGED <<conn, peers>> => Quiet
  BY DEF NetTypeOK, Quiet, Phases

LEMMA CloseQuiet ==
    ASSUME NetTypeOK, UNCHANGED peers, NEW S, conn' = CloseAll(S)
    PROVE  Quiet
  BY DEF NetTypeOK, Quiet, Phases, CloseAll, Open, Closed

LEMMA OpenQuiet ==
    ASSUME NetTypeOK, UNCHANGED peers, NEW c \in Conns,
           conn[c] = "closed", conn' = [conn EXCEPT ![c] = "new"]
    PROVE  Quiet
  BY DEF NetTypeOK, Quiet, Phases

LEMMA DialQuiet ==
    ASSUME NetTypeOK, UNCHANGED peers, NEW p, Dial(p)
    PROVE  Quiet
  BY SameQuiet, OpenQuiet DEF Dial

----------------------------------------------------------------------------
LEMMA InitIInv == Init => IInv
<1> SUFFICES ASSUME Init PROVE IInv
  OBVIOUS
<1>1. work \in [Workers -> [step: Steps, left: SUBSET Peers]]
  BY DEF Init, Idle, Steps
<1>2. PeersMapSound
  BY DEF Init, PeersMapSound
<1>3. NetTypeOK
  BY Naturals0 DEF Init, NetTypeOK, Idle
<1>4. QED
  BY <1>1, <1>2, <1>3 DEF IInv

\* A step that leaves reach, the detector and the count of churn alone.
LEMMA WorkStep ==
    ASSUME IInv, Quiet, UNCHANGED <<reach, detector, churn>>,
           work' \in [Workers -> [step: Steps, left: SUBSET Peers]],
           work'["detector"].step # "attempt" => work["detector"].step # "attempt"
    PROVE  IInv'
<1> USE DEF detector
<1>1. PeersMapSound'
  BY QuietSound DEF IInv
<1>2. NetTypeOK'
  <2>1. \A w \in Workers : work'[w].step \in Steps /\ work'[w].left \subseteq Peers
    OBVIOUS
  <2>2. conn' \in [Conns -> Phases] /\ peers' = peers
    BY DEF Quiet
  <2>3. QED
    BY <2>1, <2>2 DEF IInv, NetTypeOK, Steps, Phases
<1>3. QED
  BY <1>1, <1>2 DEF IInv

\* A step of the environment.
LEMMA ChurnStep ==
    ASSUME IInv, Quiet, Churn, UNCHANGED <<detector, work>>, reach' \subseteq Peers
    PROVE  IInv'
<1> USE DEF detector
<1>1. PeersMapSound'
  BY QuietSound DEF IInv
<1>2. churn' \in 0..MaxChurn
  BY Naturals0 DEF IInv, NetTypeOK, Churn
<1>3. NetTypeOK'
  BY <1>2 DEF IInv, NetTypeOK, Quiet, Phases
<1>4. QED
  BY <1>1, <1>3 DEF IInv

----------------------------------------------------------------------------
(* The handlers.                                                           *)

LEMMA ConnectedFStep ==
    ASSUME IInv, NEW c \in Conns, ConnectedF(c)
    PROVE  IInv'
<1> USE DEF ConnectedF, detector
<1>1. conn' \in [Conns -> Phases]
  BY DEF IInv, NetTypeOK, Phases
<1>2. conn'[c] \in {"known", "gone"} /\ \A d \in Conns : d # c => conn'[d] = conn[d]
  BY DEF IInv, NetTypeOK
<1>3. Owner[c] \in Peers
  BY NetworkAssumption
<1>4. PeersMapSound'
  <2> SUFFICES ASSUME NEW p \in peers'
               PROVE  \E d \in Conns : Owner[d] = p /\ conn'[d] \in {"known", "gone"}
    BY DEF PeersMapSound
  <2>1. CASE p = Owner[c]
    BY <1>2, <2>1
  <2>2. CASE p # Owner[c]
    BY <1>2, <2>2 DEF IInv, PeersMapSound
  <2>3. QED
    BY <2>1, <2>2
<1>5. NetTypeOK'
  BY <1>1, <1>3 DEF IInv, NetTypeOK, Phases
<1>6. QED
  BY <1>4, <1>5 DEF IInv

\* The peer is taken out of the map with the connection, and no other peer
\* depends on it.
LEMMA DisconnectedFStep ==
    ASSUME IInv, NEW c \in Conns, DisconnectedF(c)
    PROVE  IInv'
<1> USE DEF DisconnectedF, detector
<1>1. conn' \in [Conns -> Phases] /\ \A d \in Conns : d # c => conn'[d] = conn[d]
  BY DEF IInv, NetTypeOK, Phases
<1>2. PeersMapSound'
  BY <1>1 DEF IInv, PeersMapSound
<1>3. NetTypeOK'
  BY <1>1 DEF IInv, NetTypeOK, Phases
<1>4. QED
  BY <1>2, <1>3 DEF IInv

----------------------------------------------------------------------------
(* The goroutines.                                                         *)

LEMMA DialNextStep ==
    ASSUME IInv, NEW w \in Workers, DialNext(w)
    PROVE  IInv'
<1>1. PICK p \in work[w].left :
        /\ work[w].step \in {"bootstrap", "table"}
        /\ Dial(p)
        /\ work' = [work EXCEPT ![w].left = @ \ {p}]
        /\ UNCHANGED <<reach, peers, detector, churn>>
  BY DEF DialNext
<1>2. Quiet
  BY <1>1, DialQuiet DEF IInv
<1>3. work' \in [Workers -> [step: Steps, left: SUBSET Peers]]
  BY <1>1 DEF IInv
<1>4. work'["detector"].step = work["detector"].step
  BY <1>1 DEF IInv, Workers
<1>5. QED
  BY <1>1, <1>2, <1>3, <1>4, WorkStep

LEMMA ListedTable ==
    ASSUME IInv, NEW w \in Workers, ListTable(w)
    PROVE  /\ work' \in [Workers -> [step: Steps, left: SUBSET Peers]]
           /\ work'[w].step = "table"
           /\ \A v \in Workers : v # w => work'[v] = work[v]
  BY NetworkAssumption DEF IInv, ListTable, Steps

LEMMA EndDialStep ==
    ASSUME IInv, NEW w \in Workers, EndDial(w)
    PROVE  IInv'
<1> USE DEF EndDial
<1>1. Quiet
  BY SameQuiet DEF IInv
<1>2. "detector" \in Workers
  BY DEF Workers
<1>3. CASE work[w].step = "bootstrap" /\ ListTable(w)
  <2>1. work'["detector"].step # "attempt" => work["detector"].step # "attempt"
    BY <1>2, <1>3, ListedTable
  <2>2. QED
    BY <1>1, <1>3, <2>1, ListedTable, WorkStep
<1>4. CASE work[w].step = "table" /\ work' = [work EXCEPT ![w] = Idle]
  <2>1. work' \in [Workers -> [step: Steps, left: SUBSET Peers]]
    BY <1>4 DEF IInv, Idle, Steps
  <2>2. work'["detector"].step # "attempt" => work["detector"].step # "attempt"
    BY <1>2, <1>4 DEF IInv, Idle
  <2>3. QED
    BY <1>1, <2>1, <2>2, WorkStep
<1>5. QED
  BY <1>3, <1>4

LEMMA ManageStep ==
    ASSUME IInv, Manage
    PROVE  IInv'
<1>1. "detector" \in Workers /\ "manager" \in Workers
  BY DEF Workers
<1>2. ASSUME Quiet, UNCHANGED <<reach, detector, churn>>,
             NEW s \in Steps, NEW L \in SUBSET Peers,
             work' = [work EXCEPT !["manager"] = [step |-> s, left |-> L]]
      PROVE  IInv'
  <2>1. work' \in [Workers -> [step: Steps, left: SUBSET Peers]]
    BY <1>1, <1>2 DEF IInv
  <2>2. work'["detector"] = work["detector"]
    BY <1>1, <1>2 DEF IInv
  <2>3. QED
    BY <1>2, <2>1, <2>2, WorkStep
<1>3. CASE MaintainConnections
  <2> USE DEF MaintainConnections
  <2>1. Quiet
    BY <1>3, SameQuiet DEF IInv
  <2>2. CASE ListTable("manager")
    BY <1>2, <1>3, <2>1, <2>2, NetworkAssumption DEF ListTable, Steps
  <2>3. CASE work' = [work EXCEPT !["manager"].step = "trim"]
    <3>1. work' \in [Workers -> [step: Steps, left: SUBSET Peers]]
      BY <2>3 DEF IInv, Steps
    <3>2. work'["detector"] = work["detector"]
      BY <1>1, <2>3 DEF IInv
    <3>3. QED
      BY <1>3, <2>1, <3>1, <3>2, WorkStep
  <2>4. QED
    BY <1>3, <2>2, <2>3
<1>4. CASE ChooseExcess
  <2>1. Quiet
    BY <1>4, SameQuiet DEF IInv, ChooseExcess
  <2>2. QED
    BY <1>2, <1>4, <2>1 DEF ChooseExcess, ConnectedPeers, Steps
<1>5. CASE ClosePeer
  <2>1. CASE \E p \in work["manager"].left :
               /\ conn' = CloseAll({c \in Conns : Owner[c] = p})
               /\ work' = [work EXCEPT !["manager"].left = @ \ {p}]
    <3>1. PICK p \in work["manager"].left :
            /\ conn' = CloseAll({c \in Conns : Owner[c] = p})
            /\ work' = [work EXCEPT !["manager"].left = @ \ {p}]
      BY <2>1
    <3>2. Quiet
      BY <1>5, <3>1, CloseQuiet DEF IInv, ClosePeer
    <3>3. work' \in [Workers -> [step: Steps, left: SUBSET Peers]]
      BY <3>1 DEF IInv
    <3>4. work'["detector"] = work["detector"]
      BY <1>1, <3>1 DEF IInv
    <3>5. QED
      BY <1>5, <3>2, <3>3, <3>4, WorkStep DEF ClosePeer
  <2>2. CASE work' = [work EXCEPT !["manager"] = Idle] /\ UNCHANGED conn
    <3>1. Quiet
      BY <1>5, <2>2, SameQuiet DEF IInv, ClosePeer
    <3>2. {} \in SUBSET Peers /\ "idle" \in Steps
      BY DEF Steps
    <3>3. work' = [work EXCEPT !["manager"] = [step |-> "idle", left |-> {}]]
      BY <2>2 DEF Idle
    <3>4. QED
      BY <1>2, <1>5, <3>1, <3>2, <3>3 DEF ClosePeer
  <2>3. QED
    BY <1>5, <2>1, <2>2 DEF ClosePeer
<1>6. QED
  BY <1>3, <1>4, <1>5 DEF Manage

----------------------------------------------------------------------------
(* The partition detector.                                                 *)

LEMMA CheckPartitionStep ==
    ASSUME IInv, CheckPartition
    PROVE  IInv'
<1> USE DEF CheckPartition
<1>1. "detector" \in Workers
  BY DEF Workers
<1>2. PeersMapSound'
  BY QuietSound, SameQuiet DEF IInv
<1>3. lastPeerLow' \in BOOLEAN
  OBVIOUS
<1>4. CASE SetPartitioned
  <2>1. work' \in [Workers -> [step: Steps, left: SUBSET Peers]]
    BY <1>4 DEF IInv, SetPartitioned, Steps
  <2>2. work'["detector"].step = "attempt"
    BY <1>1, <1>4 DEF IInv, SetPartitioned
  <2>3. \A w \in Workers : work'[w].step \in Steps /\ work'[w].left \subseteq Peers
    BY <2>1
  <2>4. since' \in 0..(Timeout + 1)
    BY <1>4, Naturals0 DEF SetPartitioned
  <2>5. NetTypeOK'
    BY <1>3, <1>4, <2>2, <2>3, <2>4 DEF IInv, NetTypeOK, SetPartitioned, Steps
  <2>6. QED
    BY <1>2, <2>1, <2>5 DEF IInv
<1>5. CASE SetRecovered \/ UNCHANGED <<state, since, work>>
  <2>1. NetTypeOK'
    BY <1>3, <1>5 DEF IInv, NetTypeOK, SetRecovered, Idle
  <2>2. QED
    BY <1>2, <1>5, <2>1 DEF IInv, SetRecovered
<1>6. QED
  BY <1>4, <1>5

LEMMA AttemptRecoveryStep ==
    ASSUME IInv, AttemptRecovery
    PROVE  IInv'
<1> USE DEF AttemptRecovery
<1>1. PeersMapSound'
  BY QuietSound, SameQuiet DEF IInv
<1>2. work' \in [Workers -> [step: Steps, left: SUBSET Peers]]
  BY NetworkAssumption DEF IInv, Steps
<1>3. \A w \in Workers : work'[w].step \in Steps /\ work'[w].left \subseteq Peers
  BY <1>2
<1>4. NetTypeOK'
  BY <1>3 DEF IInv, NetTypeOK, Steps
<1>5. QED
  BY <1>1, <1>2, <1>4 DEF IInv

LEMMA TickStep == IInv /\ Tick => IInv'
<1> SUFFICES ASSUME IInv, Tick PROVE IInv'
  OBVIOUS
<1>1. PeersMapSound'
  BY QuietSound, SameQuiet DEF IInv, Tick
<1>2. since' \in 0..(Timeout + 1)
  BY Naturals0 DEF IInv, NetTypeOK, Tick
<1>3. NetTypeOK'
  BY <1>2 DEF IInv, NetTypeOK, Tick
<1>4. QED
  BY <1>1, <1>3 DEF IInv, Tick

----------------------------------------------------------------------------
(* Peers and the network.                                                  *)

LEMMA EnvironmentStep ==
    ASSUME IInv, Environment
    PROVE  IInv'
<1>1. ASSUME NEW p \in Peers, Leave(p) \/ Return(p)
      PROVE  IInv'
  BY <1>1, SameQuiet, ChurnStep DEF Leave, Return, IInv, NetTypeOK
<1>2. ASSUME NEW c \in Conns, Incoming(c)
      PROVE  IInv'
  BY <1>2, OpenQuiet, ChurnStep DEF Incoming, IInv, NetTypeOK
<1>3. ASSUME NEW c \in Conns, RemoteClose(c)
      PROVE  IInv'
  BY <1>3, CloseQuiet, ChurnStep DEF RemoteClose, IInv, NetTypeOK
<1>4. QED
  BY <1>1, <1>2, <1>3 DEF Environment

LEMMA BreakStep ==
    ASSUME IInv, NEW c \in Conns, Break(c)
    PROVE  IInv'
<1>1. Quiet
  BY CloseQuiet DEF Break, IInv
<1>2. QED
  BY <1>1, WorkStep DEF Break, IInv

----------------------------------------------------------------------------
LEMMA NextIInv == IInv /\ [Next]_vars => IInv'
<1> SUFFICES ASSUME IInv, [Next]_vars PROVE IInv'
  OBVIOUS
<1>1. CASE UNCHANGED vars
  BY <1>1, SameQuiet, WorkStep DEF vars, detector, IInv
<1>2. CASE Next
  BY <1>2, ConnectedFStep, DisconnectedFStep, DialNextStep, EndDialStep, ManageStep,
     CheckPartitionStep, AttemptRecoveryStep, TickStep, EnvironmentStep, BreakStep
  DEF Next, Notify, Detect
<1>3. QED
  BY <1>1, <1>2

LEMMA AlwaysIInv == Spec => []IInv
<1>1. Init => IInv
  BY InitIInv
<1>2. IInv /\ [Next]_vars => IInv'
  BY NextIInv
<1>3. QED
  BY <1>1, <1>2, PTL DEF Spec

\* The variables have their types, and the detector is in the state
\* partitioned only between setPartitioned and attemptRecovery: the case of
\* checkPartition for that state is never taken.
\* (partition.go checkPartition, setPartitioned, attemptRecovery)
THEOREM TypeCorrect == Spec => []NetTypeOK
<1>1. IInv => NetTypeOK
  BY DEF IInv
<1>2. QED
  BY <1>1, AlwaysIInv, PTL

\* GetPeers returns no ghost: whatever connections are opened and closed, and
\* however late the handlers run, a peer in the map has a connection whose
\* DisconnectedF is still to come.  (host.go setupConnectionHandlers)
THEOREM PeersCorrect == Spec => []PeersMapSound
<1>1. IInv => PeersMapSound
  BY DEF IInv
<1>2. QED
  BY <1>1, AlwaysIInv, PTL
=============================================================================
