----------------------------- MODULE PBFTProofs -----------------------------
(***************************************************************************)
(* The PBFT engines, for any number of validators, any bounds, and whether *)
(* or not messages verify.                                                 *)
(*                                                                         *)
(* The invariant says what each goroutine relies on at the step it is at:  *)
(* the message it handles was published, a vote it is about to add was     *)
(* asked for, and whoever is past the count of the votes, in whatever view *)
(* change state it counted them, knows that a quorum of validators asked   *)
(* for a view change.  What was published stays published, so no other     *)
(* goroutine takes that away, and a step of one goroutine is accounted for *)
(* by its engine, itself and the message it publishes (StepKeeps).         *)
(***************************************************************************)
EXTENDS PBFT, FiniteSetTheorems, TLAPS

\* The senders among a set of messages, and that a quorum of validators asked
\* for a view change.
From(M, type) == {m.sender : m \in {m \in M : m.type = type}}
Asked(M) == Cardinality(From(M, "view-change")) >= Quorum

\* The messages are messages, and a new view was asked for.
Genuine(M) ==
    /\ M \in SUBSET Messages
    /\ \A m \in M : m.type = "new-view" => Asked(M)

\* What an engine knows is backed by the messages M.
Backed(e, M) ==
    /\ e \in Engines
    /\ e.vc.votes \subseteq From(M, "view-change")
    /\ e.view # 0 \/ e.vsView # 0 => Asked(M)

Holds(t, M, type) == t.m \in M /\ t.m.type = type

\* What goroutine t of validator n relies on.
Working(n, t, M) ==
    /\ t \in Threads
    /\ t.pc \in {"pre-prepare", "primary", "adopt"} => Holds(t, M, "pre-prepare")
    /\ t.pc = "prepare" => Holds(t, M, "prepare")
    /\ t.pc \in {"commit", "commitBlock"} => Holds(t, M, "commit")
    /\ t.pc \in {"view-change", "add", "count", "update", "elect", "announce"} =>
         Holds(t, M, "view-change")
    /\ t.pc \in {"new-view", "check", "enter", "role", "clear"} => Holds(t, M, "new-view")
    /\ t.pc = "send" => /\ t.m \in Messages
                        /\ t.m.type = "view-change" /\ t.m.sender = n
    /\ t.pc \in {"update", "elect", "announce"} => Asked(M)
    /\ t.pc \in {"replace", "keep"} => t.view # 0
    /\ t.view # 0 /\ t.pc \notin {"states", "send"} => n \in From(M, "view-change")

\* Who published a commit has left the state it is published in.
Committers(M, E) == \A m \in M : m.type = "commit" => E[m.sender].state # "idle"

Bound(M) ==
    \A m, o \in M :
        m.type = "commit" /\ o.type = "commit" /\ m.sender = o.sender => m.block = o.block

Core ==
    /\ engine \in [Nodes -> Engines]
    /\ thread \in [Nodes -> [Goroutines -> Threads]]
    /\ Genuine(msgs)
    /\ \A n \in Nodes : Backed(engine[n], msgs)
    /\ \A n \in Nodes, g \in Goroutines : Working(n, thread[n][g], msgs)
    /\ Committers(msgs, engine)
    /\ Bound(msgs)

\* A block takes a transaction at least.
Draft == IF At(GetPrimary(0), "ticker", "draft") THEN 1 ELSE 0
Counted ==
    /\ pool \in Nat
    /\ submitted \in 0..MaxSubmits
    /\ proposed \in Nat
    /\ pool + Draft + proposed <= submitted

IInv == Core /\ Counted

----------------------------------------------------------------------------
(* The validators and the messages.                                        *)

LEMMA NodesFinite ==
    /\ IsFiniteSet(Nodes) /\ Cardinality(Nodes) = N
    /\ N \in Nat \ {0} /\ DOMAIN Validators = 1..N
    /\ Quorum \in Nat /\ Quorum <= N
<1>1. N \in Nat \ {0} /\ DOMAIN Validators = 1..N
  BY PBFTAssumption DEF N
<1>2. Validators \in Bijection(1..N, Nodes)
  BY <1>1, PBFTAssumption DEF Bijection, Injection, Surjection, IsInjective, Nodes
<1>3. IsFiniteSet(Nodes) /\ Cardinality(Nodes) = N
  <2>1. ExistsBijection(1..N, Nodes)
    BY <1>2 DEF ExistsBijection
  <2>2. IsFiniteSet(1..N) /\ Cardinality(1..N) = N
    BY <1>1, FS_Interval
  <2>3. QED
    BY <2>1, <2>2, FS_Bijection
<1>4. Quorum \in Nat /\ Quorum <= N
  BY <1>1 DEF Quorum
<1>5. QED
  BY <1>1, <1>3, <1>4

LEMMA PrimaryIsNode == \A view \in Views : GetPrimary(view) \in Nodes
<1> SUFFICES ASSUME NEW view \in Views PROVE GetPrimary(view) \in Nodes
  OBVIOUS
<1>1. view \in Nat
  BY PBFTAssumption DEF Views
<1>2. (view % N) + 1 \in 1..N
  BY <1>1, NodesFinite
<1>3. QED
  BY <1>2, NodesFinite DEF GetPrimary, Nodes

LEMMA SignType == Sign \in Nat
  BY PBFTAssumption DEF Sign, CalculateDigest

LEMMA MessageFields ==
    ASSUME NEW m \in Messages
    PROVE  /\ m.sender \in Nodes
           /\ m.type \in {"pre-prepare", "prepare", "commit", "view-change", "new-view"}
           /\ m.type \in {"pre-prepare", "prepare", "commit"} => m.block \in Blocks
           /\ m.type \in {"pre-prepare", "view-change", "new-view"} => m.view \in Views
<1>1. CASE m \in [type: {"pre-prepare"}, sender: Nodes, view: Views, block: Blocks, digest: Nat]
  BY <1>1
<1>2. CASE m \in [type: {"prepare", "commit"}, sender: Nodes, block: Blocks, digest: Nat]
  BY <1>2
<1>3. CASE m \in [type: {"view-change"}, sender: Nodes, view: Views,
                  proof: Blocks \cup {NoBlock}, digest: Nat]
  BY <1>3
<1>4. CASE m \in [type: {"new-view"}, sender: Nodes, view: Views,
                  proofs: SUBSET Nodes, digest: Nat]
  BY <1>4
<1>5. QED
  BY <1>1, <1>2, <1>3, <1>4 DEF Messages

\* What a validator publishes is a message, signed by it.
LEMMA Published ==
    ASSUME NEW n \in Nodes
    PROVE  /\ \A view \in Views, block \in Blocks :
                LET m == PrePrepareMsg(n, view, block)
                IN  m \in Messages /\ m.type = "pre-prepare" /\ m.sender = n
           /\ \A block \in Blocks :
                LET m == PrepareMsg(n, block)
                IN  m \in Messages /\ m.type = "prepare" /\ m.sender = n
           /\ \A block \in Blocks :
                LET m == CommitMsg(n, block)
                IN  m \in Messages /\ m.type = "commit" /\ m.sender = n
           /\ \A view \in Views, proof \in Blocks \cup {NoBlock} :
                LET m == ViewChangeMsg(n, view, proof)
                IN  m \in Messages /\ m.type = "view-change" /\ m.sender = n
           /\ \A vc \in ViewChangeStates :
                LET m == NewViewMsg(n, vc)
                IN  m \in Messages /\ m.type = "new-view" /\ m.sender = n
  BY SignType
  DEF PrePrepareMsg, PrepareMsg, CommitMsg, ViewChangeMsg, NewViewMsg, Messages,
      ViewChangeStates

----------------------------------------------------------------------------
(* What was published stays published.                                     *)

LEMMA FromGrows ==
    ASSUME NEW M, NEW M2, M \subseteq M2, NEW type
    PROVE  From(M, type) \subseteq From(M2, type)
  BY DEF From

\* More senders are more than a quorum.
LEMMA QuorumGrows ==
    ASSUME NEW S, NEW T, S \subseteq T, T \subseteq Nodes, Cardinality(S) >= Quorum
    PROVE  Cardinality(T) >= Quorum
<1>1. IsFiniteSet(T)
  BY NodesFinite, FS_Subset
<1>2. IsFiniteSet(S) /\ Cardinality(S) <= Cardinality(T)
  BY <1>1, FS_Subset
<1>3. Cardinality(S) \in Nat /\ Cardinality(T) \in Nat
  BY <1>1, <1>2, FS_CardinalityType
<1>4. QED
  BY <1>2, <1>3, NodesFinite

LEMMA FromNodes ==
    ASSUME NEW M \in SUBSET Messages, NEW type
    PROVE  From(M, type) \subseteq Nodes
  BY MessageFields DEF From

LEMMA AskedGrows ==
    ASSUME NEW M, NEW M2 \in SUBSET Messages, M \subseteq M2, Asked(M)
    PROVE  Asked(M2)
<1>1. From(M, "view-change") \subseteq From(M2, "view-change")
  BY FromGrows
<1>2. From(M2, "view-change") \subseteq Nodes
  BY FromNodes
<1>3. QED
  BY <1>1, <1>2, QuorumGrows DEF Asked

LEMMA BackedGrows ==
    ASSUME NEW e, NEW M, NEW M2 \in SUBSET Messages, M \subseteq M2, Backed(e, M)
    PROVE  Backed(e, M2)
  BY FromGrows, AskedGrows DEF Backed

LEMMA WorkingGrows ==
    ASSUME NEW n, NEW t, NEW M, NEW M2 \in SUBSET Messages, M \subseteq M2, Working(n, t, M)
    PROVE  Working(n, t, M2)
<1>1. n \in From(M, "view-change") => n \in From(M2, "view-change")
  BY FromGrows
<1>2. Asked(M) => Asked(M2)
  BY AskedGrows
<1>3. \A type : Holds(t, M, type) => Holds(t, M2, type)
  BY DEF Holds
<1>4. QED
  BY <1>1, <1>2, <1>3 DEF Working

----------------------------------------------------------------------------
(* A step of goroutine g of validator n, which leaves the engine as e and  *)
(* the goroutine as t, and may publish m.                                  *)

StepTo(n, g, e, t, M) ==
    /\ engine' = [engine EXCEPT ![n] = e]
    /\ thread' = [thread EXCEPT ![n][g] = t]
    /\ msgs' = M

\* A new commit comes with a state that was left.
CommitOnce(n, e, M) ==
    /\ engine[n].state # "idle" => e.state # "idle"
    /\ \/ \A m \in M \ msgs : m.type # "commit"
       \/ \E m : /\ M = msgs \cup {m}
                 /\ m.sender = n
                 /\ engine[n].state = "idle" /\ e.state # "idle"

LEMMA StepKeeps ==
    ASSUME Core, NEW n \in Nodes, NEW g \in Goroutines, NEW e, NEW t, NEW M,
           StepTo(n, g, e, t, M), msgs \subseteq M,
           Genuine(M), Backed(e, M), Working(n, t, M), CommitOnce(n, e, M)
    PROVE  Core'
<1> USE DEF StepTo
<1>0. M \in SUBSET Messages /\ msgs \in SUBSET Messages
  BY DEF Genuine, Core
<1>1. engine' \in [Nodes -> Engines] /\ thread' \in [Nodes -> [Goroutines -> Threads]]
  BY DEF Core, Backed, Working
<1>2. Genuine(msgs')
  OBVIOUS
<1>3. \A v \in Nodes : Backed(engine'[v], msgs')
  <2>1. \A v \in Nodes : v # n => engine'[v] = engine[v]
    BY DEF Core
  <2>2. engine'[n] = e
    BY DEF Core
  <2>3. QED
    BY <2>1, <2>2, <1>0, BackedGrows DEF Core
<1>4. ASSUME NEW v \in Nodes, NEW h \in Goroutines
      PROVE  Working(v, thread'[v][h], msgs')
  <2>1. CASE v = n /\ h = g
    BY <2>1 DEF Core
  <2>2. CASE ~(v = n /\ h = g)
    <3>1. thread'[v][h] = thread[v][h]
      BY <2>2 DEF Core
    <3>2. QED
      BY <3>1, <1>0, WorkingGrows DEF Core
  <2>3. QED
    BY <2>1, <2>2
<1>5. \A v \in Nodes : engine[v].state # "idle" => engine'[v].state # "idle"
  BY DEF Core, CommitOnce
<1>6. \A m \in Messages : m.sender \in Nodes
  BY MessageFields
<1>7. CASE \A m \in M \ msgs : m.type # "commit"
  <2>1. \A m \in M : m.type = "commit" => m \in msgs
    BY <1>7
  <2>2. Committers(msgs', engine')
    BY <2>1, <1>0, <1>5, <1>6 DEF Core, Committers
  <2>3. Bound(msgs')
    BY <2>1 DEF Core, Bound
  <2>4. QED
    BY <1>1, <1>2, <1>3, <1>4, <2>2, <2>3 DEF Core
<1>8. ASSUME NEW m, M = msgs \cup {m}, m.sender = n, engine[n].state = "idle",
             e.state # "idle"
      PROVE  Core'
  <2>1. engine'[n].state # "idle"
    BY <1>8 DEF Core
  <2>2. Committers(msgs', engine')
    BY <2>1, <1>8, <1>0, <1>5, <1>6 DEF Core, Committers
  <2>3. \A o \in msgs : o.type = "commit" => o.sender # n
    BY <1>8 DEF Core, Committers
  <2>4. Bound(msgs')
    BY <2>3, <1>8 DEF Core, Bound
  <2>5. QED
    BY <1>1, <1>2, <1>3, <1>4, <2>2, <2>4 DEF Core
<1>9. QED
  BY <1>7, <1>8 DEF CommitOnce
----------------------------------------------------------------------------
(* The helpers of the actions.                                             *)

After(n, g, pc, m) == [pc |-> pc, m |-> m, view |-> thread[n][g].view]

LEMMA GotoEffect ==
    ASSUME Core, NEW n \in Nodes, NEW g \in Goroutines, NEW pc, NEW m, Goto(n, g, pc, m)
    PROVE  thread' = [thread EXCEPT ![n][g] = After(n, g, pc, m)]
  BY Zenon DEF Goto, After

\* A goroutine that is not about to send its view change may return.
Sent(n, g, M) == thread[n][g].view # 0 => n \in From(M, "view-change")

LEMMA AlreadySent ==
    ASSUME Core, NEW n \in Nodes, NEW g \in Goroutines,
           thread[n][g].pc \notin {"states", "send"}
    PROVE  Sent(n, g, msgs)
  BY DEF Core, Working, Sent

LEMMA SentGrows ==
    ASSUME NEW n, NEW g, NEW M, NEW M2, M \subseteq M2, Sent(n, g, M)
    PROVE  Sent(n, g, M2)
  BY FromGrows DEF Sent

Back(n, g) ==
    After(n, g, IF thread[n][g].view = 0 THEN "idle" ELSE "replace", NoMessage)

LEMMA BackWorks ==
    ASSUME Core, NEW n \in Nodes, NEW g \in Goroutines, NEW M, Sent(n, g, M)
    PROVE  Working(n, Back(n, g), M)
<1>1. thread[n][g].view \in Views /\ 0 \in Views
  BY PBFTAssumption DEF Core, Threads, Views
<1>2. Back(n, g) \in Threads
  BY <1>1 DEF Back, After, Threads, Pcs
<1>3. CASE thread[n][g].view = 0
  BY <1>2, <1>3 DEF Back, After, Working
<1>4. CASE thread[n][g].view # 0
  BY <1>2, <1>4 DEF Back, After, Working, Sent
<1>5. QED
  BY <1>3, <1>4

LEMMA UnlockedBacked ==
    ASSUME NEW e, NEW g, NEW M, Backed(e, M)
    PROVE  /\ Backed(Unlocked(e, g), M)
           /\ Unlocked(e, g).state = e.state
<1>1. e \in Engines
  BY DEF Backed
<1>2. /\ Unlocked(e, g) \in Engines
      /\ Unlocked(e, g).vc = e.vc
      /\ Unlocked(e, g).view = e.view /\ Unlocked(e, g).vsView = e.vsView
      /\ Unlocked(e, g).state = e.state
  BY <1>1 DEF Unlocked, Engines
<1>3. QED
  BY <1>2 DEF Backed

\* What HandleMessage does to the engine and its goroutine.
LEMMA HandleMessageEffect ==
    ASSUME Core, NEW n \in Nodes, NEW g \in Goroutines, NEW e, NEW M \in SUBSET Messages,
           NEW m \in M, Backed(e, M), Sent(n, g, M), HandleMessage(n, g, e, m)
    PROVE  \E e2, t :
             /\ engine' = [engine EXCEPT ![n] = e2]
             /\ thread' = [thread EXCEPT ![n][g] = t]
             /\ Backed(e2, M) /\ e2.state = e.state
             /\ Working(n, t, M)
             /\ t.pc # "draft"
<1>1. CASE Verify(m) /\ m.sender \in Nodes
  <2>1. engine' = [engine EXCEPT ![n] = e]
    BY <1>1 DEF HandleMessage, SetEngine
  <2> DEFINE t == After(n, g, m.type, m)
  <2>2. thread' = [thread EXCEPT ![n][g] = t]
    BY <1>1, GotoEffect DEF HandleMessage
  <2>3. m.type \in {"pre-prepare", "prepare", "commit", "view-change", "new-view"}
    BY MessageFields
  <2>4. t \in Threads
    BY <2>3 DEF After, Threads, Pcs, Core
  <2>5. Holds(t, M, m.type) /\ t.pc = m.type /\ t.view = thread[n][g].view
    BY DEF After, Holds
  <2> HIDE DEF t
  <2>6. Working(n, t, M) /\ t.pc # "draft"
    BY <2>3, <2>4, <2>5 DEF Working, Sent
  <2>7. QED
    BY <2>1, <2>2, <2>6
<1>2. CASE ~(Verify(m) /\ m.sender \in Nodes)
  <2>1. engine' = [engine EXCEPT ![n] = Unlocked(e, g)]
    BY <1>2 DEF HandleMessage, ReturnWith, SetEngine
  <2>2. thread' = [thread EXCEPT ![n][g] = Back(n, g)]
    BY <1>2, GotoEffect DEF HandleMessage, ReturnWith, Return, Back
  <2>3. Back(n, g).pc # "draft"
    BY DEF Back, After
  <2>4. QED
    BY <2>1, <2>2, <2>3, BackWorks, UnlockedBacked
<1>3. QED
  BY <1>1, <1>2

\* A step in which goroutine g publishes m and hands it to the engine.
LEMMA BroadcastKeeps ==
    ASSUME Core, NEW n \in Nodes, NEW g \in Goroutines, NEW e, NEW m \in Messages,
           m.type = "new-view" => Asked(msgs),
           Backed(e, msgs \cup {m}), Sent(n, g, msgs \cup {m}),
           Broadcast(n, g, e, m),
           engine[n].state # "idle" => e.state # "idle",
           m.type = "commit" =>
             m.sender = n /\ engine[n].state = "idle" /\ e.state # "idle"
    PROVE  /\ Core'
           /\ thread'[n][g].pc # "draft"
           /\ \A v \in Nodes, h \in Goroutines :
                v # n \/ h # g => thread'[v][h] = thread[v][h]
<1> DEFINE M == msgs \cup {m}
<1>1. M \in SUBSET Messages /\ msgs \in SUBSET Messages
  BY DEF Core, Genuine
<1>2. Genuine(M)
  BY <1>1, AskedGrows DEF Core, Genuine
<1>3. PICK e2, t : /\ engine' = [engine EXCEPT ![n] = e2]
                  /\ thread' = [thread EXCEPT ![n][g] = t]
                  /\ Backed(e2, M) /\ e2.state = e.state
                  /\ Working(n, t, M)
                  /\ t.pc # "draft"
  BY <1>1, HandleMessageEffect DEF Broadcast
<1>4. StepTo(n, g, e2, t, M)
  BY <1>3 DEF StepTo, Broadcast
<1>5. CommitOnce(n, e2, M)
  BY <1>3 DEF CommitOnce
<1>6. Core'
  BY <1>2, <1>3, <1>4, <1>5, StepKeeps
<1>7. QED
  BY <1>3, <1>6 DEF Core

\* A step that publishes nothing.
LEMMA QuietKeeps ==
    ASSUME Core, NEW n \in Nodes, NEW g \in Goroutines, NEW e, NEW t,
           engine' = [engine EXCEPT ![n] = e],
           thread' = [thread EXCEPT ![n][g] = t],
           msgs' = msgs,
           Backed(e, msgs), Working(n, t, msgs),
           engine[n].state # "idle" => e.state # "idle"
    PROVE  /\ Core'
           /\ thread'[n][g] = t
           /\ \A v \in Nodes, h \in Goroutines :
                v # n \/ h # g => thread'[v][h] = thread[v][h]
<1>1. StepTo(n, g, e, t, msgs)
  BY DEF StepTo
<1>2. CommitOnce(n, e, msgs)
  BY DEF CommitOnce
<1>3. Core'
  BY <1>1, <1>2, StepKeeps DEF Core
<1>4. QED
  BY <1>3 DEF Core
----------------------------------------------------------------------------
(* The kinds of steps.                                                     *)

Rest == <<pool, submitted, proposed>>

LEMMA CountLess ==
    ASSUME Counted, Draft \in Nat, Draft' \in Nat, Draft' <= Draft, UNCHANGED Rest
    PROVE  Counted'
<1>1. pool' = pool /\ submitted' = submitted /\ proposed' = proposed
  BY DEF Rest
<1>2. submitted \in Nat
  BY PBFTAssumption DEF Counted
<1>3. pool' + Draft' + proposed' <= submitted'
  <2>1. \A p, q, u, d, d2 \in Nat : p + d + q <= u /\ d2 <= d => p + d2 + q <= u
    OBVIOUS
  <2>2. pool \in Nat /\ proposed \in Nat /\ pool + Draft + proposed <= submitted
    BY DEF Counted
  <2>3. pool + Draft' + proposed <= submitted
    BY <1>2, <2>1, <2>2
  <2>4. QED
    BY <1>1, <2>3
<1>4. pool' \in Nat /\ submitted' \in 0..MaxSubmits /\ proposed' \in Nat
  BY <1>1 DEF Counted
<1>5. QED
  BY <1>3, <1>4 DEF Counted

LEMMA CountKept ==
    ASSUME Counted, NEW n \in Nodes, NEW g \in Goroutines,
           thread'[n][g].pc # "draft",
           \A v \in Nodes, h \in Goroutines :
             v # n \/ h # g => thread'[v][h] = thread[v][h],
           UNCHANGED Rest
    PROVE  Counted'
<1>1. GetPrimary(0) \in Nodes /\ "ticker" \in Goroutines
  BY PrimaryIsNode, PBFTAssumption DEF Views, Goroutines
<1>2. At(GetPrimary(0), "ticker", "draft")' => At(GetPrimary(0), "ticker", "draft")
  BY <1>1 DEF At
<1>3. Draft \in Nat /\ Draft' \in Nat /\ Draft' <= Draft
  BY <1>2 DEF Draft
<1>4. QED
  BY <1>3, CountLess

\* A goroutine goes on.
LEMMA GoesOnKeeps ==
    ASSUME IInv, NEW n \in Nodes, NEW g \in Goroutines, NEW e, NEW pc, NEW m,
           engine' = [engine EXCEPT ![n] = e], Goto(n, g, pc, m),
           UNCHANGED msgs, UNCHANGED Rest, pc # "draft",
           Backed(e, msgs), Working(n, After(n, g, pc, m), msgs),
           engine[n].state # "idle" => e.state # "idle"
    PROVE  IInv'
<1>1. thread' = [thread EXCEPT ![n][g] = After(n, g, pc, m)]
  BY GotoEffect DEF IInv
<1>2. /\ Core'
      /\ thread'[n][g] = After(n, g, pc, m)
      /\ \A v \in Nodes, h \in Goroutines :
           v # n \/ h # g => thread'[v][h] = thread[v][h]
  BY <1>1, QuietKeeps DEF IInv
<1>3. QED
  BY <1>2, CountKept DEF IInv, After

LEMMA SameEngine ==
    ASSUME IInv, NEW n \in Nodes, UNCHANGED engine
    PROVE  engine' = [engine EXCEPT ![n] = engine[n]] /\ Backed(engine[n], msgs)
  BY DEF IInv, Core

\* A handler returns with the engine as e.
LEMMA ReturnWithKeeps ==
    ASSUME IInv, NEW n \in Nodes, NEW g \in Goroutines, NEW e, ReturnWith(n, g, e),
           UNCHANGED msgs, UNCHANGED Rest,
           thread[n][g].pc \notin {"states", "send"},
           Backed(e, msgs), engine[n].state # "idle" => e.state # "idle"
    PROVE  IInv'
<1>1. Working(n, Back(n, g), msgs)
  BY AlreadySent, BackWorks DEF IInv
<1>2. Backed(Unlocked(e, g), msgs) /\ Unlocked(e, g).state = e.state
  BY UnlockedBacked
<1>3. engine' = [engine EXCEPT ![n] = Unlocked(e, g)]
  BY DEF ReturnWith, SetEngine
<1> DEFINE pc == IF thread[n][g].view = 0 THEN "idle" ELSE "replace"
<1>4. Goto(n, g, pc, NoMessage) /\ pc # "draft"
  BY DEF ReturnWith, Return
<1>5. Working(n, After(n, g, pc, NoMessage), msgs)
  BY <1>1 DEF Back
<1> HIDE DEF pc
<1>6. QED
  BY <1>2, <1>3, <1>4, <1>5, GoesOnKeeps

\* A handler returns and leaves the engine alone.
LEMMA ReturnKeeps ==
    ASSUME IInv, NEW n \in Nodes, NEW g \in Goroutines, Return(n, g),
           UNCHANGED engine, UNCHANGED msgs, UNCHANGED Rest,
           thread[n][g].pc \notin {"states", "send"}
    PROVE  IInv'
<1>1. Working(n, Back(n, g), msgs)
  BY AlreadySent, BackWorks DEF IInv
<1>2. engine' = [engine EXCEPT ![n] = engine[n]] /\ Backed(engine[n], msgs)
  BY SameEngine
<1> DEFINE pc == IF thread[n][g].view = 0 THEN "idle" ELSE "replace"
<1>3. Goto(n, g, pc, NoMessage) /\ pc # "draft"
  BY DEF Return
<1>4. Working(n, After(n, g, pc, NoMessage), msgs)
  BY <1>1 DEF Back
<1> HIDE DEF pc
<1>5. QED
  BY <1>2, <1>3, <1>4, GoesOnKeeps

\* What a goroutine handles was published, and it is not sending a view change.
LEMMA HandlesMessage ==
    ASSUME IInv, NEW n, NEW g, NEW m \in msgs, Handles(n, g, m)
    PROVE  m \in Messages /\ thread[n][g].pc \notin {"states", "send", "replace", "keep"}
<1>1. m \in Messages
  BY DEF IInv, Core, Genuine
<1>2. QED
  BY <1>1, MessageFields DEF Handles, At

----------------------------------------------------------------------------
(* The handlers of a proposal.                                             *)

LEMMA CheckViewKeeps ==
    ASSUME IInv, NEW n \in Nodes, NEW g \in Goroutines, NEW m \in msgs, CheckView(n, g, m)
    PROVE  IInv'
<1>1. thread[n][g].pc \notin {"states", "send"} /\ UNCHANGED Rest /\ UNCHANGED msgs
  BY HandlesMessage DEF CheckView, Rest
<1>2. engine' = [engine EXCEPT ![n] = engine[n]] /\ Backed(engine[n], msgs)
  BY SameEngine DEF CheckView
<1>3. CASE Goto(n, g, "primary", m)
  <2>1. Sent(n, g, msgs)
    BY <1>1, AlreadySent DEF IInv
  <2>2. After(n, g, "primary", m) \in Threads
    BY DEF After, Threads, Pcs, IInv, Core, Genuine
  <2>3. Working(n, After(n, g, "primary", m), msgs)
    BY <2>1, <2>2 DEF Working, After, Holds, Sent, CheckView
  <2>4. QED
    BY <1>1, <1>2, <1>3, <2>3, GoesOnKeeps
<1>4. CASE Return(n, g)
  BY <1>1, <1>4, ReturnKeeps DEF CheckView
<1>5. QED
  BY <1>3, <1>4 DEF CheckView
\* What goroutine g is at and what it holds.
LEMMA ThreadFacts ==
    ASSUME IInv, NEW n \in Nodes, NEW g \in Goroutines
    PROVE  /\ thread[n][g] \in Threads
           /\ Working(n, thread[n][g], msgs)
           /\ engine[n] \in Engines /\ Backed(engine[n], msgs)
           /\ msgs \in SUBSET Messages
  BY DEF IInv, Core, Genuine

\* A goroutine at pc with the message it had, or with m, is sound when pc is a
\* step of the handler of the message.
LEMMA AfterWorks ==
    ASSUME IInv, NEW n \in Nodes, NEW g \in Goroutines, NEW m \in msgs, NEW pc,
           thread[n][g].pc \notin {"states", "send"},
           \/ pc \in {"primary", "adopt"} /\ m.type = "pre-prepare"
           \/ pc = "commitBlock" /\ m.type = "commit"
           \/ pc \in {"add", "count"} /\ m.type = "view-change"
           \/ pc \in {"update", "elect", "announce"} /\ m.type = "view-change" /\ Asked(msgs)
           \/ pc \in {"check", "enter", "role", "clear"} /\ m.type = "new-view"
    PROVE  Working(n, After(n, g, pc, m), msgs) /\ pc # "draft"
<1>1. Sent(n, g, msgs)
  BY AlreadySent DEF IInv
<1>2. After(n, g, pc, m) \in Threads
  BY ThreadFacts DEF After, Threads, Pcs
<1>3. Holds(After(n, g, pc, m), msgs, m.type)
  BY DEF After, Holds
<1>4. /\ After(n, g, pc, m).pc = pc
      /\ After(n, g, pc, m).view # 0 => n \in From(msgs, "view-change")
  BY <1>1 DEF After, Sent
<1>5. QED
  BY <1>2, <1>3, <1>4 DEF Working

LEMMA CheckPrimaryKeeps ==
    ASSUME IInv, NEW n \in Nodes, NEW g \in Goroutines, CheckPrimary(n, g)
    PROVE  IInv'
<1>1. thread[n][g].pc = "primary" /\ UNCHANGED Rest /\ UNCHANGED msgs
  BY DEF CheckPrimary, At, Rest
<1>2. engine' = [engine EXCEPT ![n] = engine[n]] /\ Backed(engine[n], msgs)
  BY SameEngine DEF CheckPrimary
<1>3. thread[n][g].m \in msgs /\ thread[n][g].m.type = "pre-prepare"
  BY <1>1, ThreadFacts DEF Working, Holds
<1>4. CASE Goto(n, g, "adopt", thread[n][g].m)
  BY <1>1, <1>2, <1>3, <1>4, AfterWorks, GoesOnKeeps
<1>5. CASE Return(n, g)
  BY <1>1, <1>5, ReturnKeeps DEF CheckPrimary
<1>6. QED
  BY <1>4, <1>5 DEF CheckPrimary

\* A step that publishes m and hands it to the engine.
LEMMA PublishingKeeps ==
    ASSUME IInv, NEW n \in Nodes, NEW g \in Goroutines, NEW e, NEW m \in Messages,
           Broadcast(n, g, e, m), UNCHANGED Rest,
           m.type = "new-view" => Asked(msgs),
           m.sender = n,
           m.type = "view-change" \/ thread[n][g].pc \notin {"states", "send"},
           Backed(e, msgs),
           engine[n].state # "idle" => e.state # "idle",
           m.type = "commit" => engine[n].state = "idle" /\ e.state # "idle"
    PROVE  IInv'
<1>1. msgs \cup {m} \in SUBSET Messages
  BY ThreadFacts
<1>2. Backed(e, msgs \cup {m})
  BY <1>1, BackedGrows
<1>3. Sent(n, g, msgs \cup {m})
  <2>1. CASE m.type = "view-change"
    BY <2>1 DEF Sent, From
  <2>2. CASE thread[n][g].pc \notin {"states", "send"}
    BY <2>2, AlreadySent, SentGrows DEF IInv
  <2>3. QED
    BY <2>1, <2>2
<1>4. /\ Core'
      /\ thread'[n][g].pc # "draft"
      /\ \A v \in Nodes, h \in Goroutines :
           v # n \/ h # g => thread'[v][h] = thread[v][h]
  BY <1>2, <1>3, BroadcastKeeps DEF IInv
<1>5. QED
  BY <1>4, CountKept DEF IInv

LEMMA AdoptBlockKeeps ==
    ASSUME IInv, NEW n \in Nodes, NEW g \in Goroutines, AdoptBlock(n, g)
    PROVE  IInv'
<1> DEFINE block == thread[n][g].m.block
           e == [engine[n] EXCEPT !.block = block]
<1>1. /\ thread[n][g].pc = "adopt"
      /\ Broadcast(n, g, e, PrepareMsg(n, block))
      /\ UNCHANGED Rest
  BY DEF AdoptBlock, At, Rest
<1>2. block \in Blocks
  BY <1>1, ThreadFacts, MessageFields DEF Working, Holds
<1> HIDE DEF block
<1>3. Backed(e, msgs) /\ e.state = engine[n].state
  BY <1>2, ThreadFacts DEF Backed, Engines
<1> HIDE DEF e
<1>4. /\ PrepareMsg(n, block) \in Messages
      /\ PrepareMsg(n, block).type = "prepare" /\ PrepareMsg(n, block).sender = n
  BY <1>2, Published
<1>5. QED
  BY <1>1, <1>3, <1>4, PublishingKeeps

LEMMA HandlePrepareKeeps ==
    ASSUME IInv, NEW n \in Nodes, NEW g \in Goroutines, NEW m \in msgs,
           HandlePrepare(n, g, m)
    PROVE  IInv'
<1> DEFINE e == [engine[n] EXCEPT !.prepares = @ \cup {m.sender}]
<1>1. /\ thread[n][g].pc \notin {"states", "send"}
      /\ m \in Messages /\ m.sender \in Nodes
      /\ g \in Goroutines \cup {Free}
  BY HandlesMessage, MessageFields DEF HandlePrepare
<1>2. UNCHANGED Rest
  BY DEF HandlePrepare, Rest
<1>3. Backed(e, msgs) /\ e.state = engine[n].state /\ e.block = engine[n].block
  BY <1>1, ThreadFacts DEF Backed, Engines
<1>4. CASE /\ e.state = "idle"
           /\ HasPrepared(e)
           /\ Broadcast(n, g, [e EXCEPT !.state = "prepared", !.statesMu = g],
                        CommitMsg(n, e.block))
  <2>1. e.block \in Blocks
    BY <1>3, <1>4, ThreadFacts DEF HasPrepared, Engines
  <2>2. /\ CommitMsg(n, e.block) \in Messages
        /\ CommitMsg(n, e.block).type = "commit" /\ CommitMsg(n, e.block).sender = n
    BY <2>1, Published
  <2> DEFINE e2 == [e EXCEPT !.state = "prepared", !.statesMu = g]
  <2> HIDE DEF e
  <2>3. Backed(e2, msgs) /\ e2.state = "prepared"
    BY <1>1, <1>3 DEF Backed, Engines
  <2>4. engine[n].state = "idle"
    BY <1>3, <1>4
  <2>5. Broadcast(n, g, e2, CommitMsg(n, e.block))
    BY <1>4
  <2> HIDE DEF e2
  <2>6. QED
    BY <1>1, <1>2, <2>2, <2>3, <2>4, <2>5, PublishingKeeps
<1>5. CASE ReturnWith(n, g, e) /\ UNCHANGED msgs
  <2> HIDE DEF e
  <2>1. QED
    BY <1>1, <1>2, <1>3, <1>5, ReturnWithKeeps
<1>6. CASE ReturnWith(n, g, engine[n]) /\ UNCHANGED msgs
  BY <1>1, <1>2, <1>6, ReturnWithKeeps, ThreadFacts
<1>7. QED
  BY <1>4, <1>5, <1>6 DEF HandlePrepare

LEMMA HandleCommitKeeps ==
    ASSUME IInv, NEW n \in Nodes, NEW g \in Goroutines, NEW m \in msgs,
           HandleCommit(n, g, m)
    PROVE  IInv'
<1> DEFINE e == [engine[n] EXCEPT !.commits = @ \cup {m.sender}]
<1>1. thread[n][g].pc \notin {"states", "send"} /\ m.type = "commit"
  <2>1. CASE Handles(n, g, m)
    BY <2>1, HandlesMessage DEF HandleCommit
  <2>2. CASE At(n, g, "commitBlock")
    BY <2>2 DEF At, HandleCommit
  <2>3. QED
    BY <2>1, <2>2 DEF HandleCommit
<1>2. m \in Messages /\ m.sender \in Nodes /\ g \in Goroutines \cup {Free}
  BY ThreadFacts, MessageFields
<1>3. UNCHANGED Rest /\ UNCHANGED msgs
  BY DEF HandleCommit, Rest
<1>4. Backed(e, msgs) /\ e.state = engine[n].state
  BY <1>2, ThreadFacts DEF Backed, Engines
<1>5. CASE ReturnWith(n, g, [engine[n] EXCEPT !.final = engine[n].block])
  <2> DEFINE e2 == [engine[n] EXCEPT !.final = engine[n].block]
  <2>1. Backed(e2, msgs) /\ e2.state = engine[n].state
    BY ThreadFacts DEF Backed, Engines
  <2>2. ReturnWith(n, g, e2)
    BY <1>5
  <2> HIDE DEF e2, e
  <2>3. QED
    BY <1>1, <1>3, <2>1, <2>2, ReturnWithKeeps
<1>6. CASE ReturnWith(n, g, engine[n])
  BY <1>1, <1>3, <1>6, ReturnWithKeeps, ThreadFacts
<1>7. CASE ReturnWith(n, g, e)
  <2> HIDE DEF e
  <2>1. QED
    BY <1>1, <1>3, <1>4, <1>7, ReturnWithKeeps
<1>8. CASE /\ SetEngine(n, [e EXCEPT !.state = "committed", !.statesMu = g])
           /\ Goto(n, g, "commitBlock", m)
  <2> DEFINE e2 == [e EXCEPT !.state = "committed", !.statesMu = g]
  <2> HIDE DEF e
  <2>1. Backed(e2, msgs) /\ e2.state = "committed"
    BY <1>2, <1>4 DEF Backed, Engines
  <2>2. engine' = [engine EXCEPT ![n] = e2]
    BY <1>8 DEF SetEngine
  <2> HIDE DEF e2
  <2>3. Working(n, After(n, g, "commitBlock", m), msgs)
    BY <1>1, AfterWorks
  <2>4. QED
    BY <1>3, <1>8, <2>1, <2>2, <2>3, GoesOnKeeps
<1>9. QED
  BY <1>5, <1>6, <1>7, <1>8 DEF HandleCommit
----------------------------------------------------------------------------
(* The handlers of a view change.                                          *)

LEMMA HandleViewChangeKeeps ==
    ASSUME IInv, NEW n \in Nodes, NEW g \in Goroutines, NEW m \in msgs,
           HandleViewChange(n, g, m)
    PROVE  IInv'
<1> DEFINE vc == IF engine[n].vc.view = m.view THEN engine[n].vc
                 ELSE [view |-> m.view, votes |-> {}]
           e == [engine[n] EXCEPT !.vc = vc, !.vcMu = g]
<1>1. /\ thread[n][g].pc \notin {"states", "send"}
      /\ m.type = "view-change" /\ m.view \in Views
  BY HandlesMessage, MessageFields DEF HandleViewChange
<1>2. /\ engine' = [engine EXCEPT ![n] = e] /\ Goto(n, g, "add", m)
      /\ UNCHANGED Rest /\ UNCHANGED msgs
  BY DEF HandleViewChange, SetEngine, Rest
<1>3. vc \in ViewChangeStates /\ vc.votes \subseteq From(msgs, "view-change")
  BY <1>1, ThreadFacts DEF Backed, Engines, ViewChangeStates
<1> HIDE DEF vc
<1>4. e \in Engines
  <2>1. engine[n] \in Engines /\ g \in Goroutines \cup {Free}
    BY ThreadFacts
  <2>2. QED
    BY <1>3, <2>1 DEF Engines
<1>5. Backed(e, msgs) /\ e.state = engine[n].state
  <2>1. /\ e.vc = vc /\ e.state = engine[n].state
        /\ e.view = engine[n].view /\ e.vsView = engine[n].vsView
    BY ThreadFacts DEF Engines
  <2> HIDE DEF e
  <2>2. QED
    BY <1>3, <1>4, <2>1, ThreadFacts DEF Backed
<1> HIDE DEF e
<1>6. Working(n, After(n, g, "add", m), msgs)
  BY <1>1, AfterWorks
<1>7. QED
  BY <1>2, <1>4, <1>5, <1>6, GoesOnKeeps

LEMMA AddViewChangeKeeps ==
    ASSUME IInv, NEW n \in Nodes, NEW g \in Goroutines, AddViewChange(n, g)
    PROVE  IInv'
<1> DEFINE m == thread[n][g].m
           e == [engine[n] EXCEPT !.vc.votes = @ \cup {m.sender}]
<1>1. /\ thread[n][g].pc = "add"
      /\ engine' = [engine EXCEPT ![n] = e] /\ Goto(n, g, "count", m)
      /\ UNCHANGED Rest /\ UNCHANGED msgs
  BY DEF AddViewChange, At, SetEngine, Rest
<1>2. m \in msgs /\ m.type = "view-change"
  BY <1>1, ThreadFacts DEF Working, Holds
<1> HIDE DEF m
<1>3. m.sender \in Nodes /\ m.sender \in From(msgs, "view-change")
  BY <1>2, ThreadFacts, MessageFields DEF From
<1>4. Backed(e, msgs) /\ e.state = engine[n].state
  BY <1>3, ThreadFacts DEF Backed, Engines, ViewChangeStates
<1> HIDE DEF e
<1>5. Working(n, After(n, g, "count", m), msgs)
  BY <1>1, <1>2, AfterWorks
<1>6. QED
  BY <1>1, <1>4, <1>5, GoesOnKeeps

LEMMA CountViewChangesKeeps ==
    ASSUME IInv, NEW n \in Nodes, NEW g \in Goroutines, CountViewChanges(n, g)
    PROVE  IInv'
<1> DEFINE m == thread[n][g].m
<1>1. thread[n][g].pc = "count" /\ UNCHANGED Rest /\ UNCHANGED msgs
  BY DEF CountViewChanges, At, Rest
<1>2. m \in msgs /\ m.type = "view-change"
  BY <1>1, ThreadFacts DEF Working, Holds
<1>3. CASE HasQuorum(engine[n].vc) /\ Goto(n, g, "update", m) /\ UNCHANGED engine
  <2>1. From(msgs, "view-change") \subseteq Nodes
    BY FromNodes, ThreadFacts
  <2>2. engine[n].vc.votes \subseteq From(msgs, "view-change")
    BY ThreadFacts DEF Backed
  <2>3. Asked(msgs)
    BY <1>3, <2>1, <2>2, QuorumGrows DEF HasQuorum, Asked
  <2>4. engine' = [engine EXCEPT ![n] = engine[n]] /\ Backed(engine[n], msgs)
    BY <1>3, SameEngine
  <2> HIDE DEF m
  <2>5. Working(n, After(n, g, "update", m), msgs)
    BY <1>1, <1>2, <2>3, AfterWorks
  <2>6. QED
    BY <1>1, <1>3, <2>4, <2>5, GoesOnKeeps
<1>4. CASE ReturnWith(n, g, engine[n])
  BY <1>1, <1>4, ReturnWithKeeps, ThreadFacts
<1>5. QED
  BY <1>3, <1>4 DEF CountViewChanges

LEMMA UpdateViewKeeps ==
    ASSUME IInv, NEW n \in Nodes, NEW g \in Goroutines, UpdateView(n, g)
    PROVE  IInv'
<1> DEFINE m == thread[n][g].m
           e == [engine[n] EXCEPT !.vsView = m.view]
<1>1. /\ thread[n][g].pc = "update"
      /\ engine' = [engine EXCEPT ![n] = e] /\ Goto(n, g, "elect", m)
      /\ UNCHANGED Rest /\ UNCHANGED msgs
  BY DEF UpdateView, At, SetEngine, Rest
<1>2. m \in msgs /\ m.type = "view-change" /\ Asked(msgs)
  BY <1>1, ThreadFacts DEF Working, Holds
<1> HIDE DEF m
<1>3. m.view \in Views
  BY <1>2, ThreadFacts, MessageFields
<1>4. Backed(e, msgs) /\ e.state = engine[n].state
  BY <1>2, <1>3, ThreadFacts DEF Backed, Engines
<1> HIDE DEF e
<1>5. Working(n, After(n, g, "elect", m), msgs)
  BY <1>1, <1>2, AfterWorks
<1>6. QED
  BY <1>1, <1>4, <1>5, GoesOnKeeps

LEMMA ElectPrimaryKeeps ==
    ASSUME IInv, NEW n \in Nodes, NEW g \in Goroutines, ElectPrimary(n, g)
    PROVE  IInv'
<1> DEFINE m == thread[n][g].m
<1>1. thread[n][g].pc = "elect" /\ UNCHANGED Rest /\ UNCHANGED msgs
  BY DEF ElectPrimary, At, Rest
<1>2. m \in msgs /\ m.type = "view-change" /\ Asked(msgs)
  BY <1>1, ThreadFacts DEF Working, Holds
<1>3. CASE Goto(n, g, "announce", m) /\ UNCHANGED engine
  <2> HIDE DEF m
  <2>1. engine' = [engine EXCEPT ![n] = engine[n]] /\ Backed(engine[n], msgs)
    BY <1>3, SameEngine
  <2>2. Working(n, After(n, g, "announce", m), msgs)
    BY <1>1, <1>2, AfterWorks
  <2>3. QED
    BY <1>1, <1>3, <2>1, <2>2, GoesOnKeeps
<1>4. CASE ReturnWith(n, g, engine[n])
  BY <1>1, <1>4, ReturnWithKeeps, ThreadFacts
<1>5. QED
  BY <1>3, <1>4 DEF ElectPrimary

LEMMA BroadcastNewViewKeeps ==
    ASSUME IInv, NEW n \in Nodes, NEW g \in Goroutines, BroadcastNewView(n, g)
    PROVE  IInv'
<1> DEFINE m == NewViewMsg(n, engine[n].vc)
<1>1. /\ thread[n][g].pc = "announce"
      /\ Broadcast(n, g, engine[n], m) /\ UNCHANGED Rest
  BY DEF BroadcastNewView, At, Rest
<1>2. engine[n].vc \in ViewChangeStates
  BY ThreadFacts DEF Engines
<1>3. m \in Messages /\ m.type = "new-view" /\ m.sender = n
  BY <1>2, Published
<1> HIDE DEF m
<1>4. Asked(msgs)
  BY <1>1, ThreadFacts DEF Working
<1>5. QED
  BY <1>1, <1>3, <1>4, ThreadFacts, PublishingKeeps

\* A step of handleNewView that leaves the engine as e.
LEMMA NewViewStep ==
    ASSUME IInv, NEW n \in Nodes, NEW g \in Goroutines, NEW m \in msgs, NEW e, NEW pc,
           m.type = "new-view", thread[n][g].pc \notin {"states", "send"},
           pc \in {"check", "enter", "role", "clear"},
           engine' = [engine EXCEPT ![n] = e], Goto(n, g, pc, m),
           UNCHANGED Rest, UNCHANGED msgs,
           Backed(e, msgs), e.state = engine[n].state
    PROVE  IInv'
<1>1. Working(n, After(n, g, pc, m), msgs) /\ pc # "draft"
  BY AfterWorks
<1>2. QED
  BY <1>1, GoesOnKeeps

LEMMA HandleNewViewKeeps ==
    ASSUME IInv, NEW n \in Nodes, NEW g \in Goroutines, NEW m \in msgs,
           HandleNewView(n, g, m)
    PROVE  IInv'
<1> DEFINE e == [engine[n] EXCEPT !.vsView = m.view]
<1>1. /\ thread[n][g].pc \notin {"states", "send"}
      /\ m.type = "new-view" /\ m.view \in Views
  BY HandlesMessage, MessageFields DEF HandleNewView
<1>2. /\ engine' = [engine EXCEPT ![n] = e] /\ Goto(n, g, "check", m)
      /\ UNCHANGED Rest /\ UNCHANGED msgs
  BY DEF HandleNewView, SetEngine, Rest
<1>3. Asked(msgs)
  BY <1>1 DEF IInv, Core, Genuine
<1>4. Backed(e, msgs) /\ e.state = engine[n].state
  BY <1>1, <1>3, ThreadFacts DEF Backed, Engines
<1> HIDE DEF e
<1>5. QED
  BY <1>1, <1>2, <1>4, NewViewStep

LEMMA CheckNewViewKeeps ==
    ASSUME IInv, NEW n \in Nodes, NEW g \in Goroutines, CheckNewView(n, g)
    PROVE  IInv'
<1> DEFINE m == thread[n][g].m
<1>1. thread[n][g].pc = "check" /\ UNCHANGED Rest /\ UNCHANGED msgs
  BY DEF CheckNewView, At, Rest
<1>2. m \in msgs /\ m.type = "new-view"
  BY <1>1, ThreadFacts DEF Working, Holds
<1>3. CASE Goto(n, g, "enter", m) /\ UNCHANGED engine
  <2> HIDE DEF m
  <2>1. engine' = [engine EXCEPT ![n] = engine[n]] /\ Backed(engine[n], msgs)
    BY <1>3, SameEngine
  <2>2. QED
    BY <1>1, <1>2, <1>3, <2>1, NewViewStep
<1>4. CASE ReturnWith(n, g, engine[n])
  BY <1>1, <1>4, ReturnWithKeeps, ThreadFacts
<1>5. QED
  BY <1>3, <1>4 DEF CheckNewView

LEMMA EnterViewKeeps ==
    ASSUME IInv, NEW n \in Nodes, NEW g \in Goroutines, EnterView(n, g)
    PROVE  IInv'
<1> DEFINE m == thread[n][g].m
           e == [engine[n] EXCEPT !.view = m.view]
<1>1. /\ thread[n][g].pc = "enter"
      /\ engine' = [engine EXCEPT ![n] = e] /\ Goto(n, g, "role", m)
      /\ UNCHANGED Rest /\ UNCHANGED msgs
  BY DEF EnterView, At, SetEngine, Rest
<1>2. m \in msgs /\ m.type = "new-view"
  BY <1>1, ThreadFacts DEF Working, Holds
<1> HIDE DEF m
<1>3. m.view \in Views /\ Asked(msgs)
  BY <1>2, ThreadFacts, MessageFields DEF IInv, Core, Genuine
<1>4. Backed(e, msgs) /\ e.state = engine[n].state
  BY <1>3, ThreadFacts DEF Backed, Engines
<1> HIDE DEF e
<1>5. QED
  BY <1>1, <1>2, <1>4, NewViewStep

LEMMA SetRoleKeeps ==
    ASSUME IInv, NEW n \in Nodes, NEW g \in Goroutines, SetRole(n, g)
    PROVE  IInv'
<1> DEFINE m == thread[n][g].m
           role == IF m.sender = n THEN "primary" ELSE "replica"
           e == [engine[n] EXCEPT !.role = role]
<1>1. /\ thread[n][g].pc = "role"
      /\ engine' = [engine EXCEPT ![n] = e] /\ Goto(n, g, "clear", m)
      /\ UNCHANGED Rest /\ UNCHANGED msgs
  BY DEF SetRole, At, SetEngine, Rest
<1>2. m \in msgs /\ m.type = "new-view"
  BY <1>1, ThreadFacts DEF Working, Holds
<1>3. role \in {"primary", "replica"}
  OBVIOUS
<1> HIDE DEF m, role
<1>4. Backed(e, msgs) /\ e.state = engine[n].state
  BY <1>3, ThreadFacts DEF Backed, Engines
<1> HIDE DEF e
<1>5. QED
  BY <1>1, <1>2, <1>4, NewViewStep

LEMMA ClearViewChangeKeeps ==
    ASSUME IInv, NEW n \in Nodes, NEW g \in Goroutines, ClearViewChange(n, g)
    PROVE  IInv'
<1> DEFINE e == [engine[n] EXCEPT !.vc = NoViewChange, !.timer = TRUE]
<1>1. /\ thread[n][g].pc = "clear" /\ ReturnWith(n, g, e)
      /\ UNCHANGED Rest /\ UNCHANGED msgs
  BY DEF ClearViewChange, At, Rest
<1>2. NoViewChange \in ViewChangeStates /\ NoViewChange.votes = {}
  BY PBFTAssumption DEF NoViewChange, ViewChangeStates, Views
<1>3. e \in Engines
  <2>1. engine[n] \in Engines
    BY ThreadFacts
  <2>2. QED
    BY <1>2, <2>1 DEF Engines
<1>4. Backed(e, msgs) /\ e.state = engine[n].state
  <2>1. /\ e.vc = NoViewChange /\ e.state = engine[n].state
        /\ e.view = engine[n].view /\ e.vsView = engine[n].vsView
    BY ThreadFacts DEF Engines
  <2> HIDE DEF e
  <2>2. QED
    BY <1>2, <1>3, <2>1, ThreadFacts DEF Backed
<1> HIDE DEF e
<1>5. QED
  BY <1>1, <1>3, <1>4, ReturnWithKeeps
----------------------------------------------------------------------------
(* The timers.                                                             *)

LEMMA TimerFiresKeeps ==
    ASSUME IInv, NEW n \in Nodes, NEW g \in Timers, TimerFires(n, g)
    PROVE  IInv'
<1> DEFINE e == [engine[n] EXCEPT !.timer = FALSE]
           t == [pc |-> "states", m |-> NoMessage, view |-> engine[n].view + 1]
<1>1. /\ engine' = [engine EXCEPT ![n] = e]
      /\ thread' = [thread EXCEPT ![n][g] = t]
      /\ msgs' = msgs /\ UNCHANGED Rest
      /\ engine[n].view + 1 \in Views
  BY DEF TimerFires, SetEngine, Rest
<1>2. Backed(e, msgs) /\ e.state = engine[n].state
  <2>1. g \in Goroutines
    BY DEF Goroutines
  <2>2. engine[n] \in Engines /\ Backed(engine[n], msgs)
    BY <2>1, ThreadFacts
  <2>3. e \in Engines
    BY <2>2 DEF Engines
  <2>4. /\ e.vc = engine[n].vc /\ e.state = engine[n].state
        /\ e.view = engine[n].view /\ e.vsView = engine[n].vsView
    BY <2>2 DEF Engines
  <2> HIDE DEF e
  <2>5. QED
    BY <2>2, <2>3, <2>4 DEF Backed
<1>3. t \in Threads
  BY <1>1 DEF Threads, Pcs
<1>4. Working(n, t, msgs) /\ t.pc # "draft"
  BY <1>3 DEF Working
<1> HIDE DEF e, t
<1>5. g \in Goroutines
  BY DEF Goroutines
<1>6. /\ Core'
      /\ thread'[n][g] = t
      /\ \A v \in Nodes, h \in Goroutines :
           v # n \/ h # g => thread'[v][h] = thread[v][h]
  <2>1. Core
    BY DEF IInv
  <2>2. engine[n].state # "idle" => e.state # "idle"
    BY <1>2
  <2>3. QED
    BY <1>1, <1>2, <1>4, <1>5, <2>1, <2>2, QuietKeeps
<1>7. QED
  BY <1>1, <1>4, <1>5, <1>6, CountKept DEF IInv

LEMMA ReadStatesKeeps ==
    ASSUME IInv, NEW n \in Nodes, NEW g \in Goroutines, ReadStates(n, g)
    PROVE  IInv'
<1> DEFINE proof == IF engine[n].state = "idle" THEN NoBlock ELSE engine[n].block
           m == ViewChangeMsg(n, thread[n][g].view, proof)
<1>1. /\ Goto(n, g, "send", m)
      /\ UNCHANGED engine /\ UNCHANGED Rest /\ UNCHANGED msgs
  BY DEF ReadStates, Rest
<1>2. proof \in Blocks \cup {NoBlock}
  BY ThreadFacts DEF Engines
<1> HIDE DEF proof
<1>3. m \in Messages /\ m.type = "view-change" /\ m.sender = n
  BY <1>2, ThreadFacts, Published DEF Threads
<1> HIDE DEF m
<1>4. After(n, g, "send", m) \in Threads
  BY <1>3, ThreadFacts DEF After, Threads, Pcs
<1>5. Working(n, After(n, g, "send", m), msgs)
  BY <1>3, <1>4 DEF Working, After
<1>6. engine' = [engine EXCEPT ![n] = engine[n]] /\ Backed(engine[n], msgs)
  BY <1>1, SameEngine
<1>7. QED
  BY <1>1, <1>5, <1>6, GoesOnKeeps

LEMMA SendViewChangeKeeps ==
    ASSUME IInv, NEW n \in Nodes, NEW g \in Goroutines, SendViewChange(n, g)
    PROVE  IInv'
<1> DEFINE m == thread[n][g].m
<1>1. /\ thread[n][g].pc = "send" /\ Broadcast(n, g, engine[n], m)
      /\ UNCHANGED Rest
  BY DEF SendViewChange, At, Rest
<1>2. m \in Messages /\ m.type = "view-change" /\ m.sender = n
  BY <1>1, ThreadFacts DEF Working
<1> HIDE DEF m
<1>3. QED
  BY <1>1, <1>2, ThreadFacts, PublishingKeeps

LEMMA ReplaceViewChangeKeeps ==
    ASSUME IInv, NEW n \in Nodes, NEW g \in Goroutines, ReplaceViewChange(n, g)
    PROVE  IInv'
<1> DEFINE vc == [view |-> thread[n][g].view, votes |-> {}]
           e == [engine[n] EXCEPT !.vc = vc]
<1>1. /\ thread[n][g].pc = "replace"
      /\ engine' = [engine EXCEPT ![n] = e] /\ Goto(n, g, "keep", NoMessage)
      /\ UNCHANGED Rest /\ UNCHANGED msgs
  BY DEF ReplaceViewChange, At, SetEngine, Rest
<1>2. vc \in ViewChangeStates /\ vc.votes = {}
  BY ThreadFacts DEF ViewChangeStates, Threads
<1> HIDE DEF vc
<1>3. /\ e \in Engines /\ e.vc = vc
      /\ e.view = engine[n].view /\ e.vsView = engine[n].vsView
      /\ e.state = engine[n].state
  BY <1>2, ThreadFacts DEF Engines
<1> HIDE DEF e
<1>4. Backed(e, msgs)
  BY <1>2, <1>3, ThreadFacts DEF Backed
<1>5. After(n, g, "keep", NoMessage) \in Threads
  BY ThreadFacts DEF After, Threads, Pcs
<1>6. thread[n][g].view # 0 /\ n \in From(msgs, "view-change")
  BY <1>1, ThreadFacts DEF Working
<1>7. Working(n, After(n, g, "keep", NoMessage), msgs)
  BY <1>5, <1>6 DEF Working, After
<1>8. QED
  BY <1>1, <1>3, <1>4, <1>7, GoesOnKeeps

LEMMA IdleWorks ==
    ASSUME NEW n, NEW M
    PROVE  Working(n, Idle, M) /\ Working(n, Dead, M)
<1>1. Idle \in Threads /\ Dead \in Threads
  BY PBFTAssumption DEF Idle, Dead, Threads, Pcs, Views
<1>2. QED
  BY <1>1 DEF Working, Idle, Dead

LEMMA KeepOwnVoteKeeps ==
    ASSUME IInv, NEW n \in Nodes, NEW g \in Goroutines, KeepOwnVote(n, g)
    PROVE  IInv'
<1>1. thread[n][g].pc = "keep" /\ UNCHANGED Rest /\ msgs' = msgs
  BY DEF KeepOwnVote, At, Rest
<1>2. n \in From(msgs, "view-change")
  BY <1>1, ThreadFacts DEF Working
<1>3. ASSUME SetEngine(n, [engine[n] EXCEPT !.vc.votes = @ \cup {n}]),
             thread' = [thread EXCEPT ![n][g] = Idle]
      PROVE  IInv'
  <2> DEFINE e == [engine[n] EXCEPT !.vc.votes = @ \cup {n}]
  <2>1. Backed(e, msgs) /\ e.state = engine[n].state
    BY <1>2, ThreadFacts DEF Backed, Engines, ViewChangeStates
  <2>2. engine' = [engine EXCEPT ![n] = e]
    BY <1>3 DEF SetEngine
  <2> HIDE DEF e
  <2>3. /\ Core'
        /\ thread'[n][g] = Idle
        /\ \A v \in Nodes, h \in Goroutines :
             v # n \/ h # g => thread'[v][h] = thread[v][h]
    <3>1. Core /\ Working(n, Idle, msgs)
      BY IdleWorks DEF IInv
    <3>2. engine[n].state # "idle" => e.state # "idle"
      BY <2>1
    <3>3. QED
      BY <1>1, <1>3, <2>1, <2>2, <3>1, <3>2, QuietKeeps
  <2>4. Idle.pc # "draft"
    BY DEF Idle
  <2>5. QED
    BY <1>1, <2>3, <2>4, CountKept DEF IInv
<1>4. ASSUME thread' = [thread EXCEPT ![n] = [h \in Goroutines |-> Dead]],
             UNCHANGED engine
      PROVE  IInv'
  <2>1. Dead \in Threads
    BY IdleWorks DEF Working
  <2>2. \A v \in Nodes, h \in Goroutines :
          thread'[v][h] = IF v = n THEN Dead ELSE thread[v][h]
    BY <1>4 DEF IInv, Core
  <2>3. thread' \in [Nodes -> [Goroutines -> Threads]]
    BY <1>4, <2>1 DEF IInv, Core
  <2>4. \A v \in Nodes, h \in Goroutines : Working(v, thread'[v][h], msgs)
    BY <2>2, IdleWorks DEF IInv, Core
  <2>5. Core'
    BY <1>1, <1>4, <2>3, <2>4 DEF IInv, Core
  <2>6. Draft \in Nat /\ Draft' \in Nat /\ Draft' <= Draft
    <3>1. GetPrimary(0) \in Nodes /\ "ticker" \in Goroutines
      BY PrimaryIsNode, PBFTAssumption DEF Views, Goroutines
    <3>2. At(GetPrimary(0), "ticker", "draft")' => At(GetPrimary(0), "ticker", "draft")
      BY <2>2, <3>1 DEF At, Dead
    <3>3. QED
      BY <3>2 DEF Draft
  <2>7. Counted'
    BY <1>1, <2>6, CountLess DEF IInv
  <2>8. QED
    BY <2>5, <2>7 DEF IInv
<1>5. QED
  BY <1>3, <1>4 DEF KeepOwnVote
----------------------------------------------------------------------------
(* The ticker and the transactions.                                        *)

LEMMA PrimaryAndTicker == GetPrimary(0) \in Nodes /\ "ticker" \in Goroutines
  BY PrimaryIsNode, PBFTAssumption DEF Views, Goroutines

LEMMA SubmitKeeps ==
    ASSUME IInv, SubmitTransaction
    PROVE  IInv'
<1>1. Core'
  BY DEF IInv, Core, SubmitTransaction
<1>2. Draft' = Draft /\ Draft \in Nat
  BY DEF Draft, At, SubmitTransaction
<1>3. /\ submitted' = submitted + 1 /\ pool' = pool + 1 /\ proposed' = proposed
      /\ submitted < MaxSubmits
  BY DEF SubmitTransaction
<1>4. /\ pool \in Nat /\ proposed \in Nat /\ submitted \in 0..MaxSubmits
      /\ pool + Draft + proposed <= submitted
  BY DEF IInv, Counted
<1>5. \A d \in Nat : pool + d + proposed <= submitted =>
        (pool + 1) + d + proposed <= submitted + 1
  BY <1>4, PBFTAssumption
<1>6. pool' + Draft' + proposed' <= submitted'
  BY <1>2, <1>3, <1>4, <1>5
<1>7. pool' \in Nat /\ proposed' \in Nat /\ submitted' \in 0..MaxSubmits
  BY <1>3, <1>4, PBFTAssumption
<1>8. QED
  BY <1>1, <1>6, <1>7 DEF IInv, Counted

LEMMA TakeTransactionsKeeps ==
    ASSUME IInv, TakeTransactions
    PROVE  IInv'
<1> DEFINE n == GetPrimary(0)
           t == After(n, "ticker", "draft", NoMessage)
<1>1. /\ thread[n]["ticker"].pc = "idle" /\ Goto(n, "ticker", "draft", NoMessage)
      /\ UNCHANGED engine /\ msgs' = msgs
      /\ pool' = IF pool > MaxTxPerBlock THEN pool - MaxTxPerBlock ELSE 0
      /\ pool > 0 /\ submitted' = submitted /\ proposed' = proposed
  BY DEF TakeTransactions, At
<1>2. n \in Nodes /\ "ticker" \in Goroutines
  BY PrimaryAndTicker
<1> HIDE DEF n
<1>3. engine' = [engine EXCEPT ![n] = engine[n]] /\ Backed(engine[n], msgs)
  BY <1>1, <1>2, SameEngine
<1>4. thread' = [thread EXCEPT ![n]["ticker"] = t]
  BY <1>1, <1>2, GotoEffect DEF IInv
<1>5. Sent(n, "ticker", msgs)
  BY <1>1, <1>2, AlreadySent DEF IInv
<1>6. t \in Threads
  BY <1>2, ThreadFacts DEF After, Threads, Pcs
<1>7. Working(n, t, msgs)
  BY <1>5, <1>6 DEF Working, After, Sent
<1>8. Core'
  BY <1>1, <1>2, <1>3, <1>4, <1>7, QuietKeeps DEF IInv
<1>9. Draft = 0 /\ Draft' \in {0, 1}
  BY <1>1 DEF Draft, At, n
<1>10. /\ pool \in Nat /\ proposed \in Nat /\ submitted \in 0..MaxSubmits
       /\ pool + proposed <= submitted
  BY <1>9 DEF IInv, Counted
<1>11. pool' \in Nat /\ pool' + 1 <= pool
  BY <1>1, <1>10, PBFTAssumption
<1>12. pool' + Draft' + proposed <= submitted
  <2>1. \A p, p2, q, u \in Nat, d \in {0, 1} :
          p2 + 1 <= p /\ p + q <= u => p2 + d + q <= u
    OBVIOUS
  <2>2. submitted \in Nat
    BY <1>10, PBFTAssumption
  <2>3. QED
    BY <1>9, <1>10, <1>11, <2>1, <2>2
<1>13. QED
  BY <1>1, <1>8, <1>10, <1>11, <1>12 DEF IInv, Counted

LEMMA ProposeBlockKeeps ==
    ASSUME IInv, ProposeBlock
    PROVE  IInv'
<1> DEFINE n == GetPrimary(0)
           m == PrePrepareMsg(n, engine[n].view, proposed + 1)
<1>1. /\ thread[n]["ticker"].pc = "draft" /\ Broadcast(n, "ticker", engine[n], m)
      /\ proposed' = proposed + 1 /\ pool' = pool /\ submitted' = submitted
  BY DEF ProposeBlock, At
<1>2. n \in Nodes /\ "ticker" \in Goroutines
  BY PrimaryAndTicker
<1>3. Draft = 1
  BY <1>1 DEF Draft, At
<1> HIDE DEF n
<1>4. /\ pool \in Nat /\ proposed \in Nat /\ submitted \in 0..MaxSubmits
      /\ pool + 1 + proposed <= submitted
  BY <1>3 DEF IInv, Counted
<1>5. proposed + 1 \in Blocks /\ engine[n].view \in Views
  <2>1. proposed + 1 \in 1..MaxSubmits
    BY <1>4, PBFTAssumption
  <2>2. QED
    BY <2>1, <1>2, ThreadFacts DEF Blocks, Engines
<1>6. m \in Messages /\ m.type = "pre-prepare" /\ m.sender = n
  BY <1>2, <1>5, Published
<1> HIDE DEF m
<1>7. engine[n] \in Engines /\ Backed(engine[n], msgs) /\ msgs \in SUBSET Messages
  BY <1>2, ThreadFacts
<1>8. Backed(engine[n], msgs \cup {m})
  BY <1>6, <1>7, BackedGrows
<1>9. Sent(n, "ticker", msgs \cup {m})
  BY <1>1, <1>2, AlreadySent, SentGrows DEF IInv
<1>10. /\ Core'
       /\ thread'[n]["ticker"].pc # "draft"
  <2>1. Core
    BY DEF IInv
  <2>2. QED
    BY <1>1, <1>2, <1>6, <1>8, <1>9, <2>1, BroadcastKeeps
<1>11. Draft' = 0
  BY <1>10 DEF Draft, At, n
<1>12. pool' + Draft' + proposed' <= submitted' /\ proposed' \in Nat
  BY <1>1, <1>4, <1>11, PBFTAssumption
<1>13. QED
  BY <1>1, <1>4, <1>10, <1>12 DEF IInv, Counted

LEMMA ProposalFailsKeeps ==
    ASSUME IInv, ProposalFails
    PROVE  IInv'
<1> DEFINE n == GetPrimary(0)
<1>1. /\ thread[n]["ticker"].pc = "draft" /\ Return(n, "ticker")
      /\ UNCHANGED engine /\ UNCHANGED msgs /\ UNCHANGED Rest
  BY DEF ProposalFails, At, Rest
<1>2. n \in Nodes /\ "ticker" \in Goroutines
  BY PrimaryAndTicker
<1> HIDE DEF n
<1>3. QED
  BY <1>1, <1>2, ReturnKeeps

----------------------------------------------------------------------------
LEMMA InitIInv == Init => IInv
<1> SUFFICES ASSUME Init PROVE IInv
  OBVIOUS
<1>1. 0 \in Views /\ NoViewChange \in ViewChangeStates /\ NoViewChange.votes = {}
  BY PBFTAssumption DEF Views, NoViewChange, ViewChangeStates
<1>2. \A n \in Nodes : NewEngine(n) \in Engines
  BY <1>1 DEF NewEngine, Engines
<1>3. \A n \in Nodes : Backed(NewEngine(n), {})
  BY <1>1, <1>2 DEF Backed, NewEngine
<1>4. Idle \in Threads
  BY IdleWorks DEF Working
<1>5. \A n \in Nodes, g \in Goroutines : Working(n, thread[n][g], msgs)
  BY IdleWorks DEF Init
<1>6. Core
  BY <1>2, <1>3, <1>4, <1>5 DEF Init, Core, Genuine, Committers, Bound
<1>7. Draft = 0
  BY PrimaryAndTicker DEF Draft, At, Init, Idle
<1>8. Counted
  BY <1>7, PBFTAssumption DEF Init, Counted
<1>9. QED
  BY <1>6, <1>8 DEF IInv

LEMMA NextKeeps == IInv /\ [Next]_vars => IInv'
<1> SUFFICES ASSUME IInv, [Next]_vars PROVE IInv'
  OBVIOUS
<1>1. CASE SubmitTransaction
  BY <1>1, SubmitKeeps
<1>2. CASE TakeTransactions
  BY <1>2, TakeTransactionsKeeps
<1>3. CASE ProposeBlock
  BY <1>3, ProposeBlockKeeps
<1>4. CASE ProposalFails
  BY <1>4, ProposalFailsKeeps
<1>5. ASSUME NEW n \in Nodes, NEW g \in Goroutines, NEW m \in msgs, Handle(n, g, m)
      PROVE  IInv'
  BY <1>5, CheckViewKeeps, HandlePrepareKeeps, HandleCommitKeeps, HandleViewChangeKeeps,
     HandleNewViewKeeps
  DEF Handle
<1>6. ASSUME NEW n \in Nodes, NEW g \in Goroutines, Step(n, g)
      PROVE  IInv'
  <2>1. CASE CheckPrimary(n, g)
    BY <2>1, CheckPrimaryKeeps
  <2>2. CASE AdoptBlock(n, g)
    BY <2>2, AdoptBlockKeeps
  <2>3. CASE AddViewChange(n, g)
    BY <2>3, AddViewChangeKeeps
  <2>4. CASE CountViewChanges(n, g)
    BY <2>4, CountViewChangesKeeps
  <2>5. CASE UpdateView(n, g)
    BY <2>5, UpdateViewKeeps
  <2>6. CASE ElectPrimary(n, g)
    BY <2>6, ElectPrimaryKeeps
  <2>7. CASE BroadcastNewView(n, g)
    BY <2>7, BroadcastNewViewKeeps
  <2>8. CASE CheckNewView(n, g)
    BY <2>8, CheckNewViewKeeps
  <2>9. CASE EnterView(n, g)
    BY <2>9, EnterViewKeeps
  <2>10. CASE SetRole(n, g)
    BY <2>10, SetRoleKeeps
  <2>11. CASE ClearViewChange(n, g)
    BY <2>11, ClearViewChangeKeeps
  <2>12. CASE ReadStates(n, g)
    BY <2>12, ReadStatesKeeps
  <2>13. CASE SendViewChange(n, g)
    BY <2>13, SendViewChangeKeeps
  <2>14. CASE ReplaceViewChange(n, g)
    BY <2>14, ReplaceViewChangeKeeps
  <2>15. CASE KeepOwnVote(n, g)
    BY <2>15, KeepOwnVoteKeeps
  <2>16. QED
    BY <1>6, <2>1, <2>2, <2>3, <2>4, <2>5, <2>6, <2>7, <2>8, <2>9, <2>10, <2>11,
       <2>12, <2>13, <2>14, <2>15
    DEF Step
<1>7. ASSUME NEW n \in Nodes, NEW g \in Timers, TimerFires(n, g)
      PROVE  IInv'
  BY <1>7, TimerFiresKeeps
<1>8. CASE UNCHANGED vars
  <2>1. Draft' = Draft
    BY <1>8 DEF Draft, At, vars
  <2>2. QED
    BY <1>8, <2>1 DEF vars, IInv, Core, Counted
<1>9. QED
  BY <1>1, <1>2, <1>3, <1>4, <1>5, <1>6, <1>7, <1>8 DEF Next

LEMMA Invariance == Spec => []IInv
  BY InitIInv, NextKeeps, PTL DEF Spec

----------------------------------------------------------------------------
\* Every engine, goroutine and message has its type, whatever the goroutines of
\* an engine do to each other.
THEOREM TypeCorrect == Spec => []TypeOK
<1>1. IInv => TypeOK
  <2> SUFFICES ASSUME IInv PROVE TypeOK
    OBVIOUS
  <2>1. /\ engine \in [Nodes -> Engines]
        /\ thread \in [Nodes -> [Goroutines -> Threads]]
        /\ msgs \in SUBSET Messages
    BY DEF IInv, Core, Genuine
  <2>2. Draft \in Nat
    BY DEF Draft
  <2>3. /\ pool \in Nat /\ proposed \in Nat /\ submitted \in 0..MaxSubmits
        /\ pool + Draft + proposed <= submitted
    BY DEF IInv, Counted
  <2>4. pool \in 0..MaxSubmits /\ proposed \in 0..submitted
    BY <2>2, <2>3, PBFTAssumption
  <2>5. QED
    BY <2>1, <2>3, <2>4 DEF TypeOK
<1>2. QED
  BY <1>1, Invariance, PTL

\* A validator never commits to two blocks of a height: a commit leaves the
\* state idle behind, in the step that publishes it, and statesMu keeps every
\* other goroutine out of that step (handlePrepare).
THEOREM OneCommitCorrect == Spec => []OneCommit
<1>1. IInv => OneCommit
  BY DEF IInv, Core, Bound, OneCommit
<1>2. QED
  BY <1>1, Invariance, PTL

\* No engine leaves view 0 before a quorum of validators asked for a view
\* change, although votes are counted for another view than they were cast for
\* (handleViewChange, initiateViewChange).
THEOREM ViewKeptCorrect == Spec => []ViewKept
<1>1. IInv => ViewKept
  <2> SUFFICES ASSUME IInv, NEW n \in Nodes, engine[n].view > 0 \/ engine[n].vsView > 0
               PROVE  Cardinality(Senders("view-change")) >= Quorum
    BY DEF ViewKept
  <2>1. engine[n].view # 0 \/ engine[n].vsView # 0
    OBVIOUS
  <2>2. Asked(msgs)
    BY <2>1 DEF IInv, Core, Backed
  <2>3. QED
    BY <2>2 DEF Asked, From, Senders
<1>2. QED
  BY <1>1, Invariance, PTL
=============================================================================
