-------------------------------- MODULE PBFT --------------------------------
(***************************************************************************)
(* The PBFT engines of a set of validators, internal/core/consensus, wired *)
(* as cmd/v2v-node/start.go wires one: every message an engine signs is    *)
(* published by gossip and handed to its own HandleMessage before the      *)
(* call returns.                                                           *)
(*                                                                         *)
(* An engine is worked on by several goroutines: that of its gossip        *)
(* subscription, the block ticker of the engine that was primary when it   *)
(* started, and the functions of its view change timers.  Each has a       *)
(* program counter, and a step ends where the code gives another goroutine *)
(* of the engine a chance: where it waits for statesMu or vcMu, and at     *)
(* every access to what no mutex guards (the validator set's view, the     *)
(* role, viewChangeState in initiateViewChange).  A message is published   *)
(* in the step before, as its delivery may be late anyway, and delivered   *)
(* in the first step of its handler, as until then it may be under way.    *)
(* Go's mutexes are not reentrant: a goroutine that waits for a mutex it   *)
(* holds waits for ever.                                                   *)
(*                                                                         *)
(* The height under consensus is one and the same, as no block is ever     *)
(* added to the chain (see CommitBlock), and a message needs no sequence   *)
(* number.  A block is the number of its proposal, and the request pools   *)
(* are the number of their transactions.  Every message may be lost,       *)
(* delayed or delivered again; validators follow the code and their        *)
(* processes are not restarted.                                            *)
(***************************************************************************)
EXTENDS Integers, Sequences, FiniteSets

CONSTANTS
    Validators,      \* the validator set, in its order
    Timers,          \* bound: timer functions an engine runs at a time
    DigestCovered,   \* serializeForSign covers Digest: TRUE in the code
    SenderIsSigner,  \* an address is that of the signing key: FALSE in the code
    MaxTxPerBlock,   \* PBFTConfig.MaxTxPerBlock
    MaxSubmits,      \* bound: transactions submitted, hence blocks
    MaxView,         \* bound: the views that timers ask for
    MaxEvents        \* bound: transactions and view changes together

Nodes == {Validators[i] : i \in DOMAIN Validators}
N == Len(Validators)
Free == "free"
Goroutines == {"gossip", "ticker"} \cup Timers

ASSUME PBFTAssumption ==
    /\ Validators \in Seq(Nodes)
    /\ N > 0
    /\ \A i, j \in DOMAIN Validators : Validators[i] = Validators[j] => i = j
    /\ Timers \cap {"gossip", "ticker", Free} = {}
    /\ DigestCovered \in BOOLEAN
    /\ SenderIsSigner \in BOOLEAN
    /\ MaxTxPerBlock \in Nat \ {0}
    /\ MaxSubmits \in Nat
    /\ MaxView \in Nat
    /\ MaxEvents \in Nat

NoBlock == 0
Blocks == 1..MaxSubmits
Views == 0..MaxView

\* The messages.  A prepare and a commit name their block; that they carry a
\* view too is of no account, no handler reads it.  A view change names the
\* block it has a prepared proof of.  Of the proofs of a new view, whose votes
\* they are.
Messages ==
    [type: {"pre-prepare"}, sender: Nodes, view: Views, block: Blocks, digest: Nat]
        \cup [type: {"prepare", "commit"}, sender: Nodes, block: Blocks, digest: Nat]
        \cup [type: {"view-change"}, sender: Nodes, view: Views,
              proof: Blocks \cup {NoBlock}, digest: Nat]
        \cup [type: {"new-view"}, sender: Nodes, view: Views,
              proofs: SUBSET Nodes, digest: Nat]
NoMessage == [type |-> "none"]

\* The votes of the view change under way; view 0 stands for none.
ViewChangeStates == [view: Views, votes: SUBSET Nodes]
NoViewChange == [view |-> 0, votes |-> {}]

Engines ==
    [view: Views,                  \* PBFTEngine.view.Number
     vsView: Views,                \* ValidatorSet.ViewNumber
     role: {"primary", "replica"},
     block: Blocks \cup {NoBlock}, \* ConsensusState.BlockHash, PrePrepareMsg
     prepares: SUBSET Nodes,       \* the senders of PrepareMsgs
     commits: SUBSET Nodes,        \* the senders of CommitMsgs
     state: {"idle", "prepared", "committed"},
     final: Blocks \cup {NoBlock}, \* the block commitBlock added to the chain
     vc: ViewChangeStates,         \* viewChangeState
     timer: BOOLEAN,               \* the view change timer is running
     statesMu: Goroutines \cup {Free},
     vcMu: Goroutines \cup {Free}]

\* Where a goroutine is (at the type of a message, before the first step of its
\* handler), the message it handles, and in the function of a timer the view it
\* asks for.
Pcs == {"idle", "dead", "draft",
        "pre-prepare", "primary", "adopt", "prepare", "commit", "commitBlock",
        "view-change", "add", "count", "update", "elect", "announce",
        "new-view", "check", "enter", "role", "clear",
        "states", "send", "replace", "keep"}
Threads == [pc: Pcs, m: Messages \cup {NoMessage}, view: Views]
Idle == [pc |-> "idle", m |-> NoMessage, view |-> 0]
Dead == [pc |-> "dead", m |-> NoMessage, view |-> 0]

VARIABLES
    engine,      \* the engine of each validator
    thread,      \* the goroutines of each validator
    msgs,        \* the messages published
    pool,        \* requestPool and highPriorityPool of the first primary
    submitted,   \* transactions submitted so far
    proposed     \* blocks proposed so far

vars == <<engine, thread, msgs, pool, submitted, proposed>>

----------------------------------------------------------------------------
Quorum == (N * 2) \div 3 + 1
GetPrimary(view) == Validators[(view % N) + 1]

\* A digest is how deep hashes are nested in it: 0 is the empty hash, and the
\* hash of a message that holds a digest is one level deeper.
CalculateDigest(digest) == IF DigestCovered THEN digest + 1 ELSE 1
Sign == CalculateDigest(0)

\* The digest is recomputed, and the address recovered from the signature is
\* compared with the sender.
Verify(m) == CalculateDigest(m.digest) = m.digest /\ SenderIsSigner

PrePrepareMsg(n, view, block) ==
    [type |-> "pre-prepare", sender |-> n, view |-> view, block |-> block,
     digest |-> Sign]
PrepareMsg(n, block) ==
    [type |-> "prepare", sender |-> n, block |-> block, digest |-> Sign]
CommitMsg(n, block) ==
    [type |-> "commit", sender |-> n, block |-> block, digest |-> Sign]
ViewChangeMsg(n, view, proof) ==
    [type |-> "view-change", sender |-> n, view |-> view, proof |-> proof,
     digest |-> Sign]
NewViewMsg(n, vc) ==
    [type |-> "new-view", sender |-> n, view |-> vc.view, proofs |-> vc.votes,
     digest |-> Sign]

\* NewPBFTEngine and Start.
NewEngine(n) ==
    [view |-> 0, vsView |-> 0,
     role |-> IF n = GetPrimary(0) THEN "primary" ELSE "replica",
     block |-> NoBlock, prepares |-> {}, commits |-> {}, state |-> "idle",
     final |-> NoBlock, vc |-> NoViewChange, timer |-> TRUE,
     statesMu |-> Free, vcMu |-> Free]

Init ==
    /\ engine = [n \in Nodes |-> NewEngine(n)]
    /\ thread = [n \in Nodes |-> [g \in Goroutines |-> Idle]]
    /\ msgs = {}
    /\ pool = 0
    /\ submitted = 0
    /\ proposed = 0

----------------------------------------------------------------------------
At(n, g, pc) == thread[n][g].pc = pc

\* Goroutine g of validator n goes on at pc with message m.
Goto(n, g, pc, m) ==
    thread' = [thread EXCEPT ![n][g] = [pc |-> pc, m |-> m, view |-> @.view]]

\* The handlers return: to the rest of initiateViewChange, or all the way.
Return(n, g) ==
    Goto(n, g, IF thread[n][g].view = 0 THEN "idle" ELSE "replace", NoMessage)

\* The deferred Unlocks that come with it.
Unlocked(e, g) == [e EXCEPT !.statesMu = IF @ = g THEN Free ELSE @,
                            !.vcMu = IF @ = g THEN Free ELSE @]

SetEngine(n, e) == engine' = [engine EXCEPT ![n] = e]

ReturnWith(n, g, e) == SetEngine(n, Unlocked(e, g)) /\ Return(n, g)

\* HandleMessage, called by goroutine g when the engine is e.
HandleMessage(n, g, e, m) ==
    IF Verify(m) /\ m.sender \in Nodes
    THEN SetEngine(n, e) /\ Goto(n, g, m.type, m)
    ELSE ReturnWith(n, g, e)

\* A message is published, and handed to the engine itself.
Broadcast(n, g, e, m) ==
    /\ msgs' = msgs \cup {m}
    /\ HandleMessage(n, g, e, m)

\* Goroutine g handles m: it was handed m, or gossip delivers it, never to its
\* publisher.
Handles(n, g, m) ==
    \/ At(n, g, m.type) /\ thread[n][g].m = m
    \/ /\ g = "gossip" /\ At(n, g, "idle")
       /\ m.sender # n
       /\ Verify(m) /\ m.sender \in Nodes

----------------------------------------------------------------------------
MoreEvents ==
    submitted + Cardinality({m \in msgs : m.type = "view-change"}) < MaxEvents

\* A transaction comes in at the engine that has a ticker.
SubmitTransaction ==
    /\ MoreEvents
    /\ submitted < MaxSubmits
    /\ submitted' = submitted + 1
    /\ pool' = pool + 1
    /\ UNCHANGED <<engine, thread, msgs, proposed>>

\* MUTANT: a block is proposed though the pools are empty.
TakeTransactionsEmpty ==
    LET n == GetPrimary(0) IN
    /\ At(n, "ticker", "idle")
    /\ engine[n].role = "primary"
    /\ pool' = IF pool > MaxTxPerBlock THEN pool - MaxTxPerBlock ELSE 0
    /\ Goto(n, "ticker", "draft", NoMessage)
    /\ UNCHANGED <<engine, msgs, submitted, proposed>>

\* ProposeBlock up to GetPendingTransactions: the ticker looks at the role and
\* takes transactions from the pools.
TakeTransactions ==
    LET n == GetPrimary(0) IN
    /\ At(n, "ticker", "idle")
    /\ engine[n].role = "primary"
    /\ pool > 0
    /\ pool' = IF pool > MaxTxPerBlock THEN pool - MaxTxPerBlock ELSE 0
    /\ Goto(n, "ticker", "draft", NoMessage)
    /\ UNCHANGED <<engine, msgs, submitted, proposed>>

\* The rest of ProposeBlock: the block and its message, of the view the engine
\* is in by now.
ProposeBlock ==
    LET n == GetPrimary(0) IN
    /\ At(n, "ticker", "draft")
    /\ proposed' = proposed + 1
    /\ Broadcast(n, "ticker", engine[n], PrePrepareMsg(n, engine[n].view, proposed + 1))
    /\ UNCHANGED <<pool, submitted>>

\* CreateBlock or a signature failed: the transactions are gone.
ProposalFails ==
    LET n == GetPrimary(0) IN
    /\ At(n, "ticker", "draft")
    /\ Return(n, "ticker")
    /\ UNCHANGED <<engine, msgs, pool, submitted, proposed>>

\* handlePrePrepare: the view is compared with the engine's ...
CheckView(n, g, m) ==
    /\ m.type = "pre-prepare" /\ Handles(n, g, m)
    /\ IF m.view = engine[n].view THEN Goto(n, g, "primary", m) ELSE Return(n, g)
    /\ UNCHANGED <<engine, msgs, pool, submitted, proposed>>

\* ... the sender with the validator set's primary ...
CheckPrimary(n, g) ==
    /\ At(n, g, "primary")
    /\ IF thread[n][g].m.sender = GetPrimary(engine[n].vsView)
       THEN Goto(n, g, "adopt", thread[n][g].m)
       ELSE Return(n, g)
    /\ UNCHANGED <<engine, msgs, pool, submitted, proposed>>

\* ... and the block is taken over under statesMu.  The votes for an earlier
\* block of this height stay.
AdoptBlock(n, g) ==
    LET block == thread[n][g].m.block IN
    /\ At(n, g, "adopt")
    /\ engine[n].statesMu = Free
    /\ Broadcast(n, g, [engine[n] EXCEPT !.block = block], PrepareMsg(n, block))
    /\ UNCHANGED <<pool, submitted, proposed>>

HasPrepared(e) == e.block # NoBlock /\ Cardinality(e.prepares) >= Quorum - 1
HasCommitted(e) == Cardinality(e.commits) >= Quorum

\* MUTANT: the mutex is given back before the commit is broadcast, and the
\* votes alone decide.
HandlePrepareUnlocked(n, g, m) ==
    LET e == [engine[n] EXCEPT !.prepares = @ \cup {m.sender}]
    IN  /\ m.type = "prepare" /\ Handles(n, g, m)
        /\ engine[n].statesMu = Free
        /\ \/ /\ m.block = e.block
              /\ HasPrepared(e)
              /\ Broadcast(n, g, [e EXCEPT !.state = "prepared"], CommitMsg(n, e.block))
           \/ /\ m.block = e.block
              /\ ~HasPrepared(e)
              /\ ReturnWith(n, g, e)
              /\ UNCHANGED msgs
           \/ /\ m.block # e.block
              /\ ReturnWith(n, g, engine[n])
              /\ UNCHANGED msgs
        /\ UNCHANGED <<pool, submitted, proposed>>

\* statesMu is kept while broadcastCommit hands the commit to handleCommit.
HandlePrepare(n, g, m) ==
    LET e == [engine[n] EXCEPT !.prepares = @ \cup {m.sender}]
    IN  /\ m.type = "prepare" /\ Handles(n, g, m)
        /\ engine[n].statesMu = Free
        /\ \/ /\ m.block = e.block
              /\ e.state = "idle"
              /\ HasPrepared(e)
              /\ Broadcast(n, g, [e EXCEPT !.state = "prepared", !.statesMu = g],
                           CommitMsg(n, e.block))
           \/ /\ m.block = e.block
              /\ e.state # "idle" \/ ~HasPrepared(e)
              /\ ReturnWith(n, g, e)
              /\ UNCHANGED msgs
           \/ /\ m.block # e.block
              /\ ReturnWith(n, g, engine[n])
              /\ UNCHANGED msgs
        /\ UNCHANGED <<pool, submitted, proposed>>

\* handleCommit keeps statesMu while it calls commitBlock, which asks for it
\* again, so commitBlock never comes to AddBlock.
HandleCommit(n, g, m) ==
    LET e == [engine[n] EXCEPT !.commits = @ \cup {m.sender}]
    IN  /\ m.type = "commit"
        /\ Handles(n, g, m) \/ (At(n, g, "commitBlock") /\ thread[n][g].m = m)
        /\ engine[n].statesMu = Free
        /\ IF At(n, g, "commitBlock")
           THEN ReturnWith(n, g, [engine[n] EXCEPT !.final = engine[n].block])
           ELSE IF m.block # e.block THEN ReturnWith(n, g, engine[n])
           ELSE IF e.state # "committed" /\ HasCommitted(e)
                THEN /\ SetEngine(n, [e EXCEPT !.state = "committed", !.statesMu = g])
                     /\ Goto(n, g, "commitBlock", m)
                ELSE ReturnWith(n, g, e)
        /\ UNCHANGED <<msgs, pool, submitted, proposed>>

----------------------------------------------------------------------------
\* handleViewChange: the view change state is the one of the message's view ...
HandleViewChange(n, g, m) ==
    LET vc == IF engine[n].vc.view = m.view THEN engine[n].vc
              ELSE [view |-> m.view, votes |-> {}]
    IN  /\ m.type = "view-change" /\ Handles(n, g, m)
        /\ engine[n].vcMu = Free
        /\ SetEngine(n, [engine[n] EXCEPT !.vc = vc, !.vcMu = g])
        /\ Goto(n, g, "add", m)
        /\ UNCHANGED <<msgs, pool, submitted, proposed>>

\* ... gets the vote ...
AddViewChange(n, g) ==
    /\ At(n, g, "add")
    /\ SetEngine(n, [engine[n] EXCEPT !.vc.votes = @ \cup {thread[n][g].m.sender}])
    /\ Goto(n, g, "count", thread[n][g].m)
    /\ UNCHANGED <<msgs, pool, submitted, proposed>>

\* MUTANT: a vote too few.
HasQuorumEarly(vc) == Cardinality(vc.votes) >= Quorum - 1
HasQuorum(vc) == Cardinality(vc.votes) >= Quorum

\* ... is counted ...
CountViewChanges(n, g) ==
    /\ At(n, g, "count")
    /\ IF HasQuorum(engine[n].vc)
       THEN Goto(n, g, "update", thread[n][g].m) /\ UNCHANGED engine
       ELSE ReturnWith(n, g, engine[n])
    /\ UNCHANGED <<msgs, pool, submitted, proposed>>

\* ... the validator set takes the view of the message ...
UpdateView(n, g) ==
    /\ At(n, g, "update")
    /\ SetEngine(n, [engine[n] EXCEPT !.vsView = thread[n][g].m.view])
    /\ Goto(n, g, "elect", thread[n][g].m)
    /\ UNCHANGED <<msgs, pool, submitted, proposed>>

\* ... its primary is looked up ...
ElectPrimary(n, g) ==
    /\ At(n, g, "elect")
    /\ IF GetPrimary(engine[n].vsView) = n
       THEN Goto(n, g, "announce", thread[n][g].m) /\ UNCHANGED engine
       ELSE ReturnWith(n, g, engine[n])
    /\ UNCHANGED <<msgs, pool, submitted, proposed>>

\* ... and announces the view of the view change state, with vcMu held.
BroadcastNewView(n, g) ==
    /\ At(n, g, "announce")
    /\ Broadcast(n, g, engine[n], NewViewMsg(n, engine[n].vc))
    /\ UNCHANGED <<pool, submitted, proposed>>

\* handleNewView: the validator set takes the new view before the sender is
\* looked at ...
HandleNewView(n, g, m) ==
    /\ m.type = "new-view" /\ Handles(n, g, m)
    /\ SetEngine(n, [engine[n] EXCEPT !.vsView = m.view])
    /\ Goto(n, g, "check", m)
    /\ UNCHANGED <<msgs, pool, submitted, proposed>>

CheckNewView(n, g) ==
    LET m == thread[n][g].m IN
    /\ At(n, g, "check")
    /\ IF m.sender = GetPrimary(engine[n].vsView) /\ Cardinality(m.proofs) >= Quorum
       THEN Goto(n, g, "enter", m) /\ UNCHANGED engine
       ELSE ReturnWith(n, g, engine[n])
    /\ UNCHANGED <<msgs, pool, submitted, proposed>>

\* ... the view is entered, under viewMu ...
EnterView(n, g) ==
    /\ At(n, g, "enter")
    /\ SetEngine(n, [engine[n] EXCEPT !.view = thread[n][g].m.view])
    /\ Goto(n, g, "role", thread[n][g].m)
    /\ UNCHANGED <<msgs, pool, submitted, proposed>>

\* ... the role is set, under no mutex ...
SetRole(n, g) ==
    LET role == IF thread[n][g].m.sender = n THEN "primary" ELSE "replica" IN
    /\ At(n, g, "role")
    /\ SetEngine(n, [engine[n] EXCEPT !.role = role])
    /\ Goto(n, g, "clear", thread[n][g].m)
    /\ UNCHANGED <<msgs, pool, submitted, proposed>>

\* ... and the view change state is cleared under vcMu, which the goroutine of
\* the new primary holds, and the timer is started.
ClearViewChange(n, g) ==
    /\ At(n, g, "clear")
    /\ engine[n].vcMu = Free
    /\ ReturnWith(n, g, [engine[n] EXCEPT !.vc = NoViewChange, !.timer = TRUE])
    /\ UNCHANGED <<msgs, pool, submitted, proposed>>

----------------------------------------------------------------------------
\* initiateViewChange, each time a goroutine of its own: the view is read ...
TimerFires(n, g) ==
    LET view == engine[n].view + 1 IN
    /\ MoreEvents
    /\ At(n, g, "idle")
    /\ engine[n].timer
    /\ view \in Views
    /\ SetEngine(n, [engine[n] EXCEPT !.timer = FALSE])
    /\ thread' = [thread EXCEPT ![n][g] = [pc |-> "states", m |-> NoMessage, view |-> view]]
    /\ UNCHANGED <<msgs, pool, submitted, proposed>>

\* ... then the states, under statesMu ...
ReadStates(n, g) ==
    LET proof == IF engine[n].state = "idle" THEN NoBlock ELSE engine[n].block IN
    /\ At(n, g, "states")
    /\ engine[n].statesMu = Free
    /\ Goto(n, g, "send", ViewChangeMsg(n, thread[n][g].view, proof))
    /\ UNCHANGED <<engine, msgs, pool, submitted, proposed>>

\* ... the message is published and handled ...
SendViewChange(n, g) ==
    /\ At(n, g, "send")
    /\ Broadcast(n, g, engine[n], thread[n][g].m)
    /\ UNCHANGED <<pool, submitted, proposed>>

\* ... and without vcMu the view change state is made anew ...
ReplaceViewChange(n, g) ==
    /\ At(n, g, "replace")
    /\ SetEngine(n, [engine[n] EXCEPT !.vc = [view |-> thread[n][g].view, votes |-> {}]])
    /\ Goto(n, g, "keep", NoMessage)
    /\ UNCHANGED <<msgs, pool, submitted, proposed>>

\* ... and gets the engine's own vote.  If it was cleared in between, the nil
\* pointer ends the process.
KeepOwnVote(n, g) ==
    /\ At(n, g, "keep")
    /\ \/ /\ engine[n].vc # NoViewChange
          /\ SetEngine(n, [engine[n] EXCEPT !.vc.votes = @ \cup {n}])
          /\ thread' = [thread EXCEPT ![n][g] = Idle]
       \/ /\ engine[n].vc = NoViewChange
          /\ thread' = [thread EXCEPT ![n] = [h \in Goroutines |-> Dead]]
          /\ UNCHANGED engine
    /\ UNCHANGED <<msgs, pool, submitted, proposed>>

----------------------------------------------------------------------------
\* The first step of a handler.
Handle(n, g, m) ==
    \/ CheckView(n, g, m)
    \/ HandlePrepare(n, g, m)
    \/ HandleCommit(n, g, m)
    \/ HandleViewChange(n, g, m)
    \/ HandleNewView(n, g, m)

\* What goroutine g does with the message it is at.
Step(n, g) ==
    \/ CheckPrimary(n, g)
    \/ AdoptBlock(n, g)
    \/ AddViewChange(n, g)
    \/ CountViewChanges(n, g)
    \/ UpdateView(n, g)
    \/ ElectPrimary(n, g)
    \/ BroadcastNewView(n, g)
    \/ CheckNewView(n, g)
    \/ EnterView(n, g)
    \/ SetRole(n, g)
    \/ ClearViewChange(n, g)
    \/ ReadStates(n, g)
    \/ SendViewChange(n, g)
    \/ ReplaceViewChange(n, g)
    \/ KeepOwnVote(n, g)

Next ==
    \/ SubmitTransaction
    \/ TakeTransactions
    \/ ProposeBlock
    \/ ProposalFails
    \/ \E n \in Nodes :
         \/ \E g \in Goroutines :
              \/ \E m \in msgs : Handle(n, g, m)
              \/ Step(n, g)
         \/ \E g \in Timers : TimerFires(n, g)

Spec == Init /\ [][Next]_vars

\* A goroutine in a call goes on with it.
GoesOn(n, g) == Step(n, g) \/ \E m \in msgs : m.sender = n /\ Handle(n, g, m)

\* The ticker and the timers run, goroutines are scheduled and gossip delivers
\* what was published.
Fairness ==
    /\ WF_vars(TakeTransactions)
    /\ WF_vars(ProposeBlock)
    /\ \A n \in Nodes :
         /\ \A g \in Goroutines : WF_vars(GoesOn(n, g))
         /\ \A v \in Nodes \ {n} :
              WF_vars(\E m \in msgs : m.sender = v /\ Handle(n, "gossip", m))
         /\ \A g \in Timers : WF_vars(TimerFires(n, g))

FairSpec == Spec /\ Fairness

----------------------------------------------------------------------------
\* The validators that sent a message of a type.
Senders(type) == {m.sender : m \in {m \in msgs : m.type = type}}

\* Every engine, goroutine and message has its type.
TypeOK ==
    /\ engine \in [Nodes -> Engines]
    /\ thread \in [Nodes -> [Goroutines -> Threads]]
    /\ msgs \in SUBSET Messages
    /\ pool \in 0..MaxSubmits
    /\ submitted \in 0..MaxSubmits
    /\ proposed \in 0..submitted

\* A validator never commits to two blocks of a height, though a second
\* proposal replaces the block and leaves the votes for the first in place
\* (handlePrePrepare, handlePrepare).
OneCommit ==
    \A m, o \in msgs :
        m.type = "commit" /\ o.type = "commit" /\ m.sender = o.sender => m.block = o.block

\* No engine leaves view 0, or takes another validator for the primary of its
\* pre-prepares, before a quorum of validators asked for a view change, however
\* the goroutines of the engines race (handleViewChange, handleNewView,
\* initiateViewChange).
ViewKept ==
    \A n \in Nodes : engine[n].view > 0 \/ engine[n].vsView > 0 =>
        Cardinality(Senders("view-change")) >= Quorum
----------------------------------------------------------------------------
(* What the specification says and the code does not keep.  The lines are  *)
(* those of openspec/changes/v2v-blockchain-platooning/specs/v2v-consensus *)
(* /spec.md.                                                               *)

\* A block that was proposed is prepared by some validator (line 9).  Verify
\* accepts no message.
ProposalPrepared ==
    (proposed > 0) ~> (Senders("prepare") # {})

Votes(type, block) == {m.sender : m \in {m \in msgs : m.type = type /\ m.block = block}}

\* A commit is published on the prepares of a quorum for its block (line 10).
\* HasPrepared asks for one less, and counts prepares for an earlier block too.
CommitBacked ==
    \A m \in msgs : m.type = "commit" => Cardinality(Votes("prepare", m.block)) >= Quorum

\* An engine is committed on the commits of a quorum for its block (line 11).
\* The commits for an earlier block of the height stay and are counted.
CommittedBacked ==
    \A n \in Nodes : engine[n].state = "committed" =>
        Cardinality(Votes("commit", engine[n].block)) >= Quorum

\* A block that has the commits of a quorum is made final by some engine (line
\* 11).  commitBlock waits for the mutex its caller holds.
CommitFinal ==
    (\E n \in Nodes : HasCommitted(engine[n])) ~> (\E n \in Nodes : engine[n].final # NoBlock)

\* The number of an engine's view only grows (line 52).  handleNewView takes
\* any view.
ViewsIncrease == [][\A n \in Nodes : engine'[n].view >= engine[n].view]_vars

\* The view change of an engine that has prepared a block carries the proof of
\* it ("Include prepared proofs if any", pbft.go:801).  initiateViewChange reads
\* the states some time before.
ProofsIncluded ==
    [][\A m \in msgs' \ msgs : m.type = "view-change" /\ m.proof = NoBlock =>
         engine[m.sender].state = "idle"]_vars

\* A new view is announced on the view changes of a quorum that ask for it
\* (lines 56 and 57).  initiateViewChange replaces the view change state while
\* handleViewChange adds to it.
NewViewBacked ==
    \A m \in msgs : m.type = "new-view" =>
        Cardinality({o.sender : o \in {o \in msgs : o.type = "view-change"
                                                    /\ o.view = m.view}}) >= Quorum

\* Who announced a new view goes on with consensus (line 59).  handleNewView
\* waits for the mutex that handleViewChange holds.
ViewChangeEnds ==
    \A n \in Nodes : n \in Senders("new-view") ~> engine[n].vcMu = Free

\* An engine that is not about to set its role has the role its view gives it
\* (line 63).  Two calls of handleNewView write view and role under no common
\* mutex.
PrimaryOfView ==
    \A n \in Nodes :
        (engine[n].role = "primary" /\ \A g \in Goroutines : ~At(n, g, "role"))
            => n = GetPrimary(engine[n].view)
=============================================================================
