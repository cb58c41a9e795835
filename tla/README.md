# Verification of v2v-blockchain

TLA+ modules that model the state-changing core of this repository, TLC runs
that check them on small instances, and TLAPS proofs of their safety
properties for every instance. Source paths are relative to the repository.

## The system

A node of the V2V platooning blockchain is one Go process. `cmd/v2v-node/start.go`
builds its parts and wires them together.

| Part | State it keeps | Operations | Talks to |
|---|---|---|---|
| light client (`core/blockchain/lightclient.go`) | headers by height, index by hash, latest pair, stored headers | AddHeader, Reset, queries | storage |
| header sync (`core/blockchain/sync.go`) | a running flag, a stop channel, a loop goroutine | Start, Stop, ProcessHeaders, FullSync, FastSync | light client |
| blockchain (`chain.go`, `storage.go`, `state.go`, `fork.go`, `validator.go`, `merkle.go`) | latest height and hash, blocks, caches, forks | AddBlock, CreateBlock, queries, reorganisation | storage |
| PBFT engine (`core/consensus`) | view, role, per-height votes, view change votes, request pools, timers | one handler per message type, ProposeBlock, initiateViewChange | gossip, blockchain, executor |
| checkpoint manager (`consensus/checkpoint.go`) | checkpoints | create, collect | nothing creates it |
| transaction pool (`core/txpool`) | pending map, map per sender and nonce, three heaps | AddTx, GetPending, RemoveTx, cleanup loop | API server |
| executor (`core/executor`) | none | one function per transaction type | platoon, identity and state services |
| platoon service (`service/platoon`) | platoons in memory and in storage, join requests | create, join, leave, dissolve, appoint, demote, timeout checker | executor, storage |
| identity service (`service/identity`) | identity cache and storage, revocation list, online status | register, revoke, rotate, expiry checkers | storage |
| message verification (`service/message`) | seen ids, last sequence number per sender, group keys | VerifyMessage, CreateMessage, cleanup loop | identity |
| state traceability (`service/state`) | events, hash-chained audit log, anomalies | RecordEvent, AnchorAuditLog, retention | executor |
| network (`service/network`) | libp2p host, topics, partition detector | publish, subscribe, discover, detect partitions | PBFT |
| API server (`app/api`) | token buckets, sessions, websockets | HTTP handlers | all services |

What is hard in it: engines of several validators exchange messages that may be
lost, late or repeated, and each engine is worked on by three kinds of
goroutine that share mutexes; the platoon service changes memory before
storage and has a timeout checker that looks and acts in two steps; a batch of
headers is added under one lock per header while others use the store; readers
of the transaction pool modify heaps under a read lock; the identity service
checks, stores and caches in separate steps and message verification has no
lock at all; the store of the chain is written twice per block and the process
may stop in between; libp2p's notifications come after the fact, and two
goroutines dial and trim connections. The properties that
make each part correct are below and in `PROJECT.json`, which lists the hazards
at their lines.

## Modules

`LightClient` - the header store. One action per exported method, because each
holds `lc.mu` throughout. A header's bytes are abstracted to whether they hash
to its Hash field; signing and verifying are modelled by which bytes each of
them hashes (the signature is among the bytes `VerifySignature` hashes and is
not there when `Sign` runs, so no signed header verifies; with
`VerifySignatures` the store takes unsigned headers only). A write to storage
may fail and is then only logged. `loadHeaders` loads nothing, so a restart is
an empty client over a full storage.

`HeaderSync` - EXTENDS `LightClient`. The check of a batch is one action, each
AddHeader of its loop another, and other callers of the light client come in
between. A second Stop closes a closed channel and panics, as in the code.

`Platoon` - the platoon service as the executor drives it: one action per
transaction, since the executor runs them one by one at commit time. The
timeout checker is another goroutine, and no lock guards a platoon's fields: its
look at a platoon and its DissolvePlatoon are two actions, and so a departure,
which tests the status and writes it (`service.go:315-316`) and saves the platoon
afterwards, is four: `LeavePlatoon` (hand-over and removal), `TestStaffing`,
`MarkUnderStaffed`, `StoreDeparture`. The checker may come between any two of them,
and the executor's next transaction waits for the last. Nothing else the executor
does writes a status that the checker may have written, and the checker writes
nothing but the status, so the other operations stay one action each. A save may fail
after memory has changed. The numbers 4 (members for consensus) and 7
(validators that joins fill up to) are constants.

`PBFT` - the engines of all validators and the messages between them, as the
steps of each engine's goroutines: the one of its gossip subscription, the block
ticker (at the first primary) and the functions of its view change timers, of
which more than one may be under way. A goroutine has a program counter, the
message it handles, and, in `initiateViewChange`, the view it asks for. An engine that
signs a message publishes it and handles it itself, in the same call, as
`SetMessageHandler` arranges (`Broadcast`). A step ends where the code lets another
goroutine of the engine in: at `statesMu` and `vcMu`, and at every access to what no
mutex guards, or not everywhere (view, role, view change state). The steps are

- `CheckView`, `CheckPrimary`, `AdoptBlock` of `handlePrePrepare`;
- `HandleViewChange`, `AddViewChange`, `CountViewChanges`, `UpdateView`,
  `ElectPrimary`, `BroadcastNewView` of `handleViewChange`: it holds `vcMu`, but
  `initiateViewChange` writes the view change state without it;
- `HandleNewView`, `CheckNewView`, `EnterView`, `SetRole`, `ClearViewChange` of
  `handleNewView`, which has no mutex for all of it;
- `TimerFires`, `ReadStates`, `SendViewChange`, `ReplaceViewChange`, `KeepOwnVote`
  of `initiateViewChange`.

`handlePrepare` and `handleCommit` are one step up to the message they publish or the
mutex they wait for, as they hold `statesMu` throughout. Two reductions keep the
model small, and neither hides an order of events: a message is put among the
published ones in the step before its sender goes on, as gossip may deliver it any time
later anyway; and gossip delivers it in the first step of the handler, as
until then it may still be under way.

Go's mutexes are not reentrant, so a goroutine that asks for a mutex it holds
waits for ever, and so does every other that asks for it:

- `handlePrepare` holds `statesMu` when it broadcasts a commit; its own
  `handleCommit` asks for it;
- `handleCommit` holds it when `commitBlock` asks for it, before `AddBlock`;
- `handleViewChange` holds `vcMu` when the new primary handles its own new-view.

So no block is added to the chain, the height under consensus stays the same,
and the model has one height.

`Verify` recomputes the digest and compares the sender with the address
recovered from the signature. Two constants say what the code does there.
`DigestCovered` says whether `serializeForSign` covers the Digest field: it does
(TRUE). `SenderIsSigner` says whether a node's address is the one recovered from its
signatures: it is not (FALSE), as `start.go:252-273` takes the last bytes of a P-256
public key, and `Verify` the Keccak hash of a secp256k1 one. Either makes `Verify` reject every
signed message. The run `pbft_verify` checks the code with both as they are, and
`MCPBFTSender.cfg` with the digest mended. All other instances of `PBFT` mend both, two
changes to the code, made in these constants only: they show how the handlers behave
once messages verify. The theorems hold for any value of either.

`TxPool` - the pool. Writers are atomic; `GetPending` is a sequence of steps
under the read lock, and two readers at one queue race: which item a racing pop
returns and what it leaves in the queue is left open, a panic included.

`Identity` - the identity service. `crlMu` is held for all of
`RevokeCertificate` up to the marking of the identity; `cacheMu` only for single
accesses, so a registration, a rotation and a lookup that misses the cache are
several steps each. The cache holds pointers: a rotation changes the cached
identity in place (`Cached`, `Held`) before it is stored. Every write may fail,
and a restart reads the store again. `revoked` records the revocations that
were reported done.

`MessageVerify` - EXTENDS `Identity`. Vehicles create messages and number them;
the network delivers any copy at any time, altered or not; the steps of
`VerifyMessage` (id lookup and time window, sender's identity, CRL, signature
and sequence number, recording) interleave with each other and with the
identity service. `CheckAndUpdate` is a read and a write, since its map has no
lock. What the verifier remembers is lost in a restart, so replay protection
is promised for one run of the process.

`StateTrace` - the state service: RecordEvent's steps under their separate
locks, the audit log, `AnchorAuditLog`, vehicle histories (kept under the first
bytes of an id, which two vehicles may share), anomalies and retention. Hashes
are terms.

`Chain` - the blockchain and its store. `AddBlock` is one action per lock,
check and write; `bc.mu` is an RWMutex with readers that take it twice; each
write may fail and the process may stop between any two steps. `Relocks` says
whether `validateBlock` asks for `bc.mu`, which `AddBlock` holds. It does
(TRUE), and the run `chain_addblock` checks the code so; the run `chain` sets it
to FALSE, the one change made, to show how the rest of the algorithm behaves.

`Ledger` - what a chain promises: an append-only sequence of sound blocks, each
the child of the last, in which no transaction of an earlier block comes again. `Chain` implements
it under the mapping of `log` to the blocks up to the stored height.

`Network` - connections, notifications, connection manager, discovery and
partition detector of one node. Each dial is a step, and so is each close of
the trimming, so the two goroutines and the peers interleave.

`Merkle` - the root of a block's transactions, the tree, its proofs and
their verification, as functions over hash terms. `Chain` and `Ledger` EXTEND it:
`validateBlock` computes the root again, and a light client that has a stored
block's header verifies proofs against it.

`MCHeaderSync`, `MCPlatoon`, `MCPBFT`, `MCTxPool`, `MCMessageVerify`,
`MCStateTrace`, `MCChain` and `MCNetwork` give the
constants small values. `HeaderSyncProofs` (with those of `LightClient`),
`PlatoonProofs`, `PBFTProofs`, `TxPoolProofs`, `MessageVerifyProofs` (with those
of `Identity`), `StateTraceProofs`, `ChainProofs` and `NetworkProofs` hold the
theorems. Operators marked MUTANT are altered versions of the definition below
them, each breaking one property; they are not part of the specification.

## Runs

| Run | Instance | What it shows |
|---|---|---|
| `header_sync` | 10 headers in two forks (one with a bad hash, one signed), memory for 3 | the properties of `LightClient` and `HeaderSync` below |
| `platoon` | 3 vehicles, 1 platoon of at most 2, 2 requests | the properties of `Platoon` below |
| `pbft` | 2 validators with a timer each, 2 proposals, views 0 to 2, 4 events | the properties of `PBFT` below |
| `pbft_verify` | 4 validators, 1 proposal, `Verify` as coded | `ProposalPrepared` fails |
| `pbft_final` | 4 validators, 1 proposal | `CommitFinal` fails |
| `txpool` | 4 transactions, 2 priorities, 2 racing readers, 3 pending, 2 per account | the properties of `TxPool` below |
| `txpool_pending` | 1 reader, 1 pending | `PendingReturned` fails |
| `messages` | 1 vehicle, 1 certificate, 2 verifications at once, a writer, 2 messages | the properties of `Identity` and `MessageVerify` below |
| `trace` | 1 platoon, 2 vehicles, 2 recorders, 3 events, block heights 0 and 1 | the properties of `StateTrace` below |
| `chain` | 10 blocks in rival branches, 2 adders, 1 reader, heights to 3, `Relocks` FALSE | the properties of `Chain` below |
| `chain_addblock` | the same with the locks as coded | `AddBlockReturns` fails |
| `network` | 3 peers, one with two connections, limit 2, 2 events of the environment | the properties of `Network` below |

Light client: memory is one chain up to the newest header (`MemoryIsChain`),
the index matches it (`IndexMatchesMemory`), it stays within its limit
(`MemoryBounded`), and nothing but the tip is extended (`OnlyTipExtends`), in
particular not by a header of another fork offered again for an evicted height.
Sync: it does nothing to the store that AddHeader and Reset do not
(`ImplementsLightClient`, a refinement), stopped loops end (`StopEndsLoops`)
and so do batches (`BatchEnds`).

Platoon: members, validators, roles and leader agree (`RosterConsistent`), in
storage too; staffing is within bounds (`StaffingInBounds`); the leader changes
only by handing over to a validator (`LeaderHandsOver`); nothing revives a dissolved
platoon but a departure that had found it active before, or a restart when the
dissolution was not saved (`DissolvedStays`); an idle one is dissolved (`IdleEnds`).
That a dissolved platoon is not revived by a departure either (`DissolvedIsFinal`), and that the
timeout checker dissolves idle ones only (`OnlyIdleDissolved`), does not hold.

PBFT: a validator never publishes commits for two blocks of a height, though a
second proposal replaces the block and leaves the votes for the first
(`OneCommit`); no engine leaves view 0, or takes another validator for the primary, before a
quorum of validators asked for a view change (`ViewKept`), which says less than
that the quorum asked for that view: this does not hold (`NewViewBacked`). What
else the specification of consensus promises, the code breaks; see Disagreements.

Transaction pool: what a sender's map holds is pending, within the limit per account
(`AccountsSound`), which is not what the limit promises (`AccountLimitKept`);
readers return only pending transactions (`OnlyPendingReturned`), racing or
not; everything leaves the pool (`PendingExpires`).

Identity and messages: a revocation reported done stays in the list and in its
stored copy (`RevocationDurable`); no message is admitted on a certificate that
was revoked when its verification began, whatever the identity's own status
says by then (`RevokedNotAccepted`): a rotation or a racing lookup may make a
revoked identity active again, and it is the look at the CRL that holds; a
message that was accepted is not accepted by a verification that begins later
(`NoReplayAfterReturn`), because the id cache outlives the time window. Two
verifications at once may both accept it.

Traceability: the audit log stays a hash chain through races and anchorings
(`AuditChained`); a record's root is the root of the records that carry it
(`RootsVerifiable`), also when records anchored at height 0 are anchored a
second time; frequent changes are
reported however recordings race (`FrequentChangesReported`).

Chain: the store holds a linked block for every height up to the latest
(`StoredLinked`); memory agrees with the store after failed writes and restarts
(`MemoryMatchesStore`), a block left above the latest height included; every
transaction of a stored block has a proof that its header's root verifies, at
every position of odd and even blocks, and that no other block's does
(`StoredProvable`); the
stored chain is a `Ledger` (`ImplementsLedger`, a refinement).

Network: no peer without a connection stays listed (`PeersMapSound`); the
detector notices too few connections and, once enough bootstrap peers are back
in reach, ends connected (`DetectorTracks`); the number of connections ends
within the limit (`ConnectionsSettle`).

### Bounds

`header_sync` needs two forks of three headers above genesis for an eviction to
be followed by a late header of the other fork; memory for three makes genesis,
one header and the newest remain. In `platoon`, two of three vehicles fill a
platoon, so an approved request can find it full, and one departure
makes it understaffed; a second platoon would be independent of the first.

With four validators a quorum is three and one fault is tolerated; two proposals are
enough for votes of the first to be counted for the second. The instances that look for
one disagreement find it there. To visit all states of the goroutines' steps takes
fewer validators: `pbft` has two, and `MaxEvents` bounds the transactions and
view changes together, so there are two proposals and one view change of both, or one of them
and three, or none and two view changes of both, one after the other. So a
validator asks for a view twice, new-views are late and delivered again, and the goroutines of
the timer, of gossip and of the ticker meet at each step. Two validators suffice to
show every race, as each is between goroutines of one engine; what they do not show is
for every number of validators, and without the bounds, in the
theorems `OneCommitCorrect` and `ViewKeptCorrect`. `OneCommit` was also checked with
three validators.

In `txpool` two transactions of a sender share a nonce and one has another; three may
be pending and two of an account, so either limit is met without the other; two may be
queued, so an item outlives its transaction and is queued
again. In `messages` the certificate expires at time 1 of 3, ids are forgotten
after two ticks and a sender's clock is one tick ahead, so a message
can be inside the window as long as its id is kept; the sender may start again
and reuse a number. A second vehicle would only add independent entries to
each map; an instance with two vehicles, two certificates and one
verification, where a certificate moves between vehicles, was also checked.
In `trace` three events are enough for a member's two events to interleave
with another's, for either threshold to be passed, and for three anchorings. The
blocks of `chain` hold two branches with none, one, two, three and five
transactions (odd numbers at the leaves and above them), a block that is not
sound, one with the header of another and other transactions, one that skips
a height and one that repeats its parent's transaction; two adders race, and a
block stored without its height is followed by its rival. In `network` three
peers exceed the limit of two, and one peer has room for a second connection;
two events of the environment take a peer away and bring it back. The
bound on them is what makes "once peers leave it alone" happen; the liveness
properties are about the behaviours after that.
`MaxRequests`, `MaxSubmits`,
`MaxView`, `MaxEvents` (of `PBFT`), `MaxQueued`, `MaxTime`, `MaxSeq`, `MaxMsgs`, `MaxEvents`,
`MaxHeight`, `Conns` and `MaxChurn` bound what the code leaves unbounded.

The routing table of the DHT is one of `Tables` at each look. `Network`
assumes that the connection limit is no smaller than the number of peers below
which the detector sees a partition; the configuration does not check this, and
with a smaller limit detector and manager would undo each other's work.

`MCPBFTCommits.cfg` uses the symmetry of the validators that are not primary; it
checks no liveness; `messages` and `trace` use that of the
goroutines. The PBFT
runs switch off TLC's deadlock check since the engines do come to a stop, the
newer ones because a clock or a count at its bound may end a behaviour.

### Fairness

Sync loops and batches are goroutines that the Go scheduler runs (weak
fairness of `LoopStops` and `AddNext`). The timeout checker's and the cleanup
loop's tickers fire for ever (weak fairness of `FindTimedOut`,
`DissolveTimedOut`, `CleanupTick`, `CleanupExpired`), time passes, and readers
run. A waiting writer holds back new readers, which `sync.RWMutex` guarantees
and `TxPool` models. `IdleEnds` is for behaviours in which the process stops
restarting at some time. In `PBFT`, `FairSpec` has goroutines go on with the call they
are in, the ticker and the timers run, and gossip deliver what each validator
published to each other; it is used only for properties that fail. In `Chain`,
`FairSpec` runs every goroutine that can go on and does not withhold the mutex
from one for ever (strong fairness, which Go's RWMutex gives); it too is used
only for the property that fails, `AddBlockReturns`. In `Network` the two
goroutines with their tickers, the notifications and the discovery of broken
connections go on (weak fairness of each); nothing is assumed of peers.

## Proofs

TLAPS proves for every value of the constants that the assumptions allow:

- `HeaderSyncProofs`: `TypeCorrect`, `IndexCorrect`, `ChainCorrect`,
  `BoundCorrect`, `TipCorrect` of the light client. The inductive invariant joins
  the type invariant, the chain, the index and the bound: the chain property is
  what tells that an evicted header's hash is no other header's, and the index
  property needs that two headers with one hash are at one height, which is
  `HeaderAssumption` (the hash covers the height). `SyncImplements` is a step
  simulation; the batch holds headers because `BatchAssumption` says the peers'
  batches do.
- `PlatoonProofs`: `TypeCorrect`, `RosterCorrect`, `StaffingCorrect`,
  `HandOverCorrect`, `DissolvedCorrect`. The inductive invariant is the type
  invariant with consistency and staffing of the platoons in memory and in
  storage alike: a restart puts the stored ones in their place. An active
  platoon stays at `ConsensusSize` members because validators are members
  and no vehicle is listed twice; while a departure is between removal and mark,
  the platoon it is at may be short of them, and the invariant says where the
  departure is then.
- `PBFTProofs`: `TypeCorrect`, `OneCommitCorrect`, `ViewKeptCorrect`, for any number of
  validators, timers, proposals and views, whether messages verify or not. The
  invariant (`Core`) says what each goroutine relies on at the step it is at
  (`Working`): its message was published, the vote it is about to add was sent, and who is past
  the count of the votes knows that a quorum asked for a view change, in whatever
  view change state it counted them. What an engine knows is backed by messages
  (`Backed`), and new-views were asked for (`Genuine`). Published messages stay
  published, so no other goroutine takes any of this away, and one lemma
  (`StepKeeps`) reduces a step to its engine, its goroutine and the message it
  publishes; a lemma per action then does the rest. For `OneCommit`: whoever
  published a commit has left the state idle for good (`Committers`). A block needs a
  transaction (`Counted`), which bounds the proposals.
- `TxPoolProofs`: `TypeCorrect`, `AccountsCorrect`, `ReturnedCorrect`. The three
  together are inductive once the account maps are known to be finite. Removal
  and expiry keep the accounts sound because an entry that `Forget` leaves is of
  another nonce or sender, hence another transaction; readers hold only
  pending transactions because nothing leaves the pool while anyone reads. What a
  racing pop does to a queue is of no account.
- `MessageVerifyProofs`: `RevocationCorrect`, `RevokedCorrect`, `ReplayCorrect`.
  A certificate whose revocation was reported, or is about to be, is in the list
  and in its stored copy (`Listed`), and what bars a verification stays listed
  (`Barred`). An accepted message is either remembered by an entry no older
  than its time less the window, or out of the window for good
  (`Remembered`): this is where `MaxAge >= 2 * Window` is needed, as the
  code's 600 and 30 seconds have it. `None` is no time.
- `StateTraceProofs`: `AuditCorrect`, `ReportedCorrect`,
  `RootsCorrect`. The hash
  of a record covers neither height nor root, so an anchoring leaves the chain
  alone. For the reports, the invariant (`Reported`) says what holds while
  recordings are under way: an entity over a threshold has been reported, or some
  recording that stored a counted change is still to check it. For the roots, a
  new anchor takes none or all of the records of an older root, as these are
  at one height (`RootsSound`), and no other record has the new root
  (`RootIsNew`): trees with one root have the same leaves (`SameLeaves`, by
  sets of nodes that hold with a pair its two nodes), the leaves are the hashes
  of the records at the positions (`NthPosition`), and the chain lets no two
  records hash alike (`HashesDiffer`).
- `ChainProofs`: `TypeCorrect`, `LinkedCorrect`, `MemoryCorrect`, `LedgerCorrect`,
  `ProvableCorrect`, for the locks as coded and without the nested one. The invariant says
  what each step of `AddBlock` knows of its block (`Knows`), and that only the
  holder of `bc.mu` is at such a step (`Exclusive`). The refinement maps the write
  of the height to the ledger's append and every other step to a stutter.
  `ChainAssumption` says that `None` is neither a block nor a goroutine.
  `ProvableCorrect` is about trees of any size. Its lemmas use an induction over the
  levels that needs no operator as a parameter: a set of numbers which holds 0 and
  with n also n + 1 holds all of them (`SetInduction`, from the least element of a
  set). With it the recursive functions of `Merkle` are shown to be
  what their definitions say (`LevelsDef`, `IndicesDef`, `PathDef`), the levels
  to shrink to one node (`TreeOf`), a proof to follow the path from its leaf to the
  root (`ProofLeads`), and two trees with one root to have the same leaves
  (`RootBinds`), as terms that differ hash differently.
- `NetworkProofs`: `TypeCorrect`, `PeersCorrect`. A listed peer has a connection
  whose ConnectedF ran and whose DisconnectedF did not, and only the handlers take
  a connection into or out of that state.

The inductive invariants were checked by TLC on the runs' instances first.

Model-checked only: all liveness (`StopEndsLoops`, `BatchEnds`, `IdleEnds`,
`PendingExpires`, `DetectorTracks`, `ConnectionsSettle`), which is beyond the
prover.

## Disagreements met

Three runs check the code as it is and refute what a document says of it, and one
does with `Verify` mended (`PROJECT.json` quotes the lines):

- `pbft_verify`: a signed PBFT message never verifies.
- `txpool_pending`: the endpoint that lists pending transactions consumes them.
- `chain_addblock`: `AddBlock` never returns once it has the lock: neither the
  genesis block nor a block that consensus committed is added.
- `pbft_final`: a block with the commits of a quorum is added by nobody:
  `commitBlock` waits for the mutex of its caller (`pbft.go:528`), and, before that, so does
  the commit a validator hands to itself (`pbft.go:403`). "收到2f+1个COMMIT后区块最终确认"
  (`spec.md:11`).

More of them are shown by configurations beside the runs, each of which TLC ends with a
counterexample to the one property it checks. `spec.md` is
`openspec/changes/v2v-blockchain-platooning/specs/v2v-consensus/spec.md`; those of `PBFT`
have `Verify` mended but for the first.

| Configuration | Property | What the code does | What is said of it |
|---|---|---|---|
| `MCPBFTSender.cfg` | `ProposalPrepared` | with the digest mended no message verifies either: the address is the last 20 bytes of a P-256 key | "Create address (hash of public key)" (`start.go:266`), "Validator节点验证后广播PREPARE消息" (`spec.md:9`) |
| `MCPBFTPrepares.cfg` | `CommitBacked` | a commit goes out on 2f prepares, the primary's own among them (`types.go:351`) | "收到2f+1个PREPARE后广播COMMIT消息" (`spec.md:10`) |
| `MCPBFTCommits.cfg` | `CommittedBacked` | commits for a replaced block of the height count for the block that replaced it (`pbft.go:352`) | "收到2f+1个COMMIT后区块最终确认" (`spec.md:11`) |
| `MCPBFTViewOrder.cfg` | `ViewsIncrease` | a late new-view sets the view back (`pbft.go:746`) | "新视图编号递增" (`spec.md:52`) |
| `MCPBFTProofs.cfg` | `ProofsIncluded` | a block prepared after `statesMu` was given back (`pbft.go:813`) has no proof in the view change (`pbft.go:831`) | "Include prepared proofs if any" (`pbft.go:801`) |
| `MCPBFTNewView.cfg` | `NewViewBacked` | `viewChangeState` replaced without `vcMu` (`pbft.go:842`) between count and new-view: a view is announced that no quorum asked for | "新Leader收集到2f+1个VIEW-CHANGE" (`spec.md:56`) |
| `MCPBFTHang.cfg` | `ViewChangeEnds` | the new primary waits for ever for `vcMu`, which it holds (`pbft.go:759`) | "继续正常共识流程" (`spec.md:59`) |
| `MCPBFTPrimary.cfg` | `PrimaryOfView` | two view changes that overlap write view and role in different orders (`pbft.go:746`, `753`) | "按确定顺序选择新Leader" (`spec.md:63`) |
| `MCPlatoonDissolved.cfg` | `DissolvedIsFinal` | a departure that found a platoon active marks it understaffed after the timeout checker dissolved it (`service.go:315-316`) | "系统自动解散编队" (`platoon-management/spec.md:75`) |
| `MCPlatoonIdle.cfg` | `OnlyIdleDissolved` | the timeout checker dissolves a platoon that somebody has just joined (`service.go:729`) | "编队所有成员离线超过5分钟" (`platoon-management/spec.md:74`) |
| `MCTxPoolAccounts.cfg` | `AccountLimitKept` | a sender that reuses a nonce exceeds the limit (`pool.go:162`) | "Maximum transactions per account" (`pool.go:22`) |

Seen besides: `GetLatestHash` is the zero hash while only genesis is
known (`LatestHashIsTip`); after Start, Stop, Start the flag says syncing
while no loop runs (`SyncingHasLoop`); the API server feeds the transaction
pool and nothing moves transactions from there to the engine; the block
ticker runs only at the first primary. "Position in platoon (0 = leader)"
(`platoon/types.go:107`) does not survive a leader's departure. A new-view handled
between `pbft.go:842` and `843` makes the second line follow a nil pointer. `GetLatestBlock` and `GetBlocksRange` take the read lock twice,
and a writer that waits in between stops both. `IsPartitioned` is false while the
detector is recovering (`partition.go:105`), and since no check ever finds it in
the state partitioned, `MaxPartitionDuration` has no effect; the first check
may declare a partition at once, as the last peer count starts at 0;
`refreshPeerConnections` compares a value with itself and dials nobody.
`GetPeers` loses a peer when one of its two connections closes (`host.go:336`).
A revocation whose list could not be stored cannot be tried again, and is
forgotten in a restart. `MessageIDCache` and `SenderSeqTracker` are maps
that several goroutines write without a lock. `VerifyTransaction`
(`lightclient.go:299`) does not compare the transaction with the leaf of the proof,
so a proof of one transaction verifies any other. A block may repeat a transaction
within itself: `AddBlock` looks for stored transactions only, and nobody
compares TxCount with their number. At the 1000 requests a minute of
`server.go:105` (`docs/API.md:600` says 100) Retry-After is always 0 seconds, as
the wait is truncated; an X-Forwarded-For with several addresses does not
parse, though the comment (`ratelimit.go:67`) says the first is taken. The
nonce of a TransactionBuilder is counted up without a lock. A message that
overtakes an earlier one of its sender makes the earlier one a duplicate
(`message/types.go:245`), and a query for a time before the first event of an
entity indexes an empty slice (`state/service.go:269`).

## Not modelled

- `fork.go`, `state.go`, `validator.go` of the blockchain package
  and `consensus/checkpoint.go`: no code of the repository creates a
  ForkDetector, a ChainState, a BlockValidator or a
  CheckpointManager, so a running node never executes them, and how they would be
  called is not defined.
- Of the modelled services: online status, rotation reminders and connection
  gaters of the identity service; encryption and group keys of messages;
  queries, statistics, compression, archive and subscribers of the state
  service; gossip of blocks and transactions, whose handlers do nothing;
  reads from the store that fail (a CRL that cannot be read when the service
  starts is taken for an empty one, with a warning).
- Of `PBFT`: byzantine validators, validator set changes, restarts of an engine.
- The rate limiter (`ratelimit.go`): token buckets that share no state with the
  services. Worth a module of its own: a request may use a bucket that
  the cleanup has removed.
- HTTP, websockets (nothing calls their broadcasts), authentication, the command line, configuration, logging,
  LevelDB and libp2p are I/O or wrappers. Signatures and certificates are
  external functions.

## Plan

1. Done: all modules above, and the proofs of every safety and action property
   that a run expects to hold, and of both refinements.
2. Left: restarts of a consensus engine and the rate limiter, which no module
   describes yet.
