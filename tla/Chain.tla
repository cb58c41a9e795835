------------------------------- MODULE Chain --------------------------------
(***************************************************************************)
(* The blockchain and its store, internal/core/blockchain/chain.go and     *)
(* storage.go.  Goroutines add blocks and read the latest block; bc.mu is  *)
(* an RWMutex, on which a writer that waits holds back new readers.  The   *)
(* batch of PutBlock is written as a whole or not at all, SetLatestHeight  *)
(* is a write of its own, each may fail, and the process may stop between  *)
(* any two steps and start again from the store.                           *)
(*                                                                         *)
(* A block is its hash, height, parent hash, Merkle root, transactions,    *)
(* and whether it is sound: its hash, signatures and sizes are right.      *)
(*                                                                         *)
(* Relocks says whether validateBlock asks for bc.mu again while AddBlock  *)
(* holds it.  In the code it does (GetBlockByHash and GetTransaction), so  *)
(* that no AddBlock returns; with FALSE the module describes the rest of   *)
(* the algorithm.                                                          *)
(***************************************************************************)
EXTENDS Merkle

CONSTANTS
    Txs,         \* transactions
    Blocks,      \* the blocks AddBlock may be called with
    Adders,      \* goroutines that call AddBlock
    Readers,     \* goroutines that call GetLatestBlock or GetBlocksRange
    Relocks,     \* validateBlock locks bc.mu, which AddBlock holds
    None,        \* no block, no goroutine, no hash
    MaxHeight    \* bound: the height of blocks

ASSUME ChainAssumption ==
    /\ \A b \in Blocks : b.sound \in BOOLEAN /\ b.height \in 0..MaxHeight /\ b.txs \in Seq(Txs)
    \* The hash covers the header, and of the transactions the root only.
    /\ \A b, c \in Blocks : b.hash = c.hash =>
         b.height = c.height /\ b.prev = c.prev /\ b.root = c.root
    /\ None \notin Blocks \cup Adders
    /\ \A b \in Blocks : b.hash # None
    /\ Adders \cap Readers = {}
    /\ Relocks \in BOOLEAN
    /\ MaxHeight \in Nat

VARIABLES
    blocks,         \* the stored blocks
    index,          \* the stored map from heights to blocks
    height,         \* the stored latest_height
    latestHeight,   \* bc.latestHeight
    latestHash,     \* bc.latestHash
    writer,         \* who holds bc.mu for writing
    add,            \* the AddBlock call of each adder: its step and block
    read            \* how often each reader holds bc.mu for reading

vars == <<blocks, index, height, latestHeight, latestHash, writer, add, read>>

NoAdd == [pc |-> "idle", block |-> None]

Init ==
    /\ blocks = {}
    /\ index = [h \in 0..MaxHeight |-> None]
    /\ height = 0
    /\ latestHeight = 0
    /\ latestHash = None
    /\ writer = None
    /\ add = [a \in Adders |-> NoAdd]
    /\ read = [r \in Readers |-> 0]

----------------------------------------------------------------------------
\* sync.RWMutex: a reader waits for the writer, and for one that waits.
CanRLock == writer = None /\ \A a \in Adders : add[a].pc # "lock"

CanLock == writer = None /\ \A r \in Readers : read[r] = 0

\* AddBlock asks for the lock.
AddBlock(a, b) ==
    /\ add[a] = NoAdd
    /\ add' = [add EXCEPT ![a] = [pc |-> "lock", block |-> b]]
    /\ UNCHANGED <<blocks, index, height, latestHeight, latestHash, writer, read>>

\* MUTANT: AddBlock takes the lock for reading, which others may hold.
LockShared(a) ==
    /\ add[a].pc = "lock"
    /\ writer' = a
    /\ add' = [add EXCEPT ![a].pc = "validate"]
    /\ UNCHANGED <<blocks, index, height, latestHeight, latestHash, read>>

LockChain(a) ==
    /\ add[a].pc = "lock"
    /\ CanLock
    /\ writer' = a
    /\ add' = [add EXCEPT ![a].pc = "validate"]
    /\ UNCHANGED <<blocks, index, height, latestHeight, latestHash, read>>

\* AddBlock returns and gives the lock back.
Returns(a) ==
    /\ writer' = None
    /\ add' = [add EXCEPT ![a] = NoAdd]

Stored(hash) == \E b \in blocks : b.hash = hash

TxsOf(b) == {b.txs[i] : i \in DOMAIN b.txs}

StoredTxs == UNION {TxsOf(b) : b \in blocks}

\* validateTransaction: no transaction of a stored block comes again.
ValidTransactions(b) == TxsOf(b) \cap StoredTxs = {}

\* MUTANT: the Merkle root is not computed again.
ValidateUnrooted(b) ==
    /\ ~Stored(b.hash)
    /\ b.height = latestHeight + 1
    /\ b.height > 1 => b.prev = latestHash
    /\ b.sound
    /\ ValidTransactions(b)

\* MUTANT: a transaction that is on the chain is accepted again.
ValidateRepeats(b) ==
    /\ ~Stored(b.hash)
    /\ b.height = latestHeight + 1
    /\ b.height > 1 => b.prev = latestHash
    /\ b.sound
    /\ CalculateMerkleRoot(b.txs) = b.root

\* validateBlock.
Valid(b) ==
    /\ ~Stored(b.hash)
    /\ b.height = latestHeight + 1
    /\ b.height > 1 => b.prev = latestHash
    /\ b.sound
    /\ ValidTransactions(b)
    /\ CalculateMerkleRoot(b.txs) = b.root

ValidateBlock(a) ==
    /\ add[a].pc = "validate"
    /\ Relocks => CanRLock
    /\ IF Valid(add[a].block)
       THEN /\ add' = [add EXCEPT ![a].pc = "put"]
            /\ UNCHANGED writer
       ELSE Returns(a)
    /\ UNCHANGED <<blocks, index, height, latestHeight, latestHash, read>>

\* MUTANT: the height is recorded before the block.
PutHeightFirst(a, ok) ==
    /\ add[a].pc = "put"
    /\ IF ok
       THEN /\ height' = add[a].block.height
            /\ add' = [add EXCEPT ![a].pc = "height"]
            /\ UNCHANGED <<writer, blocks, index>>
       ELSE Returns(a) /\ UNCHANGED <<blocks, index, height>>
    /\ UNCHANGED <<latestHeight, latestHash, read>>

\* PutBlock: the block, its transactions and its entry in the index.
PutBlock(a, ok) ==
    LET b == add[a].block IN
    /\ add[a].pc = "put"
    /\ IF ok
       THEN /\ blocks' = blocks \cup {b}
            /\ index' = [index EXCEPT ![b.height] = b]
            /\ add' = [add EXCEPT ![a].pc = "height"]
            /\ UNCHANGED writer
       ELSE Returns(a) /\ UNCHANGED <<blocks, index>>
    /\ UNCHANGED <<height, latestHeight, latestHash, read>>

\* SetLatestHeight.
SetLatestHeight(a, ok) ==
    /\ add[a].pc = "height"
    /\ IF ok
       THEN /\ height' = add[a].block.height
            /\ add' = [add EXCEPT ![a].pc = "latest"]
            /\ UNCHANGED writer
       ELSE Returns(a) /\ UNCHANGED height
    /\ UNCHANGED <<blocks, index, latestHeight, latestHash, read>>

\* MUTANT: the latest hash is left as it was.
UpdateHeightOnly(a) ==
    /\ add[a].pc = "latest"
    /\ latestHeight' = add[a].block.height
    /\ Returns(a)
    /\ UNCHANGED <<blocks, index, height, latestHash, read>>

\* AddBlock updates what it keeps in memory and returns.
UpdateLatest(a) ==
    /\ add[a].pc = "latest"
    /\ latestHash' = add[a].block.hash
    /\ latestHeight' = add[a].block.height
    /\ Returns(a)
    /\ UNCHANGED <<blocks, index, height, read>>

----------------------------------------------------------------------------
\* GetLatestBlock, when the chain is not empty, and GetBlocksRange hold the
\* lock and take it again in GetBlockByHeight, GetBlocksRange once per height.
ReadBlocks(r) ==
    /\ read[r] = 0
    /\ CanRLock
    /\ read' = [read EXCEPT ![r] = 1]
    /\ UNCHANGED <<blocks, index, height, latestHeight, latestHash, writer, add>>

GetBlockByHeight(r) ==
    /\ read[r] = 1
    /\ CanRLock
    /\ read' = [read EXCEPT ![r] = 2]
    /\ UNCHANGED <<blocks, index, height, latestHeight, latestHash, writer, add>>

\* The inner lock is given back, and the outer one unless more is to be read.
EndRead(r, more) ==
    /\ read[r] = 2
    /\ read' = [read EXCEPT ![r] = IF more THEN 1 ELSE 0]
    /\ UNCHANGED <<blocks, index, height, latestHeight, latestHash, writer, add>>

\* The hash of the block GetLatestBlock finds in the store.
StoredLatestHash ==
    IF height = 0 \/ index[height] = None THEN None ELSE index[height].hash

\* The process stops, at any step, and NewBlockchain reads the store.
Restart ==
    /\ latestHeight' = height
    /\ latestHash' = StoredLatestHash
    /\ writer' = None
    /\ add' = [a \in Adders |-> NoAdd]
    /\ read' = [r \in Readers |-> 0]
    /\ UNCHANGED <<blocks, index, height>>

AdderStep(a) ==
    \/ LockChain(a)
    \/ ValidateBlock(a)
    \/ \E ok \in BOOLEAN : PutBlock(a, ok)
    \/ \E ok \in BOOLEAN : SetLatestHeight(a, ok)
    \/ UpdateLatest(a)

ReaderStep(r) ==
    \/ ReadBlocks(r)
    \/ GetBlockByHeight(r)
    \/ \E more \in BOOLEAN : EndRead(r, more)

Next ==
    \/ \E a \in Adders, b \in Blocks : AddBlock(a, b)
    \/ \E a \in Adders : AdderStep(a)
    \/ \E r \in Readers : ReaderStep(r)
    \/ Restart

Spec == Init /\ [][Next]_vars

\* Goroutines go on when they can, and the mutex is not withheld from one for
\* ever.
FairSpec ==
    /\ Spec
    /\ \A a \in Adders : SF_vars(AdderStep(a))
    /\ \A r \in Readers : SF_vars(GetBlockByHeight(r)) /\ SF_vars(EndRead(r, FALSE))

----------------------------------------------------------------------------
\* Every variable holds values of its type; one goroutine at most is past the
\* lock, and no reader is inside with it.
ChainTypeOK ==
    /\ blocks \subseteq Blocks
    /\ index \in [0..MaxHeight -> Blocks \cup {None}]
    /\ height \in 0..MaxHeight
    /\ latestHeight \in 0..MaxHeight
    /\ latestHash \in {b.hash : b \in Blocks} \cup {None}
    /\ \A a \in Adders :
         /\ add[a].block \in Blocks \cup {None}
         /\ add[a].pc \in {"idle", "lock", "validate", "put", "height", "latest"}
         /\ (add[a].pc \in {"validate", "put", "height", "latest"}) <=> (writer = a)
    /\ \A r \in Readers : read[r] \in 0..2 /\ (writer # None => read[r] = 0)

\* Whatever writes failed and wherever the process stopped, the store holds a
\* block for each height up to the latest, each the child of the one before:
\* NewBlockchain finds its latest block and every block can be read.
\* (chain.go storeBlock, NewBlockchain; storage.go PutBlock)
StoredLinked ==
    \A h \in 1..height :
        /\ index[h] \in blocks
        /\ index[h].height = h
        /\ h > 1 => index[h].prev = index[h - 1].hash

\* What AddBlock validates against is the stored chain: outside the last step
\* of an AddBlock, the height and hash in memory are those of the store, after
\* failed writes and blocks stored above the latest height, too.
\* (chain.go AddBlock, NewBlockchain)
MemoryMatchesStore ==
    (\A a \in Adders : add[a].pc # "latest") =>
        /\ latestHeight = height
        /\ latestHash = IF height = 0 THEN None ELSE index[height].hash

\* Every transaction of a stored block, at every position and whatever their
\* number, can be proved to a light client, which has the header only; and a
\* proof taken from one block convinces it of no block without the transaction.
\* (chain.go validateBlock; merkle.go GetProof, Verify; types.go
\* CalculateMerkleRoot; lightclient.go VerifyTransaction)
StoredProvable ==
    \A b \in blocks : \A i \in DOMAIN b.txs :
        LET proof == GetProof(b.txs, i - 1) IN
        /\ VerifyTransaction(b.txs[i], proof, b.root)
        /\ \A c \in blocks :
             VerifyTransaction(b.txs[i], proof, c.root) => b.txs[i] \in TxsOf(c)

\* The chain as a reader of the store sees it.
StoredChain == [h \in 1..height |-> index[h]]

Abstract == INSTANCE Ledger WITH log <- StoredChain

\* The stored chain is an append-only ledger: no crash, failed write or race
\* changes, removes or reorders a block, or adds one that does not follow the
\* last or that repeats a transaction.  (chain.go AddBlock, validateBlock)
ImplementsLedger == Abstract!Spec

\* A call of AddBlock returns, with the block added or an error.
\* (chain.go AddBlock)
AddBlockReturns == \A a \in Adders : (add[a].pc # "idle") ~> (add[a].pc = "idle")
=============================================================================
