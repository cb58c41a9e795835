---------------------------- MODULE ChainProofs -----------------------------
(***************************************************************************)
(* The chain and its store, for any blocks, adders and readers.            *)
(*                                                                         *)
(* The inductive invariant says of every step of AddBlock what is known    *)
(* there of its block (Knows): that it extends the stored chain once it is *)
(* validated, that it is stored under the next height once it is put, and  *)
(* that it is the last of the chain once the height is recorded.  It stays *)
(* true because only the holder of bc.mu is at such a step (Exclusive).    *)
(* Lemmas on Merkle trees of any size come after the refinement.           *)
(***************************************************************************)
EXTENDS Chain, SequenceTheorems, FiniteSetTheorems, WellFoundedInduction, TLAPS

Steps == {"idle", "lock", "validate", "put", "height", "latest"}

Inside == {"validate", "put", "height", "latest"}

Types ==
    /\ blocks \subseteq Blocks
    /\ index \in [0..MaxHeight -> Blocks \cup {None}]
    /\ height \in 0..MaxHeight
    /\ latestHeight \in 0..MaxHeight
    /\ latestHash \in {b.hash : b \in Blocks} \cup {None}
    /\ add \in [Adders -> [pc: Steps, block: Blocks \cup {None}]]
    /\ \A a \in Adders : add[a].pc # "idle" => add[a].block \in Blocks
    /\ read \in [Readers -> 0..2]

\* bc.mu is held by the goroutine that is past it, and by no reader then.
Exclusive ==
    /\ writer \in Adders \cup {None}
    /\ \A a \in Adders : add[a].pc \in Inside <=> writer = a
    /\ writer # None => \A r \in Readers : read[r] = 0

\* Block b follows the stored chain, in everything but its transactions.
Fits(b) ==
    /\ b.height = height + 1
    /\ b.height > 1 => b.prev = index[height].hash
    /\ b.sound
    /\ b.root = CalculateMerkleRoot(b.txs)

\* No block of the stored chain has a transaction of b.
FreshTxs(b) == \A h \in 1..height : TxsOf(b) \cap TxsOf(index[h]) = {}

\* What is known of the block of an AddBlock at each of its steps.
Knows(a) ==
    LET b == add[a].block IN
    /\ add[a].pc = "put" => Fits(b) /\ FreshTxs(b)
    /\ add[a].pc = "height" =>
         Fits(b) /\ FreshTxs(b) /\ b \in blocks /\ index[b.height] = b
    /\ add[a].pc = "latest" => b.height = height /\ height > 0 /\ index[height] = b

IInv ==
    /\ Types
    /\ Exclusive
    /\ \A a \in Adders : Knows(a)
    /\ StoredLinked
    /\ MemoryMatchesStore

----------------------------------------------------------------------------
\* The invariant implies the type invariant that the runs check.
LEMMA IInvType == IInv => ChainTypeOK
  BY DEF IInv, Types, Exclusive, ChainTypeOK, Steps, Inside

LEMMA InitIInv == Init => IInv
<1> SUFFICES ASSUME Init PROVE IInv
  OBVIOUS
<1>1. Types
  BY ChainAssumption DEF Init, Types, NoAdd, Steps
<1>2. Exclusive
  BY ChainAssumption DEF Init, Exclusive, NoAdd, Inside
<1>3. \A a \in Adders : Knows(a)
  BY DEF Init, Knows, NoAdd
<1>4. StoredLinked
  BY DEF Init, StoredLinked
<1>5. MemoryMatchesStore
  BY DEF Init, MemoryMatchesStore
<1>6. QED
  BY <1>1, <1>2, <1>3, <1>4, <1>5 DEF IInv

----------------------------------------------------------------------------
(* Steps that leave the chain alone.                                       *)

chainVars == <<blocks, index, height, latestHeight, latestHash>>

\* What is known of blocks depends on the chain and on the AddBlock calls.
LEMMA KnowsKept ==
    ASSUME IInv, UNCHANGED chainVars,
           \A a \in Adders : add'[a] = add[a] \/ add'[a].pc \in {"idle", "lock", "validate"}
    PROVE  \A a \in Adders : Knows(a)'
  BY DEF IInv, Knows, chainVars, Fits, FreshTxs

\* AddBlock asks for the lock.
LEMMA AddBlockStep ==
    ASSUME IInv, NEW a \in Adders, NEW b \in Blocks, AddBlock(a, b)
    PROVE  IInv'
<1> USE DEF AddBlock, NoAdd
<1>1. Types'
  BY DEF IInv, Types, Steps
<1>2. Exclusive'
  BY DEF IInv, Types, Exclusive, Inside
<1>3. \A c \in Adders : Knows(c)'
  BY KnowsKept DEF IInv, Types, chainVars
<1>4. StoredLinked'
  BY DEF IInv, StoredLinked
<1>5. MemoryMatchesStore'
  BY DEF IInv, Types, MemoryMatchesStore
<1>6. QED
  BY <1>1, <1>2, <1>3, <1>4, <1>5 DEF IInv

\* The lock is given to one that asks for it.
LEMMA LockChainStep ==
    ASSUME IInv, NEW a \in Adders, LockChain(a)
    PROVE  IInv'
<1> USE DEF LockChain
<1>1. Types'
  BY DEF IInv, Types, Steps
<1>2. Exclusive'
  BY ChainAssumption DEF IInv, Types, Exclusive, Inside, CanLock
<1>3. \A c \in Adders : Knows(c)'
  BY KnowsKept DEF IInv, Types, chainVars
<1>4. StoredLinked'
  BY DEF IInv, StoredLinked
<1>5. MemoryMatchesStore'
  BY DEF IInv, Types, MemoryMatchesStore
<1>6. QED
  BY <1>1, <1>2, <1>3, <1>4, <1>5 DEF IInv

\* Readers take and give back the lock.
LEMMA ReaderStepKeeps ==
    ASSUME IInv, NEW r \in Readers, ReaderStep(r)
    PROVE  IInv'
<1> USE DEF ReaderStep, ReadBlocks, GetBlockByHeight, EndRead
<1>1. Types'
  BY DEF IInv, Types
<1>2. Exclusive'
  BY DEF IInv, Types, Exclusive, CanRLock
<1>3. \A c \in Adders : Knows(c)'
  BY KnowsKept DEF chainVars
<1>4. StoredLinked'
  BY DEF IInv, StoredLinked
<1>5. MemoryMatchesStore'
  BY DEF IInv, MemoryMatchesStore
<1>6. QED
  BY <1>1, <1>2, <1>3, <1>4, <1>5 DEF IInv

----------------------------------------------------------------------------
(* Steps of the goroutine that holds the lock.                             *)

\* It is the only one inside, so of the others nothing is known or needed.
LEMMA OneInside ==
    ASSUME IInv, NEW a \in Adders, add[a].pc \in Inside
    PROVE  \A c \in Adders : c # a => add[c].pc \in {"idle", "lock"}
  BY ChainAssumption DEF IInv, Types, Exclusive, Steps, Inside

\* The transactions of a block that validateTransaction lets pass are on no
\* block of the stored chain, whose blocks are all stored.
LEMMA ValidIsFresh ==
    ASSUME IInv, NEW b \in Blocks, ValidTransactions(b)
    PROVE  FreshTxs(b)
<1> SUFFICES ASSUME NEW h \in 1..height PROVE TxsOf(b) \cap TxsOf(index[h]) = {}
  BY DEF FreshTxs
<1>1. index[h] \in blocks
  BY DEF IInv, StoredLinked
<1>2. TxsOf(index[h]) \subseteq StoredTxs
  BY <1>1 DEF StoredTxs
<1>3. QED
  BY <1>2 DEF ValidTransactions

\* A block that validateBlock lets pass follows the stored chain.
LEMMA ValidFits ==
    ASSUME IInv, NEW a \in Adders, add[a].pc = "validate", Valid(add[a].block)
    PROVE  Fits(add[a].block) /\ FreshTxs(add[a].block)
<1> DEFINE b == add[a].block
<1>1. b \in Blocks
  BY DEF IInv, Types
<1>2. \A c \in Adders : add[c].pc # "latest"
  BY OneInside DEF Inside
<1>3. latestHeight = height /\ (height # 0 => latestHash = index[height].hash)
  BY <1>2 DEF IInv, MemoryMatchesStore
<1>4. Fits(b)
  BY <1>1, <1>3 DEF Valid, Fits, IInv, Types
<1>5. FreshTxs(b)
  BY <1>1, ValidIsFresh DEF Valid
<1>6. QED
  BY <1>4, <1>5

LEMMA ValidateBlockStep ==
    ASSUME IInv, NEW a \in Adders, ValidateBlock(a)
    PROVE  IInv'
<1> USE DEF ValidateBlock, Returns, NoAdd
<1>1. Types'
  BY DEF IInv, Types, Steps
<1>2. Exclusive'
  BY OneInside, ChainAssumption DEF IInv, Types, Exclusive, Inside
<1>3. \A c \in Adders : Knows(c)'
  <2>1. CASE Valid(add[a].block)
    <3>1. Fits(add[a].block) /\ FreshTxs(add[a].block)
      BY <2>1, ValidFits
    <3>2. add' = [add EXCEPT ![a].pc = "put"]
      BY <2>1
    <3>3. \A c \in Adders : c # a => add'[c].pc \in {"idle", "lock"}
      BY <3>2, OneInside DEF Inside, IInv, Types
    <3>4. add'[a].pc = "put" /\ add'[a].block = add[a].block
      BY <3>2 DEF IInv, Types
    <3>5. Knows(a)'
      BY <3>1, <3>4 DEF Knows, Fits, FreshTxs
    <3>6. QED
      BY <3>3, <3>5 DEF Knows
  <2>2. CASE ~Valid(add[a].block)
    BY <2>2, KnowsKept DEF IInv, Types, chainVars
  <2>3. QED
    BY <2>1, <2>2
<1>4. StoredLinked'
  BY DEF IInv, StoredLinked
<1>5. MemoryMatchesStore'
  BY DEF IInv, Types, MemoryMatchesStore
<1>6. QED
  BY <1>1, <1>2, <1>3, <1>4, <1>5 DEF IInv

LEMMA PutBlockStep ==
    ASSUME IInv, NEW a \in Adders, NEW ok \in BOOLEAN, PutBlock(a, ok)
    PROVE  IInv'
<1> DEFINE b == add[a].block
<1> USE DEF PutBlock, Returns, NoAdd
<1>1. Types'
  BY DEF IInv, Types, Steps
<1>2. Exclusive'
  BY OneInside, ChainAssumption DEF IInv, Types, Exclusive, Inside
<1>3. b \in Blocks /\ b.height \in 0..MaxHeight /\ b.height = height + 1 /\ height \in Nat
  BY ChainAssumption DEF IInv, Types, Knows, Fits
<1>4. \A h \in 0..height : index'[h] = index[h]
  BY <1>3, ChainAssumption DEF IInv, Types
<1>5. \A c \in Adders : Knows(c)'
  <2>1. CASE ok
    <3>1. add' = [add EXCEPT ![a].pc = "height"]
      BY <2>1
    <3>2. \A c \in Adders : c # a => add'[c].pc \in {"idle", "lock"}
      BY <3>1, OneInside DEF Inside, IInv, Types
    <3>3. add'[a].pc = "height" /\ add'[a].block = b
      BY <3>1 DEF IInv, Types
    <3>4. Fits(b) /\ FreshTxs(b)
      BY DEF IInv, Knows
    <3>5. b \in blocks' /\ index'[b.height] = b
      BY <1>3, <2>1 DEF IInv, Types
    <3>6. Fits(b)' /\ FreshTxs(b)'
      BY <1>3, <1>4, <3>3, <3>4 DEF Fits, FreshTxs
    <3>7. Knows(a)'
      BY <3>3, <3>5, <3>6 DEF Knows
    <3>8. QED
      BY <3>2, <3>7 DEF Knows
  <2>2. CASE ~ok
    BY <2>2, KnowsKept DEF IInv, Types, chainVars
  <2>3. QED
    BY <2>1, <2>2
<1>6. StoredLinked'
  BY <1>3, <1>4 DEF IInv, StoredLinked
<1>7. MemoryMatchesStore'
  <2>1. \A c \in Adders : add[c].pc # "latest"
    BY OneInside DEF Inside
  <2>2. latestHeight = height /\ latestHash = IF height = 0 THEN None ELSE index[height].hash
    BY <2>1 DEF IInv, MemoryMatchesStore
  <2>3. QED
    BY <1>3, <1>4, <2>2 DEF MemoryMatchesStore
<1>8. QED
  BY <1>1, <1>2, <1>5, <1>6, <1>7 DEF IInv

LEMMA SetLatestHeightStep ==
    ASSUME IInv, NEW a \in Adders, NEW ok \in BOOLEAN, SetLatestHeight(a, ok)
    PROVE  IInv'
<1> DEFINE b == add[a].block
<1> USE DEF SetLatestHeight, Returns, NoAdd
<1>1. /\ b \in Blocks /\ b.height \in 0..MaxHeight /\ b.height = height + 1
      /\ height \in Nat /\ MaxHeight \in Nat
      /\ b \in blocks /\ index[b.height] = b
      /\ b.height > 1 => b.prev = index[height].hash
  BY ChainAssumption DEF IInv, Types, Knows, Fits
<1>2. Types'
  BY <1>1 DEF IInv, Types, Steps
<1>3. Exclusive'
  BY OneInside, ChainAssumption DEF IInv, Types, Exclusive, Inside
<1>4. CASE ok
  <2>1. add' = [add EXCEPT ![a].pc = "latest"] /\ height' = b.height
    BY <1>4
  <2>2. \A c \in Adders : c # a => add'[c].pc \in {"idle", "lock"}
    BY <2>1, OneInside DEF Inside, IInv, Types
  <2>3. add'[a].pc = "latest" /\ add'[a].block = b
    BY <2>1 DEF IInv, Types
  <2>4. Knows(a)'
    BY <1>1, <2>1, <2>3 DEF Knows
  <2>5. \A c \in Adders : Knows(c)'
    BY <2>2, <2>4 DEF Knows
  <2>6. StoredLinked'
    BY <1>1, <2>1 DEF IInv, StoredLinked
  <2>7. MemoryMatchesStore'
    BY <2>3 DEF MemoryMatchesStore
  <2>8. QED
    BY <1>2, <1>3, <2>5, <2>6, <2>7 DEF IInv
<1>5. CASE ~ok
  <2>1. \A c \in Adders : Knows(c)'
    BY <1>5, KnowsKept DEF IInv, Types, chainVars
  <2>2. StoredLinked'
    BY <1>5 DEF IInv, StoredLinked
  <2>3. \A c \in Adders : add[c].pc # "latest"
    BY OneInside DEF Inside
  <2>4. MemoryMatchesStore'
    BY <1>5, <2>3 DEF IInv, MemoryMatchesStore
  <2>5. QED
    BY <1>2, <1>3, <2>1, <2>2, <2>4 DEF IInv
<1>6. QED
  BY <1>4, <1>5

LEMMA UpdateLatestStep ==
    ASSUME IInv, NEW a \in Adders, UpdateLatest(a)
    PROVE  IInv'
<1> USE DEF UpdateLatest, Returns, NoAdd
<1>1. Types'
  BY ChainAssumption DEF IInv, Types, Steps
<1>2. Exclusive'
  BY OneInside, ChainAssumption DEF IInv, Types, Exclusive, Inside
<1>3. \A c \in Adders : add'[c].pc \in {"idle", "lock"}
  BY OneInside DEF IInv, Types, Inside
<1>4. \A c \in Adders : Knows(c)'
  BY <1>3 DEF Knows
<1>5. StoredLinked'
  BY DEF IInv, StoredLinked
<1>6. /\ latestHeight' = height' /\ height' # 0
      /\ latestHash' = index'[height'].hash
  BY DEF IInv, Types, Knows
<1>7. MemoryMatchesStore'
  BY <1>6 DEF MemoryMatchesStore
<1>8. QED
  BY <1>1, <1>2, <1>4, <1>5, <1>7 DEF IInv

----------------------------------------------------------------------------
\* A restart finds in the store what memory should hold.
LEMMA RestartStep ==
    ASSUME IInv, Restart
    PROVE  IInv'
<1> USE DEF Restart, NoAdd
<1>1. height # 0 => index[height] \in blocks /\ index[height] # None
  BY ChainAssumption DEF IInv, Types, StoredLinked
<1>2. latestHash' = IF height = 0 THEN None ELSE index[height].hash
  BY <1>1 DEF StoredLatestHash
<1>3. Types'
  BY <1>1, <1>2 DEF IInv, Types, Steps
<1>4. Exclusive'
  BY ChainAssumption DEF Exclusive, Inside
<1>5. \A a \in Adders : Knows(a)'
  BY DEF Knows
<1>6. StoredLinked'
  BY DEF IInv, StoredLinked
<1>7. MemoryMatchesStore'
  BY <1>2 DEF MemoryMatchesStore
<1>8. QED
  BY <1>3, <1>4, <1>5, <1>6, <1>7 DEF IInv

\* Every step keeps the invariant.
LEMMA NextIInv ==
    ASSUME IInv, [Next]_vars
    PROVE  IInv'
<1>1. CASE UNCHANGED vars
  BY <1>1 DEF vars, IInv, Types, Exclusive, Knows, Fits, FreshTxs, StoredLinked,
              MemoryMatchesStore
<1>2. ASSUME NEW a \in Adders, AdderStep(a)
      PROVE  IInv'
  BY <1>2, LockChainStep, ValidateBlockStep, PutBlockStep, SetLatestHeightStep,
     UpdateLatestStep DEF AdderStep
<1>3. QED
  BY <1>1, <1>2, AddBlockStep, ReaderStepKeeps, RestartStep DEF Next

LEMMA AlwaysIInv == Spec => []IInv
  BY InitIInv, NextIInv, PTL DEF Spec

----------------------------------------------------------------------------
\* Variables have their types, and bc.mu excludes: one goroutine at most is
\* between Lock and Unlock of AddBlock, and no reader with it, through every
\* early return, failed write and restart.
THEOREM TypeCorrect == Spec => []ChainTypeOK
  BY AlwaysIInv, IInvType, PTL

\* The store holds a linked chain up to its latest height, whatever writes
\* failed and wherever the process stopped.
THEOREM LinkedCorrect == Spec => []StoredLinked
<1>1. IInv => StoredLinked
  BY DEF IInv
<1>2. QED
  BY <1>1, AlwaysIInv, PTL

\* What validateBlock compares with is what is stored.
THEOREM MemoryCorrect == Spec => []MemoryMatchesStore
<1>1. IInv => MemoryMatchesStore
  BY DEF IInv
<1>2. QED
  BY <1>1, AlwaysIInv, PTL

----------------------------------------------------------------------------
(* The refinement.                                                         *)

\* The stored chain as a sequence, and that of the next state.
LEMMA ChainLength ==
    ASSUME Types
    PROVE  /\ StoredChain \in Seq(Blocks \cup {None})
           /\ Len(StoredChain) = height
           /\ DOMAIN StoredChain = 1..height
           /\ \A h \in 1..height : StoredChain[h] = index[h]
<1>1. StoredChain \in [1..height -> Blocks \cup {None}] /\ height \in Nat
  BY ChainAssumption DEF Types, StoredChain
<1>2. QED
  BY <1>1 DEF StoredChain

\* The ledger and the chain mean the same by a root and by the transactions of
\* a block.
LEMMA SameRoot == \A txs : Abstract!CalculateMerkleRoot(txs) = CalculateMerkleRoot(txs)
  BY DEF Abstract!CalculateMerkleRoot, CalculateMerkleRoot, Abstract!Levels, Levels,
         Abstract!NextLevel, NextLevel,
         Abstract!Hashes, Hashes, Abstract!ParentLevel, ParentLevel,
         Abstract!Padded, Padded, Abstract!HashPair, HashPair

LEMMA SameTxs == \A b : Abstract!TxsIn(b) = TxsOf(b)
  BY DEF Abstract!TxsIn, TxsOf

\* Recording the height of a block that follows the chain appends it.
LEMMA HeightAppends ==
    ASSUME IInv, NEW a \in Adders, SetLatestHeight(a, TRUE)
    PROVE  Abstract!Next
<1> DEFINE b == add[a].block
<1>1. /\ b \in Blocks /\ b.height = height + 1 /\ height \in Nat
      /\ b.height > 1 => b.prev = index[height].hash
      /\ b.sound /\ b.root = CalculateMerkleRoot(b.txs)
      /\ FreshTxs(b) /\ index[b.height] = b
  BY ChainAssumption DEF SetLatestHeight, IInv, Types, Knows, Fits
<1>2. height' = height + 1 /\ index' = index
  BY <1>1 DEF SetLatestHeight
<1>3. /\ Len(StoredChain) = height /\ DOMAIN StoredChain = 1..height
      /\ \A h \in 1..height : StoredChain[h] = index[h]
      /\ StoredChain \in Seq(Blocks \cup {None})
  BY ChainLength DEF IInv
<1>4. StoredChain' = Append(StoredChain, b)
  <2>1. Append(StoredChain, b) = [h \in 1..(height + 1) |->
                                    IF h = height + 1 THEN b ELSE StoredChain[h]]
    BY <1>1, <1>3
  <2>2. \A h \in 1..(height + 1) :
           index[h] = IF h = height + 1 THEN b ELSE StoredChain[h]
    BY <1>1, <1>3
  <2>3. QED
    BY <1>2, <2>1, <2>2 DEF StoredChain
<1>5. TxsOf(b) \cap Abstract!TxsOn(StoredChain) = {}
  BY <1>1, <1>3, SameTxs DEF Abstract!TxsOn, FreshTxs
<1>6. Abstract!Follows(b, StoredChain)
  BY <1>1, <1>3, <1>5, SameRoot, SameTxs DEF Abstract!Follows
<1>7. QED
  BY <1>1, <1>4, <1>6 DEF Abstract!Next, Abstract!AppendBlock

\* Every other step leaves the stored chain as it is: the index changes above
\* the stored height only.
LEMMA StepRefines ==
    ASSUME IInv, [Next]_vars
    PROVE  [Abstract!Next]_StoredChain
<1>1. CASE UNCHANGED <<index, height>>
  BY <1>1 DEF StoredChain
<1>2. ASSUME NEW a \in Adders, NEW ok \in BOOLEAN, PutBlock(a, ok)
      PROVE  UNCHANGED StoredChain
  <2> DEFINE b == add[a].block
  <2>1. b.height = height + 1 /\ height \in Nat /\ height' = height
    BY <1>2, ChainAssumption DEF PutBlock, IInv, Types, Knows, Fits
  <2>2. \A h \in 1..height : index'[h] = index[h]
    BY <1>2, <2>1, ChainAssumption DEF PutBlock, IInv, Types
  <2>3. QED
    BY <2>1, <2>2 DEF StoredChain
<1>3. ASSUME NEW a \in Adders, NEW ok \in BOOLEAN, SetLatestHeight(a, ok)
      PROVE  [Abstract!Next]_StoredChain
  <2>1. CASE ok = TRUE
    BY <1>3, <2>1, HeightAppends
  <2>2. CASE ok = FALSE
    BY <1>1, <1>3, <2>2 DEF SetLatestHeight
  <2>3. QED
    BY <2>1, <2>2
<1>4. ASSUME NEW a \in Adders, AdderStep(a)
      PROVE  [Abstract!Next]_StoredChain
  BY <1>1, <1>2, <1>3, <1>4 DEF AdderStep, LockChain, ValidateBlock, UpdateLatest
<1>5. QED
  BY <1>1, <1>4 DEF Next, vars, AddBlock, ReaderStep, ReadBlocks, GetBlockByHeight,
                    EndRead, Restart

\* The stored chain is an append-only ledger: through races, failed writes and
\* stops between the two writes of a block, all that happens to it is that a
\* sound block which follows the last and repeats no transaction is appended.
THEOREM LedgerCorrect == Spec => ImplementsLedger
<1>1. Init => Abstract!Init
  BY DEF Init, Abstract!Init, StoredChain
<1>2. IInv /\ [Next]_vars => [Abstract!Next]_StoredChain
  BY StepRefines
<1>3. QED
  BY <1>1, <1>2, AlwaysIInv, PTL DEF Spec, ImplementsLedger, Abstract!Spec
----------------------------------------------------------------------------
(* Merkle trees and proofs, for any number of transactions.  The functions *)
(* of the module Merkle are defined by recursion over the levels of a      *)
(* tree; induction over the levels shows what they are.                    *)

Less == {ss \in Nat \X Nat : ss[1] < ss[2]}

LEMMA LessWellFounded == IsWellFoundedOn(Less, Nat)
  BY NatLessThanWellFounded DEF OpToRel, Less

\* A set of numbers that is not empty has a least element.
LEMMA LeastNumber ==
    ASSUME NEW T \in SUBSET Nat, T # {}
    PROVE  \E x \in T : \A y \in T : x <= y
<1>1. PICK x \in T : \A y \in T : <<y, x>> \notin Less
  BY LessWellFounded, WFMin
<1>2. ASSUME NEW y \in T PROVE x <= y
  <2>1. x \in Nat /\ y \in Nat /\ <<y, x>> \notin Less
    BY <1>1
  <2>2. ~(y < x)
    BY <2>1 DEF Less
  <2>3. QED
    BY <2>1, <2>2
<1>3. QED
  BY <1>2

\* Induction: a set that holds 0 and with n also n + 1 holds every number.
LEMMA SetInduction ==
    ASSUME NEW T, 0 \in T, \A n \in Nat : n \in T => n + 1 \in T
    PROVE  Nat \subseteq T
<1> DEFINE U == Nat \ T
<1>1. SUFFICES ASSUME U # {} PROVE FALSE
  OBVIOUS
<1>2. PICK x \in U : \A y \in U : x <= y
  BY <1>1, LeastNumber
<1>3. x # 0 /\ x - 1 \in Nat /\ ~(x <= x - 1)
  OBVIOUS
<1>4. x - 1 \in T
  BY <1>2, <1>3
<1>5. QED
  BY <1>3, <1>4

\* The levels of a tree are what their definition says.
LEMMA LevelsExist ==
    ASSUME NEW h, NEW n \in Nat
    PROVE  \E f : f = [k \in 0..n |-> IF k = 0 THEN h ELSE NextLevel(f[k - 1])]
<1> DEFINE P(m, f) == f = [k \in 0..m |-> IF k = 0 THEN h ELSE NextLevel(f[k - 1])]
           T == {m \in Nat : \E f : P(m, f)}
<1>1. 0 \in T
  <2>1. P(0, [k \in 0..0 |-> h])
    OBVIOUS
  <2>2. QED
    BY <2>1
<1>2. ASSUME NEW m \in Nat, m \in T PROVE m + 1 \in T
  <2>1. PICK f : P(m, f)
    BY <1>2
  <2> DEFINE g == [k \in 0..(m + 1) |-> IF k = m + 1 THEN NextLevel(f[m]) ELSE f[k]]
  <2>2. \A k \in 0..(m + 1) : g[k] = IF k = 0 THEN h ELSE NextLevel(g[k - 1])
    <3> SUFFICES ASSUME NEW k \in 0..(m + 1)
                 PROVE  g[k] = IF k = 0 THEN h ELSE NextLevel(g[k - 1])
      OBVIOUS
    <3>1. CASE k = m + 1
      BY <3>1
    <3>2. CASE k \in 0..m /\ k # 0
      <4>1. k - 1 \in 0..m /\ k # m + 1 /\ k - 1 # m + 1
        BY <3>2
      <4>2. g[k] = f[k] /\ g[k - 1] = f[k - 1]
        BY <3>2, <4>1
      <4>3. f[k] = NextLevel(f[k - 1])
        BY <2>1, <3>2
      <4>4. QED
        BY <3>2, <4>2, <4>3
    <3>3. CASE k = 0
      BY <2>1, <3>3
    <3>4. QED
      BY <3>1, <3>2, <3>3
  <2>3. P(m + 1, g)
    BY <2>2
  <2> HIDE DEF g, P
  <2>4. QED
    BY <2>3
<1> HIDE DEF T
<1>3. n \in T
  BY <1>1, <1>2, SetInduction
<1>4. QED
  BY <1>3 DEF T

LEMMA LevelsDef ==
    ASSUME NEW h, Len(h) \in Nat
    PROVE  Levels(h) = [k \in 0..Len(h) |-> IF k = 0 THEN h ELSE NextLevel(Levels(h)[k - 1])]
  BY LevelsExist DEF Levels

----------------------------------------------------------------------------
\* s is a sequence of m elements.
IsList(s, m) == m \in Nat /\ s = [i \in 1..m |-> s[i]]

LEMMA ListLength ==
    ASSUME NEW s, NEW m, IsList(s, m)
    PROVE  Len(s) = m /\ DOMAIN s = 1..m /\ s \in Seq({s[i] : i \in 1..m})
<1>1. m \in Nat /\ s = [i \in 1..m |-> s[i]]
  BY DEF IsList
<1>2. s \in [1..m -> {s[i] : i \in 1..m}]
  BY <1>1
<1>3. QED
  BY <1>1, <1>2

\* The parent at position j of a level of m nodes is made of the nodes 2 j - 1
\* and Twin(m, j).
Twin(m, j) == IF 2 * j <= m THEN 2 * j ELSE m
Half(m) == (m + 1) \div 2

LEMMA PaddedList ==
    ASSUME NEW s, NEW m \in Nat \ {0}, IsList(s, m)
    PROVE  /\ IsList(Padded(s), 2 * Half(m))
           /\ \A j \in 1..m : Padded(s)[j] = s[j]
           /\ m % 2 = 1 => Padded(s)[m + 1] = s[m]
<1>1. /\ Len(s) = m /\ DOMAIN s = 1..m /\ s \in Seq({s[i] : i \in 1..m})
      /\ s = [i \in 1..m |-> s[i]]
  BY ListLength DEF IsList
<1>2. CASE m % 2 = 1
  <2>1. 2 * Half(m) = m + 1 /\ m + 1 \in Nat
    BY <1>2 DEF Half
  <2>2. Padded(s) = Append(s, s[m])
    BY <1>1, <1>2 DEF Padded
  <2>3. Append(s, s[m]) = [i \in 1..(m + 1) |-> IF i = m + 1 THEN s[m] ELSE s[i]]
    BY <1>1
  <2>4. QED
    BY <2>1, <2>2, <2>3 DEF IsList
<1>3. CASE m % 2 # 1
  <2>1. 2 * Half(m) = m
    BY <1>3 DEF Half
  <2>2. Padded(s) = s
    BY <1>1, <1>3 DEF Padded
  <2>3. QED
    BY <1>1, <1>3, <2>1, <2>2 DEF IsList
<1>4. QED
  BY <1>2, <1>3

\* What the nodes of a pair are.
LEMMA PaddedTwin ==
    ASSUME NEW s, NEW m \in Nat, m > 1, IsList(s, m), NEW j \in 1..Half(m)
    PROVE  /\ 2 * j - 1 \in 1..m /\ Twin(m, j) \in 1..m
           /\ Padded(s)[2 * j - 1] = s[2 * j - 1]
           /\ Padded(s)[2 * j] = s[Twin(m, j)]
<1>1. /\ \A l \in 1..m : Padded(s)[l] = s[l]
      /\ m % 2 = 1 => Padded(s)[m + 1] = s[m]
  BY PaddedList
<1>2. Half(m) \in 1..(m - 1)
  BY DEF Half
<1>3. 2 * j - 1 \in 1..m /\ Twin(m, j) \in 1..m
  BY <1>2 DEF Half, Twin
<1>4. CASE 2 * j <= m
  <2>1. 2 * j \in 1..m /\ Twin(m, j) = 2 * j
    BY <1>4 DEF Twin
  <2>2. QED
    BY <1>1, <1>3, <2>1
<1>5. CASE ~(2 * j <= m)
  <2>1. 2 * j = m + 1 /\ m % 2 = 1 /\ Twin(m, j) = m
    BY <1>2, <1>5 DEF Half, Twin
  <2>2. QED
    BY <1>1, <1>3, <2>1
<1>6. QED
  BY <1>4, <1>5

LEMMA ParentList ==
    ASSUME NEW s, NEW m \in Nat, m > 1, IsList(s, m)
    PROVE  /\ IsList(ParentLevel(s), Half(m))
           /\ Half(m) \in 1..(m - 1)
           /\ \A j \in 1..Half(m) : /\ 2 * j - 1 \in 1..m /\ Twin(m, j) \in 1..m
                                    /\ ParentLevel(s)[j] = HashPair(s[2 * j - 1], s[Twin(m, j)])
<1>1. IsList(Padded(s), 2 * Half(m))
  BY PaddedList
<1>2. Half(m) \in 1..(m - 1)
  BY DEF Half
<1>3. Len(Padded(s)) = 2 * Half(m)
  BY <1>1, ListLength
<1>4. (2 * Half(m)) \div 2 = Half(m)
  BY <1>2
<1>5. ParentLevel(s) = [j \in 1..Half(m) |-> HashPair(Padded(s)[2 * j - 1], Padded(s)[2 * j])]
  BY <1>3, <1>4 DEF ParentLevel
<1>6. ASSUME NEW j \in 1..Half(m)
      PROVE  /\ 2 * j - 1 \in 1..m /\ Twin(m, j) \in 1..m
             /\ ParentLevel(s)[j] = HashPair(s[2 * j - 1], s[Twin(m, j)])
  <2>1. /\ 2 * j - 1 \in 1..m /\ Twin(m, j) \in 1..m
        /\ Padded(s)[2 * j - 1] = s[2 * j - 1]
        /\ Padded(s)[2 * j] = s[Twin(m, j)]
    BY PaddedTwin
  <2>2. QED
    BY <1>5, <2>1
<1>7. IsList(ParentLevel(s), Half(m))
  <2>1. PICK p : p = ParentLevel(s)
    OBVIOUS
  <2>2. Half(m) \in Nat /\ p = [j \in 1..Half(m) |-> p[j]]
    BY <1>2, <1>5, <2>1 DEF HashPair
  <2>3. QED
    BY <2>1, <2>2 DEF IsList
<1>8. QED
  BY <1>2, <1>6, <1>7

\* The levels up to the root: level K is the root's, every one below it has
\* more nodes than one, and the next is made of its pairs.
Tree(L, K, h) ==
    /\ K \in Nat
    /\ L[0] = h
    /\ \A k \in 0..K : Len(L[k]) \in Nat /\ IsList(L[k], Len(L[k]))
    /\ \A k \in 0..(K - 1) : Len(L[k]) > 1 /\ L[k + 1] = ParentLevel(L[k])
    /\ Len(L[K]) = 1

\* Every level is a sequence, and shorter than the one before down to one node.
LEMMA LevelSizes ==
    ASSUME NEW h, NEW n \in Nat \ {0}, IsList(h, n), NEW k \in 0..n
    PROVE  LET s == Levels(h)[k]
           IN  /\ Len(s) \in Nat /\ Len(s) >= 1 /\ IsList(s, Len(s))
               /\ Len(s) = 1 \/ Len(s) <= n - k
<1> DEFINE L == Levels(h)
           Q(j) == \E m \in Nat : m >= 1 /\ IsList(L[j], m) /\ (m = 1 \/ m <= n - j)
           T == {j \in Nat : j <= n => Q(j)}
<1>1. Len(h) = n
  BY ListLength
<1>2. L = [j \in 0..n |-> IF j = 0 THEN h ELSE NextLevel(L[j - 1])]
  BY <1>1, LevelsDef
<1> HIDE DEF L
<1>3. 0 \in T
  <2>1. L[0] = h
    BY <1>2
  <2>2. Q(0)
    BY <2>1
  <2>3. QED
    BY <2>2
<1>4. ASSUME NEW j \in Nat, j \in T PROVE j + 1 \in T
  <2> SUFFICES ASSUME j + 1 <= n PROVE Q(j + 1)
    OBVIOUS
  <2>1. PICK m \in Nat : m >= 1 /\ IsList(L[j], m) /\ (m = 1 \/ m <= n - j)
    BY <1>4
  <2>2. L[j + 1] = NextLevel(L[j])
    <3>1. j + 1 \in 0..n /\ j + 1 # 0 /\ (j + 1) - 1 = j
      OBVIOUS
    <3>2. QED
      BY <1>2, <3>1
  <2>3. Len(L[j]) = m
    BY <2>1, ListLength
  <2>4. CASE m = 1
    <3>1. L[j + 1] = L[j]
      BY <2>2, <2>3, <2>4 DEF NextLevel
    <3>2. QED
      BY <2>1, <2>4, <3>1
  <2>5. CASE m > 1
    <3>1. L[j + 1] = ParentLevel(L[j])
      BY <2>2, <2>3, <2>5 DEF NextLevel
    <3>2. IsList(ParentLevel(L[j]), Half(m)) /\ Half(m) \in 1..(m - 1)
      BY <2>1, <2>5, ParentList
    <3>3. Half(m) \in Nat /\ Half(m) >= 1 /\ Half(m) <= n - (j + 1)
      BY <2>1, <2>5, <3>2
    <3>4. QED
      BY <3>1, <3>2, <3>3
  <2>6. QED
    BY <2>1, <2>4, <2>5
<1> HIDE DEF T, Q
<1>5. k \in T
  BY <1>3, <1>4, SetInduction
<1>6. Q(k)
  BY <1>5 DEF T
<1>7. PICK m \in Nat : m >= 1 /\ IsList(L[k], m) /\ (m = 1 \/ m <= n - k)
  BY <1>6 DEF Q
<1>8. Len(L[k]) = m
  BY <1>7, ListLength
<1>9. QED
  BY <1>7, <1>8 DEF L

\* The first level of one node is the root's: it is what Height counts up to,
\* and what the levels above it repeat.
LEMMA TreeOf ==
    ASSUME NEW h, NEW n \in Nat \ {0}, IsList(h, n)
    PROVE  /\ Tree(Levels(h), Height(Levels(h)), h)
           /\ Levels(h)[n] = Levels(h)[Height(Levels(h))]
<1> DEFINE L == Levels(h)
           One == {k \in 0..n : Len(L[k]) = 1}
<1>1. Len(h) = n
  BY ListLength
<1>2. L = [j \in 0..n |-> IF j = 0 THEN h ELSE NextLevel(L[j - 1])]
  BY <1>1, LevelsDef
<1>3. \A k \in 0..n : /\ Len(L[k]) \in Nat /\ Len(L[k]) >= 1 /\ IsList(L[k], Len(L[k]))
                      /\ Len(L[k]) = 1 \/ Len(L[k]) <= n - k
  BY LevelSizes
<1> HIDE DEF L
<1>4. n \in One
  BY <1>3
<1>5. PICK K \in One : \A k \in One : K <= k
  <2>1. One \in SUBSET Nat /\ One # {}
    BY <1>4
  <2> HIDE DEF One
  <2>2. QED
    BY <2>1, LeastNumber
<1>6. K \in 0..n /\ K \in Nat /\ Len(L[K]) = 1
  OBVIOUS
<1>7. \A k \in 0..(K - 1) : k \in 0..n /\ Len(L[k]) > 1
  <2> SUFFICES ASSUME NEW k \in 0..(K - 1) PROVE k \in 0..n /\ Len(L[k]) > 1
    OBVIOUS
  <2>1. k \in 0..n /\ ~(K <= k)
    BY <1>6
  <2>2. Len(L[k]) # 1
    BY <1>5, <2>1
  <2>3. PICK m \in Nat : m = Len(L[k]) /\ m >= 1
    BY <1>3, <2>1
  <2>4. m # 1 /\ m >= 1
    BY <2>2, <2>3
  <2>5. m > 1
    BY <2>4
  <2>6. Len(L[k]) > 1
    BY <2>3, <2>5
  <2>7. QED
    BY <2>1, <2>6
<1>8. \A k \in 0..(n - 1) : L[k + 1] = NextLevel(L[k])
  <2> SUFFICES ASSUME NEW k \in 0..(n - 1) PROVE L[k + 1] = NextLevel(L[k])
    OBVIOUS
  <2>1. k + 1 \in 0..n /\ k + 1 # 0 /\ (k + 1) - 1 = k
    OBVIOUS
  <2>2. QED
    BY <1>2, <2>1
<1>9. \A k \in K..n : L[k] = L[K]
  <2> DEFINE T == {d \in Nat : K + d <= n => L[K + d] = L[K]}
  <2>1. 0 \in T
    BY <1>6
  <2>2. ASSUME NEW d \in Nat, d \in T PROVE d + 1 \in T
    <3> SUFFICES ASSUME K + (d + 1) <= n PROVE L[K + (d + 1)] = L[K]
      OBVIOUS
    <3>1. K + d \in 0..(n - 1) /\ K + (d + 1) = (K + d) + 1
      BY <1>6
    <3>2. L[K + d] = L[K]
      BY <2>2, <3>1
    <3>3. L[(K + d) + 1] = NextLevel(L[K])
      BY <1>8, <3>1, <3>2
    <3>4. NextLevel(L[K]) = L[K]
      BY <1>6 DEF NextLevel
    <3>5. QED
      BY <3>1, <3>3, <3>4
  <2> HIDE DEF T
  <2>3. Nat \subseteq T
    BY <2>1, <2>2, SetInduction
  <2>4. ASSUME NEW k \in K..n PROVE L[k] = L[K]
    <3>1. k - K \in Nat /\ K + (k - K) = k /\ k <= n
      BY <1>6
    <3>2. QED
      BY <2>3, <3>1 DEF T
  <2>5. QED
    BY <2>4
<1>10. Height(L) = K
  <2>1. DOMAIN L = 0..n
    BY <1>2
  <2>2. {k \in DOMAIN L : Len(L[k]) > 1} = 0..(K - 1)
    <3>1. ASSUME NEW k \in 0..n, Len(L[k]) > 1 PROVE k \in 0..(K - 1)
      <4>1. k \notin K..n
        <5> SUFFICES ASSUME k \in K..n PROVE FALSE
          OBVIOUS
        <5>1. Len(L[k]) = 1
          BY <1>6, <1>9
        <5>2. QED
          BY <3>1, <5>1
      <4>2. QED
        BY <1>6, <4>1
    <3>2. QED
      BY <1>7, <2>1, <3>1
  <2>3. Cardinality(0..(K - 1)) = K
    <3>1. K - 1 \in Int /\ 0 \in Int
      BY <1>6
    <3>2. Cardinality(0..(K - 1)) = IF 0 > K - 1 THEN 0 ELSE (K - 1) - 0 + 1
      BY <3>1, FS_Interval
    <3>3. QED
      BY <1>6, <3>2
  <2>4. QED
    BY <2>2, <2>3 DEF Height
<1>11. Tree(L, K, h)
  <2>1. L[0] = h
    BY <1>2
  <2>2. \A k \in 0..(K - 1) : L[k + 1] = ParentLevel(L[k])
    <3> SUFFICES ASSUME NEW k \in 0..(K - 1) PROVE L[k + 1] = ParentLevel(L[k])
      OBVIOUS
    <3>1. k \in 0..(n - 1) /\ Len(L[k]) > 1 /\ Len(L[k]) \in Nat
      BY <1>3, <1>6, <1>7
    <3>2. QED
      BY <1>8, <3>1 DEF NextLevel
  <2>3. \A k \in 0..K : k \in 0..n
    BY <1>6
  <2>4. QED
    BY <1>3, <1>6, <1>7, <2>1, <2>2, <2>3 DEF Tree
<1>12. L[n] = L[K]
  BY <1>6, <1>9
<1>13. QED
  BY <1>10, <1>11, <1>12 DEF L

LEMMA IndicesExist ==
    ASSUME NEW i, NEW n \in Nat
    PROVE  \E f : f = [k \in 0..n |-> IF k = 0 THEN i ELSE f[k - 1] \div 2]
<1> DEFINE P(m, f) == f = [k \in 0..m |-> IF k = 0 THEN i ELSE f[k - 1] \div 2]
           T == {m \in Nat : \E f : P(m, f)}
<1>1. 0 \in T
  <2>1. P(0, [k \in 0..0 |-> i])
    OBVIOUS
  <2>2. QED
    BY <2>1
<1>2. ASSUME NEW m \in Nat, m \in T PROVE m + 1 \in T
  <2>1. PICK f : P(m, f)
    BY <1>2
  <2> DEFINE g == [k \in 0..(m + 1) |-> IF k = m + 1 THEN f[m] \div 2 ELSE f[k]]
  <2>2. \A k \in 0..(m + 1) : g[k] = IF k = 0 THEN i ELSE g[k - 1] \div 2
    <3> SUFFICES ASSUME NEW k \in 0..(m + 1)
                 PROVE  g[k] = IF k = 0 THEN i ELSE g[k - 1] \div 2
      OBVIOUS
    <3>1. CASE k = m + 1
      BY <3>1
    <3>2. CASE k \in 0..m /\ k # 0
      <4>1. k - 1 \in 0..m /\ k # m + 1 /\ k - 1 # m + 1
        BY <3>2
      <4>2. g[k] = f[k] /\ g[k - 1] = f[k - 1]
        BY <3>2, <4>1
      <4>3. f[k] = f[k - 1] \div 2
        BY <2>1, <3>2
      <4>4. QED
        BY <3>2, <4>2, <4>3
    <3>3. CASE k = 0
      BY <2>1, <3>3
    <3>4. QED
      BY <3>1, <3>2, <3>3
  <2>3. P(m + 1, g)
    BY <2>2
  <2> HIDE DEF g, P
  <2>4. QED
    BY <2>3
<1> HIDE DEF T
<1>3. n \in T
  BY <1>1, <1>2, SetInduction
<1>4. QED
  BY <1>3 DEF T

\* The positions on the way to the root are what their definition says.
LEMMA IndicesDef ==
    ASSUME NEW i, NEW n \in Nat
    PROVE  Indices(i, n) = [k \in 0..n |-> IF k = 0 THEN i ELSE Indices(i, n)[k - 1] \div 2]
  BY IndicesExist DEF Indices

\* The hash that the k-th sibling of proof p makes of the hash below it.
Joined(p, k, below) ==
    IF p.flags[k] THEN HashPair(below, p.hashes[k]) ELSE HashPair(p.hashes[k], below)

LEMMA PathExist ==
    ASSUME NEW p, NEW n \in Nat
    PROVE  \E f : f = [k \in 0..n |-> IF k = 0 THEN p.leaf ELSE Joined(p, k, f[k - 1])]
<1> DEFINE P(m, f) == f = [k \in 0..m |-> IF k = 0 THEN p.leaf ELSE Joined(p, k, f[k - 1])]
           T == {m \in Nat : \E f : P(m, f)}
<1>1. 0 \in T
  <2>1. P(0, [k \in 0..0 |-> p.leaf])
    OBVIOUS
  <2>2. QED
    BY <2>1
<1>2. ASSUME NEW m \in Nat, m \in T PROVE m + 1 \in T
  <2>1. PICK f : P(m, f)
    BY <1>2
  <2> DEFINE g == [k \in 0..(m + 1) |-> IF k = m + 1 THEN Joined(p, m + 1, f[m]) ELSE f[k]]
  <2>2. \A k \in 0..(m + 1) : g[k] = IF k = 0 THEN p.leaf ELSE Joined(p, k, g[k - 1])
    <3> SUFFICES ASSUME NEW k \in 0..(m + 1)
                 PROVE  g[k] = IF k = 0 THEN p.leaf ELSE Joined(p, k, g[k - 1])
      OBVIOUS
    <3>1. CASE k = m + 1
      BY <3>1
    <3>2. CASE k \in 0..m /\ k # 0
      <4>1. k - 1 \in 0..m /\ k # m + 1 /\ k - 1 # m + 1
        BY <3>2
      <4>2. g[k] = f[k] /\ g[k - 1] = f[k - 1]
        BY <3>2, <4>1
      <4>3. f[k] = Joined(p, k, f[k - 1])
        BY <2>1, <3>2
      <4>4. QED
        BY <3>2, <4>2, <4>3
    <3>3. CASE k = 0
      BY <2>1, <3>3
    <3>4. QED
      BY <3>1, <3>2, <3>3
  <2>3. P(m + 1, g)
    BY <2>2
  <2> HIDE DEF g, P
  <2>4. QED
    BY <2>3
<1> HIDE DEF T
<1>3. n \in T
  BY <1>1, <1>2, SetInduction
<1>4. QED
  BY <1>3 DEF T

\* The hashes on the way to the root are what their definition says.
LEMMA PathDef ==
    ASSUME NEW p, NEW n \in Nat, Len(p.hashes) = n
    PROVE  HashesOnPath(p) =
             [k \in 0..n |-> IF k = 0 THEN p.leaf ELSE Joined(p, k, HashesOnPath(p)[k - 1])]
<1>1. \E f : f = [k \in 0..Len(p.hashes) |-> IF k = 0 THEN p.leaf ELSE Joined(p, k, f[k - 1])]
  BY PathExist
<1>2. HashesOnPath(p) =
        CHOOSE f : f = [k \in 0..Len(p.hashes) |-> IF k = 0 THEN p.leaf ELSE Joined(p, k, f[k - 1])]
  BY DEF HashesOnPath, Joined
<1>3. HashesOnPath(p) =
        [k \in 0..Len(p.hashes) |-> IF k = 0 THEN p.leaf ELSE Joined(p, k, HashesOnPath(p)[k - 1])]
  BY <1>1, <1>2
<1>4. QED
  BY <1>3
\* What a proof for leaf i holds: the leaf, and of each level the other node of
\* the pair, with x the positions on the way to the root.
ProofFor(p, L, K, x, i) ==
    /\ p.leaf = L[0][i + 1]
    /\ Len(p.hashes) = K
    /\ \A k \in 0..(K - 1) :
         /\ x[k] % 2 = 0 => p.flags[k + 1] = TRUE /\ p.hashes[k + 1] = Padded(L[k])[x[k] + 2]
         /\ x[k] % 2 # 0 => p.flags[k + 1] = FALSE /\ p.hashes[k + 1] = L[k][x[k]]

\* This is what GetProof returns.
LEMMA ProofParts ==
    ASSUME NEW txs, NEW i, Height(Levels(Hashes(txs))) \in Nat
    PROVE  ProofFor(GetProof(txs, i), Levels(Hashes(txs)), Height(Levels(Hashes(txs))),
                    Indices(i, Height(Levels(Hashes(txs)))), i)
<1>1. PICK L, K, p, x : /\ L = Levels(Hashes(txs)) /\ K = Height(L)
                        /\ p = GetProof(txs, i) /\ x = Indices(i, K)
  OBVIOUS
<1>2. K \in Nat
  BY <1>1
<1>3. p = [leaf |-> L[0][i + 1],
           hashes |-> [k \in 1..K |->
              IF x[k - 1] % 2 = 0 THEN Padded(L[k - 1])[x[k - 1] + 2]
              ELSE L[k - 1][x[k - 1]]],
           flags |-> [k \in 1..K |-> x[k - 1] % 2 = 0]]
  BY <1>1 DEF GetProof
<1> DEFINE S(k) == IF x[k - 1] % 2 = 0 THEN Padded(L[k - 1])[x[k - 1] + 2]
                   ELSE L[k - 1][x[k - 1]]
<1>4. /\ p.leaf = L[0][i + 1]
      /\ p.hashes = [k \in 1..K |-> S(k)]
      /\ p.flags = [k \in 1..K |-> x[k - 1] % 2 = 0]
  BY <1>3
<1>5. Len(p.hashes) = K
  <2> HIDE DEF S
  <2>1. [k \in 1..K |-> S(k)] \in [1..K -> {S(k) : k \in 1..K}]
    OBVIOUS
  <2>2. QED
    BY <1>4, <1>2, <2>1
<1>6. ASSUME NEW k \in 0..(K - 1)
      PROVE  p.flags[k + 1] = (x[k] % 2 = 0) /\ p.hashes[k + 1] = S(k + 1)
  <2>1. k + 1 \in 1..K /\ (k + 1) - 1 = k
    BY <1>2
  <2> HIDE DEF S
  <2>2. p.hashes[k + 1] = S(k + 1)
    BY <1>4, <2>1
  <2>3. p.flags[k + 1] = (x[k] % 2 = 0)
    BY <1>4, <2>1
  <2>4. QED
    BY <2>2, <2>3
<1>7. ASSUME NEW k \in 0..(K - 1)
      PROVE  /\ x[k] % 2 = 0 => /\ p.flags[k + 1] = TRUE
                                /\ p.hashes[k + 1] = Padded(L[k])[x[k] + 2]
             /\ x[k] % 2 # 0 => /\ p.flags[k + 1] = FALSE
                                /\ p.hashes[k + 1] = L[k][x[k]]
  <2>1. (k + 1) - 1 = k
    BY <1>2
  <2>2. S(k + 1) = IF x[k] % 2 = 0 THEN Padded(L[k])[x[k] + 2] ELSE L[k][x[k]]
    BY <2>1
  <2> HIDE DEF S
  <2>3. CASE x[k] % 2 = 0
    BY <1>6, <2>2, <2>3
  <2>4. CASE x[k] % 2 # 0
    BY <1>6, <2>2, <2>4
  <2>5. QED
    BY <2>3, <2>4
<1>8. ProofFor(p, L, K, x, i)
  BY <1>4, <1>5, <1>7 DEF ProofFor
<1>9. QED
  BY <1>1, <1>8

\* One step up: the hash at position x of a level, joined with the other node
\* of its pair, is the parent at position x \div 2.
LEMMA StepUp ==
    ASSUME NEW s, NEW m \in Nat, m > 1, IsList(s, m), NEW x \in 0..(m - 1)
    PROVE  /\ x \div 2 \in 0..(Half(m) - 1)
           /\ x % 2 = 0 => ParentLevel(s)[x \div 2 + 1] = HashPair(s[x + 1], Padded(s)[x + 2])
           /\ x % 2 # 0 => ParentLevel(s)[x \div 2 + 1] = HashPair(s[x], s[x + 1])
<1> DEFINE j == x \div 2 + 1
<1>1. j \in 1..Half(m) /\ x \div 2 \in 0..(Half(m) - 1)
  BY DEF Half
<1>2. /\ Padded(s)[2 * j] = s[Twin(m, j)]
      /\ ParentLevel(s)[j] = HashPair(s[2 * j - 1], s[Twin(m, j)])
  BY <1>1, PaddedTwin, ParentList
<1>3. CASE x % 2 = 0
  <2>1. 2 * j - 1 = x + 1 /\ 2 * j = x + 2
    BY <1>3
  <2>2. QED
    BY <1>1, <1>2, <1>3, <2>1
<1>4. CASE x % 2 # 0
  <2>1. 2 * j - 1 = x /\ 2 * j = x + 1 /\ Twin(m, j) = x + 1
    BY <1>4 DEF Twin
  <2>2. QED
    BY <1>1, <1>2, <1>4, <2>1
<1>5. QED
  BY <1>3, <1>4
\* The hashes of a block's transactions are a level.
LEMMA HashesList ==
    ASSUME NEW S, NEW txs \in Seq(S)
    PROVE  IsList(Hashes(txs), Len(txs)) /\ Len(txs) \in Nat /\ DOMAIN txs = 1..Len(txs)
<1>1. Len(txs) \in Nat /\ DOMAIN txs = 1..Len(txs)
  OBVIOUS
<1>2. PICK h : h = Hashes(txs)
  OBVIOUS
<1>3. h = [i \in 1..Len(txs) |-> <<"tx", txs[i]>>]
  BY <1>1, <1>2 DEF Hashes
<1>4. h = [i \in 1..Len(txs) |-> h[i]]
  BY <1>3
<1>5. QED
  BY <1>1, <1>2, <1>4 DEF IsList

\* The proof of a leaf leads to the root: on every level it is at the node above
\* the leaf.
LEMMA ProofLeads ==
    ASSUME NEW S, NEW txs \in Seq(S), NEW i \in DOMAIN txs
    PROVE  LET p == GetProof(txs, i - 1)
           IN  HashesOnPath(p)[Len(p.hashes)] = CalculateMerkleRoot(txs)
<1>1. PICK n \in Nat : n = Len(txs)
  BY HashesList
<1>2. IsList(Hashes(txs), n) /\ DOMAIN txs = 1..n
  BY <1>1, HashesList
<1>3. i \in 1..n /\ n \in Nat \ {0} /\ i - 1 \in 0..(n - 1) /\ (i - 1) + 1 = i
  BY <1>2
<1> DEFINE L == Levels(Hashes(txs))
           K == Height(L)
           p == GetProof(txs, i - 1)
           x == Indices(i - 1, K)
           H == HashesOnPath(p)
<1>4. Tree(L, K, Hashes(txs)) /\ L[n] = L[K]
  BY <1>2, <1>3, TreeOf
<1>5. K \in Nat
  BY <1>4 DEF Tree
<1>6. /\ p.leaf = L[0][i]
      /\ Len(p.hashes) = K
      /\ \A k \in 0..(K - 1) :
           /\ x[k] % 2 = 0 => /\ p.flags[k + 1] = TRUE
                              /\ p.hashes[k + 1] = Padded(L[k])[x[k] + 2]
           /\ x[k] % 2 # 0 => /\ p.flags[k + 1] = FALSE
                              /\ p.hashes[k + 1] = L[k][x[k]]
  <2>1. ProofFor(p, L, K, x, i - 1)
    BY <1>5, ProofParts
  <2> HIDE DEF L, K, p, x
  <2>2. QED
    BY <1>3, <2>1 DEF ProofFor
<1>7. x = [k \in 0..K |-> IF k = 0 THEN i - 1 ELSE x[k - 1] \div 2]
  BY <1>5, IndicesDef
<1> HIDE DEF L, K, p, x
<1>8. H = [k \in 0..K |-> IF k = 0 THEN p.leaf ELSE Joined(p, k, H[k - 1])]
  BY <1>5, <1>6, PathDef
<1> HIDE DEF H
<1> DEFINE Q(k) == /\ x[k] \in 0..(Len(L[k]) - 1)
                   /\ H[k] = L[k][x[k] + 1]
           T == {k \in Nat : k <= K => Q(k)}
<1>9. Len(L[0]) = n
  BY <1>2, <1>4, ListLength DEF Tree
<1>10. 0 \in T
  <2>1. x[0] = i - 1 /\ H[0] = p.leaf
    BY <1>5, <1>7, <1>8
  <2>2. Q(0)
    BY <1>3, <1>6, <1>9, <2>1
  <2>3. QED
    BY <2>2
<1>11. ASSUME NEW k \in Nat, k \in T PROVE k + 1 \in T
  <2> SUFFICES ASSUME k + 1 <= K PROVE Q(k + 1)
    OBVIOUS
  <2>1. /\ k \in 0..K /\ k \in 0..(K - 1) /\ k + 1 \in 0..K /\ k + 1 # 0 /\ (k + 1) - 1 = k
    BY <1>5
  <2>2. Q(k)
    BY <1>11, <2>1
  <2>3. PICK m \in Nat : m = Len(L[k])
    BY <1>4, <2>1 DEF Tree
  <2>4. m > 1 /\ IsList(L[k], m) /\ L[k + 1] = ParentLevel(L[k])
    BY <1>4, <2>1, <2>3 DEF Tree
  <2>5. x[k + 1] = x[k] \div 2
    BY <1>7, <2>1
  <2>6. H[k + 1] = Joined(p, k + 1, H[k])
    BY <1>8, <2>1
  <2>7. PICK y \in 0..(m - 1) : y = x[k]
    BY <2>2, <2>3
  <2>8. /\ y \div 2 \in 0..(Half(m) - 1)
        /\ y % 2 = 0 => ParentLevel(L[k])[y \div 2 + 1] = HashPair(L[k][y + 1], Padded(L[k])[y + 2])
        /\ y % 2 # 0 => ParentLevel(L[k])[y \div 2 + 1] = HashPair(L[k][y], L[k][y + 1])
    BY <2>4, StepUp
  <2>9. Len(L[k + 1]) = Half(m)
    BY <2>4, ParentList, ListLength
  <2>10. H[k] = L[k][y + 1]
    BY <2>2, <2>7
  <2>11. H[k + 1] = L[k + 1][y \div 2 + 1]
    <3>1. CASE y % 2 = 0
      <4>1. p.flags[k + 1] = TRUE /\ p.hashes[k + 1] = Padded(L[k])[y + 2]
        BY <1>6, <2>1, <2>7, <3>1
      <4>2. Joined(p, k + 1, H[k]) = HashPair(H[k], p.hashes[k + 1])
        BY <4>1 DEF Joined
      <4>3. QED
        BY <2>4, <2>6, <2>8, <2>10, <3>1, <4>1, <4>2
    <3>2. CASE y % 2 # 0
      <4>1. p.flags[k + 1] = FALSE /\ p.hashes[k + 1] = L[k][y]
        BY <1>6, <2>1, <2>7, <3>2
      <4>2. Joined(p, k + 1, H[k]) = HashPair(p.hashes[k + 1], H[k])
        BY <4>1 DEF Joined
      <4>3. QED
        BY <2>4, <2>6, <2>8, <2>10, <3>2, <4>1, <4>2
    <3>3. QED
      BY <3>1, <3>2
  <2>12. QED
    BY <2>5, <2>7, <2>8, <2>9, <2>11
<1> HIDE DEF T, Q
<1>12. K \in T
  BY <1>5, <1>10, <1>11, SetInduction
<1>13. Q(K)
  BY <1>5, <1>12 DEF T
<1>14. H[K] = L[K][1]
  <2>1. Len(L[K]) = 1
    BY <1>4 DEF Tree
  <2>2. x[K] = 0
    BY <1>13, <2>1 DEF Q
  <2>3. QED
    BY <1>13, <2>2 DEF Q
<1>15. CalculateMerkleRoot(txs) = L[n][1]
  <2>1. txs # <<>>
    BY <1>3, <1>1
  <2>2. QED
    BY <1>1, <2>1 DEF CalculateMerkleRoot, L
<1>16. QED
  BY <1>4, <1>6, <1>14, <1>15 DEF H, p
----------------------------------------------------------------------------
\* Different values hash differently.
LEMMA TermsDiffer ==
    ASSUME NEW x, NEW y, NEW l, NEW r, NEW l2, NEW r2
    PROVE  /\ <<"tx", x>> # HashPair(l, r)
           /\ <<"tx", x>> # <<>> /\ HashPair(l, r) # <<>>
           /\ <<"tx", x>> = <<"tx", y>> => x = y
           /\ HashPair(l, r) = HashPair(l2, r2) => l = l2 /\ r = r2
  BY DEF HashPair

\* The nodes of a tree are the leaves, and above them pairs.
LEMMA LeafNode ==
    ASSUME NEW S, NEW txs \in Seq(S), NEW L, NEW K, Tree(L, K, Hashes(txs)),
           NEW q \in 1..Len(L[0])
    PROVE  q \in DOMAIN txs /\ L[0][q] = <<"tx", txs[q]>>
<1>1. L[0] = Hashes(txs)
  BY DEF Tree
<1>2. Len(L[0]) = Len(txs) /\ DOMAIN txs = 1..Len(txs)
  BY <1>1, HashesList, ListLength
<1>3. QED
  BY <1>1, <1>2 DEF Hashes

PairOf(s, t) == \E l, r \in 1..Len(s) : t = HashPair(s[l], s[r])

LEMMA PairNode ==
    ASSUME NEW L, NEW K, NEW h, Tree(L, K, h), NEW k \in 0..(K - 1), NEW u, u = k + 1,
           NEW q \in 1..Len(L[u])
    PROVE  PairOf(L[k], L[u][q])
<1>1. k \in 0..K
  BY DEF Tree
<1>2. PICK m \in Nat : m = Len(L[k])
  BY <1>1 DEF Tree
<1>3. m > 1 /\ IsList(L[k], m) /\ L[u] = ParentLevel(L[k])
  BY <1>1, <1>2 DEF Tree
<1>4. Len(L[u]) = Half(m)
  BY <1>3, ParentList, ListLength
<1>5. q \in 1..Half(m)
  BY <1>4
<1>6. /\ 2 * q - 1 \in 1..m /\ Twin(m, q) \in 1..m
      /\ ParentLevel(L[k])[q] = HashPair(L[k][2 * q - 1], L[k][Twin(m, q)])
  BY <1>3, <1>5, ParentList
<1>7. QED
  BY <1>2, <1>3, <1>6 DEF PairOf

\* Hash t is that of a pair with x.
PairWith(t, x) == \E other : t = HashPair(x, other) \/ t = HashPair(other, x)

\* A node below the root is one of the pair that makes its parent.
LEMMA ParentOf ==
    ASSUME NEW L, NEW K, NEW h, Tree(L, K, h), NEW k \in 0..(K - 1), NEW u, u = k + 1,
           NEW p \in 1..Len(L[k])
    PROVE  \E q \in 1..Len(L[u]) : PairWith(L[u][q], L[k][p])
<1>1. k \in 0..K
  BY DEF Tree
<1>2. PICK m \in Nat : m = Len(L[k])
  BY <1>1 DEF Tree
<1>3. m > 1 /\ IsList(L[k], m) /\ L[u] = ParentLevel(L[k])
  BY <1>1, <1>2 DEF Tree
<1>4. Len(L[u]) = Half(m)
  BY <1>3, ParentList, ListLength
<1>5. p \in 1..m /\ p - 1 \in 0..(m - 1) /\ (p - 1) + 1 = p
  BY <1>2
<1> DEFINE q == (p - 1) \div 2 + 1
<1>6. /\ (p - 1) \div 2 \in 0..(Half(m) - 1)
      /\ (p - 1) % 2 = 0 =>
           ParentLevel(L[k])[q] = HashPair(L[k][(p - 1) + 1], Padded(L[k])[(p - 1) + 2])
      /\ (p - 1) % 2 # 0 => ParentLevel(L[k])[q] = HashPair(L[k][p - 1], L[k][(p - 1) + 1])
  BY <1>3, <1>5, StepUp
<1>7. q \in 1..Half(m)
  BY <1>6 DEF Half
<1> HIDE DEF q
<1>8. PairWith(L[u][q], L[k][p])
  BY <1>3, <1>5, <1>6 DEF PairWith
<1>9. QED
  BY <1>4, <1>7, <1>8


\* Every element of s is one of t.
Within(s, t) == \A p \in 1..Len(s) : \E q \in 1..Len(t) : t[q] = s[p]

\* Two trees with the same root: every node of the one is, counted from the
\* root, on the same level of the other.
LEMMA SameNodes ==
    ASSUME NEW S, NEW b \in Seq(S), NEW c \in Seq(S), NEW L, NEW K, NEW M, NEW J,
           Tree(L, K, Hashes(b)), Tree(M, J, Hashes(c)), L[K][1] = M[J][1]
    PROVE  K <= J /\ Within(L[0], M[J - K])
<1>1. K \in Nat /\ J \in Nat
  BY DEF Tree
<1> DEFINE Q(d) == d <= J /\ \A p \in 1..Len(L[K - d]) :
                               \E q \in 1..Len(M[J - d]) : M[J - d][q] = L[K - d][p]
           T == {d \in Nat : d <= K => Q(d)}
<1>2. 0 \in T
  <2>1. Len(L[K]) = 1 /\ Len(M[J]) = 1 /\ K - 0 = K /\ J - 0 = J /\ 0 <= J
    BY <1>1 DEF Tree
  <2>2. QED
    BY <2>1
<1>3. ASSUME NEW d \in Nat, d \in T PROVE d + 1 \in T
  <2> SUFFICES ASSUME d + 1 <= K PROVE Q(d + 1)
    OBVIOUS
  <2>1. Q(d)
    BY <1>1, <1>3
  <2>2. PICK k \in 0..(K - 1) : k = K - (d + 1) /\ k + 1 = K - d
    BY <1>1
  <2>3. \A p \in 1..Len(L[k]) : \E q \in 1..Len(M[J - d]) : PairWith(M[J - d][q], L[k][p])
    <3> SUFFICES ASSUME NEW p \in 1..Len(L[k])
                 PROVE  \E q \in 1..Len(M[J - d]) : PairWith(M[J - d][q], L[k][p])
      OBVIOUS
    <3>1. PICK r \in 1..Len(L[K - d]) : PairWith(L[K - d][r], L[k][p])
      BY <2>2, ParentOf
    <3>2. PICK q \in 1..Len(M[J - d]) : M[J - d][q] = L[K - d][r]
      BY <2>1
    <3>3. QED
      BY <3>1, <3>2
  <2>4. 1 \in 1..Len(L[k])
    <3>1. PICK m \in Nat : m = Len(L[k]) /\ m > 1
      BY <1>1, <2>2 DEF Tree
    <3>2. QED
      BY <3>1
  <2>5. d # J
    <3> SUFFICES ASSUME d = J PROVE FALSE
      OBVIOUS
    <3>1. J - d = 0
      BY <1>1
    <3>2. PICK q \in 1..Len(M[0]) : PairWith(M[0][q], L[k][1])
      BY <2>3, <2>4, <3>1
    <3>3. M[0][q] = <<"tx", c[q]>>
      BY LeafNode
    <3>4. QED
      BY <3>2, <3>3, TermsDiffer DEF PairWith
  <2>6. d + 1 <= J
    BY <1>1, <2>1, <2>5
  <2>7. PICK j \in 0..(J - 1) : j = J - (d + 1) /\ J - d = j + 1
    BY <1>1, <2>6
  <2>8. ASSUME NEW p \in 1..Len(L[k]) PROVE \E q \in 1..Len(M[j]) : M[j][q] = L[k][p]
    <3>1. PICK q \in 1..Len(M[J - d]) : PairWith(M[J - d][q], L[k][p])
      BY <2>3
    <3>2. PairOf(M[j], M[J - d][q])
      BY <2>7, PairNode
    <3>3. PICK l, r \in 1..Len(M[j]) : M[J - d][q] = HashPair(M[j][l], M[j][r])
      BY <3>2 DEF PairOf
    <3>4. M[j][l] = L[k][p] \/ M[j][r] = L[k][p]
      BY <3>1, <3>3, TermsDiffer DEF PairWith
    <3>5. QED
      BY <3>4
  <2>9. QED
    BY <2>2, <2>6, <2>7, <2>8
<1> HIDE DEF T, Q
<1>4. K \in T
  BY <1>1, <1>2, <1>3, SetInduction
<1>5. Q(K)
  BY <1>1, <1>4 DEF T
<1>6. K - K = 0
  BY <1>1
<1>7. QED
  BY <1>5, <1>6 DEF Q, Within

\* Blocks with the same root have the same transactions.
LEMMA RootBinds ==
    ASSUME NEW S, NEW b \in Seq(S), NEW c \in Seq(S), NEW i \in DOMAIN b,
           CalculateMerkleRoot(b) = CalculateMerkleRoot(c)
    PROVE  \E j \in DOMAIN c : c[j] = b[i]
<1>1. PICK n \in Nat : n = Len(b) /\ IsList(Hashes(b), n) /\ DOMAIN b = 1..n
  BY HashesList
<1>2. n # 0 /\ n \in Nat \ {0}
  BY <1>1
<1>3. PICK L : L = Levels(Hashes(b))
  OBVIOUS
<1>4. PICK K : K = Height(L)
  OBVIOUS
<1>5. Tree(L, K, Hashes(b)) /\ L[n] = L[K]
  BY <1>1, <1>2, <1>3, <1>4, TreeOf
<1>6. CalculateMerkleRoot(b) = L[K][1]
  <2>1. b # <<>>
    BY <1>1, <1>2
  <2>2. QED
    BY <1>1, <1>3, <1>5, <2>1 DEF CalculateMerkleRoot
<1>7. L[K][1] # <<>>
  <2>1. K \in Nat /\ Len(L[K]) = 1
    BY <1>5 DEF Tree
  <2>2. CASE K = 0
    <3>1. L[0][1] = <<"tx", b[1]>>
      BY <1>5, <2>1, <2>2, LeafNode
    <3>2. QED
      BY <2>2, <3>1, TermsDiffer
  <2>3. CASE K # 0
    <3>1. PICK k \in 0..(K - 1) : K = k + 1
      BY <2>1, <2>3
    <3>2. 1 \in 1..Len(L[K])
      BY <2>1
    <3>3. PairOf(L[k], L[K][1])
      BY <1>5, <3>1, <3>2, PairNode
    <3>4. QED
      BY <3>3, TermsDiffer DEF PairOf
  <2>4. QED
    BY <2>2, <2>3
<1>8. c # <<>>
  BY <1>6, <1>7 DEF CalculateMerkleRoot
<1>9. PICK l \in Nat : l = Len(c) /\ IsList(Hashes(c), l) /\ DOMAIN c = 1..l
  BY HashesList
<1>10. l \in Nat \ {0}
  BY <1>8, <1>9
<1>11. PICK M : M = Levels(Hashes(c))
  OBVIOUS
<1>12. PICK J : J = Height(M)
  OBVIOUS
<1>13. Tree(M, J, Hashes(c)) /\ M[l] = M[J]
  BY <1>9, <1>10, <1>11, <1>12, TreeOf
<1>14. CalculateMerkleRoot(c) = M[J][1]
  BY <1>8, <1>9, <1>11, <1>13 DEF CalculateMerkleRoot
<1>15. K <= J /\ Within(L[0], M[J - K])
  <2>1. L[K][1] = M[J][1]
    BY <1>6, <1>14
  <2>2. Tree(L, K, Hashes(b)) /\ Tree(M, J, Hashes(c))
    BY <1>5, <1>13
  <2>3. QED
    BY <2>1, <2>2, SameNodes
<1>16. Len(L[0]) = n
  BY <1>1, <1>5, ListLength DEF Tree
<1>17. i \in 1..Len(L[0])
  BY <1>1, <1>16
<1>18. L[0][i] = <<"tx", b[i]>>
  BY <1>5, <1>17, LeafNode
<1>19. PICK q \in 1..Len(M[J - K]) : M[J - K][q] = <<"tx", b[i]>>
  BY <1>15, <1>17, <1>18 DEF Within
<1>20. K \in Nat /\ J \in Nat
  BY <1>5, <1>13 DEF Tree
<1>21. J = K
  <2> SUFFICES ASSUME J # K PROVE FALSE
    OBVIOUS
  <2>1. (J - K) - 1 \in 0..(J - 1) /\ J - K = ((J - K) - 1) + 1
    BY <1>15, <1>20
  <2>2. PICK j \in 0..(J - 1) : J - K = j + 1
    BY <2>1
  <2>3. PairOf(M[j], M[J - K][q])
    BY <1>13, <2>2, PairNode
  <2>4. PICK u, v \in 1..Len(M[j]) : M[J - K][q] = HashPair(M[j][u], M[j][v])
    BY <2>3 DEF PairOf
  <2>5. <<"tx", b[i]>> = HashPair(M[j][u], M[j][v])
    BY <1>19, <2>4
  <2>6. QED
    BY <2>5, TermsDiffer
<1>22. J - K = 0
  BY <1>20, <1>21
<1>23. q \in DOMAIN c /\ M[0][q] = <<"tx", c[q]>>
  BY <1>13, <1>22, LeafNode
<1>24. QED
  BY <1>19, <1>22, <1>23, TermsDiffer
----------------------------------------------------------------------------
(* Stored blocks and light clients.                                        *)

\* The root of a stored block is that of its transactions.
Rooted == \A b \in blocks : b.root = CalculateMerkleRoot(b.txs)

LEMMA StepRooted ==
    ASSUME IInv, Rooted, [Next]_vars
    PROVE  Rooted'
<1>1. CASE UNCHANGED blocks
  BY <1>1 DEF Rooted
<1>2. ASSUME NEW a \in Adders, NEW ok \in BOOLEAN, PutBlock(a, ok)
      PROVE  Rooted'
  <2>1. add[a].block.root = CalculateMerkleRoot(add[a].block.txs)
    BY <1>2 DEF PutBlock, IInv, Knows, Fits
  <2>2. blocks' \subseteq blocks \cup {add[a].block}
    BY <1>2 DEF PutBlock
  <2>3. QED
    BY <2>1, <2>2 DEF Rooted
<1>3. ASSUME NEW a \in Adders, AdderStep(a)
      PROVE  Rooted'
  BY <1>1, <1>2, <1>3 DEF AdderStep, LockChain, ValidateBlock, SetLatestHeight, UpdateLatest
<1>4. QED
  BY <1>1, <1>3 DEF Next, vars, AddBlock, ReaderStep, ReadBlocks, GetBlockByHeight,
                    EndRead, Restart

\* A proof made from one block and accepted with the root of another means
\* that they have the same root, so the same transactions.
LEMMA RootedProvable ==
    ASSUME Types, Rooted
    PROVE  StoredProvable
<1> SUFFICES ASSUME NEW b \in blocks, NEW i \in DOMAIN b.txs
             PROVE  LET proof == GetProof(b.txs, i - 1) IN
                    /\ VerifyTransaction(b.txs[i], proof, b.root)
                    /\ \A c \in blocks :
                         VerifyTransaction(b.txs[i], proof, c.root) => b.txs[i] \in TxsOf(c)
  BY DEF StoredProvable
<1> DEFINE proof == GetProof(b.txs, i - 1)
<1>1. \A c \in blocks : c.txs \in Seq(Txs) /\ c.root = CalculateMerkleRoot(c.txs)
  BY ChainAssumption DEF Types, Rooted
<1>2. HashesOnPath(proof)[Len(proof.hashes)] = b.root
  BY <1>1, ProofLeads
<1> HIDE DEF proof
<1>3. VerifyTransaction(b.txs[i], proof, b.root)
  BY <1>2 DEF VerifyTransaction, Verify
<1>4. ASSUME NEW c \in blocks, VerifyTransaction(b.txs[i], proof, c.root)
      PROVE  b.txs[i] \in TxsOf(c)
  <2>1. CalculateMerkleRoot(b.txs) = CalculateMerkleRoot(c.txs)
    BY <1>1, <1>2, <1>4 DEF VerifyTransaction, Verify
  <2>2. PICK j \in DOMAIN c.txs : c.txs[j] = b.txs[i]
    BY <1>1, <2>1, RootBinds
  <2>3. QED
    BY <2>2 DEF TxsOf
<1>5. QED
  BY <1>3, <1>4 DEF proof

\* Every transaction of a stored block, at every position and in blocks of any
\* size, can be proved to a light client that has the block's header only; and
\* no proof made from a stored block convinces it for a block that does not
\* have the transaction.  (chain.go validateBlock; merkle.go GetProof, Verify)
THEOREM ProvableCorrect == Spec => []StoredProvable
<1>1. Init => Rooted
  BY DEF Init, Rooted
<1>2. IInv /\ Rooted /\ [Next]_vars => Rooted'
  BY StepRooted
<1>3. IInv /\ Rooted => StoredProvable
  BY RootedProvable DEF IInv
<1>4. QED
  BY <1>1, <1>2, <1>3, AlwaysIInv, PTL DEF Spec
=============================================================================
