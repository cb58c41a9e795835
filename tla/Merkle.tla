------------------------------- MODULE Merkle -------------------------------
(***************************************************************************)
(* Merkle roots and proofs: the root in a block's header (blockchain/      *)
(* types.go), which validateBlock computes again, the tree and the proofs  *)
(* made from it (merkle.go), and their verification by a light client that *)
(* has the header only (lightclient.go).                                   *)
(*                                                                         *)
(* A hash is a term: what was hashed, tagged.  Different values hash       *)
(* differently, and the hash of a transaction (Keccak) is never that of a  *)
(* pair (SHA-256).                                                         *)
(***************************************************************************)
EXTENDS Integers, Sequences, FiniteSets

Hashes(txs) == [i \in DOMAIN txs |-> <<"tx", txs[i]>>]

HashPair(left, right) == <<"pair", left, right>>

\* An odd number of nodes is made even by the last one, taken twice.
Padded(level) ==
    IF Len(level) % 2 = 1 THEN Append(level, level[Len(level)]) ELSE level

ParentLevel(level) ==
    LET nodes == Padded(level)
    IN  [i \in 1..(Len(nodes) \div 2) |-> HashPair(nodes[2 * i - 1], nodes[2 * i])]

\* The root has no parent.
NextLevel(level) == IF Len(level) <= 1 THEN level ELSE ParentLevel(level)

\* The levels of the tree, from the leaves, level 0, up to the root.
Levels(hashes) ==
    LET level[k \in 0..Len(hashes)] ==
          IF k = 0 THEN hashes ELSE NextLevel(level[k - 1])
    IN  level

\* CalculateMerkleRoot.  An empty block's root is the empty hash.
CalculateMerkleRoot(txs) ==
    IF txs = <<>> THEN <<>> ELSE Levels(Hashes(txs))[Len(txs)][1]

\* How many levels there are below the root.
Height(level) == Cardinality({k \in DOMAIN level : Len(level[k]) > 1})

\* The position of leaf i, from 0, and of its parents.
Indices(i, height) ==
    LET index[k \in 0..height] == IF k = 0 THEN i ELSE index[k - 1] \div 2
    IN  index

\* GetProof for the leaf at position i: its sibling on each level below the
\* root, and whether the sibling is to the right.
GetProof(txs, i) ==
    LET level == Levels(Hashes(txs))
        height == Height(level)
        index == Indices(i, height)
        Left(k) == index[k - 1] % 2 = 0
    IN  [leaf |-> level[0][i + 1],
         hashes |-> [k \in 1..height |->
            IF Left(k) THEN Padded(level[k - 1])[index[k - 1] + 2]
            ELSE level[k - 1][index[k - 1]]],
         flags |-> [k \in 1..height |-> Left(k)]]

\* The hashes that the siblings lead to from the leaf, one by one.
HashesOnPath(p) ==
    LET hash[k \in 0..Len(p.hashes)] ==
          IF k = 0 THEN p.leaf
          ELSE IF p.flags[k] THEN HashPair(hash[k - 1], p.hashes[k])
               ELSE HashPair(p.hashes[k], hash[k - 1])
    IN  hash

\* MerkleProof.Verify: the last of them is the root.
Verify(p, root) == HashesOnPath(p)[Len(p.hashes)] = root

\* LightClient.VerifyTransaction, for a header with this root.  The transaction
\* asked about is not compared with the leaf.
VerifyTransaction(tx, p, root) == Verify(p, root)
=============================================================================
