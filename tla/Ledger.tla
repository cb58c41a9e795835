------------------------------- MODULE Ledger -------------------------------
(***************************************************************************)
(* What the blockchain promises: an append-only sequence of blocks.  The   *)
(* block appended is sound, has the Merkle root of its transactions and    *)
(* the next height, names the last block as its parent (the first block    *)
(* may name anything) and repeats no transaction of the blocks before it.  *)
(***************************************************************************)
EXTENDS Merkle

CONSTANT Blocks

VARIABLE log

TxsIn(b) == {b.txs[i] : i \in DOMAIN b.txs}

TxsOn(l) == UNION {TxsIn(l[i]) : i \in DOMAIN l}

Follows(b, l) ==
    /\ b.sound
    /\ b.root = CalculateMerkleRoot(b.txs)
    /\ b.height = Len(l) + 1
    /\ Len(l) > 0 => b.prev = l[Len(l)].hash
    /\ TxsIn(b) \cap TxsOn(l) = {}

Init == log = <<>>

AppendBlock(b) ==
    /\ Follows(b, log)
    /\ log' = Append(log, b)

Next == \E b \in Blocks : AppendBlock(b)

Spec == Init /\ [][Next]_log
=============================================================================
