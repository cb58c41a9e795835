------------------------------ MODULE MCChain -------------------------------
(***************************************************************************)
(* Two rival branches that share transactions, blocks of none, one, two,   *)
(* three and five of them, a block that is not sound, one with the header  *)
(* of another and other transactions, one that skips a height, one         *)
(* that repeats a transaction of its parent and the genesis block of       *)
(* height 0.                                                               *)
(***************************************************************************)
EXTENDS Chain

CONSTANTS a1, a2, r1, g, b1, b2, b3, c1, c2, d2, e3, f2,
          t1, t2, t3, t4, t5, t6, t7, t8, t9

\* A block whose header was made for the transactions `for'.
Block(hash, h, prev, for, txs, sound) ==
    [hash |-> hash, height |-> h, prev |-> prev, root |-> CalculateMerkleRoot(for),
     txs |-> txs, sound |-> sound]

MCTxs == {t1, t2, t3, t4, t5, t6, t7, t8, t9}

MCBlocks == {
    Block(g, 0, None, <<>>, <<>>, TRUE),
    Block(b1, 1, g, <<t1, t2, t3, t4, t5>>, <<t1, t2, t3, t4, t5>>, TRUE),
    Block(b2, 2, b1, <<t6>>, <<t6>>, TRUE),
    Block(b3, 3, b2, <<t7, t8, t9>>, <<t7, t8, t9>>, TRUE),
    Block(c1, 1, g, <<t2, t7>>, <<t2, t7>>, TRUE),
    Block(c2, 2, c1, <<>>, <<>>, TRUE),
    Block(d2, 2, b1, <<>>, <<>>, FALSE),
    Block(b2, 2, b1, <<t6>>, <<t8>>, TRUE),
    Block(e3, 3, b1, <<>>, <<>>, TRUE),
    Block(f2, 2, c1, <<t8, t2>>, <<t8, t2>>, TRUE)}
=============================================================================
