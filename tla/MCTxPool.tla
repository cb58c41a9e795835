------------------------------ MODULE MCTxPool ------------------------------
(***************************************************************************)
(* Two senders.  Two of the transactions share their sender and nonce, and *)
(* one does not hash to its Hash.                                          *)
(***************************************************************************)
EXTENDS TxPool

CONSTANTS t1, t2, t3, t4, a, b, r1, r2

Tx(hash, from, nonce, valid) ==
    [hash |-> hash, from |-> from, nonce |-> nonce, valid |-> valid]

MCTxs == {Tx(t1, a, 0, TRUE), Tx(t2, a, 0, TRUE), Tx(t3, a, 1, TRUE), Tx(t4, b, 0, FALSE)}
MCPriorities == {5, 10}
MCReaders == {r1, r2}
MCOneReader == {r1}
MCLimits == {2}
=============================================================================
