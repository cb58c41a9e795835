---------------------------- MODULE MCHeaderSync ---------------------------
(***************************************************************************)
(* A small header universe for HeaderSync: one honest chain g-a1-..-a4, a *)
(* fork at heights 1 and 2, a second genesis, a header with a wrong hash   *)
(* and one that carries a signature.  The batches are an honest one, the    *)
(* fork, and one that is out of order; the checkpoints leave heights out.   *)
(***************************************************************************)
EXTENDS HeaderSync

CONSTANTS g, g2, a1, a2, a3, a4, b1, b2, s1, x2

Header(height, prev, hash, sig, intact) ==
    [height |-> height, prev |-> prev, hash |-> hash, sig |-> sig, intact |-> intact]

MCHashes == {g, g2, a1, a2, a3, a4, b1, b2, s1, x2}

G  == Header(0, NoHash, g, "none", TRUE)
G2 == Header(0, NoHash, g2, "none", TRUE)
A1 == Header(1, g, a1, "none", TRUE)
A2 == Header(2, a1, a2, "none", TRUE)
A3 == Header(3, a2, a3, "none", TRUE)
A4 == Header(4, a3, a4, "none", TRUE)
B1 == Header(1, g, b1, "none", TRUE)
B2 == Header(2, b1, b2, "none", TRUE)
S1 == Header(1, g, s1, "validator", TRUE)
X2 == Header(2, a1, x2, "none", FALSE)

MCHeaders == {G, G2, A1, A2, A3, A4, B1, B2, S1, X2}
MCBatches == {<<A1, A2, A3>>, <<B1, B2>>, <<A3, A4>>, <<A2, B2>>}
MCCheckpoints == {<<G, A2>>}
============================================================================
