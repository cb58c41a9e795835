-------------------------- MODULE MCMessageVerify ---------------------------
(***************************************************************************)
(* One vehicle, whose certificate expires while the model runs, and two    *)
(* concurrent verifications.                                               *)
(***************************************************************************)
EXTENDS MessageVerify, TLC

CONSTANTS v1, s1, c1, p1, p2

MCNotAfter == [c \in Certs |-> 1]
MCSymmetry == Permutations(Verifiers)
=============================================================================
