---------------------------- MODULE MCStateTrace ----------------------------
(***************************************************************************)
(* One platoon and two vehicles whose ids begin with the same bytes.       *)
(***************************************************************************)
EXTENDS StateTrace, TLC

CONSTANTS p1, v1, v2, k1, r1, r2

MCHistoryKey == [v \in Vehicles |-> k1]
MCRecent == [check \in Checks |-> IF check = "joinLeave" THEN 2 ELSE 3]
MCThreshold == [check \in Checks |-> 1]
MCSymmetry == Permutations(Recorders)
=============================================================================
