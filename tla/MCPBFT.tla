------------------------------- MODULE MCPBFT -------------------------------
(***************************************************************************)
(* Four validators, the least number that tolerates a fault, or fewer where *)
(* the goroutines of the engines make four too many.                       *)
(***************************************************************************)
EXTENDS PBFT, TLC

CONSTANTS v1, v2, v3, v4, t1

MCFour == <<v1, v2, v3, v4>>
MCThree == <<v1, v2, v3>>
MCTwo == <<v1, v2>>

\* The validators that are not primary in view 0.
MCReplicas == Permutations({v2, v3, v4})
=============================================================================
