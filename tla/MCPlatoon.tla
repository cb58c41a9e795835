------------------------------ MODULE MCPlatoon ----------------------------
(***************************************************************************)
(* Three vehicles and one platoon, with the code's sizes scaled down:      *)
(* consensus needs two members, joins make two validators.                 *)
(***************************************************************************)
EXTENDS Platoon

CONSTANTS v1, v2, v3, p1

MCVehicles == {v1, v2, v3}
MCIds == {p1}
============================================================================
