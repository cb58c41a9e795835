----------------------------- MODULE MCNetwork ------------------------------
(***************************************************************************)
(* Three peers, two of them bootstrap peers, one with room for a second    *)
(* connection.                                                             *)
(***************************************************************************)
EXTENDS Network

CONSTANTS p1, p2, p3, c1, d1, c2, c3

MCTables == {{}, {p3}}

MCOwner == [c \in {c1, d1, c2, c3} |->
              CASE c \in {c1, d1} -> p1
                [] c = c2 -> p2
                [] c = c3 -> p3]
=============================================================================
