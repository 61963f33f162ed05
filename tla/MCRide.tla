------------------------------- MODULE MCRide -------------------------------
(***************************************************************************)
(* A street with two dead ends and an edge without length, and at the end  *)
(* of a branch three nodes at one place, a cycle without length.           *)
(***************************************************************************)
EXTENDS Ride, FiniteSets

Edges == {{1, 2}, {2, 3}, {3, 4}, {2, 5}, {5, 6}, {6, 7}, {7, 8}, {6, 8}}
MCNodes == 1..8
MCAt == <<0, 4, 4, 9, 6, 7, 7, 7>>
MCAdj == [i \in MCNodes |-> {j \in MCNodes : {i, j} \in Edges}]
=============================================================================
