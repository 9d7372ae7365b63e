------------------------------- MODULE MCLists -------------------------------
(***************************************************************************)
(* Three processes and four nodes: each list can have a middle.            *)
(***************************************************************************)
EXTENDS LinkedLists, TLC

Symmetry == Permutations(Item) \cup Permutations(Node)
=============================================================================
