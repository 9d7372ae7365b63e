------------------------------ MODULE MCProcess ------------------------------
(***************************************************************************)
(* TLC instance of Process: init, idle and a few PCBs for Fork.            *)
(***************************************************************************)
EXTENDS Process, TLC

CONSTANTS init, idle, Forked

MCProc == Forked \cup {init, idle}
MCTicks == {-1, 0, 1, 2}
Symmetry == Permutations(Forked)
=============================================================================
