------------------------------- MODULE MCSync --------------------------------
(***************************************************************************)
(* TLC instance of Sync: init, idle and a few PCBs for Fork, with a few    *)
(* locks and condition variables.                                          *)
(***************************************************************************)
EXTENDS Sync, TLC

CONSTANTS init, idle, Forked

MCProc == Forked \cup {init, idle}
MCTicks == {1}
Symmetry == Permutations(Forked)
=============================================================================
