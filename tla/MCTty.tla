-------------------------------- MODULE MCTty --------------------------------
(***************************************************************************)
(* TLC instance of Tty: init, idle and a few PCBs for Fork.                *)
(***************************************************************************)
EXTENDS Tty, TLC

CONSTANTS init, idle, Forked

MCProc == Forked \cup {init, idle}
MCTicks == {}
Symmetry == Permutations(Forked)
=============================================================================
