------------------------------- MODULE MCPipe --------------------------------
(***************************************************************************)
(* TLC instance of Pipe: init, idle and a few PCBs for Fork.               *)
(***************************************************************************)
EXTENDS Pipe, TLC

CONSTANTS init, idle, Forked

MCProc == Forked \cup {init, idle}
MCTicks == {}
Symmetry == Permutations(Forked)
=============================================================================
