------------------------------ MODULE MCMemory -------------------------------
(***************************************************************************)
(* A small machine: eight pages a region, of which the last two hold the   *)
(* kernel stack and the two below are used to fill frames; programs with   *)
(* two valid pages; enough frames to boot, to Exec once or to fork, and to *)
(* Exec in the child once malloc gave a page back.  One address lies in    *)
(* the area of the user stack, is accepted by Brk, and lies below the      *)
(* break after that; the other lies below the break from the start.        *)
(* malloc can take all frames of a process that exits and one more.        *)
(***************************************************************************)
EXTENDS Memory

MCAddresses == {<<4, FALSE>>, <<1, TRUE>>}
MCPrograms == {[text_pg1 |-> 0, data_pg1 |-> 1, data_npg |-> 0, stack_npg |-> 1]}
=============================================================================
