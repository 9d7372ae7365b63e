----------------------------- MODULE MCKernelHeap -----------------------------
(***************************************************************************)
(* The boot of a small machine: twelve pages, of which the last two hold   *)
(* the kernel stack, and a heap that may grow to any of them.              *)
(***************************************************************************)
EXTENDS KernelHeap
=============================================================================
