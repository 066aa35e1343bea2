---------------------------- MODULE MCKernelHeap ----------------------------
(* A heap of six blocks of two bytes; requests of nothing up to more than all. *)
EXTENDS KernelHeap
=============================================================================
