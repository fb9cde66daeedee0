---------------------------- MODULE MCKernelHeap ----------------------------
(* The kernel heap, for TLC. *)
EXTENDS KernelHeap
=============================================================================
