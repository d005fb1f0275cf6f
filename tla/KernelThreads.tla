---------------------------- MODULE KernelThreads ---------------------------
(* The threads of a system, and the NULL pointer, which is none of them. *)
EXTENDS FiniteThreads

CONSTANT NULL

ASSUME NullAssumption == NULL \notin Threads
=============================================================================
