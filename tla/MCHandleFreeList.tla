-------------------------- MODULE MCHandleFreeList --------------------------
(* HandleFreeList for two threads and two low-level tables of two handles. *)
EXTENDS HandleFreeList
=============================================================================
