---------------------------- MODULE FiniteThreads ---------------------------
(* The threads of a system: there are finitely many. *)
EXTENDS FiniteSets

CONSTANT Threads

ASSUME ThreadsFinite == IsFiniteSet(Threads)
=============================================================================
