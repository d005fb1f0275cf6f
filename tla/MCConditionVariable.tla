------------------------ MODULE MCConditionVariable ------------------------
(***************************************************************************)
(* Instances of ConditionVariable for TLC: the entries are the only keys,  *)
(* of one process and in one bucket.                                       *)
(***************************************************************************)
EXTENDS ConditionVariable, TLC

SameProcess == [t \in Callers |-> "p"]
OneBucket(k, p) == 0

\* Threads are interchangeable, and so are the keys that stand for them.
Symmetry == Permutations(Callers)
=============================================================================
