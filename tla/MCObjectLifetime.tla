-------------------------- MODULE MCObjectLifetime --------------------------
(* Two objects, each created with the one name or without, two threads. *)
EXTENDS ObjectLifetime, TLC

CONSTANTS t1, t2, o1, o2, n1

Symmetry == Permutations(Threads) \cup Permutations(Objects)

\* "An object is removed if ... 1) The object has 0 handles open": an object
\* whose entry a call removes from the directory has no handle at that
\* moment (ObpDeleteNameCheck, obname.c 253-255).
RemovedWithoutHandles ==
    [][\A n \in Names :
          entry[n] # NULL /\ entry'[n] # entry[n] =>
              HandleCount[entry[n]] = 0]_vars
=============================================================================
