------------------------------ MODULE LockSpec ------------------------------
(***************************************************************************)
(* What the kernel's locks promise: a lock is held by any number of threads *)
(* that share it, or by one thread exclusively.  Fast and guarded mutexes  *)
(* and push locks implement it; the mutexes are never shared.              *)
(***************************************************************************)
CONSTANT Threads

VARIABLE hold   \* hold[t] is "none", "shared" or "exclusive"

Init == hold = [t \in Threads |-> "none"]

Acquire(t) == /\ \A u \in Threads : hold[u] = "none"
              /\ hold' = [hold EXCEPT ![t] = "exclusive"]

Share(t) == /\ hold[t] = "none"
            /\ \A u \in Threads : hold[u] # "exclusive"
            /\ hold' = [hold EXCEPT ![t] = "shared"]

\* The only reader becomes the writer.
Convert(t) == /\ hold[t] = "shared"
              /\ \A u \in Threads \ {t} : hold[u] = "none"
              /\ hold' = [hold EXCEPT ![t] = "exclusive"]

Release(t) == /\ hold[t] # "none"
              /\ hold' = [hold EXCEPT ![t] = "none"]

Next == \E t \in Threads : Acquire(t) \/ Share(t) \/ Convert(t) \/ Release(t)

Spec == Init /\ [][Next]_hold
=============================================================================
