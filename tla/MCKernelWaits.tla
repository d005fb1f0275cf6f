--------------------------- MODULE MCKernelWaits ----------------------------
(***************************************************************************)
(* Instance for TLC of the waits that keep a list of their own: push locks *)
(* and handle tables, with blocks on the waiters' stacks, keyed events,    *)
(* with lists of threads, and condition variables on top of them.  A       *)
(* behaviour uses one of them, named by the variable wait, while the       *)
(* others rest in their initial states.                                    *)
(*                                                                         *)
(* Three threads use the push lock and the handle table.  Keyed events are *)
(* called by them and by a thread of another process, stranger; keys 1 and *)
(* 3 share a bucket and key 2 has another one, in each process.  The       *)
(* condition variable has a fourth thread of the process, waker; the keys  *)
(* that are threads are the addresses of its entries.                      *)
(***************************************************************************)
EXTENDS PushLock, ConditionVariable, HandleTable, TLC

CONSTANTS waker, stranger

ASSUME CallsAssumption == Calls \subseteq EntryPoints

VARIABLE wait

AddressKeys == {1, 2, 3} \cup Callers
TwoProcesses == [t \in Callers |-> IF t = stranger THEN "q" ELSE "p"]
SharedBucket(k, p) == IF k \in Callers THEN 0 ELSE k % 2

MCInit == /\ wait \in {"push lock", "handle table", "keyed event", "condition variable"}
          /\ Init
          /\ TableInit
          /\ CondInit

-----------------------------------------------------------------------------
\* Bound: at most three threads are in a call of a keyed event.
MaxCalls == 3

KeyedCalls ==
    /\ \E t \in Threads \cup {stranger} :
          \/ \E k \in {1, 2, 3}, r \in Sides : Meet(t, k, r) \/ Enlist(t, k, r)
          \/ Finish(t) \/ Aborted(t)
    /\ Cardinality({t \in Callers : kpc'[t] # "idle"}) <= MaxCalls

\* Bounds: waker is the thread that wakes, and the others sleep.  Two sleepers come
\* out of their waits at once only while the third is outside.
Leaving(t) == kpc[t] \in {"aborted", "restore"}
              \/ at[t] \in {"slept", "spin", "leave", "left", "return"}

CondCalls ==
    /\ CondNext
    /\ \A t \in Callers : at'[t] = "release" => t = waker
    /\ \A t \in Callers : at'[t] = "inserted" \/ holder' = t => t \in Threads
    /\ \/ Cardinality({t \in Threads : Leaving(t)'}) <= 1
       \/ \A t \in Threads : Leaving(t)' \/ at'[t] = "idle"

\* Bounds: one thread at a time enumerates the handles, and one is at the second.
TableCalls ==
    /\ TableNext
    /\ Cardinality({t \in Threads : h'[t] = 2}) <= 1
    /\ Cardinality({t \in Threads : op'[t] = "enum"}) <= 1

MCNext == /\ UNCHANGED wait
          /\ \/ /\ wait = "push lock"
                /\ Next
                /\ UNCHANGED <<condVars, keyedVars, tableVars>>
             \/ /\ wait = "handle table"
                /\ TableCalls
                /\ UNCHANGED <<vars, condVars, keyedVars>>
             \/ /\ wait = "keyed event"
                /\ KeyedCalls
                /\ UNCHANGED <<vars, condVars, tableVars>>
             \/ /\ wait = "condition variable"
                /\ CondCalls
                /\ UNCHANGED <<vars, tableVars>>

MCSpec == MCInit /\ [][MCNext]_<<vars, condVars, keyedVars, tableVars, wait>>

\* The threads are interchangeable, but for the waker and the stranger.
Symmetry == Permutations(Threads)
=============================================================================
