----------------------------- MODULE MCMutexes ------------------------------
(***************************************************************************)
(* Instance for TLC of the two mutexes that implement LockSpec: the fast   *)
(* and the guarded one.  They share nothing but the threads: a behaviour   *)
(* uses one of them, named by the variable kind, while the other rests in  *)
(* an initial state.  Liveness is checked with safety, so threads are not  *)
(* declared symmetric.                                                     *)
(***************************************************************************)
EXTENDS FastMutex

\* The variables of GuardedMutex; those it shares with FastMutex are prefixed.
VARIABLES gcount, gowner, apcDisable, signal, gqueue, gpc, gunsafe, old, woken,
          disable,
          kind

guardedVars == <<gcount, gowner, apcDisable, signal, gqueue, gpc, gunsafe, old,
                 woken, disable>>

G == INSTANCE GuardedMutex WITH
        count <- gcount, owner <- gowner, queue <- gqueue, pc <- gpc,
        unsafe <- gunsafe

MCInit == /\ kind \in {"fast", "guarded"}
          /\ Init
          /\ G!Init
          /\ kind = "fast" => disable = [t \in Threads |-> 0]
          /\ kind = "guarded" => irql = [t \in Threads |-> PASSIVE_LEVEL]

MCNext == /\ UNCHANGED kind
          /\ \/ /\ kind = "fast"
                /\ Next
                /\ UNCHANGED guardedVars
             \/ /\ kind = "guarded"
                /\ G!Next
                /\ UNCHANGED vars

MCSpec == /\ MCInit
          /\ [][MCNext]_<<vars, guardedVars, kind>>
          /\ Fairness
          /\ G!Fairness

-----------------------------------------------------------------------------
\* Count of ke_x.h is right about wakeups and waiters: see GuardedMutex.
WakeupsCounted == G!WakeupsCounted

\* KiAcquireGuardedMutex returns once threads stop coming: see GuardedMutex.
WaitersServedOnceQuiet == G!WaitersServedOnceQuiet

\* A guarded mutex is a lock: see GuardedMutex.
ImplementsLock == G!ImplementsLock
=============================================================================
