---------------------------- MODULE GuardedMutex ----------------------------
(***************************************************************************)
(* Guarded mutexes: the inline routines of include/internal/ke_x.h, with    *)
(* KiAcquireGuardedMutex of ke/wait.c and the gate of ke/gate.c.            *)
(*                                                                         *)
(* Count holds the lock bit, which is set while the mutex is FREE, the      *)
(* woken bit, set while a thread that waited is on its way to the mutex,    *)
(* and the number of waiters.  Threads that come by may take a free mutex   *)
(* before the woken thread does, which then waits again: its BitsToAdd is   *)
(* the woken bit, whose carry makes it a waiter.                           *)
(***************************************************************************)
EXTENDS Integers, Sequences, FiniteSets, KernelThreads

VARIABLES count,       \* GuardedMutex->Count
          owner,       \* GuardedMutex->Owner
          apcDisable,  \* GuardedMutex->SpecialApcDisable
          signal,      \* GuardedMutex->Gate.Header.SignalState
          queue,       \* GuardedMutex->Gate.Header.WaitListHead
          pc,          \* where each thread is
          unsafe,      \* it uses the Unsafe routines
          old,         \* its local OldValue
          woken,       \* it has waited: BitsToRemove and BitsToAdd changed
          disable      \* its SpecialApcDisable

gate == <<signal, queue>>
mutex == <<count, owner, apcDisable, gate>>
vars == <<mutex, pc, unsafe, old, woken, disable>>

GM_LOCK_BIT == 1
GM_LOCK_WAITER_WOKEN == 2
GM_LOCK_WAITER_INC == 4

LockBit(c) == c % 2 = 1
WokenBit(c) == (c \div 2) % 2 = 1
Waiters(c) == c \div 4

\* A thread may be in a guarded region of its own when it calls.
Init == /\ count = GM_LOCK_BIT
        /\ owner = NULL
        /\ apcDisable = 0
        /\ signal = FALSE
        /\ queue = <<>>
        /\ pc = [t \in Threads |-> "idle"]
        /\ unsafe = [t \in Threads |-> FALSE]
        /\ old = [t \in Threads |-> 0]
        /\ woken = [t \in Threads |-> FALSE]
        /\ disable \in [Threads -> {0, -1}]

Goto(t, from, to) == /\ pc[t] = from
                     /\ pc' = [pc EXCEPT ![t] = to]

\* OldValue, BitsToRemove and BitsToAdd are not used any more.
Forget(t) == /\ old' = [old EXCEPT ![t] = 0]
             /\ woken' = [woken EXCEPT ![t] = FALSE]

\* KeEnterGuardedRegionThread, which the Unsafe routines leave to their caller.
\* Of what their ASSERT allows (ke_x.h 1513-1516) the callers here have the
\* guarded region; APC_LEVEL and threads without a Teb come to the same.
EnterGuardedRegion(t, u) ==
    /\ u => disable[t] < 0
    /\ unsafe' = [unsafe EXCEPT ![t] = u]
    /\ disable' = [disable EXCEPT ![t] = IF u THEN @ ELSE @ - 1]

-----------------------------------------------------------------------------
\* KeAcquireGuardedMutex, its Unsafe variant and KeTryToAcquireGuardedMutex:
\* the lock bit was set and is reset.  (When the attempt fails, nothing has
\* changed but the guarded region that is entered and left.)
AcquireFree(t, u) ==
    /\ LockBit(count)
    /\ Goto(t, "idle", "own")
    /\ count' = count - GM_LOCK_BIT
    /\ EnterGuardedRegion(t, u)
    /\ UNCHANGED <<owner, apcDisable, gate, old, woken>>

\* It was not: KiAcquireGuardedMutex.
AcquireContended(t, u) ==
    /\ ~LockBit(count)
    /\ Goto(t, "idle", "read")
    /\ EnterGuardedRegion(t, u)
    /\ UNCHANGED <<mutex, old, woken>>

Read(t) ==
    /\ Goto(t, "read", "change")
    /\ old' = [old EXCEPT ![t] = count]
    /\ UNCHANGED <<mutex, unsafe, woken, disable>>

\* OldValue ^ BitsToRemove, when the lock bit of OldValue is set
RemoveBits(value, w) ==
    IF ~w THEN value - GM_LOCK_BIT
    ELSE IF WokenBit(value) THEN value - GM_LOCK_BIT - GM_LOCK_WAITER_WOKEN
         ELSE value - GM_LOCK_BIT + GM_LOCK_WAITER_WOKEN

\* The mutex was free and is taken.
TakeFree(t) ==
    /\ LockBit(old[t])
    /\ count = old[t]
    /\ Goto(t, "change", "own")
    /\ count' = RemoveBits(old[t], woken[t])
    /\ Forget(t)
    /\ UNCHANGED <<owner, apcDisable, gate, unsafe, disable>>

\* Mutant of AddBits: BitsToAdd stays GM_LOCK_WAITER_INC.
AddBitsMutant(t) ==
    /\ ~LockBit(old[t])
    /\ count = old[t]
    /\ Goto(t, "change", "gate")
    /\ count' = old[t] + GM_LOCK_WAITER_INC
    /\ Forget(t)
    /\ UNCHANGED <<owner, apcDisable, gate, unsafe, disable>>

\* It was not: the thread becomes a waiter.
AddBits(t) ==
    /\ ~LockBit(old[t])
    /\ count = old[t]
    /\ Goto(t, "change", "gate")
    /\ count' = old[t] + IF woken[t] THEN GM_LOCK_WAITER_WOKEN ELSE GM_LOCK_WAITER_INC
    /\ Forget(t)
    /\ UNCHANGED <<owner, apcDisable, gate, unsafe, disable>>

\* The count changed since it was read.
Reload(t) ==
    /\ count # old[t]
    /\ pc[t] = "change"
    /\ old' = [old EXCEPT ![t] = count]
    /\ UNCHANGED <<mutex, pc, unsafe, woken, disable>>

\* KeWaitForGate: the gate is signaled,
WaitNot(t) ==
    /\ signal
    /\ Goto(t, "gate", "read")
    /\ signal' = FALSE
    /\ woken' = [woken EXCEPT ![t] = TRUE]
    /\ UNCHANGED <<count, owner, apcDisable, queue, unsafe, old, disable>>

\* or the thread waits.  No APC interrupts the wait in a guarded region.
Wait(t) ==
    /\ ~signal
    /\ Goto(t, "gate", "queued")
    /\ queue' = Append(queue, t)
    /\ UNCHANGED <<count, owner, apcDisable, signal, unsafe, old, woken, disable>>

SetOwner(t) ==
    /\ Goto(t, "own", "held")
    /\ owner' = t
    /\ apcDisable' = IF unsafe[t] THEN apcDisable ELSE disable[t]
    /\ UNCHANGED <<count, gate, unsafe, old, woken, disable>>

-----------------------------------------------------------------------------
\* KeReleaseGuardedMutex and its Unsafe variant
Release(t) ==
    /\ Goto(t, "held", "add")
    /\ owner' = NULL
    /\ UNCHANGED <<count, apcDisable, gate, unsafe, old, woken, disable>>

\* Mutant of AddLockBit: a waiter is woken although one is on its way.
AddLockBitMutant(t) ==
    /\ Goto(t, "add", IF count # 0 THEN "wake" ELSE "leave")
    /\ count' = count + GM_LOCK_BIT
    /\ old' = [old EXCEPT ![t] = IF pc'[t] = "wake" THEN count' ELSE 0]
    /\ UNCHANGED <<owner, apcDisable, gate, unsafe, woken, disable>>

\* The mutex is free; if there are waiters and none is on its way, one is to
\* be woken.
AddLockBit(t) ==
    /\ Goto(t, "add", IF count # 0 /\ ~WokenBit(count) THEN "wake" ELSE "leave")
    /\ count' = count + GM_LOCK_BIT
    /\ old' = [old EXCEPT ![t] = IF pc'[t] = "wake" THEN count' ELSE 0]
    /\ UNCHANGED <<owner, apcDisable, gate, unsafe, woken, disable>>

\* Mutant of Wake: the woken bit and the waiters are stored without comparing.
WakeMutant(t) ==
    /\ Goto(t, "wake", "signal")
    /\ count' = old[t] + GM_LOCK_WAITER_WOKEN - GM_LOCK_WAITER_INC
    /\ Forget(t)
    /\ UNCHANGED <<owner, apcDisable, gate, unsafe, disable>>

Wake(t) ==
    /\ count = old[t]
    /\ Goto(t, "wake", "signal")
    /\ count' = old[t] + GM_LOCK_WAITER_WOKEN - GM_LOCK_WAITER_INC
    /\ Forget(t)
    /\ UNCHANGED <<owner, apcDisable, gate, unsafe, disable>>

\* Another thread took the mutex; it wakes the waiter when it releases.
WakeNot(t) ==
    /\ count # old[t]
    /\ Goto(t, "wake", "leave")
    /\ Forget(t)
    /\ UNCHANGED <<mutex, unsafe, disable>>

\* KeSignalGateBoostPriority: the gate is signaled,
SignalGate(t) ==
    /\ signal \/ queue = <<>>
    /\ Goto(t, "signal", "leave")
    /\ signal' = TRUE
    /\ UNCHANGED <<count, owner, apcDisable, queue, unsafe, old, woken, disable>>

\* Mutant of WakeHead: the thread is not taken off the wait list.
WakeHeadMutant(t) ==
    /\ ~signal /\ queue # <<>>
    /\ pc[t] = "signal"
    /\ pc' = [pc EXCEPT ![t] = "leave", ![Head(queue)] = "read"]
    /\ woken' = [woken EXCEPT ![Head(queue)] = TRUE]
    /\ UNCHANGED <<mutex, unsafe, old, disable>>

\* or the thread that has waited longest goes on.
WakeHead(t) ==
    /\ ~signal /\ queue # <<>>
    /\ pc[t] = "signal"
    /\ pc' = [pc EXCEPT ![t] = "leave", ![Head(queue)] = "read"]
    /\ woken' = [woken EXCEPT ![Head(queue)] = TRUE]
    /\ queue' = Tail(queue)
    /\ UNCHANGED <<count, owner, apcDisable, signal, unsafe, old, disable>>

\* KeLeaveGuardedRegionThread
Leave(t) ==
    /\ Goto(t, "leave", "idle")
    /\ disable' = [disable EXCEPT ![t] = IF unsafe[t] THEN @ ELSE @ + 1]
    /\ unsafe' = [unsafe EXCEPT ![t] = FALSE]
    /\ UNCHANGED <<mutex, old, woken>>

-----------------------------------------------------------------------------
Begin(t) == \E u \in BOOLEAN : AcquireFree(t, u) \/ AcquireContended(t, u)

Continue(t) == \/ Read(t) \/ TakeFree(t) \/ AddBits(t) \/ Reload(t)
               \/ WaitNot(t) \/ Wait(t) \/ SetOwner(t)
               \/ AddLockBit(t) \/ Wake(t) \/ WakeNot(t)
               \/ SignalGate(t) \/ WakeHead(t) \/ Leave(t)

Next == \E t \in Threads : Begin(t) \/ Continue(t) \/ Release(t)

Spec == Init /\ [][Next]_vars

\* Every thread that can run does, and who has the mutex releases it.
Fairness == \A t \in Threads : WF_vars(Continue(t)) /\ WF_vars(Release(t))

FairSpec == Spec /\ Fairness

-----------------------------------------------------------------------------
TypeOK ==
    /\ count \in Nat
    /\ owner \in Threads \cup {NULL}
    /\ apcDisable \in {0, -1, -2}
    /\ signal \in BOOLEAN
    /\ queue \in Seq(Threads)
    /\ pc \in [Threads -> {"idle", "read", "change", "gate", "queued", "own",
                           "held", "add", "wake", "signal", "leave"}]
    /\ unsafe \in [Threads -> BOOLEAN]
    /\ old \in [Threads -> Nat]
    /\ woken \in [Threads -> BOOLEAN]
    /\ disable \in [Threads -> {0, -1, -2}]

HasMutex(t) == pc[t] \in {"own", "held", "add"}
IsWaiting(t) == pc[t] \in {"read", "change", "gate", "queued"}

\* At most one thread has the mutex, and the lock bit tells whether one has:
\* ASSERT((OldValue & GM_LOCK_BIT) == 0) in the release (ke_x.h:1548).
MutualExclusion ==
    /\ \A t, u \in Threads : HasMutex(t) /\ HasMutex(u) => t = u
    /\ LockBit(count) <=> \A t \in Threads : ~HasMutex(t)

\* The ASSERTs on Owner (ke_x.h:1517, 1541, 1605) and on SpecialApcDisable (1606).
OwnerCorrect ==
    \A t \in Threads :
        /\ (pc[t] = "held") <=> (owner = t)
        /\ pc[t] = "held" /\ ~unsafe[t] => apcDisable = disable[t]

\* The threads that have been woken or are being woken
IsWaking(t) == \/ pc[t] = "signal"
               \/ woken[t] /\ pc[t] \in {"read", "change"}

(***************************************************************************)
(* The woken bit stands for one wakeup on its way: a thread about to       *)
(* signal the gate, or the signal in the gate, or a thread that came back  *)
(* from it.  In particular a thread that returns from the gate finds the   *)
(* bit set and reads it in OldValue, as the ASSERTs at wait.c:157 and 182   *)
(* say, although threads that never waited change Count at the same time.  *)
(***************************************************************************)
WokenOnce ==
    /\ WokenBit(count) <=> signal \/ \E t \in Threads : IsWaking(t)
    /\ signal => \A t \in Threads : ~IsWaking(t)
    /\ \A t, u \in Threads : IsWaking(t) /\ IsWaking(u) => t = u
    /\ signal => queue = <<>>
    /\ \A t \in Threads : woken[t] /\ pc[t] = "change" => WokenBit(old[t])

\* The waiters counted are the threads at the gate, but for the one whose
\* wakeup has not reached it yet.
WaitersCounted ==
    Cardinality({t \in Threads : pc[t] \in {"gate", "queued"}}) =
        Waiters(count) + IF signal \/ \E t \in Threads : pc[t] = "signal"
                         THEN 1 ELSE 0

\* Count tells the truth about wakeups and waiters, although a woken thread
\* may find the mutex taken and become a waiter again.
WakeupsCounted == WokenOnce /\ WaitersCounted

\* When the mutex is free and nobody is on the way to it, waiters are left to
\* the thread that released it last, whose comparison will succeed.
NobodyStranded ==
    LockBit(count) /\ ~WokenBit(count) /\ Waiters(count) > 0
        => \E t \in Threads : pc[t] = "wake" /\ old[t] = count

\* If threads stop coming, who may barge in, every thread that waits is served.
WaitersServedOnceQuiet ==
    <>[][\A t \in Threads : ~Begin(t)]_vars
        => \A t \in Threads : IsWaiting(t) ~> HasMutex(t)

hold == [t \in Threads |-> IF HasMutex(t) THEN "exclusive" ELSE "none"]
Abstract == INSTANCE LockSpec

\* A guarded mutex is a lock.
ImplementsLock == Abstract!Spec
=============================================================================
