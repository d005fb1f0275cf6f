----------------------------- MODULE FastMutex ------------------------------
(***************************************************************************)
(* Fast mutexes: the inline routines of include/internal/ex.h, exported by  *)
(* ex/fmutex.c, with KiAcquireFastMutex of ke/wait.c and                    *)
(* KeSetEventBoostPriority of ke/eventobj.c.                                *)
(*                                                                         *)
(* Count is 1 when the mutex is free, else 1 minus the threads that hold it *)
(* or wait.  The mutex is handed over through a synchronization event,      *)
(* whose operations are atomic under the dispatcher lock.                  *)
(***************************************************************************)
EXTENDS Integers, Sequences, FiniteSets, KernelThreads

VARIABLES count,    \* FastMutex->Count
          owner,    \* FastMutex->Owner
          oldIrql,  \* FastMutex->OldIrql
          event,    \* FastMutex->Event.Header.SignalState
          queue,    \* FastMutex->Event.Header.WaitListHead
          pc,       \* where each thread is
          unsafe,   \* it uses the Unsafe routines
          irql,     \* its IRQL
          local,    \* its local OldIrql
          entry     \* its IRQL when it called

mutex == <<count, owner, oldIrql, event, queue>>
vars == <<mutex, pc, unsafe, irql, local, entry>>

PASSIVE_LEVEL == 0
APC_LEVEL == 1

Init == /\ count = 1
        /\ owner = NULL
        /\ oldIrql = PASSIVE_LEVEL
        /\ event = FALSE
        /\ queue = <<>>
        /\ pc = [t \in Threads |-> "idle"]
        /\ unsafe = [t \in Threads |-> FALSE]
        /\ irql \in [Threads -> {PASSIVE_LEVEL, APC_LEVEL}]
        /\ local = [t \in Threads |-> PASSIVE_LEVEL]
        /\ entry = irql

Goto(t, from, to) == /\ pc[t] = from
                     /\ pc' = [pc EXCEPT ![t] = to]

\* RemoveEntryList: the sequence without its element i.
Without(seq, i) ==
    [j \in 1 .. Len(seq) - 1 |-> IF j < i THEN seq[j] ELSE seq[j + 1]]

\* KeRaiseIrql(APC_LEVEL, &OldIrql), which the Unsafe routines leave out.
Raise(t, u) == /\ unsafe' = [unsafe EXCEPT ![t] = u]
               /\ entry' = [entry EXCEPT ![t] = irql[t]]
               /\ local' = [local EXCEPT ![t] = IF u THEN @ ELSE irql[t]]
               /\ irql' = [irql EXCEPT ![t] = IF u THEN @ ELSE APC_LEVEL]

-----------------------------------------------------------------------------
\* Mutant of Acquire: one holder is overlooked.
AcquireMutant(t, u) ==
    /\ Goto(t, "idle", IF count - 1 >= -1 THEN "take" ELSE "slow")
    /\ count' = count - 1
    /\ Raise(t, u)
    /\ UNCHANGED <<owner, oldIrql, event, queue>>

\* _ExAcquireFastMutex and _ExAcquireFastMutexUnsafe
Acquire(t, u) ==
    /\ Goto(t, "idle", IF count - 1 = 0 THEN "take" ELSE "slow")
    /\ count' = count - 1
    /\ Raise(t, u)
    /\ UNCHANGED <<owner, oldIrql, event, queue>>

\* _ExTryToAcquireFastMutex; when it fails nothing has changed.
TryToAcquire(t) ==
    /\ count = 1
    /\ Goto(t, "idle", "take")
    /\ count' = 0
    /\ Raise(t, FALSE)
    /\ UNCHANGED <<owner, oldIrql, event, queue>>

\* KiAcquireFastMutex: the event is signaled,
WaitNot(t) ==
    /\ event
    /\ Goto(t, "slow", "take")
    /\ event' = FALSE
    /\ UNCHANGED <<count, owner, oldIrql, queue, unsafe, irql, local, entry>>

\* Mutant of Wait: the wait list is last in, first out.
WaitMutant(t) ==
    /\ ~event
    /\ Goto(t, "slow", "queued")
    /\ queue' = <<t>> \o queue
    /\ UNCHANGED <<count, owner, oldIrql, event, unsafe, irql, local, entry>>

\* or the thread waits for it.
Wait(t) ==
    /\ ~event
    /\ Goto(t, "slow", "queued")
    /\ queue' = Append(queue, t)
    /\ UNCHANGED <<count, owner, oldIrql, event, unsafe, irql, local, entry>>

\* A special kernel APC for a thread that waits at PASSIVE_LEVEL: it is taken
\* off the wait list, and starts its wait over afterwards.
Interrupt(t) ==
    /\ irql[t] = PASSIVE_LEVEL
    /\ Goto(t, "queued", "slow")
    /\ \E i \in 1 .. Len(queue) : queue[i] = t /\ queue' = Without(queue, i)
    /\ UNCHANGED <<count, owner, oldIrql, event, unsafe, irql, local, entry>>

\* The thread has the mutex and notes that.
SetOwner(t) ==
    /\ Goto(t, "take", "held")
    /\ owner' = t
    /\ oldIrql' = IF unsafe[t] THEN oldIrql ELSE local[t]
    /\ UNCHANGED <<count, event, queue, unsafe, irql, local, entry>>

\* _ExReleaseFastMutex and _ExReleaseFastMutexUnsafe
Release(t) ==
    /\ Goto(t, "held", "increment")
    /\ owner' = NULL
    /\ local' = [local EXCEPT ![t] = IF unsafe[t] THEN @ ELSE oldIrql]
    /\ UNCHANGED <<count, oldIrql, event, queue, unsafe, irql, entry>>

\* Nobody waits.
Increment(t) ==
    /\ count + 1 > 0
    /\ Goto(t, "increment", "lower")
    /\ count' = count + 1
    /\ UNCHANGED <<owner, oldIrql, event, queue, unsafe, irql, local, entry>>

IncrementWaiters(t) ==
    /\ count + 1 <= 0
    /\ Goto(t, "increment", "signal")
    /\ count' = count + 1
    /\ UNCHANGED <<owner, oldIrql, event, queue, unsafe, irql, local, entry>>

\* KeSetEventBoostPriority: no thread waits yet, the event is signaled,
SetEvent(t) ==
    /\ queue = <<>>
    /\ Goto(t, "signal", "lower")
    /\ event' = TRUE
    /\ UNCHANGED <<count, owner, oldIrql, queue, unsafe, irql, local, entry>>

\* Mutant of WakeHead: the event is signaled as well.
WakeHeadMutant(t) ==
    /\ pc[t] = "signal"
    /\ queue # <<>>
    /\ pc' = [pc EXCEPT ![t] = "lower", ![Head(queue)] = "take"]
    /\ queue' = Tail(queue)
    /\ event' = TRUE
    /\ UNCHANGED <<count, owner, oldIrql, unsafe, irql, local, entry>>

\* or the thread that has waited longest goes on.
WakeHead(t) ==
    /\ pc[t] = "signal"
    /\ queue # <<>>
    /\ pc' = [pc EXCEPT ![t] = "lower", ![Head(queue)] = "take"]
    /\ queue' = Tail(queue)
    /\ UNCHANGED <<count, owner, oldIrql, event, unsafe, irql, local, entry>>

\* Mutant of Lower: OldIrql is read from the mutex, which is free by now.
LowerMutant(t) ==
    /\ Goto(t, "lower", "idle")
    /\ irql' = [irql EXCEPT ![t] = IF unsafe[t] THEN @ ELSE oldIrql]
    /\ UNCHANGED <<mutex, unsafe, local, entry>>

\* KeLowerIrql(OldIrql)
Lower(t) ==
    /\ Goto(t, "lower", "idle")
    /\ irql' = [irql EXCEPT ![t] = IF unsafe[t] THEN @ ELSE local[t]]
    /\ UNCHANGED <<mutex, unsafe, local, entry>>

-----------------------------------------------------------------------------
Begin(t) == (\E u \in BOOLEAN : Acquire(t, u)) \/ TryToAcquire(t)

Continue(t) == \/ WaitNot(t) \/ Wait(t) \/ SetOwner(t)
               \/ Increment(t) \/ IncrementWaiters(t)
               \/ SetEvent(t) \/ WakeHead(t) \/ Lower(t)

Next == \E t \in Threads :
            Begin(t) \/ Continue(t) \/ Release(t) \/ Interrupt(t)

Spec == Init /\ [][Next]_vars

\* Every thread that can run does, and who has the mutex releases it.
Fairness == \A t \in Threads : WF_vars(Continue(t)) /\ WF_vars(Release(t))

FairSpec == Spec /\ Fairness

-----------------------------------------------------------------------------
TypeOK ==
    /\ count \in Int /\ count <= 1
    /\ owner \in Threads \cup {NULL}
    /\ oldIrql \in {PASSIVE_LEVEL, APC_LEVEL}
    /\ event \in BOOLEAN
    /\ queue \in Seq(Threads)
    /\ pc \in [Threads -> {"idle", "slow", "queued", "take", "held",
                           "increment", "signal", "lower"}]
    /\ unsafe \in [Threads -> BOOLEAN]
    /\ irql \in [Threads -> {PASSIVE_LEVEL, APC_LEVEL}]
    /\ local \in [Threads -> {PASSIVE_LEVEL, APC_LEVEL}]
    /\ entry \in [Threads -> {PASSIVE_LEVEL, APC_LEVEL}]

HasMutex(t) == pc[t] \in {"take", "held", "increment"}
IsWaiting(t) == pc[t] \in {"slow", "queued"}

\* Two threads never have the mutex at a time.
MutualExclusion ==
    \A t, u \in Threads : HasMutex(t) /\ HasMutex(u) => t = u

\* ASSERT(FastMutex->Owner == KeGetCurrentThread()) (ex.h:1304), and
\* ASSERT(FastMutex->Owner != Thread) (1283).
OwnerCorrect ==
    \A t \in Threads : (pc[t] = "held") <=> (owner = t)

\* The count tells how many threads have the mutex or wait for it.
CountCorrect ==
    count = 1 - Cardinality({t \in Threads : HasMutex(t) \/ IsWaiting(t)})

(***************************************************************************)
(* Ownership is neither lost nor doubled on its way from the thread that   *)
(* releases to the one that waits: while threads wait, exactly one thread  *)
(* has the mutex, or is about to signal the event, or the event is         *)
(* signaled; and the event is signaled for a waiter only.                  *)
(***************************************************************************)
Baton(t) == HasMutex(t) \/ pc[t] = "signal"

HandOver ==
    /\ (\E t \in Threads : IsWaiting(t)) => event \/ \E t \in Threads : Baton(t)
    /\ event \/ (\E t \in Threads : pc[t] = "signal")
          => \E t \in Threads : IsWaiting(t)
    /\ event => \A t \in Threads : ~Baton(t)
    /\ \A t, u \in Threads : Baton(t) /\ Baton(u) => t = u
    /\ event => queue = <<>>

\* The mutex passes from thread to thread without being lost, doubled or
\* miscounted.
OwnershipHandedOver == CountCorrect /\ HandOver

\* A thread leaves with the IRQL it came with, although OldIrql is kept in the
\* mutex where the next owner overwrites it.
IrqlRestored == \A t \in Threads : pc[t] = "idle" => irql[t] = entry[t]

\* The event's wait list is first in, first out: every thread that waits gets
\* the mutex, unless it lets APCs take it off the list again and again.
WaitersServed ==
    \A t \in Threads :
        IsWaiting(t) /\ irql[t] = APC_LEVEL ~> HasMutex(t)

hold == [t \in Threads |-> IF HasMutex(t) THEN "exclusive" ELSE "none"]
Abstract == INSTANCE LockSpec

\* A fast mutex is a lock.
Refinement == Abstract!Spec
=============================================================================
