----------------------------- MODULE WorkQueue -----------------------------
(***************************************************************************)
(* The system worker threads (ntoskrnl/ex/work.c) on their kernel queue    *)
(* (ntoskrnl/ke/queue.c): work items are inserted, at most MaximumCount    *)
(* workers are active at a time, a worker whose item waits lets another    *)
(* one go on, and the balance manager adds dynamic threads when the queue  *)
(* stands still.                                                           *)
(*                                                                         *)
(* Every section under the dispatcher lock is one action.  The counters    *)
(* WorkItemsProcessed and QueueDepthLastPass are kept as far as they are   *)
(* compared: has an item been processed since the last pass, was there an  *)
(* entry at the last pass.                                                 *)
(***************************************************************************)
EXTENDS Integers, Sequences, FiniteSets

CONSTANTS
    Static,         \* the worker threads made at start-up
    Dynamic,        \* the threads the balance manager may make
    Clients,        \* other threads that queue items
    Items,          \* the work items
    Spawns,         \* [Items -> Items \cup {NULL}]: the item that an item's
                    \* routine queues, and may wait for
    MaximumCount,   \* the processors: workers active at a time
    MaxDynamic,     \* the 16 of the code: bound on DynamicThreadCount
    NULL

VARIABLES
    EntryListHead,      \* the entries of the queue
    WaitListHead,       \* the workers waiting for an entry, newest last
    CurrentCount,       \* active workers, as the queue counts them
    pc,                 \* where each worker is
    item,               \* the item each worker has
    joined,             \* the workers with Thread->Queue = this queue
    WrQueue,            \* the workers with Thread->WaitReason = WrQueue
    queued,             \* the items queued and not yet finished
    checking,           \* the clients that inserted and have not looked yet
    DynamicThreadCount,
    lost,               \* history: how many it counts that were never made
    MakeThreads,        \* Info.MakeThreadsAsNecessary
    event,              \* ExpThreadSetManagerEvent
    processed,          \* WorkItemsProcessed # WorkItemsProcessedLastPass
    depth,              \* QueueDepthLastPass # 0
    manager             \* where the balance manager is

queue == <<EntryListHead, WaitListHead, CurrentCount>>
balance == <<DynamicThreadCount, lost, event, processed, depth, manager>>
vars == <<queue, pc, item, joined, WrQueue, queued, checking, MakeThreads,
          balance>>

Workers == Static \cup Dynamic

ASSUME WorkQueueAssumption ==
    /\ IsFiniteSet(Workers) /\ Static \cap Dynamic = {} /\ Clients \cap Workers = {}
    /\ Spawns \in [Items -> Items \cup {NULL}] /\ NULL \notin Items
    /\ MaximumCount \in Nat \ {0} /\ MaxDynamic \in Nat

-----------------------------------------------------------------------------
(* Inserting, and waking a waiter: queue.c 22-139                          *)

Without(s, w) == LET k == CHOOSE n \in DOMAIN s : s[n] = w IN
    [n \in 1 .. Len(s) - 1 |-> IF n < k THEN s[n] ELSE s[n + 1]]

\* The newest waiter w gets the item i, and is active again.
HandOver(w, i) ==
    /\ WaitListHead' = Without(WaitListHead, w)
    /\ pc' = [pc EXCEPT ![w] = "got"]
    /\ item' = [item EXCEPT ![w] = i]
    /\ WrQueue' = WrQueue \ {w}

\* KiInsertQueue by the thread t: queue.c 68-139.  A worker of this queue
\* whose wait reason is still WrQueue does not wake anybody.
KiInsertQueue(t, i) ==
    LET w == WaitListHead[Len(WaitListHead)] IN
    IF /\ CurrentCount < MaximumCount
       /\ WaitListHead # << >>
       /\ t \notin joined \cap WrQueue
    THEN /\ HandOver(w, i)
         /\ CurrentCount' = CurrentCount + 1
         /\ UNCHANGED EntryListHead
    ELSE /\ EntryListHead' = Append(EntryListHead, i)
         /\ UNCHANGED <<WaitListHead, CurrentCount, pc, item, WrQueue>>

\* Mutant of KiActivateWaiterQueue: the active workers are only counted.
KiActivateWaiterQueueMutant(t, p) ==
    /\ CurrentCount' = CurrentCount - 1
    /\ pc' = [pc EXCEPT ![t] = p]
    /\ WrQueue' = WrQueue \ {t}
    /\ UNCHANGED <<EntryListHead, WaitListHead, item>>

\* KiActivateWaiterQueue: queue.c 22-63.  The worker t stops being active
\* (its new place is p), and a waiter takes its turn if there is an entry.
KiActivateWaiterQueue(t, p) ==
    LET w == WaitListHead[Len(WaitListHead)] IN
    IF /\ CurrentCount - 1 < MaximumCount
       /\ WaitListHead # << >>
       /\ EntryListHead # << >>
    THEN /\ WaitListHead' = Without(WaitListHead, w)
         /\ EntryListHead' = Tail(EntryListHead)
         /\ pc' = [pc EXCEPT ![w] = "got", ![t] = p]
         /\ item' = [item EXCEPT ![w] = Head(EntryListHead)]
         /\ WrQueue' = WrQueue \ {w, t}
         /\ UNCHANGED CurrentCount
    ELSE /\ CurrentCount' = CurrentCount - 1
         /\ pc' = [pc EXCEPT ![t] = p]
         /\ WrQueue' = WrQueue \ {t}
         /\ UNCHANGED <<EntryListHead, WaitListHead, item>>

\* What ExQueueWorkItem looks at after the insertion, without a lock, and
\* ExpCheckDynamicThreadCount again: work.c 746-750 and 391-395.
ThreadNeeded ==
    /\ MakeThreads
    /\ EntryListHead # << >>
    /\ CurrentCount < MaximumCount
    /\ DynamicThreadCount < MaxDynamic

-----------------------------------------------------------------------------
(* Clients: ExQueueWorkItem, work.c 715-758.  It asks that the item is off  *)
(* the list (work.c 722); here it is queued again when its routine has      *)
(* ended, which is the use with the fewest assumptions about the routine.   *)

QueueItem(c, i) ==
    /\ c \notin checking
    /\ i \notin queued
    /\ queued' = queued \cup {i}
    /\ KiInsertQueue(c, i)
    /\ checking' = checking \cup {c}
    /\ UNCHANGED <<joined, MakeThreads, balance>>

CheckThreads(c) ==
    /\ c \in checking
    /\ checking' = checking \ {c}
    /\ event' = (event \/ ThreadNeeded)
    /\ UNCHANGED <<queue, pc, item, joined, WrQueue, queued, MakeThreads, lost,
                   DynamicThreadCount, processed, depth, manager>>

-----------------------------------------------------------------------------
(* Workers: work.c 80-227, KeRemoveQueue queue.c 236-431                   *)

\* CurrentCount without the caller: a worker's first call finds itself not
\* counted yet.
OthersCount(w) == IF w \in joined THEN CurrentCount - 1 ELSE CurrentCount

Calls(w) ==
    /\ pc[w] = "remove"
    /\ joined' = joined \cup {w}
    /\ WrQueue' = WrQueue \cup {w}
    /\ UNCHANGED <<queued, checking, MakeThreads, balance>>

EntryFree(w) == OthersCount(w) < MaximumCount /\ EntryListHead # << >>

\* There is an entry: no wait, and the wait reason stays as it was set.
RemoveEntry(w) ==
    /\ Calls(w)
    /\ EntryFree(w)
    /\ EntryListHead' = Tail(EntryListHead)
    /\ CurrentCount' = OthersCount(w) + 1
    /\ pc' = [pc EXCEPT ![w] = "got"]
    /\ item' = [item EXCEPT ![w] = Head(EntryListHead)]
    /\ UNCHANGED WaitListHead

WaitForEntry(w) ==
    /\ Calls(w)
    /\ ~EntryFree(w)
    /\ WaitListHead' = Append(WaitListHead, w)
    /\ CurrentCount' = OthersCount(w)
    /\ pc' = [pc EXCEPT ![w] = "waiting"]
    /\ UNCHANGED <<EntryListHead, item>>

\* A kernel APC is pending: it runs with the worker active, which then
\* starts over (queue.c 337-344 and 420-423).
ApcBeforeWait(w) ==
    /\ Calls(w)
    /\ ~EntryFree(w)
    /\ CurrentCount' = OthersCount(w) + 1
    /\ UNCHANGED <<EntryListHead, WaitListHead, pc, item>>

\* The time of a dynamic thread is over before it waits (queue.c 358-368).
TimeoutBeforeWait(w) ==
    /\ w \in Dynamic
    /\ Calls(w)
    /\ ~EntryFree(w)
    /\ CurrentCount' = OthersCount(w) + 1
    /\ pc' = [pc EXCEPT ![w] = "timedout"]
    /\ UNCHANGED <<EntryListHead, WaitListHead, item>>

\* Mutant of WaitEnds: a worker whose wait ends is not counted as active.
WaitEndsMutant(w, p) ==
    /\ pc[w] = "waiting"
    /\ WaitListHead' = Without(WaitListHead, w)
    /\ pc' = [pc EXCEPT ![w] = p]
    /\ WrQueue' = WrQueue \ {w}
    /\ UNCHANGED <<CurrentCount, EntryListHead, item, joined, queued,
                   checking, MakeThreads, balance>>

\* The wait ends for another reason: KiUnlinkThread counts the worker
\* (wait.c 83).
WaitEnds(w, p) ==
    /\ pc[w] = "waiting"
    /\ WaitListHead' = Without(WaitListHead, w)
    /\ CurrentCount' = CurrentCount + 1
    /\ pc' = [pc EXCEPT ![w] = p]
    /\ WrQueue' = WrQueue \ {w}
    /\ UNCHANGED <<EntryListHead, item, joined, queued, checking, MakeThreads,
                   balance>>

\* A kernel APC (ExSwapinWorkerThreads sends one, work.c 664-677).
ApcInWait(w) == WaitEnds(w, "remove")

TimeoutInWait(w) == w \in Dynamic /\ WaitEnds(w, "timedout")

\* The item is counted and its routine called.
StartItem(w) ==
    /\ pc[w] = "got"
    /\ processed' = TRUE
    /\ pc' = [pc EXCEPT ![w] = "run"]
    /\ UNCHANGED <<queue, item, joined, WrQueue, queued, checking,
                   MakeThreads, lost, DynamicThreadCount, event, depth, manager>>

\* The routine queues another item (unless that is queued already) ...
SpawnItem(w) ==
    LET i == Spawns[item[w]] IN
    /\ pc[w] = "run"
    /\ i # NULL
    /\ i \notin queued
    /\ w \notin checking
    /\ queued' = queued \cup {i}
    /\ KiInsertQueue(w, i)
    /\ checking' = checking \cup {w}
    /\ UNCHANGED <<joined, MakeThreads, balance>>

\* ... and waits until it is finished, letting another worker go on
\* (wait.c 355, 522, 817).
WaitForItem(w) ==
    /\ pc[w] = "run"
    /\ w \notin checking
    /\ Spawns[item[w]] \in queued
    /\ KiActivateWaiterQueue(w, "blocked")
    /\ UNCHANGED <<joined, queued, checking, MakeThreads, balance>>

Awaiting(i) == {w \in Workers : pc[w] = "blocked" /\ Spawns[item[w]] = i}

\* The end of the item satisfies the waits for it: those workers are active,
\* however many others are (KiUnlinkThread, wait.c 83).
FinishItem(w) ==
    /\ pc[w] \in {"run", "finish"}
    /\ w \notin checking
    /\ queued' = queued \ {item[w]}
    /\ item' = [item EXCEPT ![w] = NULL]
    /\ CurrentCount' = CurrentCount + Cardinality(Awaiting(item[w]))
    /\ pc' = [v \in Workers |-> IF v = w THEN "remove"
                               ELSE IF v \in Awaiting(item[w]) THEN "finish"
                               ELSE pc[v]]
    /\ UNCHANGED <<EntryListHead, WaitListHead, joined, WrQueue, checking,
                   MakeThreads, balance>>

\* After its timeout a dynamic thread stays if it has IRPs pending ...
StayForIrps(w) ==
    /\ pc[w] = "timedout"
    /\ pc' = [pc EXCEPT ![w] = "remove"]
    /\ UNCHANGED <<queue, item, joined, WrQueue, queued, checking,
                   MakeThreads, balance>>

\* ... or returns; DynamicThreadCount goes down first,
LeaveQueue(w) ==
    /\ pc[w] = "timedout"
    /\ DynamicThreadCount' = DynamicThreadCount - 1
    /\ pc' = [pc EXCEPT ![w] = "exit"]
    /\ UNCHANGED <<queue, item, joined, WrQueue, queued, checking,
                   MakeThreads, lost, event, processed, depth, manager>>

\* and KeTerminateThread takes the thread off the queue (thrdobj.c
\* 1430-1435).
Terminate(w) ==
    /\ pc[w] = "exit"
    /\ KiActivateWaiterQueue(w, "none")
    /\ joined' = joined \ {w}
    /\ UNCHANGED <<queued, checking, MakeThreads, balance>>

-----------------------------------------------------------------------------
(* The balance manager: work.c 252-503                                     *)

\* The timer of one second, or the event, ends its wait.
ManagerTimer ==
    /\ manager = "wait"
    /\ manager' = "detect"
    /\ UNCHANGED <<queue, pc, item, joined, WrQueue, queued, checking,
                   MakeThreads, lost, DynamicThreadCount, event, processed, depth>>

ManagerEvent ==
    /\ manager = "wait"
    /\ event
    /\ event' = FALSE
    /\ manager' = "check"
    /\ UNCHANGED <<queue, pc, item, joined, WrQueue, queued, checking,
                   MakeThreads, lost, DynamicThreadCount, processed, depth>>

\* Mutant of Wanted: the detection makes threads without limit.
WantedMutant ==
    \/ manager = "detect" /\ depth /\ ~processed
    \/ manager = "check" /\ ThreadNeeded

\* ExpDetectWorkerThreadDeadlock, and ExpCheckDynamicThreadCount: is another
\* thread to be made?
Wanted ==
    \/ /\ manager = "detect"
       /\ depth /\ ~processed /\ DynamicThreadCount < MaxDynamic
    \/ manager = "check" /\ ThreadNeeded

After == IF manager = "detect" THEN "update" ELSE "wait"

NoThreadWanted ==
    /\ manager \in {"detect", "check"}
    /\ ~Wanted
    /\ manager' = After
    /\ UNCHANGED <<queue, pc, item, joined, WrQueue, queued, checking,
                   MakeThreads, lost, DynamicThreadCount, event, processed, depth>>

\* ExpCreateWorkerThread: the thread exists before it is counted.
CreateThread(w) ==
    /\ Wanted
    /\ pc[w] = "none"
    /\ pc' = [pc EXCEPT ![w] = "remove"]
    /\ manager' = IF manager = "detect" THEN "countdetected" ELSE "countchecked"
    /\ UNCHANGED <<queue, item, joined, WrQueue, queued, checking,
                   MakeThreads, lost, DynamicThreadCount, event, processed, depth>>

CountThread ==
    /\ manager \in {"countdetected", "countchecked"}
    /\ DynamicThreadCount' = DynamicThreadCount + 1
    /\ manager' = IF manager = "countdetected" THEN "update" ELSE "wait"
    /\ UNCHANGED <<queue, pc, item, joined, WrQueue, queued, checking,
                   MakeThreads, lost, event, processed, depth>>

\* PsCreateSystemThread fails, which nobody notices: what was not made is
\* counted, too.  Then a handle is used that was never set (work.c 302-314): as
\* a rule it names no thread and the NULL that ObReferenceObjectByHandle leaves
\* is used as one, which ends the system, or the manager goes on with some
\* other thread.
CreateThreadFails ==
    /\ Wanted
    /\ manager' = IF manager = "detect" THEN "missdetected" ELSE "misschecked"
    /\ UNCHANGED <<queue, pc, item, joined, WrQueue, queued, checking,
                   MakeThreads, lost, DynamicThreadCount, event, processed, depth>>

CountMissing ==
    /\ manager \in {"missdetected", "misschecked"}
    /\ DynamicThreadCount' = DynamicThreadCount + 1
    /\ lost' = lost + 1
    /\ manager' \in {"fault", IF manager = "missdetected" THEN "update" ELSE "wait"}
    /\ UNCHANGED <<queue, pc, item, joined, WrQueue, queued, checking,
                   MakeThreads, event, processed, depth>>

\* The system has ended.  (What others do after that is of no consequence.)
Halted == manager = "fault" /\ UNCHANGED vars

\* Mutant of UpdatePass: WorkItemsProcessedLastPass is not updated.
UpdatePassMutant ==
    /\ manager = "update"
    /\ depth' = (EntryListHead # << >>)
    /\ manager' = "wait"
    /\ UNCHANGED <<queue, pc, item, joined, WrQueue, queued, checking,
                   MakeThreads, lost, DynamicThreadCount, event, processed>>

UpdatePass ==
    /\ manager = "update"
    /\ processed' = FALSE
    /\ depth' = (EntryListHead # << >>)
    /\ manager' = "wait"
    /\ UNCHANGED <<queue, pc, item, joined, WrQueue, queued, checking,
                   MakeThreads, lost, DynamicThreadCount, event>>

-----------------------------------------------------------------------------
\* Dynamic threads are used for the critical queue; the deadlock detection
\* makes them for every queue (work.c 556-557).
Init ==
    /\ EntryListHead = << >>
    /\ WaitListHead = << >>
    /\ CurrentCount = 0
    /\ pc = [w \in Workers |-> IF w \in Static THEN "remove" ELSE "none"]
    /\ item = [w \in Workers |-> NULL]
    /\ joined = {}
    /\ WrQueue = {}
    /\ queued = {}
    /\ checking = {}
    /\ DynamicThreadCount = 0
    /\ lost = 0
    /\ MakeThreads \in BOOLEAN
    /\ event = FALSE
    /\ processed = FALSE
    /\ depth = FALSE
    /\ manager = "wait"

\* What a worker does by itself.
Works(w) ==
    \/ RemoveEntry(w)
    \/ WaitForEntry(w)
    \/ StartItem(w)
    \/ SpawnItem(w)
    \/ CheckThreads(w)
    \/ WaitForItem(w)
    \/ FinishItem(w)
    \/ StayForIrps(w)
    \/ LeaveQueue(w)
    \/ Terminate(w)

\* What happens to it.
Interrupted(w) ==
    \/ ApcBeforeWait(w)
    \/ ApcInWait(w)
    \/ TimeoutBeforeWait(w)
    \/ TimeoutInWait(w)

Manager ==
    \/ ManagerTimer
    \/ ManagerEvent
    \/ NoThreadWanted
    \/ \E w \in Dynamic : CreateThread(w)
    \/ CountThread
    \/ CountMissing
    \/ UpdatePass

Next ==
    \/ \E w \in Workers : Works(w) \/ Interrupted(w)
    \/ \E c \in Clients : CheckThreads(c)
    \/ \E c \in Clients, i \in Items : QueueItem(c, i)
    \/ Manager
    \/ CreateThreadFails
    \/ Halted

\* Threads that can run do run, and the manager's timer expires; nobody has
\* to queue an item, and neither APCs, timeouts nor failures have to come.
Fairness ==
    /\ \A w \in Workers : WF_vars(Works(w))
    /\ \A c \in Clients : WF_vars(CheckThreads(c))
    /\ WF_vars(Manager)

Spec == Init /\ [][Next]_vars /\ Fairness

-----------------------------------------------------------------------------
(* Properties *)

Active(w) == w \in joined /\ pc[w] \notin {"waiting", "blocked"}

\* CurrentCount is exactly the number of workers that neither wait for an
\* entry nor in an item, whichever way their waits began and ended.
ActiveCountExact == CurrentCount = Cardinality({w \in Workers : Active(w)})

\* Each queued item is in one place: once on the list, or with one worker.
Places(i) ==
    Cardinality({k \in 1 .. Len(EntryListHead) : EntryListHead[k] = i})
    + Cardinality({w \in Workers : item[w] = i})

\* Nobody waits for ever while there is an entry: some worker is active, and
\* it will look at the list or, when it stops being active, let a waiter take
\* an entry.  (It may be the only one, however many processors there are: an
\* entry inserted by a worker whose own wait reason is stale wakes nobody.)
NoLostItem ==
    /\ \A i \in Items : Places(i) = IF i \in queued THEN 1 ELSE 0
    /\ EntryListHead # << >> /\ WaitListHead # << >> => \E w \in Workers : Active(w)

\* The assertion of the deadlock detection, work.c 344, with what it needs:
\* the count is the threads that were made and have not left, but for the
\* one the manager has not counted yet, and those that could not be made,
\* which nobody ever takes off the count again.
DynamicBounded ==
    /\ DynamicThreadCount <= MaxDynamic
    /\ DynamicThreadCount =
           Cardinality({w \in Dynamic : pc[w] \notin {"none", "exit"}}) + lost
           - (IF manager \in {"countdetected", "countchecked"} THEN 1 ELSE 0)

\* Every queued item is run to its end, even when all workers wait for items
\* that are behind theirs on the list: the manager makes a thread for them.
\* (Provided that waits are not cut short for ever: workers whose waits end
\* early are counted active for a moment, and no entry is free to others
\* meanwhile.  Provided, too, that the threads can be made: those that could
\* not use up the limit.)
ItemsAreRun ==
    [](lost = 0) /\ <>[][\A w \in Workers : ~Interrupted(w)]_vars =>
        \A i \in Items : (i \in queued) ~> (i \notin queued)
=============================================================================
