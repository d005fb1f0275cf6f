------------------------------ MODULE Resource ------------------------------
(***************************************************************************)
(* Executive resources (ex/resource.c): a lock that is shared or exclusive, *)
(* with a table of its owners.                                             *)
(*                                                                         *)
(* What is done under the resource's spin lock is one step.  The lock is    *)
(* dropped to allocate the event, the semaphore or a larger table, and the  *)
(* acquire then starts over.  A release makes waiters owners under the lock *)
(* and signals them after it.                                              *)
(***************************************************************************)
EXTENDS Integers, FiniteSets, FiniteSetsExt

CONSTANTS Threads,
          Pointers,     \* OwnerPointers of ExSetResourceOwnerPointer
          Manager,      \* a thread that releases what was left to pointers
          NULL,         \* OwnerThread of a free entry
          One,          \* OwnerThread of a resource that is being given away
          FirstSize,    \* entries of the first table (2 in the code)
          Growth,       \* entries each expansion adds (4 in the code)
          MaxCount      \* bound: acquires of one owner

Agents == Threads \cup Pointers

ASSUME ResourceAssumption ==
    /\ IsFiniteSet(Threads) /\ IsFiniteSet(Pointers)
    /\ Threads \cap Pointers = {} /\ Manager \in Threads
    /\ NULL \notin Agents /\ One \notin Agents /\ NULL # One
    /\ FirstSize \in Nat \ {0} /\ Growth \in Nat \ {0} /\ MaxCount \in Nat \ {0}

VARIABLES entries,          \* OwnerEntry (at 0) and the OwnerTable
          exclusive,        \* Flag & ResourceOwnedExclusive
          activeEntries,    \* ActiveEntries
          activeCount,      \* ActiveCount
          sharedWaiters,    \* NumberOfSharedWaiters
          exclusiveWaiters, \* NumberOfExclusiveWaiters
          allocated,        \* the objects SharedWaiters, ExclusiveWaiters exist
          semaphore,        \* signal state of SharedWaiters
          event,            \* signal state of ExclusiveWaiters
          pc,               \* where each thread is
          call,             \* the acquire it is in
          local,            \* its OldSize, or the waiters it is to wake
          hold              \* what each owner has acquired

resource == <<entries, exclusive, activeEntries, activeCount, sharedWaiters,
              exclusiveWaiters, allocated, semaphore, event>>
vars == <<resource, pc, call, local, hold>>

Empty == [thread |-> NULL, count |-> 0]
Free == [mode |-> "none", count |-> 0]
NoCall == [kind |-> "none", wait |-> FALSE]

SharedKinds == {"shared", "starveExclusive", "waitForExclusive"}
ExclusiveKinds == {"exclusive", "tryExclusive"}

Init == /\ entries = [e \in {0} |-> Empty]
        /\ exclusive = FALSE
        /\ activeEntries = 0
        /\ activeCount = 0
        /\ sharedWaiters = 0
        /\ exclusiveWaiters = 0
        /\ allocated = {}
        /\ semaphore = 0
        /\ event = FALSE
        /\ pc = [t \in Threads |-> "idle"]
        /\ call = [t \in Threads |-> NoCall]
        /\ local = [t \in Threads |-> 0]
        /\ hold = [a \in Agents |-> Free]

-----------------------------------------------------------------------------
(***************************************************************************)
(* Clients do not wait for themselves: a thread that shares the resource   *)
(* does not wait for exclusive access, nor for those who do.               *)
(***************************************************************************)
MayCall(t, k, w) ==
    /\ t # Manager
    /\ hold[t].count < MaxCount
    /\ k = "tryExclusive" => ~w
    /\ hold[t].mode = "shared" /\ k \in {"exclusive", "waitForExclusive"} => ~w

\* Thread t calls an acquire, or has the spin lock back and tries again.
Trying(t, k, w) ==
    \/ pc[t] = "idle" /\ MayCall(t, k, w)
    \/ pc[t] = "try" /\ call[t] = [kind |-> k, wait |-> w]

Go(t, k, w, to) == /\ pc' = [pc EXCEPT ![t] = to]
                   /\ call' = [call EXCEPT ![t] = [kind |-> k, wait |-> w]]

Return(t) == /\ pc' = [pc EXCEPT ![t] = "idle"]
             /\ call' = [call EXCEPT ![t] = NoCall]

Gets(t, m) == hold' = [hold EXCEPT ![t] = [mode |-> m, count |-> 1]]

\* The entries a search for thread x finds: OwnerEntry alone if the resource
\* is exclusive.
EntryOf(x) == {e \in DOMAIN entries : /\ entries[e].thread = x
                                      /\ exclusive => e = 0}

\* ExpFindFreeEntry, and what ExpFindEntryForThread does for a new owner;
\* OwnerEntry is not given to a thread that will have to wait.
FreeEntries(waits) == {e \in DOMAIN entries : /\ entries[e].thread = NULL
                                              /\ waits => e # 0}

\* An acquire of kind k has to wait, since another thread owns the resource
\* exclusively or (but for ExAcquireSharedStarveExclusive) waits to.
MustWait(k) == \/ exclusive
               \/ k # "starveExclusive" /\ exclusiveWaiters > 0

\* ExAcquireSharedWaitForExclusive waits first and looks for an entry later.
WaitsFirst(k) ==
    k = "waitForExclusive" /\ ~exclusive /\ exclusiveWaiters > 0

-----------------------------------------------------------------------------
\* Nobody owns the resource.
AcquireFree(t, k, w) ==
    /\ Trying(t, k, w)
    /\ IF k = "tryExclusive" THEN activeCount = 0 ELSE activeEntries = 0
    /\ exclusive' = (k \in ExclusiveKinds)
    /\ activeEntries' = 1
    /\ activeCount' = 1
    /\ entries' = [entries EXCEPT ![0] = [thread |-> t, count |-> 1]]
    /\ Gets(t, IF k \in ExclusiveKinds THEN "exclusive" ELSE "shared")
    /\ Return(t)
    /\ UNCHANGED <<sharedWaiters, exclusiveWaiters, allocated, semaphore, event, local>>

\* The thread owns it already.
AcquireAgain(t, k, w) ==
    /\ Trying(t, k, w)
    /\ activeEntries # 0
    /\ k \in ExclusiveKinds => exclusive
    /\ ~WaitsFirst(k)
    /\ \E e \in EntryOf(t) :
          entries' = [entries EXCEPT ![e].count = @ + 1]
    /\ hold' = [hold EXCEPT ![t].count = @ + 1]
    /\ Return(t)
    /\ UNCHANGED <<exclusive, activeEntries, activeCount, sharedWaiters,
                   exclusiveWaiters, allocated, semaphore, event, local>>

\* Mutant of Join: the new owner is not counted.
JoinMutant(t, k, w) ==
    /\ k \in SharedKinds
    /\ Trying(t, k, w)
    /\ activeEntries # 0
    /\ ~MustWait(k)
    /\ EntryOf(t) = {}
    /\ FreeEntries(FALSE) # {}
    /\ entries' = [entries EXCEPT ![Min(FreeEntries(FALSE))] =
                       [thread |-> t, count |-> 1]]
    /\ Gets(t, "shared")
    /\ Return(t)
    /\ UNCHANGED <<exclusive, activeEntries, activeCount, sharedWaiters,
                   exclusiveWaiters, allocated, semaphore, event, local>>

\* Others share the resource.
Join(t, k, w) ==
    /\ k \in SharedKinds
    /\ Trying(t, k, w)
    /\ activeEntries # 0
    /\ ~MustWait(k)
    /\ EntryOf(t) = {}
    /\ FreeEntries(FALSE) # {}
    /\ entries' = [entries EXCEPT ![Min(FreeEntries(FALSE))] =
                       [thread |-> t, count |-> 1]]
    /\ activeEntries' = activeEntries + 1
    /\ Gets(t, "shared")
    /\ Return(t)
    /\ UNCHANGED <<exclusive, activeCount, sharedWaiters, exclusiveWaiters,
                   allocated, semaphore, event, local>>

\* ExpExpandResourceOwnerTable, up to where it drops the lock.
Expand(t, k, w) ==
    /\ k \in SharedKinds
    /\ Trying(t, k, w)
    /\ activeEntries # 0
    /\ ~WaitsFirst(k)
    /\ EntryOf(t) = {}
    /\ FreeEntries(MustWait(k)) = {}
    /\ local' = [local EXCEPT ![t] = Cardinality(DOMAIN entries) - 1]
    /\ Go(t, k, w, "expand")
    /\ UNCHANGED <<resource, hold>>

\* Mutant of ExpandTable: whether the table has changed is not looked at.
ExpandTableMutant(t) ==
    /\ pc[t] = "expand"
    /\ LET new == IF local[t] = 0 THEN FirstSize ELSE local[t] + Growth
       IN  entries' = [e \in 0 .. new |-> IF e <= local[t] THEN entries[e] ELSE Empty]
    /\ local' = [local EXCEPT ![t] = 0]
    /\ pc' = [pc EXCEPT ![t] = "try"]
    /\ UNCHANGED <<exclusive, activeEntries, activeCount, sharedWaiters,
                   exclusiveWaiters, allocated, semaphore, event, call, hold>>

\* Mutant of ExpandTable: the new table is never installed.
ExpandTableLostMutant(t) ==
    /\ pc[t] = "expand"
    /\ local' = [local EXCEPT ![t] = 0]
    /\ pc' = [pc EXCEPT ![t] = "try"]
    /\ UNCHANGED <<resource, call, hold>>

\* The table is replaced by a larger one, unless somebody else has done that.
ExpandTable(t) ==
    /\ pc[t] = "expand"
    /\ LET old == Cardinality(DOMAIN entries) - 1
           new == IF old = 0 THEN FirstSize ELSE old + Growth
       IN  entries' = IF old = local[t]
                      THEN [e \in 0 .. new |-> IF e <= old THEN entries[e] ELSE Empty]
                      ELSE entries
    /\ local' = [local EXCEPT ![t] = 0]
    /\ pc' = [pc EXCEPT ![t] = "try"]
    /\ UNCHANGED <<exclusive, activeEntries, activeCount, sharedWaiters,
                   exclusiveWaiters, allocated, semaphore, event, call, hold>>

\* Thread t would have to wait: its acquire finds no way to own the resource.
Blocked(t, k) ==
    /\ activeEntries # 0
    /\ IF k \in ExclusiveKinds
       THEN ~(exclusive /\ entries[0].thread = t)
       ELSE /\ MustWait(k)
            /\ WaitsFirst(k) \/ (EntryOf(t) = {} /\ FreeEntries(TRUE) # {})

\* Wait is FALSE.
Refuse(t, k) ==
    /\ Trying(t, k, FALSE)
    /\ Blocked(t, k)
    /\ Return(t)
    /\ UNCHANGED <<resource, local, hold>>

\* ExpAllocateExclusiveWaiterEvent and ExpAllocateSharedWaiterSemaphore, up to
\* where they drop the lock.
Object(k) == IF k \in ExclusiveKinds THEN "event" ELSE "semaphore"

Allocate(t, k) ==
    /\ Trying(t, k, TRUE)
    /\ Blocked(t, k)
    /\ Object(k) \notin allocated
    /\ Go(t, k, TRUE, "allocate")
    /\ UNCHANGED <<resource, local, hold>>

\* The object is set if there is none yet, else freed.
SetObject(t) ==
    /\ pc[t] = "allocate"
    /\ allocated' = allocated \cup {Object(call[t].kind)}
    /\ pc' = [pc EXCEPT ![t] = "try"]
    /\ UNCHANGED <<entries, exclusive, activeEntries, activeCount, sharedWaiters,
                   exclusiveWaiters, semaphore, event, call, local, hold>>

\* Exclusive access: the thread waits for the event.
QueueExclusive(t, k) ==
    /\ k \in ExclusiveKinds
    /\ Trying(t, k, TRUE)
    /\ Blocked(t, k)
    /\ Object(k) \in allocated
    /\ exclusiveWaiters' = exclusiveWaiters + 1
    /\ Go(t, k, TRUE, "exclusiveWait")
    /\ UNCHANGED <<entries, exclusive, activeEntries, activeCount, sharedWaiters,
                   allocated, semaphore, event, local, hold>>

\* Shared access: the thread notes itself in the table and waits for the
\* semaphore,
QueueShared(t, k) ==
    /\ k \in SharedKinds
    /\ ~WaitsFirst(k)
    /\ Trying(t, k, TRUE)
    /\ Blocked(t, k)
    /\ Object(k) \in allocated
    /\ entries' = [entries EXCEPT ![Min(FreeEntries(TRUE))] =
                       [thread |-> t, count |-> 1]]
    /\ sharedWaiters' = sharedWaiters + 1
    /\ Go(t, k, TRUE, "sharedWait")
    /\ UNCHANGED <<exclusive, activeEntries, activeCount, exclusiveWaiters,
                   allocated, semaphore, event, local, hold>>

\* or waits, and notes itself when it is an owner.
QueueFirst(t, k) ==
    /\ WaitsFirst(k)
    /\ Trying(t, k, TRUE)
    /\ Blocked(t, k)
    /\ Object(k) \in allocated
    /\ sharedWaiters' = sharedWaiters + 1
    /\ Go(t, "register", TRUE, "sharedWait")
    /\ UNCHANGED <<entries, exclusive, activeEntries, activeCount,
                   exclusiveWaiters, allocated, semaphore, event, local, hold>>

-----------------------------------------------------------------------------
\* ExpWaitForResource returns: the semaphore or the event is signaled.  (When
\* the wait times out it is started over.)
TakeSemaphore(t) ==
    /\ pc[t] = "sharedWait"
    /\ semaphore > 0
    /\ semaphore' = semaphore - 1
    /\ IF call[t].kind = "register"
       THEN /\ pc' = [pc EXCEPT ![t] = "try"]
            /\ UNCHANGED <<call, hold>>
       ELSE Gets(t, "shared") /\ Return(t)
    /\ UNCHANGED <<entries, exclusive, activeEntries, activeCount, sharedWaiters,
                   exclusiveWaiters, allocated, event, local>>

TakeEvent(t) ==
    /\ pc[t] = "exclusiveWait"
    /\ event
    /\ event' = FALSE
    /\ pc' = [pc EXCEPT ![t] = "claim"]
    /\ UNCHANGED <<entries, exclusive, activeEntries, activeCount, sharedWaiters,
                   exclusiveWaiters, allocated, semaphore, call, local, hold>>

\* The new owner writes its name, without the lock.
Claim(t) ==
    /\ pc[t] = "claim"
    /\ entries' = [entries EXCEPT ![0].thread = t]
    /\ Gets(t, "exclusive")
    /\ Return(t)
    /\ UNCHANGED <<exclusive, activeEntries, activeCount, sharedWaiters,
                   exclusiveWaiters, allocated, semaphore, event, local>>

\* ExAcquireSharedWaitForExclusive, after its wait.
Register(t) ==
    /\ pc[t] = "try"
    /\ call[t].kind = "register"
    /\ FreeEntries(TRUE) # {}
    /\ entries' = [entries EXCEPT ![Min(FreeEntries(TRUE))] =
                       [thread |-> t, count |-> 1]]
    /\ Gets(t, "shared")
    /\ Return(t)
    /\ UNCHANGED <<exclusive, activeEntries, activeCount, sharedWaiters,
                   exclusiveWaiters, allocated, semaphore, event, local>>

RegisterExpand(t) ==
    /\ pc[t] = "try"
    /\ call[t].kind = "register"
    /\ FreeEntries(TRUE) = {}
    /\ local' = [local EXCEPT ![t] = Cardinality(DOMAIN entries) - 1]
    /\ pc' = [pc EXCEPT ![t] = "expand"]
    /\ UNCHANGED <<resource, call, hold>>

-----------------------------------------------------------------------------
\* Owner a has released the resource as often as it acquired it.
Dropped(a) == hold' = [hold EXCEPT ![a] = IF @.count = 1 THEN Free
                                          ELSE [mode |-> @.mode, count |-> @.count - 1]]

\* A thread releases what it has itself; the manager, what was left to a pointer.
Releasing(t, a) == /\ pc[t] = "idle"
                   /\ a = t \/ (a \in Pointers /\ t = Manager)
                   /\ hold[a] # Free

\* ExReleaseResourceForThreadLite: the owner has it several times,
ReleaseOnce(t, a) ==
    /\ Releasing(t, a)
    /\ \E e \in EntryOf(a) :
          /\ entries[e].count > 1
          /\ entries' = [entries EXCEPT ![e].count = @ - 1]
    /\ Dropped(a)
    /\ UNCHANGED <<exclusive, activeEntries, activeCount, sharedWaiters,
                   exclusiveWaiters, allocated, semaphore, event, pc, call, local>>

\* Mutant of ReleaseLast: the other owners are forgotten.
ReleaseLastMutant(t, a) ==
    /\ Releasing(t, a)
    /\ \E e \in EntryOf(a) :
          /\ entries[e].count = 1
          /\ entries' = [entries EXCEPT ![e] = Empty]
    /\ exclusiveWaiters = 0 /\ (exclusive => sharedWaiters = 0)
    /\ activeEntries' = 0
    /\ activeCount' = 0
    /\ exclusive' = FALSE
    /\ Dropped(a)
    /\ UNCHANGED <<sharedWaiters, exclusiveWaiters, allocated, semaphore, event,
                   pc, call, local>>

\* or releases it; an owner or nobody is left, and nobody to be woken,
ReleaseLast(t, a) ==
    /\ Releasing(t, a)
    /\ \E e \in EntryOf(a) :
          /\ entries[e].count = 1
          /\ entries' = [entries EXCEPT ![e] = Empty]
    /\ \/ activeEntries > 1
       \/ exclusiveWaiters = 0 /\ (exclusive => sharedWaiters = 0)
    /\ activeEntries' = activeEntries - 1
    /\ activeCount' = IF activeEntries = 1 THEN 0 ELSE activeCount
    /\ exclusive' = FALSE
    /\ Dropped(a)
    /\ UNCHANGED <<sharedWaiters, exclusiveWaiters, allocated, semaphore, event,
                   pc, call, local>>

\* or gives it to all who wait to share it,
ReleaseToShared(t, a) ==
    /\ Releasing(t, a)
    /\ exclusive
    /\ sharedWaiters > 0
    /\ \E e \in EntryOf(a) :
          /\ entries[e].count = 1
          /\ entries' = [entries EXCEPT ![e] = Empty]
    /\ exclusive' = FALSE
    /\ activeEntries' = sharedWaiters
    /\ local' = [local EXCEPT ![t] = sharedWaiters]
    /\ sharedWaiters' = 0
    /\ pc' = [pc EXCEPT ![t] = "releaseSemaphore"]
    /\ Dropped(a)
    /\ UNCHANGED <<activeCount, exclusiveWaiters, allocated, semaphore, event, call>>

\* or to one who waits for exclusive access.
ReleaseToExclusive(t, a) ==
    /\ Releasing(t, a)
    /\ activeEntries = 1
    /\ exclusiveWaiters > 0
    /\ exclusive => sharedWaiters = 0
    /\ \E e \in EntryOf(a) :
          /\ entries[e].count = 1
          /\ entries' = [entries EXCEPT ![e] = Empty,
                                        ![0] = [thread |-> One, count |-> 1]]
    /\ exclusive' = TRUE
    /\ exclusiveWaiters' = exclusiveWaiters - 1
    /\ pc' = [pc EXCEPT ![t] = "setEvent"]
    /\ Dropped(a)
    /\ UNCHANGED <<activeEntries, activeCount, sharedWaiters, allocated,
                   semaphore, event, call, local>>

\* KeReleaseSemaphore
ReleaseSemaphore(t) ==
    /\ pc[t] = "releaseSemaphore"
    /\ semaphore' = semaphore + local[t]
    /\ local' = [local EXCEPT ![t] = 0]
    /\ pc' = [pc EXCEPT ![t] = "idle"]
    /\ UNCHANGED <<entries, exclusive, activeEntries, activeCount, sharedWaiters,
                   exclusiveWaiters, allocated, event, call, hold>>

\* KeSetEventBoostPriority: no thread is on the event's list (a waiter may be
\* on its way, or its wait may just have timed out),
SetEvent(t) ==
    /\ pc[t] = "setEvent"
    /\ event' = TRUE
    /\ pc' = [pc EXCEPT ![t] = "idle"]
    /\ UNCHANGED <<entries, exclusive, activeEntries, activeCount, sharedWaiters,
                   exclusiveWaiters, allocated, semaphore, call, local, hold>>

\* or one is, and becomes the OwnerThread.
WakeExclusive(t, u) ==
    /\ pc[t] = "setEvent"
    /\ pc[u] = "exclusiveWait"
    /\ entries' = [entries EXCEPT ![0].thread = u]
    /\ pc' = [pc EXCEPT ![t] = "idle", ![u] = "claim"]
    /\ UNCHANGED <<exclusive, activeEntries, activeCount, sharedWaiters,
                   exclusiveWaiters, allocated, semaphore, event, call, local, hold>>

\* ExConvertExclusiveToSharedLite
Convert(t) ==
    /\ pc[t] = "idle"
    /\ hold[t].mode = "exclusive"
    /\ exclusive' = FALSE
    /\ activeEntries' = activeEntries + sharedWaiters
    /\ local' = [local EXCEPT ![t] = sharedWaiters]
    /\ sharedWaiters' = 0
    /\ pc' = [pc EXCEPT ![t] = IF sharedWaiters > 0 THEN "releaseSemaphore" ELSE @]
    /\ hold' = [hold EXCEPT ![t].mode = "shared"]
    /\ UNCHANGED <<entries, activeCount, exclusiveWaiters, allocated, semaphore,
                   event, call>>

\* ExSetResourceOwnerPointer: the pointer has an entry, or takes the thread's.
SetOwnerPointer(t, p) ==
    /\ pc[t] = "idle"
    /\ hold[t] # Free
    /\ hold[t].count + hold[p].count <= MaxCount
    /\ pc' = [pc EXCEPT ![t] = "left"]
    /\ \E e \in EntryOf(t) :
          IF EntryOf(p) = {}
          THEN /\ entries' = [entries EXCEPT ![e].thread = p]
               /\ UNCHANGED activeEntries
          ELSE /\ entries' = [entries EXCEPT
                                 ![Min(EntryOf(p))].count = @ + entries[e].count,
                                 ![e] = Empty]
               /\ activeEntries' = activeEntries - 1
    /\ hold' = [hold EXCEPT ![t] = Free,
                            ![p] = [mode |-> hold[t].mode,
                                    count |-> hold[t].count + @.count]]
    /\ UNCHANGED <<exclusive, activeCount, sharedWaiters, exclusiveWaiters,
                   allocated, semaphore, event, call, local>>

\* Its caller has no more to do with the resource until that is released.
ComeBack(t) ==
    /\ pc[t] = "left"
    /\ \A p \in Pointers : hold[p] = Free
    /\ pc' = [pc EXCEPT ![t] = "idle"]
    /\ UNCHANGED <<resource, call, local, hold>>

\* ExReinitializeResourceLite, which is for a resource nobody uses.  The table
\* keeps its size here; in the code the count of the table's first entry, which
\* is zeroed, is also TableSize, so the next owner that needs a slot may grow it.
Reinitialize ==
    /\ \A t \in Threads : pc[t] = "idle"
    /\ \A a \in Agents : hold[a] = Free
    /\ entries' = [e \in DOMAIN entries |-> Empty]
    /\ exclusive' = FALSE
    /\ activeEntries' = 0
    /\ activeCount' = 0
    /\ sharedWaiters' = 0
    /\ exclusiveWaiters' = 0
    /\ semaphore' = 0
    /\ event' = FALSE
    /\ UNCHANGED <<allocated, pc, call, local, hold>>

\* ExIsResourceAcquiredExclusiveLite and ExIsResourceAcquiredSharedLite
IsAcquiredExclusive(t) == exclusive /\ entries[0].thread = t

AcquiredShared(t) ==
    IF activeEntries = 0 \/ EntryOf(t) = {} THEN 0 ELSE entries[Min(EntryOf(t))].count

-----------------------------------------------------------------------------
Acquire(t) == \/ \E k \in SharedKinds \cup ExclusiveKinds :
                    \/ \E w \in BOOLEAN : \/ AcquireFree(t, k, w)
                                          \/ AcquireAgain(t, k, w)
                                          \/ Join(t, k, w)
                                          \/ Expand(t, k, w)
                    \/ Refuse(t, k) \/ Allocate(t, k)
                    \/ QueueExclusive(t, k) \/ QueueShared(t, k) \/ QueueFirst(t, k)

Release(t, a) == \/ ReleaseOnce(t, a) \/ ReleaseLast(t, a)
                 \/ ReleaseToShared(t, a) \/ ReleaseToExclusive(t, a)

Continue(t) == \/ pc[t] = "try" /\ Acquire(t)
               \/ ExpandTable(t) \/ SetObject(t)
               \/ TakeSemaphore(t) \/ TakeEvent(t) \/ Claim(t)
               \/ Register(t) \/ RegisterExpand(t)
               \/ ReleaseSemaphore(t) \/ SetEvent(t) \/ ComeBack(t)
               \/ \E u \in Threads : WakeExclusive(t, u)

Next == \/ \E t \in Threads : \/ Acquire(t) \/ Continue(t) \/ Convert(t)
                              \/ \E a \in Agents : Release(t, a)
                              \/ \E p \in Pointers : SetOwnerPointer(t, p)
        \/ Reinitialize

Spec == Init /\ [][Next]_vars

\* Threads that can run do, and owners release what they have.
FairSpec == /\ Spec
            /\ \A t \in Threads : WF_vars(Continue(t))
            /\ \A a \in Agents : WF_vars(\E t \in Threads : Release(t, a))

-----------------------------------------------------------------------------
TypeOK ==
    /\ entries \in [0 .. Cardinality(DOMAIN entries) - 1 -> [thread : Agents \cup {NULL, One}, count : Nat]]
    /\ exclusive \in BOOLEAN
    /\ activeEntries \in Nat /\ activeCount \in {0, 1}
    /\ sharedWaiters \in Nat /\ exclusiveWaiters \in Nat
    /\ allocated \subseteq {"event", "semaphore"}
    /\ semaphore \in Nat /\ event \in BOOLEAN
    /\ pc \in [Threads -> {"idle", "try", "expand", "allocate", "sharedWait",
                           "exclusiveWait", "claim", "releaseSemaphore", "setEvent", "left"}]
    /\ call \in [Threads -> [kind : SharedKinds \cup ExclusiveKinds \cup {"none", "register"},
                             wait : BOOLEAN]]
    /\ local \in [Threads -> Nat]
    /\ hold \in [Agents -> [mode : {"none", "shared", "exclusive"}, count : Nat]]

Owners == {a \in Agents : hold[a] # Free}
At(place) == {t \in Threads : pc[t] = place}
Registering == {t \in Threads : /\ call[t].kind = "register"
                                /\ pc[t] \in {"try", "expand"}}

\* Waiters that were made owners and have not been woken yet.
Wakeups == UNION {{t} \X (1 .. local[t]) : t \in At("releaseSemaphore")}
SharedGrants == semaphore + Cardinality(Wakeups)
ExclusiveGrants ==
    Cardinality(At("setEvent")) + Cardinality(At("claim")) + (IF event THEN 1 ELSE 0)

(***************************************************************************)
(* ActiveEntries counts the owners: those that know, those that are being  *)
(* told, and no others (the ASSERTs of resource.c:838, 965, 1000, 1302,    *)
(* 1876, 1891, 1984 and 2097 follow); who waits                            *)
(* is counted too.  Whoever waits is left to an owner whose release will   *)
(* find it: nobody waits for a free resource, and nobody waits to share    *)
(* one that is shared unless somebody waits for exclusive access.          *)
(***************************************************************************)
OwnersAddUp ==
    /\ TypeOK
    /\ activeEntries = Cardinality(Owners) + Cardinality(Registering)
                         + SharedGrants + ExclusiveGrants
    /\ activeCount = (IF activeEntries > 0 THEN 1 ELSE 0)
    /\ sharedWaiters + SharedGrants = Cardinality(At("sharedWait"))
    /\ exclusiveWaiters + ExclusiveGrants
         = Cardinality(At("exclusiveWait")) + Cardinality(At("claim"))
    /\ exclusive <=> (ExclusiveGrants > 0
                        \/ \E a \in Owners : hold[a].mode = "exclusive")
    /\ exclusive => activeEntries = 1
    /\ sharedWaiters + exclusiveWaiters > 0 => activeEntries > 0
    /\ sharedWaiters > 0 => exclusive \/ exclusiveWaiters > 0

\* A thread that asks is told what it has, however ownership came to it; and
\* every owner is noted once, so that its release finds it.
QueriesAnswer ==
    /\ \A t \in Threads : pc[t] = "idle" =>
          /\ IsAcquiredExclusive(t) <=> hold[t].mode = "exclusive"
          /\ AcquiredShared(t) = hold[t].count
    /\ \A p \in Pointers : AcquiredShared(p) = hold[p].count
    /\ \A d, e \in DOMAIN entries :
          entries[d].thread = entries[e].thread /\ d # e => entries[d] = Empty

\* A step in which a thread that was outside calls an acquire.
Comes == \E t \in Threads :
             pc[t] = "idle" /\ (call'[t] # NoCall \/ hold'[t].count > hold[t].count)

\* If no more acquires begin (others may overtake), every thread that waits
\* becomes an owner.
WaitersServed ==
    <>[][~Comes]_vars
        => \A t \in Threads :
              pc[t] \in {"sharedWait", "exclusiveWait"} ~> hold[t] # Free

Abstract == INSTANCE ResourceSpec

\* Grants exclude each other as those of a reader-writer lock do.
Refinement == Abstract!Spec
=============================================================================
