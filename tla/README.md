# Verification of the FreeNT kernel's synchronisation and lifetime protocols

FreeNT 0.4.8 is a Windows-NT-compatible operating system.  Its own core logic is
the kernel, `ntoskrnl`: the rest of the tree (drivers, DLLs, applications,
vendored libraries) is a client of it.  This directory models the protocols the
kernel is built on, checks them with TLC on small instances, and proves the most
important results with TLAPS for every number of threads.

- [Inventory](#inventory): the system's parts and what makes them correct
- [Modules](#modules): which module models what, and how
- [Runs](#runs): what is checked, with which bounds and fairness
- [Proofs](#proofs): what is proved, and along which argument
- [Findings](#findings): where the code does not do what it says
- [Plan](#plan) and [what is not modelled](#not-modelled)

## Inventory

Paths are relative to `src/ntoskrnl` unless they start with another directory.

| Part | State it keeps | Operations | Hard because | Correct when |
|---|---|---|---|---|
| Rundown protection (`ex/rundown.c`, `include/internal/ex.h`) | one word: a reference count or, once the active bit is set, the address of the owner's wait block | acquire, release, wait, completed, reinitialize | lock-free; the count moves into a block on the owner's stack while others change it | nothing is referenced when the wait returns; the block outlives its users; the owner is woken |
| Push locks (`ex/pushlock.c`, `ke/gate.c`) | one word: flags, share count or list of wait blocks on stacks | acquire/release shared and exclusive, convert, wait on, block/unblock | lock-free list edited by whoever sets the waking bit | exclusion; no dead block is followed; no waiter is lost |
| Callbacks, notify routines (`ex/callback.c`, `ps/psnotify.c`) | slots with fast references (count in the low pointer bits), each block a rundown descriptor | register, remove, run | references move between slot, thread and rundown count in separate steps | no block is freed in use; references add up; a removal returns |
| Fast mutex (`ex/fmutex.c`) | count, owner, event, saved IRQL | acquire, try, release, unsafe variants | ownership is handed over through an event; APCs interrupt waits | exclusion; one baton; IRQL restored |
| Guarded mutex, gates (`ke/gmutex.c`, `ke/gate.c`, `ke/wait.c`) | count with lock bit, woken bit and number of waiters | acquire, try, release, unsafe variants | one release wakes one waiter, and others barge in | exclusion; the woken bit is one wakeup; nobody is stranded |
| Remove locks (`io/iomgr/remlock.c`) | count, removed flag, event, tracking blocks | acquire, release, release and wait | increment before test of the flag; allocation may fail | the removal ends with nobody left; a block is left for the remover |
| Keyed events (`ex/keyedevt.c`) | buckets with a wait and a release list | wait, release | timeouts race meetings | partners do not miss each other; nothing is left behind |
| Condition variables (`dll/win32/ntdll_vista/condvar.c`) | list of entries on stacks, lock bit | sleep, wake one, wake all | a sleeper gives up its lock before it waits; entries die with their frames | no dead entry is used; wakes are not lost |
| Executive resources (`ex/resource.c`) | owners, waiter counts, owner table | acquire shared/exclusive, convert, release, leave to a pointer, queries | the spin lock is dropped to allocate; three kinds of shared acquire; waiters become owners before they are signaled | exclusion; the counts are right; waiters are served |
| Handle tables (`ex/handle.c`) | entries with a lock bit, contention event, free lists, levels | create, map, change, enumerate, destroy, sweep, grow | lock-free free lists; block and look again | an entry has one holder and is given once; no locker is left waiting |
| Object lifetime (`ob/obref.c`, `ob/oblife.c`, `ob/obhandle.c`, `ob/obname.c`) | pointer and handle counts, query references, directory entry, reaper list | create, insert, open, reference, dereference, close, make temporary, defer deletion | counts are interlocked, decisions taken between them; every step of an insertion may fail; deletion is deferred | counts add up; deleted once, after the last reference; no name is left behind |
| Dispatcher (`ke/wait.c`, `ke/*obj.c`) | signal states, wait lists | waits, sets, releases, timers | multiple-object waits, timeouts, APCs | a signal satisfies as many waits as it should |
| APCs, DPCs, scheduler (`ke/apc.c`, `ke/dpc.c`, `ke/thrdschd.c`) | queues, request flags, ready lists | insert, deliver, retire | flags are tested without the lock | nothing queued is forgotten |
| Worker threads, kernel queues (`ex/work.c`, `ke/queue.c`) | entries, waiters, active count, thread counts | queue item, remove, wait, balance | waits begin and end on six paths that each adjust the active count; all workers may wait for a queued item | the count is exact; no item is lost; every item is run |
| LPC (`lpc/*.c`) | ports, message queues, reply chains | connect, request, reply, close | clients and servers die and time out at any step | a reply goes to its request |
| I/O requests (`io/iomgr/irp.c`) | stack locations, cancel routine | call, complete, cancel | completion races cancellation | completed once |
| File system run-time (`fsrtl/*.c`) | oplock state, lock ranges | request, break, lock | breaks wait for acknowledgement | exclusion of ranges and caches |
| Debugging, processes, cache, memory, registry, security, power | | | | later, or out of reach |

How they interact: notify routines are protected by rundown protection, whose
waits use an event; push locks, guarded mutexes and keyed events wait at gates
and semaphores of the dispatcher; keyed events protect their buckets by push
locks and are what condition variables wait on; handle tables protect their free
lists by push locks and block on the push lock's block and unblock operations; an
object's handle count follows the handle tables, and its reaper is a work item of
the worker threads; LPC uses one guarded mutex and, in this build, the memory of the
keyed wait semaphore for its reply semaphore.

The hazards, each at its line and with the properties that would catch it, are
listed in `PROJECT.json`.

## Modules

One step of a model is one interlocked operation, one read of shared memory that
the code acts upon later, or a section that the code protects by a lock which is
itself verified (or an ordinary spin lock).  Variables have the names of the
fields they stand for, `pc` the place in the code (`kpc` and `npc` in the modules that
are put beside others, with `Callers` for their threads).  A local variable is reset to
its initial value once it is dead.  Operators named `...Mutant` are deliberate
errors that show that the properties notice them; no specification uses them.

**`RundownSpec`, `LockSpec`, `ResourceSpec`, `HandleTableSpec`**: the abstract
specifications: an object that is up, closing or down; a lock that many share or
one has; a lock with owners that acquire it again, convert it and pass it on; a
table whose handles are free, open, or held by one thread.

**`FiniteThreads`, `KernelThreads`**: the constants `Threads` and `NULL` with their
assumptions, for the modules that need no other.

**`Rundown`**: `word` is the descriptor (`active`, and a count or the block),
`blkCount` and `blkEvent` the owner's `EX_RUNDOWN_WAIT_BLOCK`.  The inline fast
paths of `ex.h` and the exported slow ones are both there, with the values each
thread has read (`oval`, `uval`).  There is one owner, who waits once per life of the descriptor, as
the callers do (`ob/obhandle.c:2164`, `ex/callback.c:88`, `ps/kill.c:508`,
`config/cmhook.c:174`): a second wait without `ExRundownCompleted` is unsupported by
the code and not modelled.  `MaxRefs` bounds the references of a thread.

**`PushLock`**: the lock word, the wait blocks (named by their owners, as they are
on their stacks), the gate of each block as one signal bit, since each has a
single waiter.  `ExpOptimizePushLockList` and `ExfWakePushLock` are modelled link
by link.  `Calls` selects the entry points in use.  A holder's critical section
ends when it calls a release.

**`NotifyRoutines`**: the slots with their fast references, the blocks with the
abstract rundown protection (a count and a flag), the three lists of `psnotify.c`
(`List` says which), whose code differs.  The retry loops of the fast references
are single steps: what they exchange is one word.  A routine that removes itself
is not modelled, and `ExpCallBackFlush` is left out, since it is only ever
initialized.  `MaxCount` bounds the references of a block before a removal starts.
`RemovalReturns` is checked of the image list in `protection` and, where it fails, of
the process list in `notify_process`.

**`FastMutex`**, **`GuardedMutex`**: the counts with their arithmetic, the event and
the gate with their wait lists, and in `FastMutex` the IRQL of each thread and the
APCs that take a waiter off the list and make it wait again.  Unsafe users of a
guarded mutex are modelled inside a guarded region, one of the cases that the ASSERT of
the code allows (`ke_x.h:1513`; the others, APC_LEVEL and threads without a user Teb,
do not change what the mutex does).  `KiTryThreadLock` retries and contention statistics are left out.

**`RemoveLock`**: `IoCount`, `Removed`, `RemoveEvent` and, in a checked lock (`debug`,
chosen initially and never changed), the tracking blocks by tag, with allocations
that fail at will.  One thread removes, once.
A remover that finds no tracking block does not return (`NoBlockLeft`, "fault"): the
ASSERT fails or a null pointer is read.  What has elapsed (`MaxLockedTicks`) is left
out, and so is the test of the last block's tag, whose ASSERT at 282 repeats the
condition it stands under and never fails.

**`KeyedEvent`**: the two lists of every bucket and each thread's semaphore and
`KeyedWaitValue`, with what is done under a bucket's push lock as one step.
`Hash`, `Process` and the keys are parameters.  A wait that times out while it is being
met ends with its semaphore released and its partner told of success, as in the code
(`NotListed`); `MeetingAccounted` says that this is the only way a meeting goes wrong.

**`ConditionVariable`** extends `KeyedEvent` by the list of `condvar.c`.  The key of a
sleeper is the sleeper (the address of an entry on its stack, hence the assumption
that threads are keys), and the calls to `NtWaitForKeyedEvent` and
`NtReleaseKeyedEvent` are the steps of `KeyedEvent`, whose `kpc` is a thread's place
in the kernel; `at` is its place in `condvar.c`.  The caller's lock is `holder`, taken
and given back in one step, as a critical section that is not entered again while
owned.  `WakesCorrect` speaks of the sleepers that are in the kernel when a wake of all
begins; the source's claim, about all sleepers, is `AllAreWoken`, which fails.

**`Resource`**: the counts, flags, owner table and wait objects of an ERESOURCE, with
what is done under its spin lock as one step.  Acquires that drop the lock, to
allocate the event, the semaphore or a larger table, start over as the code does;
a release makes waiters owners under the lock and signals them in a later step;
the woken exclusive owner writes its name without the lock.  A thread that left its
ownership to a pointer (`ExSetResourceOwnerPointer`) stays away until `Manager` has
released it, and clients never wait for themselves.  A thread that waits for the
event may be off its wait list, since the timeout of the wait is a retry.  `hold`
is a history variable: what each owner acquired and has not released; the
refinement of `ResourceSpec` and the counts are stated about it.  The semaphore's
token may be taken by a waiter that came later than the one it was meant for; the
counts still add up.  `FirstSize`, `Growth` and `MaxCount` bound the table and
the recursion.  `Reinitialize` keeps the table's size, where the code zeroes it together
with the count of the first entry, which it overlaps (`resource.c:1773`); the only
effect is a table that grows sooner.  The `ResourceIndex` hint, boosts and statistics are left out, and
so is the failing allocation of a table, which the code does not test for.

**`HandleTable`**: each entry is a pointer whose lowest bit is set while it is
unlocked; the contention event heads a stack of wait blocks that lie on the stacks
of blocked threads.  `ExBlockPushLock`, `ExfUnblockPushLock` and the wait that
tests its block again are one action per memory access.  Creating, mapping,
changing, enumerating and closing handles, and the sweep of a process that exits,
which starts when rundown protection has drained the users, are built on the entry
lock.  `ExDupHandleTable` is an enumeration to its source, and private until
published.  A close may be refused, by the object's `OkayToClose` procedure or the
handle's protection (`obhandle.c:709-722`), and then ends as an unlock.  In a sweep,
too: a thread of another process (`ps/kill.c:335`) may have a desktop with a handle of the
same value (`win32ss/user/ntuser/desktop.c:190`).  The sweep then ends in phase "kept",
and the ASSERT at `obhandle.c:2185` that no handle is left is claimed of sweeps that met
no refusal.  The three levels of the table are one array.  The free handles are a set,
and the constant `FreeListSound` says whether the allocation gives out members of it
only or any entry at all: what depends on it says so (`EntriesGuarded`,
`ImplementsHandleTable`), and the wait blocks do not.

**`HandleFreeList`** is the code's list of free entries: `FirstFree`, popped and
pushed by compare-exchange, `LastFree`, its transfer in steps, the four push locks,
and the growth by a low-level table of `LOW_LEVEL_ENTRIES`.  It does not keep
`FreeListSound`: see [Findings](#findings).  That is why it is a module of its own and
`HandleTable` has the condition.

**`ObjectLifetime`**: the two counts, query references, name, directory entry and
flags of objects whose memory is reused, and the reaper's list with its work
item.  A thread's calls are a stack of steps (`todo`): a routine pushes the steps
of those it calls, as `ObInsertObject` does when it fails half way.  A step is an
interlocked operation or a section under the object or directory lock; only
`ObInsertObject` keeps the directory locked over several.  Lookup, parsing and
security are a choice between success and denial.  `ObfDereferenceObject` compares
the counts without the lock (`obref.c:328`); it can misjudge a healthy object and
decline to drop the reference, which `skipped` counts: the object then lives for
ever, but nothing is corrupted.  `MaxHandles` bounds the open handles.  `NextToFree`,
which shares its memory with `HandleCount`, is a variable of its own, since nobody reads
the count of an object on the reaper's list.  Of `ObpSetPermanentObject` the branch that
makes an object temporary is there; making one permanent after its creation
(`NtMakePermanentObject`) can only keep names longer and is left out.  That, after
finding 3's extra dereference, a call may find `Directory` NULL where it locks it
(`obname.c:288`) is not modelled: it takes more threads than the run has.  Symbolic
links, inserts without a handle, the failure of `ObAssignSecurity` (an
ASSERT(FALSE)), quota, creator information and the handle database are left out.

**`WorkQueue`**: one `EX_WORK_QUEUE` on its KQUEUE: static and dynamic workers, clients,
items whose routines queue other items and wait for them, and the balance
manager with its timer and event.  What is done under the dispatcher lock is one
step; the waits of a worker are cut short by APCs and timeouts before and after
they begin.  The end of an item ends the waits for it.  Counters that are only
compared between two passes are kept as the comparison.  The status of
`PsCreateSystemThread` is ignored (`work.c:269`): a dynamic thread that could not be made
is counted all the same (`CountMissing`, `lost`), and the handle that was never set is
then used, which ends the system ("fault") unless it names some other thread.  A
static worker that could not be made is a smaller `Static`.  An item is queued again
after its routine has ended; a routine that queues its own item again while it runs,
which the ASSERT at `work.c:722` allows, is not modelled.  The unlocked tests of
the manager and of `ExQueueWorkItem` are one step each.  `MaxDynamic` is the 16 of
the code; `Spawns` says which item queues which.

**`MC...`**: the instances for TLC.  **`...Proofs`**: the theorems.

## Runs

Every passing run checks for deadlock; threads are model values, declared
interchangeable (SYMMETRY) where no liveness is checked.  Three MC modules put
components that answer the same question side by side: `MCProtection` has rundown
protection, remove locks and notify routines, `MCMutexes` both mutexes, `MCKernelWaits`
push locks, handle tables, keyed events and condition variables.  Each component has
variables of its own, and a variable that is chosen initially (`protocol`, `kind`,
`wait`) says which one takes steps; the others stay in an initial state, where their
properties hold and their fairness asks for nothing.  So every behaviour of a
component, within the bounds named below, is a behaviour of the run and there is no
interleaving of two of them.  (Keyed events are also the ground of condition
variables, and take steps for them.)

Properties that say the same thing in parts are checked as one conjunction with a
name of its own, whose parts keep theirs in the modules: for example `ReferencesSafe`
is `NoReferenceAfterRundown`, `CountIsExact` and `WaitBlockAlive`.

| Run | Instance | What it shows |
|---|---|---|
| `protection` | rundown: 2 threads, 2 references each, 1 owner; remove lock: 3 threads, 2 tags, checked and free builds; notify routines: 2 threads, 2 slots, 3 blocks, 1 fast reference, image list | nothing is referenced when the wait returns, the count is exact wherever it is, the wait block is alive while someone may touch it (`ReferencesSafe`); an owner that has published its block is woken; no early signal of the removal and tracking blocks add up (`RemovalSafe`); the removal ends unless it finds no block (`RemovalEnds`); both refine `RundownSpec`; the references to callback blocks add up and the count of routines is right but for steps under way (`TableCorrect`); nothing is freed in use; a removal returns |
| `waits` | push lock: 3 threads, all entry points; handle table: 3 threads, 2 handles, 1 object, `FreeListSound`; keyed event: 4 threads, 2 processes, 3 keys, 2 buckets; condition variable: 3 sleepers, 1 waker | one owner of the waking bit, no stranded waiter, every signal reaches its gate (`WakeupsOwned`); blocks alive and no waiter lost (`WaitBlocksSound`); all ASSERTs; refinement of `LockSpec` and so exclusion; no missed meeting (`MeetingsSafe`); no trace left but an accounted release (`NothingLeft`); no dead entry is touched, each is removed once (`EntriesSafe`); a wake wakes one, or all that are in the kernel, oldest first (`WakesCorrect`); one holder per handle entry, also over lookups without a lock (`EntriesGuarded`); wait blocks outlive their users (`StackBlocksAlive`); a wake between the two looks is not lost (`NoLostWakeup`); refinement of `HandleTableSpec` |
| `mutexes` | 3 threads on either mutex | exact count and one baton (`OwnershipHandedOver`), IRQL restored, waiters at APC_LEVEL are served; the woken bit is one wakeup and waiters are counted (`WakeupsCounted`), and served once nobody else comes; both refine `LockSpec` |
| `resource` | 3 threads and the manager, 1 owner pointer, tables of 2, 3, ... entries, recursion 2 | counts and table agree with who owns and waits (`OwnersAddUp`), a thread that asks is told the truth (`QueriesAnswer`), waiters are served, refinement of `ResourceSpec` |
| `object` | 2 threads, 2 objects, 1 name, 2 handles | counts are what is open and in progress (`CountsAddUp`); nothing is left of a deleted object; no name without a handle that nobody will look at; no dying object is forgotten and the work item is not queued twice (`DeadAreReaped`) |
| `workqueue` | 1 static worker, 2 dynamic threads (1 at a time), 1 client, 2 items of which one queues and awaits the other, 1 processor, creations that fail | active workers are counted exactly; an item is in one place and no worker sleeps beside it; the number of dynamic threads, failed ones included, is counted and bounded; every item is run if no creation failed |

`pushlock_spin`, `handle_freelist`, `object_name`, `remlock_block`, `notify_process` and
`condvar_wake` are expected to find a violation: see [Findings](#findings).  Their
instances are the smallest that show it; each has one property, which states what
the quoted line of the source says.

**Why the bounds suffice.**  The protocols treat threads alike and interact in
pairs around one word: an actor, one that changes the word between the actor's
read and its exchange, and one that waits are three.  Of rundown the owner, a
thread of its own, is the third.  Of notify routines two threads do: each references,
fetches, removes and frees alone or against the other, and with one fast reference
per slot the very first reference empties it, so that the race at `callback.c:136`
and the return of references to the rundown protection happen; a third block lets
a registration find the table full.  The third sleeper of a condition variable gives an
entry that is neither head nor tail.  Two references per thread distinguish
dropping some from dropping all.  Two keys in one bucket, one in the other and a
thread of another process distinguish what the search of a bucket compares.
Of the four threads of a keyed event three are in a call at a time (`MaxCalls`), so
that a list of two is met, and a thread of another process comes between.  Three threads
and a manager make the owner table of a resource grow while waiters of both
kinds exist.  Two handles let threads block on different entries behind the same
contention event, and enumerations and sweeps go past a first entry; one thread at a
time is at the second handle and one enumerates, which is enough for both, as all
three may block behind the first.  Of a condition variable one thread wakes and three
sleep: wakes exclude each other by the list's lock bit, so a second waker would only
take turns with the first.  Two sleepers come out of their waits at once only while the
third is outside: they contend for the lock bit in pairs.  Two objects
with one name let a new object take the name of one that is being deleted, and
reuse its memory; two threads race every pair of calls.  An item that waits for
another on one processor makes all workers wait, which the balance manager must
see.  Where a theorem exists the bounds do not matter; type correctness
and other invariants that are proved (below) are not run again.

**Fairness.**  Weak fairness on the steps inside a call: the scheduler runs every
thread that can run.  Whether a wait times out is never assumed.  Clients are
assumed to release what they hold: weakly for locks, and rundown references strongly,
since a thread may take more references first.  No fairness is assumed for retried
compare-exchanges beyond what follows from this, so properties are stated as the
code can keep them: the rundown's owner is only claimed to be woken once its block
is published, since its own loop may be outrun; a fast mutex serves waiters at
APC_LEVEL, since others may be taken off the list by APCs again and again; waiters
of guarded mutexes can be starved by threads that barge in and a removal can be
delayed by requests that keep coming, so there the claim is made for behaviours
in which no more calls begin.  A resource's owners release it, its pointers included.
Work items are claimed to be run when waits are not cut short by APCs and
timeouts for ever and no thread failed to be made, since those that did use up the
limit; the manager's timer expires, as the code sets it again.  Of push locks, whose waiters can be starved as well,
of handle tables, objects, keyed events and condition variables no liveness is claimed
beyond the finding:
`NoStrandedWaiters`, `NoWaiterLost`, `SignalReachesGate`, `NoLostWakeup` and
`DeadAreReaped` say in states what makes every wakeup and deletion happen.

## Proofs

The theorems hold for any set of threads (finite where something is counted),
any `MaxRefs`, tags, keys, processes, hash function, table size, number of fast
references, handles, objects, names, owner pointers, work items and processors.  They need only the
assumptions stated with the constants: that sets are finite where they are
counted, that NULL (and the mark 1 that ends the reaper's list) is none of the
objects, and that tables have at least one place.  Each module proves that its
inductive invariant (`IInv` or `Inv`) holds initially and is kept by every action,
with a lemma for each action or group of actions.  The conjunctions the runs check
(`ReferencesSafe`, `RemovalSafe`, `OwnershipHandedOver`, `WakeupsCounted`, `MeetingsSafe`,
`NothingLeft`) are theorems that follow from those of their parts.

- **`ProtectionProofs`**, rundown: type correctness, `NoReferenceAfterRundown`,
  `CountIsExact`, `WaitBlockAlive`, `WakeupPending`, the action property
  `NoGrantWhileActive` and the refinement of `RundownSpec`.  `IInv` adds that the word
  agrees with where the owner is (`WordMatchesOwner`), what users that are about to
  exchange have read (`UserValues`), and that the event is signaled, or about to be,
  by one thread only (`Signals`).  References are counted as a set of pairs, so that
  the count is a cardinality.
  Remove locks: `RemovedUnused`, `NoEarlySignal`, `AssertsHold`, `BlocksAddUp`,
  `BlockRemains` as long as no allocation failed (`RemainsTheorem`; without that it does
  not hold, finding 4), and the refinement of the same specification.  That `LowMemoryCount` is never negative
  needs a matching: an injection from tracking blocks to references with the same
  tag, which every release keeps although it may free a block that another thread
  with its tag allocated.
  Notify routines: `NoUseAfterFree` for all three lists, `TableCorrect` for
  the thread and image lists, which is what the code can keep (finding 5).  The invariant says where a callback block can be, and that
  its rundown count covers the references to it: of threads that still owe a
  release, the cached ones in a slot's low bits, and the table's own.  In the
  process list the count is only bounded from below, which is all that freeing
  depends on.  References are the size of a set with one pair per unit, so that a
  step changes one thread's or one slot's pairs.
- **`PushLockProofs`**: `WakeupsOwned`, `WaitBlocksSound`, `Asserts` and the refinement of
  `LockSpec`, for any finite set of threads and whichever entry points are called.
  The properties follow links that four routines edit one access at a time.  The
  invariant `Inductive` says that there are a list q of waiters, oldest first, and for
  each thread a batch b[t] of waiters that it took off the list and has not signaled,
  such that `IInv(q, b)`.  q and b are quantified instead of being history
  variables: each step is shown to have new ones.  A waiter that pushes its block appends itself to q;
  `ExfWakePushLock` moves all of q, or its oldest, exclusive waiter, to its batch; a
  signal shortens a batch; all other steps leave them alone.  `IInv` relates them to
  the state: every Next link is that of q, a Previous link is that of q or not yet
  set, and some block's Last is the oldest one, with Previous complete from there
  (`Shape`, `Known`); the thread with the waking bit is alone, and what its walk has
  passed and not passed is known (`Waking`, `Owners`); the holders are as many as the
  lock word says or, with several sharers and a waiter, the oldest block (`Several`,
  `Counted`), from which exclusion follows; a parked thread that was not signaled is on q
  or in one batch, and its wait bit decides once whether it is released by the bit or
  by the gate (`Batches`, `Members`, `Gates`); and behind a free lock with waiters
  somebody is coming (`Served`).  None of the four properties is inductive
  alone: the walks are safe only while the back links agree with q, which needs
  the single owner of the waking bit, which needs the count of the holders.  That the
  recursive walks of the properties (`Down`, `Up`) meet exactly the members of q is
  proved with least counterexamples, since < on the naturals is well founded.
- **`MutexProofs`**, fast mutex: `MutualExclusion`, `OwnerCorrect`, `CountCorrect`,
  `HandOver`, `IrqlRestored`, refinement of `LockSpec`.  Exclusion is not inductive:
  that nobody is inside when the count is 1 needs the count to be exact, and that a
  signaled event admits one thread needs the baton to be in one place.
  Guarded mutex: `MutualExclusion`, `OwnerCorrect`, `WokenOnce`, `WaitersCounted`,
  `NobodyStranded`, refinement of `LockSpec`.  The invariant needs all three parts of
  `Count` at once, and lemmas on what adding and subtracting the woken bit and the
  waiter increment do to each.
- **`KeyedEventProofs`**, keyed events: `MeetingsSafe` and `NothingLeft`, that is
  `NoMissedMeeting`, `ListedOrSignaled`, `NoTrace`, `MeetingAccounted`.  `IInv` says what is
  true of the threads on a list: each is there once, where its key and side say, not
  signaled, and inside the call.
  Condition variables: `EntriesSafe` and `WakesCorrect`.  `ListInv` says that only the
  thread with the lock bit edits the list (`LockOwner`), that the list has exactly
  the entries whose frames are alive and whose owners were not told otherwise, each
  once (`OnceEach`, `Framed`), and where the thread with the lock has got to (`Oldest`,
  `Removing`); `InKernel` says with which key a thread can be in the keyed event.  This
  is inductive together with the invariant of the keyed event.  `WakeInv` adds, for
  a wake in progress, which sleepers it has met and which it still has to meet
  (`Fresh`, `WokenOnce`, `StillAsleep`).  Only `WakesCorrect` has the hypothesis that all
  threads belong to one process (`OneProcess`): a condition variable lives in the
  memory of its process, and a release meets no sleeper of another one.
- **`ResourceProofs`**: `OwnersAddUp`, `QueriesAnswer` and the refinement of
  `ResourceSpec`, a reader-writer lock, hence exclusion.  The sums (`Sums`, `Modes`) are
  not inductive without what the code relies on when it takes the spin lock again:
  a thread inside an acquire owns nothing (`Callers`); an owner, and a waiter to share
  that was noted before its wait, has one entry of the table, which says how often
  (`HasEntry`, `EntryCorrect`, `OneEntry`); `OwnerEntry` is the exclusive owner's or kept
  for the one exclusive grant that is on its way (`OwnerEntryCorrect`).  That the
  search of the table finds the first fitting entry uses that < on the naturals is
  well founded.
- **`WorkQueueProofs`**: `ActiveCountExact`, `NoLostItem`, `DynamicBounded`, for any number
  of processors.  The invariant says who is where: the waiters' list has the
  workers that wait, each once (`WaitersListed`), an item is on the list or with one
  worker (`Placed`), who works or waits has joined the queue (`Calling`), somebody is
  active while an entry and a waiter exist (`SomebodyActive`).  Then each of the ways a
  worker has of becoming active, or stopping to be, changes the set of active
  workers by as many as `CurrentCount`.  `DynamicThreadCount` is the threads made and not left
  and those that could not be made, through the manager's separate steps of making and
  counting (`ManagerPlaces`).
- **`HandleTableProofs`**: `StackBlocksAlive` and `NoLostWakeup`; and, with the hypothesis
  `FreeListSound`, `EntriesGuarded` and the refinement of `HandleTableSpec`.  The
  hypothesis is in the theorems, since finding 2 shows that the code's list breaks it.
  One half of the invariant is about the entries:
  who holds one, who keeps one that is off the free list and names no object, what
  the sweep has left behind it.  It does not mention wait blocks, so blocking and
  waking keep it; this is the half that needs the hypothesis.  The other half is about the blocks: a list runs into no block
  twice, two lists share none, a block is on one exactly while its thread neither
  left nor was told, and whoever waits has its entry still locked or an unblocker
  about to take the list.  `StackBlocksAlive` is not inductive without the last two: the
  walk reads the next block from one whose thread it is about to release.
- **`ObjectLifetimeProofs`**: `CountsAddUp`, `NoUseAfterFree`, `NoOrphanName`,
  `DeadAreReaped`.  None is inductive alone, since each leans on the others: a count
  reaches zero only when it is exact, an object is deleted once only if nobody
  else has it, and a name is not lost only if the entry's object is still allocated.
  References of calls in progress are counted by the places of their steps in the
  stacks, from the bottom, so that a call or a return moves no other place.
  Steps that use an object without owning a reference (a name's query reference, a
  context) are backed by a later step of the same stack that owns one (`Stacks`).
  `Deaths`: the count is zero exactly for the object that one thread is about to
  delete or that is on the reaper's list, and never both; `Lists` and `Reaping`: the
  list in `ObpReaperList` and the one the reaper took are disjoint and end, and one
  of the reaper, its work item and the thread about to queue it answers for them.
  Lists are least closed sets of links (`Reach`), so no induction along them is
  needed.

Proved only, since nothing is left for a small instance to show: `TypeOK` of the lock,
keyed event and object modules, `MutualExclusion`, `OwnerCorrect`, `NobodyStranded`, `WakeupPending`,
`NoGrantWhileActive`, `RemovedUnused` and `AssertsHold`.  Only
model-checked:

- everything about liveness, which is out of the prover's reach;
- `HandleFreeList`, the push lock's spin and `AllAreWoken` are findings, where there is nothing to
  prove.

## Findings

1. `ex/pushlock.c:908` (`pushlock_spin`): a shared release that found waiters does not
   reload `OldValue` when its exchange fails, and spins for ever with the lock held.
2. `ex/handle.c:282` (`handle_freelist`): the choice between `FirstFree` and `LastFree`
   is inverted with respect to the entry's lock: a freed entry returns to the list a
   thread is about to pop with a stale link, and an entry in use is given out again.
   The ASSERT(FALSE) at 641, in the transfer of `LastFree`, is reachable for the same
   reason.
3. `ob/obname.c:296` (`object_name`): `ObpDeleteNameCheck` decides on its own object and
   deletes whatever the name leads to by then; a new object under the name loses its
   entry, and the directory's reference, although handles to it are open.  Its query
   references then underflow (the model creates nothing more once that happened).
4. `io/iomgr/remlock.c:274` (`remlock_block`): "A block must be remaining" says the comment
   and asserts the code when the remover wakes.  If the remover's own tracking block
   could not be allocated (105), its reference is counted in `LowMemoryCount` only; the
   list is empty, the ASSERT fails, and 279 reads through a null pointer.
5. `ps/psnotify.c:51` (`notify_process`): removing a process notify routine references
   every block it passes over and dereferences only the matching one (62, 74), where
   the removals of image and thread routines dereference all (163, 247).  A removal
   that passes another routine leaks a reference to it, and the removal of that one,
   "Wait for active callbacks" (65), waits for ever although none is active.
6. `dll/win32/ntdll_vista/condvar.c:312` (`condvar_wake`): a wake takes STATUS_TIMEOUT for
   success, and removes a sleeper that has dropped its lock but is not yet in the
   kernel from the list without waking it; it then sleeps where no wake looks, against
   "Otherwise all waiting threads are woken" (263).

Observations that need no run, since the lines show them or an action that fires
does:

- The "FIXME: Race" of `ex/callback.c:136` is reached (`ReferenceRace`) when two threads
  look at one slot, and a release build then skips a registered routine.
- A keyed wait that is met while it times out (`ex/keyedevt.c:213`, `NotListed`) reports
  a timeout, although its partner was told of success.  The semaphore it leaves
  signaled is, in this build, the memory of the LPC reply semaphore
  (`sdk/include/ndk/pstypes.h:1066`), which is not initialized again.
- `ke/queue.c:332`: a worker that took an entry without waiting keeps the wait reason
  WrQueue of an earlier wait, so its own insertions wake nobody although workers are
  idle.  The item is delayed until the worker returns, not lost.  With one processor
  some worker is active anyway; with several, idle ones stay asleep beside the entry
  although fewer than `MaximumCount` are active.  The proof of `NoLostItem` brought
  this out: it states that one worker is active, which is what is true for any
  number of processors.
- `ex/work.c:348`: a chain of items that wait for each other and is longer than the
  static workers and 16 dynamic ones really stands still, and so may a shorter one when
  threads could not be made, which are counted for ever (281); `ItemsAreRun` holds below
  that length.

## Plan

1. `DpcQueue`: insertion against retirement (`ke/dpc.c:653`).
2. `Lpc`: request, reply, close and thread exit, on the guarded mutex as one step;
   with `KeyedEvent` for the shared reply semaphore (`lpc/reply.c:280`).
3. `Irp`: completion against cancellation (`io/iomgr/irp.c:1116`); `Oplock` and
   `FileLock`, the latter as operators against a reference definition of overlapping
   ranges.

## Not modelled

Parts with status `not_modelled` in `PROJECT.json` say why.  Page tables, working
sets and the registry's hives are data structures tied to hardware or disk
formats rather than protocols; drivers, user mode (but for condition variables,
the client of keyed events) and vendored code are not the kernel's own logic.
Within modelled parts: cache-aware rundown protection (stubs in the code),
callback objects, making an object permanent after its creation, the timeout of `ExTimedWaitForUnblockPushLock` (no caller passes
one), the shared mode of a condition variable's SRW lock, `KeRundownQueue`,
insertion at the head of a queue and its user APC exit, an item queued again by its own
routine, the shutdown of worker
threads, statistics, timing assertions and
memory ordering weaker than that of interlocked operations on x86.
