------------------------------ MODULE PushLock ------------------------------
(***************************************************************************)
(* Push locks: ntoskrnl/ex/pushlock.c and the inline fast paths of          *)
(* ntoskrnl/include/internal/ex.h.                                          *)
(*                                                                         *)
(* One EX_PUSH_LOCK and a set of threads that acquire it shared or         *)
(* exclusive.  A waiter's EX_PUSH_LOCK_WAIT_BLOCK is on its stack, so a     *)
(* block is named by the thread that owns it.  A step is one interlocked   *)
(* operation, one read of the lock word, or one visit of a list entry.     *)
(***************************************************************************)
EXTENDS Naturals, KernelThreads

\* Threads also names the wait blocks on their stacks, NULL is no wait block.
CONSTANT Calls  \* the entry points the callers use

EntryPoints == {"exclusive", "shared", "convert", "waitOn",
                "release", "releaseShared", "releaseExclusive",
                "releaseExclusiveSlow"}

VARIABLES lock,   \* the lock word
          blk,    \* the wait blocks
          gate,   \* WakeGate.SignalState of each block
          pc,     \* where each thread is
          call,   \* the routine it is in
          hold,   \* how it holds the lock: "none", "shared" or "exclusive"
          old,    \* OldValue of the routine it is in
          cur,    \* OldValue of ExpOptimizePushLockList or ExfWakePushLock
          wb,     \* WaitBlock, the list entry it is at
          todo    \* PreviousWaitBlock of the signaling loop

vars == <<lock, blk, gate, pc, call, hold, old, cur, wb, todo>>
locals == <<old, cur, wb, todo>>

(***************************************************************************)
(* The lock word.  The bits above the four flags are the share count, or,  *)
(* when Waiting is set, the address of the newest wait block.              *)
(***************************************************************************)
Free == [locked |-> FALSE, waiting |-> FALSE, waking |-> FALSE,
         multi |-> FALSE, shared |-> 0, ptr |-> NULL]

\* EX_PUSH_LOCK_LOCK plus n times EX_PUSH_LOCK_SHARE_INC
Locked(n) == [Free EXCEPT !.locked = TRUE, !.shared = n]

NewBlock == [next |-> NULL, last |-> NULL, prev |-> NULL, shareCount |-> 0,
             exclusive |-> FALSE, wait |-> FALSE, signaled |-> FALSE]

Init == /\ lock = Free
        /\ blk = [t \in Threads |-> NewBlock]
        /\ gate = [t \in Threads |-> FALSE]
        /\ pc = [t \in Threads |-> "idle"]
        /\ call = [t \in Threads |-> "none"]
        /\ hold = [t \in Threads |-> "none"]
        /\ old = [t \in Threads |-> Free]
        /\ cur = [t \in Threads |-> Free]
        /\ wb = [t \in Threads |-> NULL]
        /\ todo = [t \in Threads |-> NULL]

-----------------------------------------------------------------------------
Goto(t, from, to) == /\ pc[t] = from
                     /\ pc' = [pc EXCEPT ![t] = to]

\* A call begins; only its first step is taken here.
Enter(t, c, to) == /\ c \in Calls
                   /\ Goto(t, "idle", to)
                   /\ call' = [call EXCEPT ![t] = c]

\* The outermost routine returns: its locals are gone.  (Here and below a local
\* that is not read again is reset, which only merges equivalent states.)
Return(t, from) == /\ Goto(t, from, "idle")
                   /\ call' = [call EXCEPT ![t] = "none"]
                   /\ old' = [old EXCEPT ![t] = Free]
                   /\ cur' = [cur EXCEPT ![t] = Free]
                   /\ wb' = [wb EXCEPT ![t] = NULL]
                   /\ todo' = [todo EXCEPT ![t] = NULL]

\* The wait block is not on a list any more: its contents do not matter.
FrameGone(t) == blk' = [blk EXCEPT ![t] = NewBlock]

Holds(t, how) == hold' = [hold EXCEPT ![t] = how]

\* InterlockedCompareExchangePointer(&PushLock->Ptr, new, expected) succeeds.
Exchange(expected, new) == /\ lock = expected
                           /\ lock' = new

\* A slow path starts, or starts over, by reading *PushLock.
ReadLock(t, from, to) == /\ Goto(t, from, to)
                         /\ old' = [old EXCEPT ![t] = lock]
                         /\ UNCHANGED <<lock, blk, gate, call, hold, cur, wb, todo>>

\* ExpOptimizePushLockList and ExfWakePushLock are called with a lock value;
\* they return to the wait of an acquirer, or end a release.
Acquiring(t) == call[t] \in {"exclusive", "shared", "waitOn"}

Subroutine(t, from, to, value) ==
    /\ Goto(t, from, to)
    /\ cur' = [cur EXCEPT ![t] = value]
    /\ old' = [old EXCEPT ![t] = IF Acquiring(t) THEN @ ELSE Free]
    /\ UNCHANGED <<call, wb, todo>>

SubroutineReturns(t, from) ==
    IF Acquiring(t)
    THEN /\ Goto(t, from, "initGate")
         /\ cur' = [cur EXCEPT ![t] = Free]
         /\ wb' = [wb EXCEPT ![t] = NULL]
         /\ todo' = [todo EXCEPT ![t] = NULL]
         /\ UNCHANGED <<call, old>>
    ELSE Return(t, from)

-----------------------------------------------------------------------------
\* Acquiring exclusively.

\* ExAcquirePushLockExclusive and ExTryToAcquirePushLockExclusive: the
\* interlocked bit test and set finds the lock bit clear,
AcquireExclusiveFast(t) ==
    /\ "exclusive" \in Calls
    /\ pc[t] = "idle" /\ hold[t] = "none"
    /\ ~lock.locked
    /\ lock' = [lock EXCEPT !.locked = TRUE]
    /\ Holds(t, "exclusive")
    /\ UNCHANGED <<blk, gate, pc, call, locals>>

\* or set: ExAcquirePushLockExclusive and ExWaitOnPushLock take the slow path.
AcquireExclusiveSlow(t, c) ==
    /\ c \in {"exclusive", "waitOn"}
    /\ hold[t] = "none"
    /\ lock.locked
    /\ Enter(t, c, "exRead")
    /\ UNCHANGED <<lock, blk, gate, hold, locals>>

ExclusiveRead(t) == ReadLock(t, "exRead", "exTry")

\* ExfAcquirePushLockExclusive: unlocked, lock it.  ExWaitOnPushLock releases
\* the lock right away.
ExclusiveTake(t) ==
    /\ ~old[t].locked
    /\ Exchange(old[t], [old[t] EXCEPT !.locked = TRUE])
    /\ IF call[t] = "exclusive"
       THEN Return(t, "exTry")
       ELSE /\ Goto(t, "exTry", "rxRead")
            /\ call' = [call EXCEPT ![t] = "releaseExclusiveSlow"]
            /\ UNCHANGED locals
    /\ Holds(t, "exclusive")
    /\ FrameGone(t)
    /\ UNCHANGED gate

\* The exchange fails, whatever it was for: read the lock again.
ExclusiveRetry(t) ==
    /\ lock # old[t]
    /\ Goto(t, "exTry", "exRead")
    /\ old' = [old EXCEPT ![t] = Free]
    /\ FrameGone(t)
    /\ UNCHANGED <<lock, gate, call, hold, cur, wb, todo>>

\* Locked, nobody waits: the block is the whole list, and it takes over the
\* share count when there are several readers.
ExclusiveFirstWaiter(t) ==
    LET readers == IF old[t].shared > 1 THEN old[t].shared ELSE 0 IN
    /\ old[t].locked /\ ~old[t].waiting
    /\ Exchange(old[t], [Locked(0) EXCEPT !.waiting = TRUE, !.ptr = t,
                                          !.multi = readers > 0])
    /\ blk' = [blk EXCEPT ![t] = [NewBlock EXCEPT !.exclusive = TRUE,
                                                  !.wait = TRUE, !.last = t,
                                                  !.shareCount = readers]]
    /\ Goto(t, "exTry", "initGate")
    /\ UNCHANGED <<gate, call, hold, locals>>

\* Locked, somebody waits: the block goes in front of the list, and the thread
\* that sets the waking bit must link the list up.
ExclusiveNextWaiter(t) ==
    LET new == [old[t] EXCEPT !.locked = TRUE, !.waking = TRUE, !.ptr = t] IN
    /\ old[t].locked /\ old[t].waiting
    /\ Exchange(old[t], new)
    /\ blk' = [blk EXCEPT ![t] = [NewBlock EXCEPT !.exclusive = TRUE,
                                                  !.wait = TRUE,
                                                  !.next = old[t].ptr]]
    /\ IF old[t].waking
       THEN Goto(t, "exTry", "initGate") /\ UNCHANGED <<call, locals>>
       ELSE Subroutine(t, "exTry", "optimize", new)
    /\ UNCHANGED <<gate, hold>>

-----------------------------------------------------------------------------
\* Acquiring shared.

AcquireSharedFast(t) ==
    /\ "shared" \in Calls
    /\ pc[t] = "idle" /\ hold[t] = "none"
    /\ Exchange(Free, Locked(1))
    /\ Holds(t, "shared")
    /\ UNCHANGED <<blk, gate, pc, call, locals>>

AcquireSharedSlow(t) ==
    /\ hold[t] = "none"
    /\ lock # Free
    /\ Enter(t, "shared", "shRead")
    /\ UNCHANGED <<lock, blk, gate, hold, locals>>

SharedRead(t) == ReadLock(t, "shRead", "shTry")

\* Unlocked, or held by readers that nobody waits for.
MayShare(v) == ~v.locked \/ (~v.waiting /\ v.shared > 0)

\* Mutant of SharedTake: the branch for a word with waiters is missing.
SharedTakeMutant(t) ==
    /\ MayShare(old[t])
    /\ Exchange(old[t], Locked(old[t].shared + 1))
    /\ Return(t, "shTry")
    /\ Holds(t, "shared")
    /\ UNCHANGED <<blk, gate>>

\* ExfAcquirePushLockShared: with waiters there is no share count in the word,
\* the lock bit alone says that the lock is held.
SharedTake(t) ==
    /\ MayShare(old[t])
    /\ Exchange(old[t], IF old[t].waiting THEN [old[t] EXCEPT !.locked = TRUE]
                                          ELSE Locked(old[t].shared + 1))
    /\ Return(t, "shTry")
    /\ Holds(t, "shared")
    /\ FrameGone(t)
    /\ UNCHANGED gate

SharedRetry(t) ==
    /\ lock # old[t]
    /\ Goto(t, "shTry", "shRead")
    /\ old' = [old EXCEPT ![t] = Free]
    /\ FrameGone(t)
    /\ UNCHANGED <<lock, gate, call, hold, cur, wb, todo>>

\* An exclusive holder and nobody waiting: the block is the whole list.
SharedFirstWaiter(t) ==
    /\ ~MayShare(old[t]) /\ ~old[t].waiting
    /\ Exchange(old[t], [old[t] EXCEPT !.waiting = TRUE, !.ptr = t])
    /\ blk' = [blk EXCEPT ![t] = [NewBlock EXCEPT !.wait = TRUE, !.last = t]]
    /\ Goto(t, "shTry", "initGate")
    /\ UNCHANGED <<gate, call, hold, locals>>

\* Locked, somebody waits.  The list is linked up starting from the value the
\* exchange returned, which is the one from before this block was pushed.
SharedNextWaiter(t) ==
    /\ ~MayShare(old[t]) /\ old[t].waiting
    /\ Exchange(old[t], [old[t] EXCEPT !.waking = TRUE, !.ptr = t])
    /\ blk' = [blk EXCEPT ![t] = [NewBlock EXCEPT !.wait = TRUE,
                                                  !.next = old[t].ptr]]
    /\ IF old[t].waking
       THEN Goto(t, "shTry", "initGate") /\ UNCHANGED <<call, locals>>
       ELSE Subroutine(t, "shTry", "optimize", old[t])
    /\ UNCHANGED <<gate, hold>>

-----------------------------------------------------------------------------
\* Waiting.

Again(t) == IF call[t] = "shared" THEN "shTry" ELSE "exTry"

\* KeInitializeGate, after the block is on the list.
InitGate(t) ==
    /\ Goto(t, "initGate", "testWait")
    /\ gate' = [gate EXCEPT ![t] = FALSE]
    /\ UNCHANGED <<lock, blk, call, hold, locals>>

\* The waiter clears its own wait bit; if the waker was first it does not wait.
TestWait(t) ==
    /\ Goto(t, "testWait", IF blk[t].wait THEN "gateWait" ELSE Again(t))
    /\ blk' = [blk EXCEPT ![t].wait = FALSE]
    /\ UNCHANGED <<lock, gate, call, hold, locals>>

\* KeWaitForGate returns; the thread goes on with the value it saw before.
GateWait(t) ==
    /\ gate[t]
    /\ Goto(t, "gateWait", Again(t))
    /\ gate' = [gate EXCEPT ![t] = FALSE]
    /\ UNCHANGED <<lock, blk, call, hold, locals>>

-----------------------------------------------------------------------------
\* ExpOptimizePushLockList, by the thread that set the waking bit.

OptimizeUnlocked(t) ==
    /\ ~cur[t].locked
    /\ Goto(t, "optimize", "wake")
    /\ UNCHANGED <<lock, blk, gate, call, hold, locals>>

OptimizeStart(t) ==
    /\ cur[t].locked
    /\ Goto(t, "optimize", "optWalk")
    /\ wb' = [wb EXCEPT ![t] = cur[t].ptr]
    /\ UNCHANGED <<lock, blk, gate, call, hold, old, cur, todo>>

\* No last block is recorded here: go on, leaving a link back.
WalkOn(t, at) ==
    LET here == wb[t]  next == blk[here].next IN
    /\ pc[t] = at
    /\ blk[here].last = NULL
    /\ blk' = [blk EXCEPT ![next].prev = here]
    /\ wb' = [wb EXCEPT ![t] = next]
    /\ UNCHANGED <<lock, gate, pc, call, hold, old, cur, todo>>

\* The last block: the first one remembers it.
OptimizeFound(t) ==
    /\ Goto(t, "optWalk", "optDone")
    /\ blk[wb[t]].last # NULL
    /\ blk' = [blk EXCEPT ![cur[t].ptr].last = blk[wb[t]].last]
    /\ UNCHANGED <<lock, gate, call, hold, locals>>

OptimizeDone(t) ==
    /\ Exchange(cur[t], [cur[t] EXCEPT !.waking = FALSE])
    /\ SubroutineReturns(t, "optDone")
    /\ UNCHANGED <<blk, gate, hold>>

OptimizeRetry(t) ==
    /\ lock # cur[t]
    /\ Goto(t, "optDone", "optimize")
    /\ cur' = [cur EXCEPT ![t] = lock]
    /\ wb' = [wb EXCEPT ![t] = NULL]
    /\ UNCHANGED <<lock, blk, gate, call, hold, old, todo>>

-----------------------------------------------------------------------------
\* ExfWakePushLock, by the thread that set the waking bit.

\* Somebody took the lock meanwhile: it will wake the waiters.
WakeNotNow(t) ==
    /\ cur[t].locked
    /\ Exchange(cur[t], [cur[t] EXCEPT !.waking = FALSE])
    /\ SubroutineReturns(t, "wake")
    /\ UNCHANGED <<blk, gate, hold>>

WakeReload(t) ==
    /\ pc[t] = "wake"
    /\ cur[t].locked
    /\ lock # cur[t]
    /\ cur' = [cur EXCEPT ![t] = lock]
    /\ UNCHANGED <<lock, blk, gate, pc, call, hold, old, wb, todo>>

WakeStart(t) ==
    /\ ~cur[t].locked
    /\ Goto(t, "wake", "wakeWalk")
    /\ wb' = [wb EXCEPT ![t] = cur[t].ptr]
    /\ UNCHANGED <<lock, blk, gate, call, hold, old, cur, todo>>

WakeFound(t) ==
    /\ Goto(t, "wakeWalk", "wakeTake")
    /\ blk[wb[t]].last # NULL
    /\ wb' = [wb EXCEPT ![t] = blk[wb[t]].last]
    /\ UNCHANGED <<lock, blk, gate, call, hold, old, cur, todo>>

\* The oldest waiter is an exclusive one and not alone: wake only that one.
WakeOneOnly(t) == blk[wb[t]].exclusive /\ blk[wb[t]].prev # NULL

\* Otherwise all of them, if the lock word has not changed.
WakeAll(t) ==
    /\ Goto(t, "wakeTake", "signal")
    /\ ~WakeOneOnly(t)
    /\ Exchange(cur[t], Free)
    /\ cur' = [cur EXCEPT ![t] = Free]
    /\ UNCHANGED <<blk, gate, call, hold, old, wb, todo>>

WakeAllRetry(t) ==
    /\ Goto(t, "wakeTake", "wake")
    /\ ~WakeOneOnly(t)
    /\ lock # cur[t]
    /\ cur' = [cur EXCEPT ![t] = lock]
    /\ wb' = [wb EXCEPT ![t] = NULL]
    /\ UNCHANGED <<lock, blk, gate, call, hold, old, todo>>

WakeUnlink(t) ==
    /\ Goto(t, "wakeTake", "wakeClear")
    /\ WakeOneOnly(t)
    /\ blk' = [blk EXCEPT ![cur[t].ptr].last = blk[wb[t]].prev,
                          ![wb[t]].prev = NULL]
    /\ UNCHANGED <<lock, gate, call, hold, locals>>

\* InterlockedAndPointer(&PushLock->Value, ~EX_PUSH_LOCK_WAKING)
WakeClear(t) ==
    /\ Goto(t, "wakeClear", "signal")
    /\ lock' = [lock EXCEPT !.waking = FALSE]
    /\ cur' = [cur EXCEPT ![t] = Free]
    /\ UNCHANGED <<blk, gate, call, hold, old, wb, todo>>

\* The signaling loop goes on with block b, or is over.
SignalNext(t, from, b) ==
    IF b = NULL
    THEN SubroutineReturns(t, from)
    ELSE /\ Goto(t, from, "signal")
         /\ wb' = [wb EXCEPT ![t] = b]
         /\ todo' = [todo EXCEPT ![t] = NULL]
         /\ UNCHANGED <<call, old, cur>>

\* The waker clears the wait bit before the waiter does: no need to signal.
SignalSpinner(t) ==
    LET here == wb[t] IN
    /\ pc[t] = "signal"
    /\ blk[here].wait
    /\ SignalNext(t, "signal", blk[here].prev)
    /\ blk' = [blk EXCEPT ![here].wait = FALSE, ![here].signaled = TRUE]
    /\ UNCHANGED <<lock, gate, hold>>

\* The waiter was first: it waits at its gate, or will.
SignalWaiter(t) ==
    /\ Goto(t, "signal", "setGate")
    /\ ~blk[wb[t]].wait
    /\ blk' = [blk EXCEPT ![wb[t]].signaled = TRUE]
    /\ todo' = [todo EXCEPT ![t] = blk[wb[t]].prev]
    /\ UNCHANGED <<lock, gate, call, hold, old, cur, wb>>

\* KeSignalGateBoostPriority
SetGate(t) ==
    /\ pc[t] = "setGate"
    /\ gate' = [gate EXCEPT ![wb[t]] = TRUE]
    /\ SignalNext(t, "setGate", todo[t])
    /\ UNCHANGED <<lock, blk, hold>>

-----------------------------------------------------------------------------
\* Releasing a shared lock, or, with ExReleasePushLock, either kind.

\* ExReleasePushLockShared: the only reader, and no waiter.
ReleaseSharedFast(t) ==
    /\ "releaseShared" \in Calls
    /\ pc[t] = "idle" /\ hold[t] = "shared"
    /\ Exchange(Locked(1), Free)
    /\ Holds(t, "none")
    /\ UNCHANGED <<blk, gate, pc, call, locals>>

ReleaseSharedSlow(t) ==
    /\ hold[t] = "shared"
    /\ lock # Locked(1)
    /\ Enter(t, "releaseShared", "relRead")
    /\ Holds(t, "none")
    /\ UNCHANGED <<lock, blk, gate, locals>>

\* ExReleasePushLock, from its read of the lock to its exchange.
ReleaseEnter(t) ==
    /\ hold[t] # "none"
    /\ Enter(t, "release", "relFast")
    /\ Holds(t, "none")
    /\ old' = [old EXCEPT ![t] = lock]
    /\ UNCHANGED <<lock, blk, gate, cur, wb, todo>>

\* Mutant of Dropped: the share count is not looked at.
DroppedAllMutant(v) == [v EXCEPT !.locked = FALSE, !.shared = 0]

\* One reader less, or nobody.
Dropped(v) == IF v.shared > 1 THEN Locked(v.shared - 1) ELSE Free

\* An exchange that drops the lock while nobody waits.
ReleaseNoWaiter(t, from) ==
    /\ ~old[t].waiting
    /\ Exchange(old[t], Dropped(old[t]))
    /\ Return(t, from)
    /\ UNCHANGED <<blk, gate, hold>>

ReleaseFastFails(t) ==
    /\ old[t].waiting \/ lock # old[t]
    /\ Goto(t, "relFast", "relRead")
    /\ old' = [old EXCEPT ![t] = Free]
    /\ UNCHANGED <<lock, blk, gate, call, hold, cur, wb, todo>>

ReleaseRead(t) == ReadLock(t, "relRead", "relTry")

\* The exchange fails and returns the value there is: perhaps somebody waits.
ReleaseReload(t) ==
    /\ pc[t] = "relTry"
    /\ ~old[t].waiting
    /\ lock # old[t]
    /\ old' = [old EXCEPT ![t] = lock]
    /\ UNCHANGED <<lock, blk, gate, pc, call, hold, cur, wb, todo>>

\* Mutant of ReleaseFindCount: the multiple-shared bit is not looked at.
ReleaseFindCountMutant(t) ==
    /\ old[t].waiting
    /\ Goto(t, "relTry", "relWalk")
    /\ wb' = [wb EXCEPT ![t] = old[t].ptr]
    /\ UNCHANGED <<lock, blk, gate, call, hold, old, cur, todo>>

\* Somebody waits, and several readers held the lock: find the oldest block,
\* which has the share count.
ReleaseFindCount(t) ==
    /\ old[t].waiting /\ old[t].multi
    /\ Goto(t, "relTry", "relWalk")
    /\ wb' = [wb EXCEPT ![t] = old[t].ptr]
    /\ UNCHANGED <<lock, blk, gate, call, hold, old, cur, todo>>

ReleaseNoCount(t) ==
    /\ old[t].waiting /\ ~old[t].multi
    /\ Goto(t, "relTry", "relUnlock")
    /\ UNCHANGED <<lock, blk, gate, call, hold, locals>>

ReleaseWalkOn(t) ==
    /\ pc[t] = "relWalk"
    /\ blk[wb[t]].last = NULL
    /\ wb' = [wb EXCEPT ![t] = blk[wb[t]].next]
    /\ UNCHANGED <<lock, blk, gate, pc, call, hold, old, cur, todo>>

ReleaseFound(t) ==
    /\ Goto(t, "relWalk", "relCount")
    /\ blk[wb[t]].last # NULL
    /\ wb' = [wb EXCEPT ![t] = blk[wb[t]].last]
    /\ UNCHANGED <<lock, blk, gate, call, hold, old, cur, todo>>

\* Other readers remain: the release is over.
ReleaseCounted(t) ==
    /\ Return(t, "relCount")
    /\ blk[wb[t]].shareCount > 1
    /\ blk' = [blk EXCEPT ![wb[t]].shareCount = @ - 1]
    /\ UNCHANGED <<lock, gate, hold>>

\* The last reader unlocks.
ReleaseCountedLast(t) ==
    /\ Goto(t, "relCount", "relUnlock")
    /\ blk[wb[t]].shareCount = 1
    /\ blk' = [blk EXCEPT ![wb[t]].shareCount = 0]
    /\ wb' = [wb EXCEPT ![t] = NULL]
    /\ UNCHANGED <<lock, gate, call, hold, old, cur, todo>>

\* Unlock; whoever sets the waking bit wakes the waiters.
ReleaseUnlock(t) ==
    LET new == [old[t] EXCEPT !.multi = FALSE, !.locked = FALSE,
                              !.waking = TRUE] IN
    /\ Exchange(old[t], new)
    /\ IF old[t].waking THEN Return(t, "relUnlock")
                        ELSE Subroutine(t, "relUnlock", "wake", new)
    /\ UNCHANGED <<blk, gate, hold>>

\* The exchange fails: the loop tries again with the same OldValue.
ReleaseUnlockFails(t) ==
    /\ pc[t] = "relUnlock"
    /\ lock # old[t]
    /\ UNCHANGED vars

-----------------------------------------------------------------------------
\* Releasing an exclusive lock, and converting to one.

\* ExReleasePushLockExclusive clears the bit at once, then wakes.
ReleaseExclusiveFast(t) ==
    /\ "releaseExclusive" \in Calls
    /\ pc[t] = "idle" /\ hold[t] = "exclusive"
    /\ lock' = [lock EXCEPT !.locked = FALSE]
    /\ Holds(t, "none")
    /\ IF lock.waiting /\ ~lock.waking
       THEN Enter(t, "releaseExclusive", "tryRead") /\ UNCHANGED locals
       ELSE UNCHANGED <<pc, call, locals>>
    /\ UNCHANGED <<blk, gate>>

\* ExfTryToWakePushLock
TryWakeRead(t) == ReadLock(t, "tryRead", "tryWake")

\* Mutant of Wakeable: a wake in progress is not noticed.
WakeableTwiceMutant(v) == v.waiting /\ ~v.locked

\* Nobody holds the lock of the waiters, and nobody wakes them yet.
Wakeable(v) == v.waiting /\ ~v.waking /\ ~v.locked

TryWake(t) ==
    LET new == [old[t] EXCEPT !.waking = TRUE] IN
    /\ Wakeable(old[t])
    /\ Exchange(old[t], new)
    /\ Subroutine(t, "tryWake", "wake", new)
    /\ UNCHANGED <<blk, gate, hold>>

\* One attempt only: there is nobody to wake, or another thread will.
TryWakeNot(t) ==
    /\ ~Wakeable(old[t]) \/ lock # old[t]
    /\ Return(t, "tryWake")
    /\ UNCHANGED <<lock, blk, gate, hold>>

\* ExfReleasePushLockExclusive
ReleaseExclusiveSlow(t) ==
    /\ hold[t] = "exclusive"
    /\ Enter(t, "releaseExclusiveSlow", "rxRead")
    /\ UNCHANGED <<lock, blk, gate, hold, locals>>

ReleaseExclusiveRead(t) ==
    /\ Goto(t, "rxRead", "rxTry")
    /\ old' = [old EXCEPT ![t] = lock]
    /\ Holds(t, "none")
    /\ UNCHANGED <<lock, blk, gate, call, cur, wb, todo>>

ReleaseExclusiveWake(t) ==
    LET new == [old[t] EXCEPT !.locked = FALSE, !.waking = TRUE] IN
    /\ old[t].waiting /\ ~old[t].waking
    /\ Exchange(old[t], new)
    /\ Subroutine(t, "rxTry", "wake", new)
    /\ UNCHANGED <<blk, gate, hold>>

ReleaseExclusiveSimple(t) ==
    /\ ~old[t].waiting \/ old[t].waking
    /\ Exchange(old[t], [old[t] EXCEPT !.locked = FALSE])
    /\ Return(t, "rxTry")
    /\ UNCHANGED <<blk, gate, hold>>

ReleaseExclusiveReload(t) ==
    /\ pc[t] = "rxTry"
    /\ lock # old[t]
    /\ old' = [old EXCEPT ![t] = lock]
    /\ UNCHANGED <<lock, blk, gate, pc, call, hold, cur, wb, todo>>

\* ExConvertPushLockSharedToExclusive
Convert(t) ==
    /\ "convert" \in Calls
    /\ pc[t] = "idle" /\ hold[t] = "shared"
    /\ Exchange(Locked(1), Locked(0))
    /\ Holds(t, "exclusive")
    /\ UNCHANGED <<blk, gate, pc, call, locals>>

-----------------------------------------------------------------------------
\* A thread begins a call that acquires, or one that releases.
BeginAcquire(t) == \/ AcquireExclusiveFast(t)
                   \/ \E c \in Calls : AcquireExclusiveSlow(t, c)
                   \/ AcquireSharedFast(t)
                   \/ AcquireSharedSlow(t)

BeginRelease(t) == \/ ReleaseSharedFast(t)
                   \/ ReleaseSharedSlow(t)
                   \/ ReleaseEnter(t)
                   \/ ReleaseExclusiveFast(t)
                   \/ ReleaseExclusiveSlow(t)

InAcquire(t) == \/ ExclusiveRead(t) \/ ExclusiveTake(t) \/ ExclusiveRetry(t)
                \/ ExclusiveFirstWaiter(t) \/ ExclusiveNextWaiter(t)
                \/ SharedRead(t) \/ SharedTake(t) \/ SharedRetry(t)
                \/ SharedFirstWaiter(t) \/ SharedNextWaiter(t)
                \/ InitGate(t) \/ TestWait(t) \/ GateWait(t)

InOptimize(t) == \/ OptimizeUnlocked(t) \/ OptimizeStart(t)
                 \/ WalkOn(t, "optWalk") \/ OptimizeFound(t)
                 \/ OptimizeDone(t) \/ OptimizeRetry(t)

InWake(t) == \/ WakeNotNow(t) \/ WakeReload(t) \/ WakeStart(t)
             \/ WalkOn(t, "wakeWalk") \/ WakeFound(t)
             \/ WakeAll(t) \/ WakeAllRetry(t) \/ WakeUnlink(t) \/ WakeClear(t)
             \/ SignalSpinner(t) \/ SignalWaiter(t) \/ SetGate(t)

InRelease(t) == \/ ReleaseNoWaiter(t, "relFast") \/ ReleaseFastFails(t)
                \/ ReleaseRead(t) \/ ReleaseNoWaiter(t, "relTry")
                \/ ReleaseReload(t) \/ ReleaseFindCount(t) \/ ReleaseNoCount(t)
                \/ ReleaseWalkOn(t) \/ ReleaseFound(t)
                \/ ReleaseCounted(t) \/ ReleaseCountedLast(t)
                \/ ReleaseUnlock(t) \/ ReleaseUnlockFails(t)
                \/ TryWakeRead(t) \/ TryWake(t) \/ TryWakeNot(t)
                \/ ReleaseExclusiveRead(t) \/ ReleaseExclusiveWake(t)
                \/ ReleaseExclusiveSimple(t) \/ ReleaseExclusiveReload(t)

InCall(t) == InAcquire(t) \/ InOptimize(t) \/ InWake(t) \/ InRelease(t)

Next == \E t \in Threads :
            BeginAcquire(t) \/ BeginRelease(t) \/ Convert(t) \/ InCall(t)

Spec == Init /\ [][Next]_vars

(***************************************************************************)
(* Every thread that can run does, and a thread that holds the lock        *)
(* releases it.                                                            *)
(***************************************************************************)
Fairness == \A t \in Threads : WF_vars(InCall(t)) /\ WF_vars(BeginRelease(t))

FairSpec == Spec /\ Fairness

-----------------------------------------------------------------------------
OptimizerAt == {"optimize", "optWalk", "optDone"}
WakerAt     == {"wake", "wakeWalk", "wakeTake", "wakeClear"}
SignalerAt  == {"signal", "setGate"}
WaiterAt    == {"initGate", "testWait", "gateWait"}
WalkerAt    == {"optWalk", "wakeWalk", "wakeTake", "wakeClear", "relWalk",
                "relCount"} \cup SignalerAt

Value == [locked : BOOLEAN, waiting : BOOLEAN, waking : BOOLEAN,
          multi : BOOLEAN, shared : 0 .. Cardinality(Threads),
          ptr : Threads \cup {NULL}]

Block == [next : Threads \cup {NULL}, last : Threads \cup {NULL},
          prev : Threads \cup {NULL}, shareCount : 0 .. Cardinality(Threads),
          exclusive : BOOLEAN, wait : BOOLEAN, signaled : BOOLEAN]

TypeOK ==
    /\ lock \in Value
    /\ blk \in [Threads -> Block]
    /\ gate \in [Threads -> BOOLEAN]
    /\ pc \in [Threads -> OptimizerAt \cup WakerAt \cup SignalerAt \cup WaiterAt
                 \cup {"idle", "exRead", "exTry", "shRead", "shTry",
                       "relFast", "relRead", "relTry", "relWalk", "relCount",
                       "relUnlock", "tryRead", "tryWake", "rxRead", "rxTry"}]
    /\ call \in [Threads -> EntryPoints \cup {"none"}]
    /\ hold \in [Threads -> {"none", "shared", "exclusive"}]
    /\ old \in [Threads -> Value]
    /\ cur \in [Threads -> Value]
    /\ wb \in [Threads -> Threads \cup {NULL}]
    /\ todo \in [Threads -> Threads \cup {NULL}]

\* An exclusive holder is alone.
MutualExclusion ==
    \A t, u \in Threads :
        t # u /\ hold[t] = "exclusive" => hold[u] = "none"

(***************************************************************************)
(* The waking bit is a lock on the wait list: it is set exactly while one  *)
(* thread is in ExpOptimizePushLockList, or in the part of ExfWakePushLock  *)
(* that reads and edits the list.                                          *)
(***************************************************************************)
WakingBitOwned ==
    LET owners == {t \in Threads : pc[t] \in OptimizerAt \cup WakerAt} IN
    /\ lock.waking <=> owners # {}
    /\ \A t, u \in owners : t = u

\* A thread whose wait block others may use: it is waiting, or, being an
\* acquirer, doing the wakers' work before it waits.
Parked(t) == \/ pc[t] \in WaiterAt
             \/ /\ pc[t] \in OptimizerAt \cup WakerAt \cup SignalerAt
                /\ Acquiring(t)

(***************************************************************************)
(* Wait blocks are on their owners' stacks: every block that the lock word *)
(* or a walking, waking or signaling thread names belongs to a thread that *)
(* has not gone on.                                                        *)
(***************************************************************************)
BlocksAlive ==
    /\ lock.waiting => Parked(lock.ptr)
    /\ \A t \in Threads :
         /\ pc[t] \in WalkerAt => Parked(wb[t])
         /\ pc[t] \in OptimizerAt \cup WakerAt => Parked(cur[t].ptr)
         /\ todo[t] # NULL => Parked(todo[t])

\* The blocks n steps down the Next, respectively Previous, links from b.
Down(b) == LET at[n \in 0 .. Cardinality(Threads)] ==
                   IF n = 0 THEN b
                   ELSE IF at[n - 1] = NULL THEN NULL ELSE blk[at[n - 1]].next
           IN at

Up(b) == LET at[n \in 0 .. Cardinality(Threads)] ==
                 IF n = 0 THEN b
                 ELSE IF at[n - 1] = NULL THEN NULL ELSE blk[at[n - 1]].prev
         IN at

\* The blocks the lock word leads to, down to the one recorded as the last.
Queued ==
    LET at    == Down(lock.ptr)
        knows == {n \in DOMAIN at : at[n] # NULL /\ blk[at[n]].last # NULL}
        last  == blk[at[CHOOSE n \in knows : \A m \in knows : n <= m]].last
        ends  == {n \in DOMAIN at : at[n] = last}
        end   == CHOOSE n \in ends : \A m \in ends : n <= m
    IN IF ~lock.waiting THEN {} ELSE {at[n] : n \in 0 .. end}

\* The blocks thread t is going to signal.
ToSignal(t) ==
    LET from == CASE pc[t] = "signal"  -> wb[t]
                  [] pc[t] = "setGate" -> todo[t]
                  [] pc[t] = "wakeClear" -> wb[t]
                  [] OTHER -> NULL
    IN {Up(from)[n] : n \in 0 .. Cardinality(Threads)} \ {NULL}

(***************************************************************************)
(* The wait list loses nobody: every waiter that has not been signaled is  *)
(* either on the list or about to be signaled, by one thread, and nobody   *)
(* else is.                                                                *)
(***************************************************************************)
NoWaiterLost ==
    \A u \in Threads :
        LET signalers == {t \in Threads : u \in ToSignal(t)} IN
        /\ Parked(u) /\ ~blk[u].signaled => (u \in Queued) # (signalers # {})
        /\ u \in Queued \/ signalers # {} => Parked(u) /\ ~blk[u].signaled
        /\ \A t1, t2 \in signalers : t1 = t2

\* The list of waiters is sound whatever acquirers, optimizers and wakers do to
\* it at the same time: its blocks exist, and it loses none of them.
WaitBlocksSound == BlocksAlive /\ NoWaiterLost

(***************************************************************************)
(* Waiters are never left behind an open lock: if the lock is not held but *)
(* has waiters, somebody owns the waking bit, or a releaser's single       *)
(* attempt to set it is still to come and will not fail as things are, or  *)
(* a thread that was woken, or never waited, is on its way to the lock and *)
(* will wake the others when it releases it.                               *)
(***************************************************************************)
NoStrandedWaiters ==
    lock.waiting /\ ~lock.locked =>
        \/ lock.waking
        \/ \E t \in Threads :
             \/ pc[t] = "tryRead"
             \/ pc[t] = "tryWake" /\ old[t] = lock
             \/ pc[t] \in {"exRead", "exTry", "shRead", "shTry"}
             \/ Parked(t) /\ blk[t].signaled
             \/ ToSignal(t) # {}

\* The ASSERTs of the checked build, with their lines in pushlock.c and ex.h,
\* and the types of the fields they are about.
Asserts ==
    /\ TypeOK
    /\ \A t \in Threads :
        /\ pc[t] = "wake" => ~cur[t].multi                              \* 87
        /\ pc[t] = "wake" /\ cur[t].locked => cur[t].waiting            \* 98
        /\ pc[t] = "wakeClear" => wb[t] # cur[t].ptr /\ lock.waiting    \* 164
        /\ pc[t] = "signal" => ~blk[wb[t]].signaled                     \* 190
        /\ pc[t] = "gateWait" /\ gate[t] => blk[t].signaled             \* 616
        /\ pc[t] \in {"exTry", "shTry"} => blk[t].shareCount = 0        \* 620
        /\ pc[t] = "relTry" => old[t].locked                            \* 816
        /\ pc[t] = "relCount" => /\ blk[wb[t]].shareCount > 0           \* 1013
                                 /\ blk[wb[t]].exclusive                \* 1014
        /\ pc[t] = "rxTry" => /\ old[t].locked                          \* 1100
                              /\ old[t].waiting \/ old[t].shared = 0    \* 1101
        /\ hold[t] # "none" => lock.locked                              \* ex.h
        /\ hold[t] = "exclusive" => lock.waiting \/ lock.shared = 0

(***************************************************************************)
(* A signal is sent through the gate exactly if the waiter waits at it: a  *)
(* signaled thread at its gate finds the gate set, or one thread about to  *)
(* set it, and no gate is set for a thread that has gone on or whose gate  *)
(* is set already.                                                         *)
(***************************************************************************)
SignalReachesGate ==
    \A t \in Threads :
        LET setters == {u \in Threads : pc[u] = "setGate" /\ wb[u] = t} IN
        /\ pc[t] = "gateWait" =>
              (blk[t].signaled <=> gate[t] \/ setters # {})
        /\ setters # {} => pc[t] = "gateWait" /\ ~gate[t]
        /\ \A u, v \in setters : u = v

\* Waking is somebody's job whenever there is a reason for it, and the wake
\* reaches the thread it is for.
WakeupsOwned == WakingBitOwned /\ NoStrandedWaiters /\ SignalReachesGate

\* A release that found waiters "can now 'satisfy' the wait" (pushlock.c:889):
\* it unlocks the push lock and returns.
ReleaseUnlocks ==
    \A t \in Threads : (pc[t] = "relUnlock") ~> (pc[t] # "relUnlock")

Abstract == INSTANCE LockSpec

\* A push lock is a lock that may be shared: readers come in beside readers
\* only, and a reader becomes the writer only when it is the last one.
Refinement == Abstract!Spec
=============================================================================
