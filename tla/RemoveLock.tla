----------------------------- MODULE RemoveLock -----------------------------
(***************************************************************************)
(* Remove locks (io/iomgr/remlock.c): a driver takes a reference for every  *)
(* request it works on; the request that removes the device gives its own  *)
(* reference back and waits until the others are gone.                     *)
(*                                                                         *)
(* IoCount is 1 plus the references, a reference that is being refused     *)
(* included.  The debug version keeps a tracking block per reference, found *)
(* again by its tag, and counts the blocks it could not allocate.  The list *)
(* of blocks is guarded by a spin lock; nothing else is.                   *)
(***************************************************************************)
EXTENDS FiniteThreads, Integers, Sequences

\* Threads are those that handle requests of the device.
CONSTANT Tags  \* what they tag their references with

VARIABLES removed,    \* Common.Removed
          ioCount,    \* Common.IoCount
          event,      \* Common.RemoveEvent.Header.SignalState
          debug,      \* the lock has a debug block (RemlockSize)
          blocks,     \* Dbg.Blocks: the tags of the blocks, last one first
          lowMemory,  \* Dbg.LowMemoryCount
          pc,         \* where each thread is
          tag         \* the tag of its reference

common == <<removed, ioCount, event>>
dbg == <<debug, blocks, lowMemory>>
vars == <<common, dbg, pc, tag>>

\* IoInitializeRemoveLockEx
Init == /\ removed = FALSE
        /\ ioCount = 1
        /\ event = FALSE
        /\ debug \in BOOLEAN
        /\ blocks = <<>>
        /\ lowMemory = 0
        /\ pc = [t \in Threads |-> "idle"]
        /\ tag \in [Threads -> Tags]

Goto(t, from, to) == /\ pc[t] = from
                     /\ pc' = [pc EXCEPT ![t] = to]

\* The sequence without its element i.
Without(seq, i) ==
    [j \in 1 .. Len(seq) - 1 |-> IF j < i THEN seq[j] ELSE seq[j + 1]]

-----------------------------------------------------------------------------
(***************************************************************************)
(* IoAcquireRemoveLockEx                                                   *)
(***************************************************************************)
Acquire(t, x) ==
    /\ Goto(t, "idle", "check")
    /\ ioCount' = ioCount + 1
    /\ tag' = [tag EXCEPT ![t] = x]
    /\ UNCHANGED <<removed, event, dbg>>

\* Mutant of Granted: Removed is not looked at.
GrantedMutant(t) ==
    /\ Goto(t, "check", IF debug THEN "track" ELSE "held")
    /\ UNCHANGED <<common, dbg, tag>>

\* Removed is not set: the reference is good.
Granted(t) ==
    /\ ~removed
    /\ Goto(t, "check", IF debug THEN "track" ELSE "held")
    /\ UNCHANGED <<common, dbg, tag>>

\* It is set: STATUS_DELETE_PENDING, and the count is corrected.
Refused(t) ==
    /\ removed
    /\ Goto(t, "check", "undo")
    /\ UNCHANGED <<common, dbg, tag>>

Track(t) ==
    /\ Goto(t, "track", "held")
    /\ blocks' = <<tag[t]>> \o blocks
    /\ UNCHANGED <<common, debug, lowMemory, tag>>

\* No memory for the block.
TrackFailed(t) ==
    /\ Goto(t, "track", "held")
    /\ lowMemory' = lowMemory + 1
    /\ UNCHANGED <<common, debug, blocks, tag>>

\* Mutant of Undo: the removal is not told.
UndoMutant(t) ==
    /\ Goto(t, "undo", "idle")
    /\ ioCount' = ioCount - 1
    /\ UNCHANGED <<removed, event, dbg, tag>>

Undo(t) ==
    /\ Goto(t, "undo", IF ioCount - 1 = 0 THEN "signal" ELSE "idle")
    /\ ioCount' = ioCount - 1
    /\ UNCHANGED <<removed, event, dbg, tag>>

-----------------------------------------------------------------------------
(***************************************************************************)
(* IoReleaseRemoveLockEx                                                   *)
(***************************************************************************)
\* Mutant of Release: every block with the tag is freed.
ReleaseMutant(t) ==
    /\ debug
    /\ Goto(t, "held", "decrement")
    /\ \E i \in DOMAIN blocks : blocks[i] = tag[t]
    /\ blocks' = SelectSeq(blocks, LAMBDA x : x # tag[t])
    /\ UNCHANGED <<common, debug, lowMemory, tag>>

\* The first block with the tag is freed.
Release(t) ==
    /\ debug
    /\ Goto(t, "held", "decrement")
    /\ \E i \in DOMAIN blocks :
          /\ blocks[i] = tag[t]
          /\ \A j \in 1 .. i - 1 : blocks[j] # tag[t]
          /\ blocks' = Without(blocks, i)
    /\ UNCHANGED <<common, debug, lowMemory, tag>>

\* TagFound is FALSE
ReleaseUntracked(t) ==
    /\ debug
    /\ Goto(t, "held", "forget")
    /\ \A i \in DOMAIN blocks : blocks[i] # tag[t]
    /\ UNCHANGED <<common, dbg, tag>>

\* There are no tracking blocks.
ReleasePlain(t) ==
    /\ ~debug
    /\ Goto(t, "held", "decrement")
    /\ UNCHANGED <<common, dbg, tag>>

\* LowMemoryCount would be incremented again, and ASSERT(FALSE) hit, if it fell
\* below 0: TypeOK says that it does not.
Forget(t) ==
    /\ Goto(t, "forget", "decrement")
    /\ lowMemory' = lowMemory - 1
    /\ UNCHANGED <<common, debug, blocks, tag>>

Decrement(t) ==
    /\ Goto(t, "decrement", IF ioCount - 1 = 0 THEN "signal" ELSE "idle")
    /\ ioCount' = ioCount - 1
    /\ UNCHANGED <<removed, event, dbg, tag>>

\* KeSetEvent for Undo and Decrement
SetEvent(t) ==
    /\ Goto(t, "signal", "idle")
    /\ event' = TRUE
    /\ UNCHANGED <<removed, ioCount, dbg, tag>>

-----------------------------------------------------------------------------
(***************************************************************************)
(* IoReleaseRemoveLockAndWaitEx, called once, by a thread that has a        *)
(* reference.                                                              *)
(***************************************************************************)
SetRemoved(t) ==
    /\ ~removed
    /\ Goto(t, "held", "drop")
    /\ removed' = TRUE
    /\ UNCHANGED <<ioCount, event, dbg, tag>>

\* The thread's own reference,
Drop(t) ==
    /\ Goto(t, "drop", "dropLast")
    /\ ioCount' = ioCount - 1
    /\ UNCHANGED <<removed, event, dbg, tag>>

\* and the one the lock was initialized with.
DropLast(t) ==
    /\ Goto(t, "dropLast", IF ioCount - 1 > 0 THEN "wait" ELSE "alone")
    /\ ioCount' = ioCount - 1
    /\ UNCHANGED <<removed, event, dbg, tag>>

\* KeWaitForSingleObject on the synchronization event
Wait(t) ==
    /\ event
    /\ Goto(t, "wait", "alone")
    /\ event' = FALSE
    /\ UNCHANGED <<removed, ioCount, dbg, tag>>

\* The remaining block is freed.  Dbg.Blocks goes on pointing to it.
FreeBlock(t) ==
    /\ debug => blocks # <<>>
    /\ Goto(t, "alone", "done")
    /\ UNCHANGED <<common, dbg, tag>>

\* There is none: ASSERT(Lock->Dbg.Blocks) fails, and without it the next line
\* reads the tag of a block at NULL.  The call does not return.
NoBlockLeft(t) ==
    /\ debug
    /\ blocks = <<>>
    /\ Goto(t, "alone", "fault")
    /\ UNCHANGED <<common, dbg, tag>>

-----------------------------------------------------------------------------
Continue(t) == \/ Granted(t) \/ Refused(t) \/ Track(t) \/ TrackFailed(t)
               \/ Undo(t) \/ Forget(t) \/ Decrement(t) \/ SetEvent(t)
               \/ Drop(t) \/ DropLast(t) \/ Wait(t) \/ FreeBlock(t)
               \/ NoBlockLeft(t)

Begin(t) == \E x \in Tags : Acquire(t, x)

Return(t) == Release(t) \/ ReleaseUntracked(t) \/ ReleasePlain(t)

Next == \E t \in Threads :
            Begin(t) \/ Continue(t) \/ Return(t) \/ SetRemoved(t)

Spec == Init /\ [][Next]_vars

\* Calls go on, and requests get done.
Fairness == \A t \in Threads : WF_vars(Continue(t) \/ Return(t))

FairSpec == Spec /\ Fairness

-----------------------------------------------------------------------------
Pcs == {"idle", "check", "track", "held", "undo", "forget", "decrement",
        "signal", "drop", "dropLast", "wait", "alone", "done", "fault"}

\* IoCount >= 0 is ASSERTed in remlock.c:226, and LowMemoryCount >= 0 in 219:
\* although tags are shared and blocks are missing, a reference without a block
\* has always been counted.
TypeOK == /\ removed \in BOOLEAN
          /\ ioCount \in Nat
          /\ event \in BOOLEAN
          /\ debug \in BOOLEAN
          /\ blocks \in Seq(Tags)
          /\ lowMemory \in Nat
          /\ pc \in [Threads -> Pcs]
          /\ tag \in [Threads -> Tags]

HasReference(t) ==
    pc[t] \in {"track", "held", "forget", "decrement", "drop"}

IsRemover(t) == pc[t] \in {"drop", "dropLast", "wait", "alone", "done", "fault"}

\* The removal is over when no reference is left, and none is given any more:
\* what SynchronizationEvent, two decrements and the increment before the
\* test of Removed are for.
RemovedUnused ==
    (\E t \in Threads : pc[t] \in {"alone", "done", "fault"})
        => removed /\ \A t \in Threads : ~HasReference(t)

\* The event is signaled only once everybody is gone.
NoEarlySignal ==
    event \/ (\E t \in Threads : pc[t] = "signal")
        => removed /\ \A t \in Threads : ~HasReference(t)

\* ASSERT(LockValue > 0) (remlock.c:95 and 257) and ASSERT(Lock->Common.Removed)
\* (231), which are about the values just after the step.
AssertsHold ==
    \A t \in Threads :
        /\ pc[t] \in {"check", "dropLast"} => ioCount > 0
        /\ pc[t] = "signal" => removed

\* Every reference has its block or is counted as one that has none, and "Tag
\* should match" (remlock.c:278) for a block that is left at the end.  One may be
\* missing then: a thread whose own block could not be allocated frees the
\* remover's if it has the same tag.  BlockRemains says more.
BlocksAddUp ==
    /\ debug => Len(blocks) + lowMemory =
          Cardinality({t \in Threads :
                          \/ pc[t] \in {"held", "forget"}
                          \/ IsRemover(t)})
    /\ \A t \in Threads : pc[t] = "alone" =>
          \A i \in DOMAIN blocks : blocks[i] = tag[t]

\* What a driver relies on when it removes a device: the removal is not told
\* to go on while a request is still at work, and no tracking block is lost or
\* found twice: missing blocks are counted in LowMemoryCount.
RemovalSafe == NoEarlySignal /\ BlocksAddUp

\* "A block must be remaining" (remlock.c:273), and ASSERT(Lock->Dbg.Blocks)
\* (274): it is not, when the allocation of one failed (105).
BlockRemains == \A t \in Threads : pc[t] = "alone" /\ debug => blocks # <<>>

\* When no more threads come late, the removal comes to its end: the remover
\* is always let out of its wait.  It then returns, unless the lock is a checked
\* one for which an allocation failed and no block is left (see BlockRemains).
RemovalEnds ==
    <>[][\A t \in Threads : ~Begin(t)]_vars
        => (removed ~> \E t \in Threads :
                \/ pc[t] = "done"
                \/ pc[t] = "fault" /\ lowMemory > 0 /\ blocks = <<>>)

-----------------------------------------------------------------------------
held == [t \in Threads |-> IF HasReference(t) THEN 1 ELSE 0]
phase == IF \E t \in Threads : pc[t] \in {"alone", "done", "fault"}
         THEN "down"
         ELSE IF removed THEN "closing" ELSE "up"

Abstract == INSTANCE RundownSpec WITH Users <- Threads, MaxRefs <- 1

\* A remove lock gives the guarantees of rundown protection.
ImplementsProtection == Abstract!AbsSpec
=============================================================================
