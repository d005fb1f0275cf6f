------------------------------- MODULE Rundown -------------------------------
(***************************************************************************)
(* Rundown protection: ntoskrnl/ex/rundown.c and its inline fast paths in   *)
(* ntoskrnl/include/internal/ex.h.                                          *)
(*                                                                         *)
(* One EX_RUNDOWN_REF, a set of threads that reference the object it       *)
(* protects, and the owner that runs the object down.  A step is one access *)
(* to shared memory: a read of RunRef->Count, an interlocked operation on   *)
(* the word or on the wait block's count, or an operation on its event.    *)
(***************************************************************************)
EXTENDS Integers, FiniteSets

CONSTANTS Users,     \* threads that take and drop references
          MaxRefs    \* bound: references one thread holds at a time

ASSUME UsersAssumption   == IsFiniteSet(Users)
ASSUME MaxRefsAssumption == MaxRefs \in Nat \ {0}

VARIABLES word,      \* RunRef->Count / RunRef->Ptr
          blkCount,  \* WaitBlock.Count, on the waiting owner's stack
          blkEvent,  \* WaitBlock.WakeEvent: 1 when signalled
          opc, oval, \* the owner: where it is, and its local Value
          upc, uval, \* each user: where it is, and its local Value
          un,        \* each user: the Count argument of the call it is in
          refs       \* each user: references it was granted and has not released

ownerVars == <<blkCount, blkEvent, opc, oval>>
vars == <<word, blkCount, blkEvent, opc, oval, upc, uval, un, refs>>

(***************************************************************************)
(* The descriptor word.  Its bits are ptr + 2 * count + active: without     *)
(* the active bit it counts references, with it it is the address of the   *)
(* owner's wait block or, alone, EX_RUNDOWN_ACTIVE.                          *)
(***************************************************************************)
Word == [active : {0, 1}, ptr : {"null", "block"}, count : Nat]

Counting(n) == [active |-> 0, ptr |-> "null", count |-> n]

EX_RUNDOWN_ACTIVE == [active |-> 1, ptr |-> "null", count |-> 0]

WaitBlockPointer == [active |-> 1, ptr |-> "block", count |-> 0]

\* Value &~ EX_RUNDOWN_ACTIVE
MaskActive(v) == [v EXCEPT !.active = 0]

AddRefs(v, n) == [v EXCEPT !.count = @ + n]

SubRefs(v, n) == [v EXCEPT !.count = @ - n]

-----------------------------------------------------------------------------
Init == /\ word = Counting(0)
        /\ blkCount = 0 /\ blkEvent = 0
        /\ opc = "up" /\ oval = Counting(0)
        /\ upc = [u \in Users |-> "idle"]
        /\ uval = [u \in Users |-> Counting(0)]
        /\ un = [u \in Users |-> 1]
        /\ refs = [u \in Users |-> 0]

UserAt(u, from, to) == /\ upc[u] = from
                       /\ upc' = [upc EXCEPT ![u] = to]

\* The call returns: its local variables are gone.
UserReturns(u, from) == /\ UserAt(u, from, "idle")
                        /\ uval' = [uval EXCEPT ![u] = Counting(0)]
                        /\ un' = [un EXCEPT ![u] = 1]

-----------------------------------------------------------------------------
\* Acquiring.

\* _ExAcquireRundownProtection: the read, with the active bit masked off.
AcquireFastRead(u) ==
    /\ UserAt(u, "idle", "acqFast")
    /\ refs[u] + 1 <= MaxRefs
    /\ un' = [un EXCEPT ![u] = 1]
    /\ uval' = [uval EXCEPT ![u] = MaskActive(word)]
    /\ UNCHANGED <<word, refs, ownerVars>>

\* ExfAcquireRundownProtectionEx, which has no inline path: the first read.
AcquireExRead(u, n) ==
    /\ UserAt(u, "idle", "acqSlow")
    /\ refs[u] + n <= MaxRefs
    /\ un' = [un EXCEPT ![u] = n]
    /\ uval' = [uval EXCEPT ![u] = word]
    /\ UNCHANGED <<word, refs, ownerVars>>

\* A compare-exchange that takes the references.
AcquireGranted(u, from) ==
    /\ UserReturns(u, from)
    /\ word = uval[u]
    /\ word' = AddRefs(word, un[u])
    /\ refs' = [refs EXCEPT ![u] = @ + un[u]]
    /\ UNCHANGED ownerVars

\* The inline compare-exchange failed: ExfAcquireRundownProtection reads again.
AcquireFastFails(u) ==
    /\ word # uval[u]
    /\ UserAt(u, "acqFast", "acqSlow")
    /\ uval' = [uval EXCEPT ![u] = word]
    /\ UNCHANGED <<word, un, refs, ownerVars>>

\* The loop of ExfAcquireRundownProtection[Ex]: a rundown is active, FALSE.
AcquireRefused(u) ==
    /\ uval[u].active = 1
    /\ UserReturns(u, "acqSlow")
    /\ UNCHANGED <<word, refs, ownerVars>>

\* The loop again: the exchange takes the references,
AcquireSlowGranted(u) == /\ uval[u].active = 0
                         /\ AcquireGranted(u, "acqSlow")

\* or somebody changed the word: try with the value it has now.
AcquireSlowRetry(u) ==
    /\ upc[u] = "acqSlow"
    /\ uval[u].active = 0
    /\ word # uval[u]
    /\ uval' = [uval EXCEPT ![u] = word]
    /\ UNCHANGED <<word, upc, un, refs, ownerVars>>

-----------------------------------------------------------------------------
\* Releasing.

\* _ExReleaseRundownProtection: the read, with the active bit masked off.
ReleaseFastRead(u) ==
    /\ UserAt(u, "idle", "relFast")
    /\ refs[u] >= 1
    /\ un' = [un EXCEPT ![u] = 1]
    /\ uval' = [uval EXCEPT ![u] = MaskActive(word)]
    /\ UNCHANGED <<word, refs, ownerVars>>

\* ExfReleaseRundownProtectionEx: the first read.
ReleaseExRead(u, n) ==
    /\ UserAt(u, "idle", "relSlow")
    /\ refs[u] >= n
    /\ un' = [un EXCEPT ![u] = n]
    /\ uval' = [uval EXCEPT ![u] = word]
    /\ UNCHANGED <<word, refs, ownerVars>>

\* A compare-exchange that gives the references back to the word.
ReleaseToWord(u, from) ==
    /\ UserReturns(u, from)
    /\ word = uval[u]
    /\ word' = SubRefs(word, un[u])
    /\ refs' = [refs EXCEPT ![u] = @ - un[u]]
    /\ UNCHANGED ownerVars

\* The inline compare-exchange failed: ExfReleaseRundownProtection reads again.
ReleaseFastFails(u) ==
    /\ word # uval[u]
    /\ UserAt(u, "relFast", "relSlow")
    /\ uval' = [uval EXCEPT ![u] = word]
    /\ UNCHANGED <<word, un, refs, ownerVars>>

ReleaseSlowToWord(u) == /\ uval[u].active = 0
                        /\ ReleaseToWord(u, "relSlow")

ReleaseSlowRetry(u) ==
    /\ upc[u] = "relSlow"
    /\ uval[u].active = 0
    /\ word # uval[u]
    /\ uval' = [uval EXCEPT ![u] = word]
    /\ UNCHANGED <<word, upc, un, refs, ownerVars>>

\* A rundown is active: the references are counted down in the wait block the
\* word points to.
CountDownInBlock(u) ==
    /\ uval[u].active = 1
    /\ blkCount' = blkCount - un[u]
    /\ refs' = [refs EXCEPT ![u] = @ - un[u]]
    /\ UNCHANGED <<word, blkEvent, opc, oval>>

\* Some references remain,
ReleaseToBlock(u) == /\ blkCount # un[u]
                     /\ UserReturns(u, "relSlow")
                     /\ CountDownInBlock(u)

\* Mutant of ReleaseLastToBlock: the comparison with zero is off by one.
ReleaseLastEarlyMutant(u) == /\ blkCount <= un[u] + 1
                             /\ UserAt(u, "relSlow", "signal")
                             /\ CountDownInBlock(u)
                             /\ UNCHANGED <<uval, un>>

\* Mutant of ReleaseLastToBlock: nobody signals the owner.
ReleaseLastSilentMutant(u) == /\ blkCount = un[u]
                              /\ UserReturns(u, "relSlow")
                              /\ CountDownInBlock(u)

\* or none does, and whoever reaches zero goes on to signal the event.
ReleaseLastToBlock(u) == /\ blkCount = un[u]
                         /\ UserAt(u, "relSlow", "signal")
                         /\ CountDownInBlock(u)
                         /\ UNCHANGED <<uval, un>>

\* KeSetEvent(&WaitBlock->WakeEvent)
SignalOwner(u) ==
    /\ UserReturns(u, "signal")
    /\ blkEvent' = 1
    /\ UNCHANGED <<word, blkCount, opc, oval, refs>>

-----------------------------------------------------------------------------
\* The owner.

\* The exchange 0 -> EX_RUNDOWN_ACTIVE, made by the inline
\* _ExWaitForRundownProtectionRelease and again on entry to the exported one:
\* with nothing referenced, or the rundown already complete, it is all there is.
WaitNothingHeld ==
    /\ opc \in {"up", "exf"}
    /\ word \in {Counting(0), EX_RUNDOWN_ACTIVE}
    /\ word' = EX_RUNDOWN_ACTIVE
    /\ opc' = "down"
    /\ UNCHANGED <<blkCount, blkEvent, oval, upc, uval, un, refs>>

\* The inline exchange failed.
WaitInlineFails ==
    /\ opc = "up"
    /\ word \notin {Counting(0), EX_RUNDOWN_ACTIVE}
    /\ opc' = "exf"
    /\ UNCHANGED <<word, blkCount, blkEvent, oval, upc, uval, un, refs>>

\* So did that of ExfWaitForRundownProtectionRelease, which has the value now.
WaitExfFails ==
    /\ opc = "exf"
    /\ word \notin {Counting(0), EX_RUNDOWN_ACTIVE}
    /\ opc' = "install"
    /\ oval' = word
    /\ UNCHANGED <<word, blkCount, blkEvent, upc, uval, un, refs>>

\* Mutant of WaitInstall: the exchange is a plain store, references taken or
\* dropped since the value was read are lost.
WaitInstallNoCompareMutant ==
    /\ opc = "install"
    /\ blkCount' = oval.count
    /\ blkEvent' = IF oval.count > 0 THEN 0 ELSE blkEvent
    /\ word' = WaitBlockPointer
    /\ opc' = IF oval.count = 0 THEN "down" ELSE "wait"
    /\ oval' = Counting(0)
    /\ UNCHANGED <<upc, uval, un, refs>>

\* The loop puts the count into the wait block, readies the event and
\* exchanges the count for the block's address.  A count that dropped to zero
\* meanwhile leaves nothing to wait for.
WaitInstall ==
    /\ opc = "install"
    /\ word = oval
    /\ blkCount' = oval.count
    /\ blkEvent' = IF oval.count > 0 THEN 0 ELSE blkEvent
    /\ word' = WaitBlockPointer
    /\ opc' = IF oval.count = 0 THEN "down" ELSE "wait"
    /\ oval' = Counting(0)
    /\ UNCHANGED <<upc, uval, un, refs>>

WaitInstallRetry ==
    /\ opc = "install"
    /\ word # oval
    /\ blkCount' = oval.count
    /\ blkEvent' = IF oval.count > 0 THEN 0 ELSE blkEvent
    /\ oval' = word
    /\ UNCHANGED <<word, opc, upc, uval, un, refs>>

\* KeWaitForSingleObject returns; the event is a synchronization event.
WaitSatisfied ==
    /\ opc = "wait"
    /\ blkEvent = 1
    /\ blkEvent' = 0
    /\ opc' = "down"
    /\ UNCHANGED <<word, blkCount, oval, upc, uval, un, refs>>

\* ExRundownCompleted, which its callers make once the wait has returned.
RundownCompleted ==
    /\ opc = "down"
    /\ word' = EX_RUNDOWN_ACTIVE
    /\ UNCHANGED <<ownerVars, upc, uval, un, refs>>

\* ExReInitializeRundownProtection, on a descriptor that was run down.
ReInitialize ==
    /\ opc = "down"
    /\ word' = Counting(0)
    /\ opc' = "up"
    /\ UNCHANGED <<blkCount, blkEvent, oval, upc, uval, un, refs>>

-----------------------------------------------------------------------------
BeginAcquire(u) == \/ AcquireFastRead(u)
                   \/ \E n \in 1 .. MaxRefs : AcquireExRead(u, n)

BeginRelease(u) == \/ ReleaseFastRead(u)
                   \/ \E n \in 1 .. MaxRefs : ReleaseExRead(u, n)

FinishAcquire(u) == \/ AcquireGranted(u, "acqFast")
                    \/ AcquireFastFails(u)
                    \/ AcquireRefused(u)
                    \/ AcquireSlowGranted(u)
                    \/ AcquireSlowRetry(u)

FinishRelease(u) == \/ ReleaseToWord(u, "relFast")
                    \/ ReleaseFastFails(u)
                    \/ ReleaseSlowToWord(u)
                    \/ ReleaseSlowRetry(u)
                    \/ ReleaseToBlock(u)
                    \/ ReleaseLastToBlock(u)
                    \/ SignalOwner(u)

OwnerWaits == \/ WaitNothingHeld
              \/ WaitInlineFails
              \/ WaitExfFails
              \/ WaitInstall
              \/ WaitInstallRetry
              \/ WaitSatisfied

Next == \/ \E u \in Users : \/ BeginAcquire(u)
                            \/ FinishAcquire(u)
                            \/ BeginRelease(u)
                            \/ FinishRelease(u)
        \/ OwnerWaits
        \/ RundownCompleted
        \/ ReInitialize

Spec == Init /\ [][Next]_vars

(***************************************************************************)
(* The scheduler runs every thread that can run, and every caller that was *)
(* granted a reference releases it some day, however often it first asks   *)
(* for more.                                                               *)
(***************************************************************************)
Fairness == /\ \A u \in Users : /\ WF_vars(FinishAcquire(u) \/ FinishRelease(u))
                                /\ SF_vars(BeginRelease(u))
            /\ WF_vars(WaitSatisfied)

FairSpec == Spec /\ Fairness

-----------------------------------------------------------------------------
TypeOK == /\ word \in Word
          /\ blkCount \in Nat
          /\ blkEvent \in {0, 1}
          /\ opc \in {"up", "exf", "install", "wait", "down"}
          /\ oval \in Word
          /\ upc \in [Users -> {"idle", "acqFast", "acqSlow",
                                "relFast", "relSlow", "signal"}]
          /\ uval \in [Users -> Word]
          /\ un \in [Users -> 1 .. MaxRefs]
          /\ refs \in [Users -> 0 .. MaxRefs]

\* The references f says the threads hold, as a set of pairs <thread, ordinal>.
RefSet(f) == {r \in Users \X (1 .. MaxRefs) : r[2] <= f[r[1]]}

(***************************************************************************)
(* Once ExWaitForRundownProtectionRelease has returned the owner may tear   *)
(* the object down: nobody holds a reference to it, and nobody gets one    *)
(* before the descriptor is reinitialized.                                 *)
(***************************************************************************)
NoReferenceAfterRundown == opc = "down" => \A u \in Users : refs[u] = 0

(***************************************************************************)
(* No reference is lost or counted twice when the count moves from the     *)
(* descriptor to the wait block under the releasers' feet: it is always    *)
(* in exactly the place a releaser will take it from.                      *)
(***************************************************************************)
CountIsExact ==
    LET outstanding == Cardinality(RefSet(refs)) IN
    /\ word.active = 0          => outstanding = word.count
    /\ word = WaitBlockPointer  => outstanding = blkCount
    /\ word = EX_RUNDOWN_ACTIVE => outstanding = 0

(***************************************************************************)
(* The wait block lives on the stack of the waiting owner.  A releaser     *)
(* touches it (the interlocked decrement, then KeSetEvent) only while the  *)
(* owner is still in KeWaitForSingleObject on that very block, and only    *)
(* one releaser ever signals it.                                           *)
(***************************************************************************)
WaitBlockAlive ==
    /\ \A u \in Users :
         upc[u] = "signal" \/ (upc[u] = "relSlow" /\ uval[u].active = 1) =>
            opc = "wait" /\ word = WaitBlockPointer /\ blkEvent = 0
    /\ \A u, v \in Users : upc[u] = "signal" /\ upc[v] = "signal" => u = v

(***************************************************************************)
(* What an owner relies on: no reference outlives the rundown, none is     *)
(* lost while the count moves, and nobody writes to the stack of an owner  *)
(* that has returned.                                                      *)
(***************************************************************************)
ReferencesSafe == NoReferenceAfterRundown /\ CountIsExact /\ WaitBlockAlive

(***************************************************************************)
(* The wakeup is never lost: when the wait block's count is zero and the   *)
(* owner still waits, the event is signalled or its signaller is on its    *)
(* way.                                                                    *)
(***************************************************************************)
WakeupPending ==
    opc = "wait" /\ blkCount = 0 =>
        blkEvent = 1 \/ \E u \in Users : upc[u] = "signal"

\* Once the active bit is set no thread gains a reference until the
\* descriptor is reinitialized.
NoGrantWhileActive ==
    [][word.active = 1 => \A u \in Users : refs'[u] <= refs[u]]_vars

\* An owner that published its wait block is eventually woken: the count
\* reaches zero, and the thread that took it there signals the event.
PublishedWaitCompletes == (opc = "wait") ~> (opc = "down")

-----------------------------------------------------------------------------
(***************************************************************************)
(* What the module implements: see RundownSpec.                            *)
(***************************************************************************)
PhaseOf == IF word.active = 0 THEN "up"
           ELSE IF opc = "down" THEN "down" ELSE "closing"

Abs == INSTANCE RundownSpec WITH held <- refs, phase <- PhaseOf

\* Every behaviour of the code is one the abstract protection allows.
Refinement == Abs!AbsSpec
=============================================================================
