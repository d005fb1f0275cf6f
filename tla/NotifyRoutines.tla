--------------------------- MODULE NotifyRoutines ---------------------------
(***************************************************************************)
(* Notify routines: a table of EX_CALLBACK slots (ps/psnotify.c,            *)
(* include/internal/ps_x.h), the callback blocks in them (ex/callback.c)    *)
(* and the fast references that guard them (include/internal/ex.h).         *)
(*                                                                         *)
(* Threads run the registered routines, register new ones and remove them. *)
(* A fast reference operation is a loop around one compare-exchange that   *)
(* reads the word anew each time round: it is one atomic step here.  The   *)
(* rundown protection of a block is the abstract one of RundownSpec, with  *)
(* the number of references of all threads together.                       *)
(***************************************************************************)
EXTENDS Integers, FiniteSets

CONSTANTS Callers,
          Blocks,       \* pool memory for callback blocks
          Routines,     \* the functions drivers register
          NULL,
          Slots,        \* number of slots of the table
          MAX_FAST_REFS,
          List,         \* which table: "process", "thread" or "image"
          MaxCount      \* bound: no removal starts above this rundown count

ASSUME NotifyAssumption ==
    /\ IsFiniteSet(Callers) /\ IsFiniteSet(Blocks)
    /\ NULL \notin Blocks \cup Routines
    /\ Slots \in Nat \ {0} /\ MAX_FAST_REFS \in Nat \ {0}
    /\ List \in {"process", "thread", "image"}
    /\ MaxCount \in Nat

VARIABLES slot,      \* slot[i].obj, .cnt: the EX_FAST_REF of slot i
          func,      \* func[b]: the routine of block b, NULL if b is not allocated
          count,     \* count[b]: references in b's RundownProtect
          active,    \* active[b]: its rundown is active
          registered,\* PspXxxNotifyRoutineCount
          enabled,   \* PsImageNotifyEnabled
          npc, op,    \* each thread: where it is, and in which operation
          at,        \* its loop variable i
          blk,       \* its CallBack
          arg,       \* its NotifyRoutine argument
          given      \* the fast references it got from the slot it emptied

tableVars == <<slot, func, count, active, registered, enabled, npc, op, at, blk, arg, given>>
memory == <<slot, func, count, active, registered, enabled>>

Empty == [obj |-> NULL, cnt |-> 0]

NotifyInit == /\ slot = [i \in 1 .. Slots |-> Empty]
              /\ func = [b \in Blocks |-> NULL]
              /\ count = [b \in Blocks |-> 0]
              /\ active = [b \in Blocks |-> FALSE]
              /\ registered = 0
              /\ enabled = FALSE
              /\ npc = [t \in Callers |-> "idle"]
              /\ op = [t \in Callers |-> "none"]
              /\ at = [t \in Callers |-> 1]
              /\ blk = [t \in Callers |-> NULL]
              /\ arg = [t \in Callers |-> NULL]
              /\ given = [t \in Callers |-> 0]

Goto(t, from, to) == /\ npc[t] = from
                     /\ npc' = [npc EXCEPT ![t] = to]

\* The operation is over.
Return(t) == /\ npc' = [npc EXCEPT ![t] = "idle"]
             /\ op' = [op EXCEPT ![t] = "none"]
             /\ at' = [at EXCEPT ![t] = 1]
             /\ blk' = [blk EXCEPT ![t] = NULL]
             /\ arg' = [arg EXCEPT ![t] = NULL]
             /\ given' = [given EXCEPT ![t] = 0]

\* The loop goes on with the next slot, or ends.
NextSlot(t) == IF at[t] = Slots
               THEN Return(t)
               ELSE /\ npc' = [npc EXCEPT ![t] = "reference"]
                    /\ at' = [at EXCEPT ![t] = @ + 1]
                    /\ blk' = [blk EXCEPT ![t] = NULL]
                    /\ UNCHANGED <<op, arg, given>>

\* ExfReleaseRundownProtectionEx
Rundown(b, n) == count' = [count EXCEPT ![b] = @ - n]

-----------------------------------------------------------------------------
\* PspRunXxxNotifyRoutines.  For images the callers look at a flag that is
\* never cleared again.
Notify(t) ==
    /\ IF List = "image" THEN enabled ELSE registered # 0
    /\ Goto(t, "idle", "reference")
    /\ op' = [op EXCEPT ![t] = "notify"]
    /\ UNCHANGED <<memory, at, blk, arg, given>>

\* PsRemoveXxxNotifyRoutine, or PsSetCreateProcessNotifyRoutine with Remove.
Remove(t, r) ==
    /\ \A b \in Blocks : count[b] <= MaxCount
    /\ Goto(t, "idle", "reference")
    /\ op' = [op EXCEPT ![t] = "remove"]
    /\ arg' = [arg EXCEPT ![t] = r]
    /\ UNCHANGED <<memory, at, blk, given>>

\* PsSetXxxNotifyRoutine: ExAllocateCallBack.
Register(t, r, b) ==
    /\ Goto(t, "idle", "insertSlot")
    /\ func[b] = NULL
    /\ func' = [func EXCEPT ![b] = r]
    /\ count' = [count EXCEPT ![b] = 0]
    /\ active' = [active EXCEPT ![b] = FALSE]
    /\ op' = [op EXCEPT ![t] = "register"]
    /\ blk' = [blk EXCEPT ![t] = b]
    /\ UNCHANGED <<slot, registered, at, arg, given, enabled>>

-----------------------------------------------------------------------------
\* Registering: ExCompareExchangeCallBack(slot, block, NULL).  Nobody else
\* knows the block before it is in a slot, so its rundown references are taken,
\* and given back on failure, in the step that tries to swap.  Once it has it
\* needs its locals no more.

InsertSlot(t) ==
    /\ slot[at[t]].obj = NULL
    /\ Goto(t, "insertSlot", "increment")
    /\ slot' = [slot EXCEPT ![at[t]] = [obj |-> blk[t], cnt |-> MAX_FAST_REFS]]
    /\ count' = [count EXCEPT ![blk[t]] = @ + MAX_FAST_REFS + 1]
    /\ blk' = [blk EXCEPT ![t] = NULL]
    /\ at' = [at EXCEPT ![t] = 1]
    /\ UNCHANGED <<func, active, registered, op, arg, given, enabled>>

\* The slot is taken: try the next one,
InsertNext(t) ==
    /\ slot[at[t]].obj # NULL
    /\ npc[t] = "insertSlot"
    /\ at[t] < Slots
    /\ at' = [at EXCEPT ![t] = @ + 1]
    /\ UNCHANGED <<memory, npc, op, blk, arg, given>>

\* and free the block if there is none.
InsertFails(t) ==
    /\ slot[at[t]].obj # NULL
    /\ npc[t] = "insertSlot"
    /\ at[t] = Slots
    /\ func' = [func EXCEPT ![blk[t]] = NULL]
    /\ Return(t)
    /\ UNCHANGED <<slot, count, active, registered, enabled>>

Increment(t) ==
    /\ npc[t] = "increment"
    /\ registered' = registered + 1
    /\ IF List = "image"
       THEN Goto(t, "increment", "enable") /\ UNCHANGED <<op, at, blk, arg, given>>
       ELSE Return(t)
    /\ UNCHANGED <<slot, func, count, active, enabled>>

Enable(t) ==
    /\ npc[t] = "enable"
    /\ enabled' = TRUE
    /\ Return(t)
    /\ UNCHANGED <<slot, func, count, active, registered>>

-----------------------------------------------------------------------------
\* ExReferenceCallBackBlock.

ReferenceNone(t) ==
    /\ npc[t] = "reference"
    /\ slot[at[t]].obj = NULL
    /\ NextSlot(t)
    /\ UNCHANGED memory

\* There is a block but no fast reference is left: "Unhandled callback race
\* condition".  The routine returns NULL and the slot is passed over.
ReferenceRace(t) ==
    /\ npc[t] = "reference"
    /\ slot[at[t]].obj # NULL
    /\ slot[at[t]].cnt = 0
    /\ NextSlot(t)
    /\ UNCHANGED memory

\* ExAcquireFastReference; who takes the last one must fetch more.
ReferenceFast(t) ==
    LET word == slot[at[t]] IN
    /\ word.cnt > 0
    /\ Goto(t, "reference", IF word.cnt = 1 THEN "fetch" ELSE "use")
    /\ slot' = [slot EXCEPT ![at[t]].cnt = @ - 1]
    /\ blk' = [blk EXCEPT ![t] = word.obj]
    /\ UNCHANGED <<func, count, active, registered, op, at, arg, given, enabled>>

\* ExfAcquireRundownProtectionEx(MAX_FAST_REFS), which a rundown refuses.
Fetch(t) ==
    LET b == blk[t] IN
    /\ Goto(t, "fetch", IF active[b] THEN "use" ELSE "give")
    /\ count' = [count EXCEPT ![b] = IF active[b] THEN @ ELSE @ + MAX_FAST_REFS]
    /\ UNCHANGED <<slot, func, active, registered, op, at, blk, arg, given, enabled>>

\* ExInsertFastReference: only into the same block's slot, and only if it has
\* no reference left.
Give(t) ==
    /\ slot[at[t]] = [obj |-> blk[t], cnt |-> 0]
    /\ Goto(t, "give", "use")
    /\ slot' = [slot EXCEPT ![at[t]].cnt = MAX_FAST_REFS]
    /\ UNCHANGED <<func, count, active, registered, op, at, blk, arg, given, enabled>>

\* Mutant of GiveBack: the rundown references are not backed out.
GiveBackMutant(t) ==
    /\ slot[at[t]] # [obj |-> blk[t], cnt |-> 0]
    /\ Goto(t, "give", "use")
    /\ UNCHANGED <<memory, op, at, blk, arg, given>>

GiveBack(t) ==
    /\ slot[at[t]] # [obj |-> blk[t], cnt |-> 0]
    /\ Goto(t, "give", "use")
    /\ Rundown(blk[t], MAX_FAST_REFS)
    /\ UNCHANGED <<slot, func, active, registered, op, at, blk, arg, given, enabled>>

-----------------------------------------------------------------------------
\* ExDoCallBack: the routine runs, from this step to the dereference.
Use(t) ==
    /\ op[t] = "notify"
    /\ Goto(t, "use", "dereference")
    /\ UNCHANGED <<memory, op, at, blk, arg, given>>

\* Removing: ExGetCallBackBlockRoutine matches,
Match(t) ==
    /\ op[t] = "remove"
    /\ Goto(t, "use", "swap")
    /\ func[blk[t]] = arg[t]
    /\ UNCHANGED <<memory, op, at, blk, arg, given>>

\* or not.  The process list goes on without dereferencing the block.
NoMatch(t) ==
    /\ op[t] = "remove"
    /\ npc[t] = "use"
    /\ func[blk[t]] # arg[t]
    /\ IF List = "process"
       THEN NextSlot(t)
       ELSE Goto(t, "use", "dereference") /\ UNCHANGED <<op, at, blk, arg, given>>
    /\ UNCHANGED memory

\* ExDereferenceCallBackBlock: back to the slot if the block is still there
\* and the slot is not full,
DereferenceFast(t) ==
    /\ npc[t] = "dereference"
    /\ slot[at[t]].obj = blk[t] /\ slot[at[t]].cnt < MAX_FAST_REFS
    /\ slot' = [slot EXCEPT ![at[t]].cnt = @ + 1]
    /\ NextSlot(t)
    /\ UNCHANGED <<func, count, active, registered, enabled>>

\* or else to the block's rundown protection.
DereferenceSlow(t) ==
    /\ npc[t] = "dereference"
    /\ slot[at[t]].obj # blk[t] \/ slot[at[t]].cnt = MAX_FAST_REFS
    /\ Rundown(blk[t], 1)
    /\ NextSlot(t)
    /\ UNCHANGED <<slot, func, active, registered, enabled>>

-----------------------------------------------------------------------------
\* ExCompareExchangeCallBack(slot, NULL, block): the slot is emptied and does
\* not matter any more,
Swap(t) ==
    /\ slot[at[t]].obj = blk[t]
    /\ Goto(t, "swap", "release")
    /\ slot' = [slot EXCEPT ![at[t]] = Empty]
    /\ given' = [given EXCEPT ![t] = slot[at[t]].cnt]
    /\ at' = [at EXCEPT ![t] = 1]
    /\ UNCHANGED <<func, count, active, registered, op, blk, arg, enabled>>

\* or another thread did that.
SwapFails(t) ==
    /\ slot[at[t]].obj # blk[t]
    /\ Goto(t, "swap", "dereference")
    /\ UNCHANGED <<memory, op, at, blk, arg, given>>

\* Mutants of SwapRelease: one reference too many is released, or the table's
\* own one is forgotten.
SwapReleaseCountMutant(t) ==
    /\ Goto(t, "release", "decrement")
    /\ Rundown(blk[t], given[t] + 2)
    /\ given' = [given EXCEPT ![t] = 0]
    /\ UNCHANGED <<slot, func, active, registered, op, at, blk, arg, enabled>>

SwapReleaseLeakMutant(t) ==
    /\ Goto(t, "release", "decrement")
    /\ Rundown(blk[t], given[t])
    /\ given' = [given EXCEPT ![t] = 0]
    /\ UNCHANGED <<slot, func, active, registered, op, at, blk, arg, enabled>>

\* The fast references the slot had and the table's own are released.  (The
\* flush lock waited for before is never taken by anybody.)
SwapRelease(t) ==
    /\ Goto(t, "release", "decrement")
    /\ Rundown(blk[t], given[t] + 1)
    /\ given' = [given EXCEPT ![t] = 0]
    /\ UNCHANGED <<slot, func, active, registered, op, at, blk, arg, enabled>>

Decrement(t) ==
    /\ Goto(t, "decrement", "release1")
    /\ registered' = registered - 1
    /\ UNCHANGED <<slot, func, count, active, op, at, blk, arg, given, enabled>>

\* The remover's own reference: the slot does not have the block any more.
ReleaseOwn(t) ==
    /\ Goto(t, "release1", "wait")
    /\ Rundown(blk[t], 1)
    /\ UNCHANGED <<slot, func, active, registered, op, at, blk, arg, given, enabled>>

\* ExWaitForCallBacks: the block is closed to new references,
Close(t) ==
    /\ Goto(t, "wait", "drain")
    /\ active' = [active EXCEPT ![blk[t]] = TRUE]
    /\ UNCHANGED <<slot, func, count, registered, op, at, blk, arg, given, enabled>>

\* the old ones are gone, ExFreeCallBack.  What is in freed memory is nobody's
\* business.
Free(t) ==
    /\ npc[t] = "drain"
    /\ count[blk[t]] = 0
    /\ func' = [func EXCEPT ![blk[t]] = NULL]
    /\ active' = [active EXCEPT ![blk[t]] = FALSE]
    /\ Return(t)
    /\ UNCHANGED <<slot, count, registered, enabled>>

-----------------------------------------------------------------------------
Begin(t) == \/ Notify(t)
            \/ \E r \in Routines : Remove(t, r)
            \/ \E r \in Routines, b \in Blocks : Register(t, r, b)

Continue(t) == \/ InsertSlot(t) \/ InsertNext(t) \/ InsertFails(t)
               \/ Increment(t) \/ Enable(t)
               \/ ReferenceNone(t) \/ ReferenceRace(t) \/ ReferenceFast(t)
               \/ Fetch(t) \/ Give(t) \/ GiveBack(t)
               \/ Use(t) \/ Match(t) \/ NoMatch(t)
               \/ DereferenceFast(t) \/ DereferenceSlow(t)
               \/ Swap(t) \/ SwapFails(t) \/ SwapRelease(t) \/ Decrement(t)
               \/ ReleaseOwn(t) \/ Close(t) \/ Free(t)

NotifyNext == \E t \in Callers : Begin(t) \/ Continue(t)

NotifySpec == NotifyInit /\ [][NotifyNext]_tableVars

\* Every thread in a call goes on; in particular every routine returns.
NotifyFairness == \A t \in Callers : WF_tableVars(Continue(t))

NotifyFairSpec == NotifySpec /\ NotifyFairness

-----------------------------------------------------------------------------
TableTypeOK ==
    /\ slot \in [1 .. Slots -> [obj : Blocks \cup {NULL},
                                cnt : 0 .. MAX_FAST_REFS]]
    /\ func \in [Blocks -> Routines \cup {NULL}]
    /\ count \in [Blocks -> Nat]
    /\ active \in [Blocks -> BOOLEAN]
    /\ registered \in Int
    /\ enabled \in BOOLEAN
    /\ npc \in [Callers -> {"idle", "reference", "insertSlot", "increment",
                           "enable",
                           "fetch", "give", "use", "dereference", "swap",
                           "release", "decrement", "release1", "wait", "drain"}]
    /\ op \in [Callers -> {"none", "notify", "remove", "register"}]
    /\ at \in [Callers -> 1 .. Slots]
    /\ blk \in [Callers -> Blocks \cup {NULL}]
    /\ arg \in [Callers -> Routines \cup {NULL}]
    /\ given \in [Callers -> 0 .. MAX_FAST_REFS]

\* Where a thread relies on the block it referenced.
HoldsAt == {"fetch", "give", "use", "dereference", "swap", "release",
            "decrement", "release1"}

(***************************************************************************)
(* A block that a thread has referenced, in particular one whose routine   *)
(* is running, or that a slot names, is not freed, and cannot be allocated *)
(* again.                                                                  *)
(***************************************************************************)
NoUseAfterFree ==
    /\ \A t \in Callers : npc[t] \in HoldsAt => func[blk[t]] # NULL
    /\ \A i \in 1 .. Slots : slot[i].obj # NULL => func[slot[i].obj] # NULL
    /\ \A t, u \in Callers :
          t # u /\ npc[t] = "drain" /\ count[blk[t]] = 0 =>
              ~(npc[u] \in HoldsAt \cup {"drain"} /\ blk[u] = blk[t])

\* References to block b that thread t accounts for.
Owed(t, b) == IF blk[t] # b \/ npc[t] \notin HoldsAt THEN 0
              ELSE CASE npc[t] = "give"    -> 1 + MAX_FAST_REFS
                     [] npc[t] = "release" -> 2 + given[t]
                     [] OTHER             -> 1

\* References to block b that the word of slot i accounts for: its fast
\* references and the table's own.
InSlot(i, b) == IF slot[i].obj = b THEN slot[i].cnt + 1 ELSE 0

\* One pair for each unit of f[x], for every x in D; f[x] is at most n.
Units(D, n, f) == {p \in D \X (1 .. n) : p[2] <= f[p[1]]}

\* All references to block b.
References(b) ==
    Cardinality(Units(Callers, MAX_FAST_REFS + 2, [t \in Callers |-> Owed(t, b)]))
    + Cardinality(Units(1 .. Slots, MAX_FAST_REFS + 1, [i \in 1 .. Slots |-> InSlot(i, b)]))

(***************************************************************************)
(* No reference is lost or made up when it moves between a slot, a thread  *)
(* and the block's rundown protection: the latter counts the fast          *)
(* references in the slot, the table's own, and the threads'.              *)
(***************************************************************************)
ReferencesAddUp == \A b \in Blocks : count[b] = References(b)

\* The number of registered routines is off by no more than the threads on
\* their way to adjust it.
RegisteredCorrect ==
    registered = Cardinality({i \in 1 .. Slots : slot[i].obj # NULL})
                 + Cardinality({t \in Callers : npc[t] \in {"release", "decrement"}})
                 - Cardinality({t \in Callers : npc[t] = "increment"})

(***************************************************************************)
(* The table stays consistent although slots, blocks and the number of     *)
(* registered routines are changed in separate steps.                      *)
(***************************************************************************)
TableCorrect == TableTypeOK /\ ReferencesAddUp /\ RegisteredCorrect

\* "Wait for active callbacks" (psnotify.c:65, 153, 237) ends: a removal whose
\* slot was emptied returns once the callbacks have returned.  So it is for the
\* thread and the image list (153, 237).  It is not for the process list (65): a
\* removal that passes over a block keeps the reference it took (51), and a later
\* removal of that block waits for it though no callback is active.
RemovalReturns == \A t \in Callers : (npc[t] = "drain") ~> (npc[t] = "idle")
=============================================================================
