---------------------------- MODULE HandleTable ----------------------------
(***************************************************************************)
(* The handle table of ntoskrnl/ex/handle.c: entries locked by a bit of    *)
(* their own value, and the contention event on which the threads that     *)
(* find an entry locked block (ExBlockPushLock, ExfUnblockPushLock and     *)
(* ExWaitForUnblockPushLock of ntoskrnl/ex/pushlock.c).  One action is one *)
(* access to shared memory.                                                *)
(*                                                                         *)
(* An entry's value is an object pointer whose lowest bit is SET while the *)
(* entry is unlocked; zero is an entry that is closed.  The contention     *)
(* event heads a stack of the wait blocks of blocked threads; a block is   *)
(* on the stack of the thread that waits, so a block is named after its    *)
(* thread.  An unlock takes the whole stack and wakes everybody, whatever  *)
(* entry each one waits for.                                               *)
(*                                                                         *)
(* The list of free entries is a parameter.  FreeListSound is what         *)
(* ExpAllocateHandleTableEntry is to promise, that it gives out a free     *)
(* entry, and each one once.  The list of the code does not keep it        *)
(* (HandleFreeList, EntryWasLocked): without it, creation may be given     *)
(* any entry, one in use included.                                         *)
(***************************************************************************)
EXTENDS KernelThreads, Naturals

CONSTANTS
    Objects,
    NHandles,       \* handles of the table: 1 .. NHandles
    FreeListSound   \* the free list gives out free entries only

ASSUME HandlesAssumption == NHandles \in Nat \ {0}
ASSUME ObjectsAssumption == Objects # {} /\ NULL \notin Objects
ASSUME FreeListAssumption == FreeListSound \in BOOLEAN

Handles == 1 .. NHandles

(* HANDLE_TABLE_ENTRY.Value: the object and the bit, set when unlocked *)
EntryValue == [object : Objects \cup {NULL}, bit : BOOLEAN]
Closed == [object |-> NULL, bit |-> FALSE]

VARIABLES
    word,       \* word[x]: the first word of the entry of handle x
    freeList,   \* handles on the free list
    head,       \* HandleContentionEvent: the top wait block or NULL
    next,       \* next[t]: WaitBlock->Next of t's block
    flag,       \* flag[t]: EX_PUSH_LOCK_FLAGS_WAIT of t's block
    event,      \* event[t]: WaitBlock->WakeEvent, "raw" until initialized
    phase,      \* the process's table: "open", then "swept" when the
                \* process exits, "kept" if a handle could not be closed
    tpc, op, h, seen, walk, wnext, after    \* the threads and their locals

blockVars == <<head, next, flag, event>>
tableLocals == <<seen, walk, wnext, after>>
tableVars == <<word, freeList, head, next, flag, event, phase, tpc, op, h, seen, walk, wnext, after>>

TableInit ==
    /\ word = [x \in Handles |-> Closed]
    /\ freeList = Handles
    /\ head = NULL
    /\ next = [t \in Threads |-> NULL]
    /\ flag = [t \in Threads |-> FALSE]
    /\ event = [t \in Threads |-> "raw"]
    /\ phase = "open"
    /\ tpc = [t \in Threads |-> "idle"]
    /\ op = [t \in Threads |-> "one"]
    /\ h = [t \in Threads |-> 1]
    /\ seen = [t \in Threads |-> Closed]
    /\ walk = [t \in Threads |-> NULL]
    /\ wnext = [t \in Threads |-> NULL]
    /\ after = [t \in Threads |-> "done"]

TableGoto(t, l) == tpc' = [tpc EXCEPT ![t] = l]
At(t, l) == tpc[t] = l

(* What a thread does when it is through with the entry of h[t]: return,   *)
(* or go on with the next entry of an enumeration or a sweep.              *)
NextHandle(t, stop) ==
    IF op[t] = "one" \/ stop \/ h[t] = NHandles
    THEN /\ TableGoto(t, "idle")
         /\ op' = [op EXCEPT ![t] = "one"]
         /\ h' = [h EXCEPT ![t] = 1]
    ELSE /\ TableGoto(t, IF op[t] = "enum" THEN "check" ELSE "lock")
         /\ h' = [h EXCEPT ![t] = @ + 1]
         /\ UNCHANGED op

-----------------------------------------------------------------------------
(* ExpLockHandleTableEntry *)

(* The first look at the entry: try to lock it, give up, or block. *)
LockRead(t) ==
    /\ At(t, "lock")
    /\ \/ /\ word[h[t]].bit
          /\ seen' = [seen EXCEPT ![t] = word[h[t]]]
          /\ TableGoto(t, "cas")
          /\ UNCHANGED <<op, h>>
       \/ /\ word[h[t]] = Closed
          /\ NextHandle(t, FALSE)
          /\ UNCHANGED seen
       \/ /\ ~word[h[t]].bit /\ word[h[t]] # Closed
          /\ TableGoto(t, "block")
          /\ UNCHANGED <<op, h, seen>>
    /\ UNCHANGED <<word, freeList, blockVars, phase, walk, wnext, after>>

(* Locks with a plain write instead of the compare-exchange. *)
LockCasMutant(t) ==
    /\ At(t, "cas")
    /\ word' = [word EXCEPT ![h[t]] = [object |-> seen[t].object, bit |-> FALSE]]
    /\ TableGoto(t, "hold")
    /\ seen' = [seen EXCEPT ![t] = Closed]
    /\ UNCHANGED <<freeList, blockVars, phase, op, h, walk, wnext, after>>

(* A compare-exchange that fails goes to block, too. *)
LockCas(t) ==
    /\ At(t, "cas")
    /\ IF word[h[t]] = seen[t]
       THEN /\ word' = [word EXCEPT ![h[t]].bit = FALSE]
            /\ TableGoto(t, "hold")
       ELSE /\ TableGoto(t, "block")
            /\ UNCHANGED word
    /\ seen' = [seen EXCEPT ![t] = Closed]
    /\ UNCHANGED <<freeList, blockVars, phase, op, h, walk, wnext, after>>

-----------------------------------------------------------------------------
(* ExBlockPushLock: push the wait block on the contention event. *)

BlockLink(t) ==
    /\ At(t, "block")
    /\ flag' = [flag EXCEPT ![t] = TRUE]
    /\ next' = [next EXCEPT ![t] = head]
    /\ TableGoto(t, "push")
    /\ UNCHANGED <<word, freeList, head, event, phase, op, h, tableLocals>>

BlockPush(t) ==
    /\ At(t, "push")
    /\ IF head = next[t]
       THEN /\ head' = t
            /\ TableGoto(t, "relook")
            /\ UNCHANGED next
       ELSE /\ next' = [next EXCEPT ![t] = head]
            /\ UNCHANGED <<head, tpc>>
    /\ UNCHANGED <<word, freeList, flag, event, phase, op, h, tableLocals>>

(* Waits without the second look. *)
RelookMutant(t) ==
    /\ At(t, "relook")
    /\ TableGoto(t, "wait")
    /\ UNCHANGED <<word, freeList, blockVars, phase, op, h, tableLocals>>

(* ExpBlockOnLockedHandleEntry looks again once its block is published. *)
Relook(t) ==
    /\ At(t, "relook")
    /\ IF word[h[t]] = Closed \/ word[h[t]].bit
       THEN /\ TableGoto(t, "exchange")
            /\ after' = [after EXCEPT ![t] = "retry"]
       ELSE /\ TableGoto(t, "wait")
            /\ UNCHANGED after
    /\ UNCHANGED <<word, freeList, blockVars, phase, op, h, seen, walk, wnext>>

-----------------------------------------------------------------------------
(* ExTimedWaitForUnblockPushLock without a timeout *)

WaitInitialize(t) ==
    /\ At(t, "wait")
    /\ event' = [event EXCEPT ![t] = "unset"]
    /\ TableGoto(t, "bit")
    /\ UNCHANGED <<word, freeList, head, next, flag, phase, op, h, tableLocals>>

(* The block dies with the frame of ExpBlockOnLockedHandleEntry. *)
LeaveBlock(t) ==
    /\ TableGoto(t, "lock")
    /\ event' = [event EXCEPT ![t] = "raw"]
    /\ next' = [next EXCEPT ![t] = NULL]

(* The spin loop, or the reset of the bit, finds that an unblocker was     *)
(* first; otherwise the thread sleeps on its event.                        *)
WaitBit(t) ==
    /\ At(t, "bit")
    /\ IF flag[t]
       THEN /\ flag' = [flag EXCEPT ![t] = FALSE]
            /\ TableGoto(t, "sleep")
            /\ UNCHANGED <<event, next>>
       ELSE /\ LeaveBlock(t)
            /\ UNCHANGED flag
    /\ UNCHANGED <<word, freeList, head, phase, op, h, tableLocals>>

Wake(t) ==
    /\ At(t, "sleep")
    /\ event[t] = "set"
    /\ LeaveBlock(t)
    /\ UNCHANGED <<word, freeList, head, flag, phase, op, h, tableLocals>>

-----------------------------------------------------------------------------
(* ExfUnblockPushLock: take the stack and wake every block on it. *)

TakeStack(t) ==
    /\ At(t, "exchange")
    /\ walk' = [walk EXCEPT ![t] = head]
    /\ head' = NULL
    /\ TableGoto(t, "walk")
    /\ UNCHANGED <<word, freeList, next, flag, event, phase, op, h, seen, wnext, after>>

WalkNext(t) ==
    /\ At(t, "walk")
    /\ walk[t] # NULL
    /\ wnext' = [wnext EXCEPT ![t] = next[walk[t]]]
    /\ TableGoto(t, "reset")
    /\ UNCHANGED <<word, freeList, blockVars, phase, op, h, seen, walk, after>>

Advance(t) ==
    /\ walk' = [walk EXCEPT ![t] = wnext[t]]
    /\ wnext' = [wnext EXCEPT ![t] = NULL]
    /\ TableGoto(t, "walk")

WalkReset(t) ==
    /\ At(t, "reset")
    /\ IF flag[walk[t]]
       THEN /\ flag' = [flag EXCEPT ![walk[t]] = FALSE]
            /\ Advance(t)
       ELSE /\ TableGoto(t, "signal")
            /\ UNCHANGED <<flag, walk, wnext>>
    /\ UNCHANGED <<word, freeList, head, next, event, phase, op, h, seen, after>>

WalkSignal(t) ==
    /\ At(t, "signal")
    /\ event' = [event EXCEPT ![walk[t]] = "set"]
    /\ Advance(t)
    /\ UNCHANGED <<word, freeList, head, next, flag, phase, op, h, seen, after>>

(* Returns with its block still in another unblocker's hands. *)
WalkEndOwnMutant(t) ==
    /\ At(t, "walk") /\ walk[t] = NULL /\ after[t] = "retry"
    /\ LeaveBlock(t)
    /\ after' = [after EXCEPT ![t] = "done"]
    /\ UNCHANGED <<word, freeList, head, flag, phase, op, h, seen, walk, wnext>>

(* Through with the stack.  A blocked thread whose own block another       *)
(* thread took off the stack waits until that one is done with it.         *)
WalkEndOwn(t) ==
    /\ At(t, "walk") /\ walk[t] = NULL /\ after[t] = "retry"
    /\ IF flag[t]
       THEN /\ TableGoto(t, "wait")
            /\ UNCHANGED <<event, next>>
       ELSE LeaveBlock(t)
    /\ after' = [after EXCEPT ![t] = "done"]
    /\ UNCHANGED <<word, freeList, head, flag, phase, op, h, seen, walk, wnext>>

(* An unlock returns; an enumeration stops when its callback said so, a    *)
(* sweep does not ask.                                                     *)
WalkEndUnlock(t) ==
    /\ At(t, "walk") /\ walk[t] = NULL /\ after[t] = "done"
    /\ \E result \in BOOLEAN :
           /\ op[t] = "sweep" => ~result
           /\ NextHandle(t, result)
    /\ UNCHANGED <<word, freeList, blockVars, phase, tableLocals>>

(* ExDestroyHandle goes on to ExpFreeHandleTableEntry; how the entry gets  *)
(* onto the list, in the code's two halves, is HandleFreeList's.           *)
FreeEntry(t) ==
    /\ At(t, "walk") /\ walk[t] = NULL /\ after[t] = "free"
    /\ freeList' = freeList \cup {h[t]}
    /\ after' = [after EXCEPT ![t] = "done"]
    /\ NextHandle(t, FALSE)
    /\ UNCHANGED <<word, blockVars, phase, seen, walk, wnext>>

-----------------------------------------------------------------------------
(* The operations *)

BeginCall(t, x, what, label) ==
    /\ At(t, "idle") /\ phase = "open"
    /\ h' = [h EXCEPT ![t] = x]
    /\ op' = [op EXCEPT ![t] = what]
    /\ TableGoto(t, label)

(* ExCreateHandle: an entry is taken from the free list, written, then     *)
(* unlocked.  The entry is free if the list is sound.                      *)
CreateHandle(t) ==
    \E x \in IF FreeListSound THEN freeList ELSE Handles :
        /\ BeginCall(t, x, "one", "write")
        /\ freeList' = freeList \ {x}
        /\ UNCHANGED <<word, blockVars, phase, tableLocals>>

WriteEntry(t) ==
    /\ At(t, "write")
    /\ \E o \in Objects : word' = [word EXCEPT ![h[t]] = [object |-> o, bit |-> FALSE]]
    /\ TableGoto(t, "written")
    /\ UNCHANGED <<freeList, blockVars, phase, op, h, tableLocals>>

(* ExMapHandleToPointer: lock whatever the handle names. *)
MapHandle(t) ==
    /\ \E x \in Handles : BeginCall(t, x, "one", "lock")
    /\ UNCHANGED <<word, freeList, blockVars, phase, tableLocals>>

(* ExDestroyHandle and ExChangeHandle look at the entry without its lock   *)
(* first, and ExEnumHandleTable at each entry in turn.                     *)
ChangeHandle(t) ==
    /\ \E x \in Handles : word[x].object # NULL /\ BeginCall(t, x, "one", "lock")
    /\ UNCHANGED <<word, freeList, blockVars, phase, tableLocals>>

EnumHandles(t) ==
    /\ BeginCall(t, 1, "enum", "check")
    /\ UNCHANGED <<word, freeList, blockVars, phase, tableLocals>>

CheckEntry(t) ==
    /\ At(t, "check")
    /\ IF word[h[t]].object # NULL
       THEN TableGoto(t, "lock") /\ UNCHANGED <<op, h>>
       ELSE NextHandle(t, FALSE)
    /\ UNCHANGED <<word, freeList, blockVars, phase, tableLocals>>

(* ExUnlockHandleTableEntry: set the bit, then unblock.  The close of a    *)
(* handle ends so, too, when the object's OkayToClose procedure or the     *)
(* handle's protection refuses it (obhandle.c:709-722), and the sweep then *)
(* leaves that handle behind it: its thread may be one of another process  *)
(* (kill.c:335), whose desktop has a handle of the same value              *)
(* (desktop.c:190).                                                        *)
Unlock(t) ==
    /\ At(t, "written") \/ At(t, "hold")
    /\ word' = [word EXCEPT ![h[t]].bit = TRUE]
    /\ phase' = IF op[t] = "sweep" THEN "kept" ELSE phase
    /\ TableGoto(t, "exchange")
    /\ UNCHANGED <<freeList, blockVars, op, h, tableLocals>>

(* ExDestroyHandle, with the entry locked by it or by its caller: clear    *)
(* the entry, then unblock.  A callback of ExEnumHandleTable does not.     *)
Destroy(t) ==
    /\ At(t, "hold") /\ op[t] # "enum"
    /\ word' = [word EXCEPT ![h[t]] = Closed]
    /\ after' = [after EXCEPT ![t] = "free"]
    /\ TableGoto(t, "exchange")
    /\ UNCHANGED <<freeList, blockVars, phase, op, h, seen, walk, wnext>>

(* ObKillProcess waits until nobody uses the table, sweeps it closing each *)
(* handle unless that is refused, and destroys the table with what is left *)
(* in it; another process gets a new one.                                  *)
Sweep(t) ==
    /\ \A u \in Threads : At(u, "idle")
    /\ BeginCall(t, 1, "sweep", "lock")
    /\ phase' = "swept"
    /\ UNCHANGED <<word, freeList, blockVars, tableLocals>>

DestroyTable ==
    /\ phase \in {"swept", "kept"}
    /\ \A u \in Threads : At(u, "idle")
    /\ phase' = "open"
    /\ word' = [x \in Handles |-> Closed]
    /\ freeList' = Handles
    /\ UNCHANGED <<blockVars, tpc, op, h, tableLocals>>

-----------------------------------------------------------------------------
(* What a thread does once its operation has begun *)
Step(t) ==
    \/ LockRead(t) \/ LockCas(t)
    \/ BlockLink(t) \/ BlockPush(t) \/ Relook(t)
    \/ WaitInitialize(t) \/ WaitBit(t) \/ Wake(t)
    \/ TakeStack(t) \/ WalkNext(t) \/ WalkReset(t) \/ WalkSignal(t)
    \/ WalkEndOwn(t) \/ WalkEndUnlock(t) \/ FreeEntry(t)
    \/ WriteEntry(t) \/ CheckEntry(t) \/ Unlock(t) \/ Destroy(t)

Start(t) ==
    \/ CreateHandle(t) \/ MapHandle(t) \/ ChangeHandle(t) \/ EnumHandles(t) \/ Sweep(t)

TableNext == DestroyTable \/ \E t \in Threads : Start(t) \/ Step(t)

TableSpec == TableInit /\ [][TableNext]_tableVars

-----------------------------------------------------------------------------
(* The blocks that can be reached from block b along the successors nx:    *)
(* those in every set that has b and, with a block, its successor.         *)
Reach(nx, b) ==
    {c \in Threads :
        \A S \in SUBSET Threads :
            b \in S \cup {NULL} /\ (\A d \in S : nx[d] \in S \cup {NULL}) => c \in S}

Chain(b) == Reach(next, b)

(* The blocks an unblocker took and has still to treat *)
Taken(t) ==
    CASE tpc[t] = "walk" -> Chain(walk[t])
      [] tpc[t] \in {"reset", "signal"} -> {walk[t]} \cup Chain(wnext[t])
      [] OTHER -> {}

Unblocking == {"exchange", "walk", "reset", "signal"}

(* t is in ExpBlockOnLockedHandleEntry and its block is published *)
Blocked(t) ==
    tpc[t] \in {"relook", "wait", "bit", "sleep"} \/ (tpc[t] \in Unblocking /\ after[t] = "retry")

HoldsEntry(t) == tpc[t] \in {"hold", "written"}

Labels == {"idle", "lock", "cas", "hold", "block", "push", "relook", "wait", "bit", "sleep",
           "check", "write", "written"} \cup Unblocking

TableTypeOK ==
    /\ word \in [Handles -> EntryValue]
    /\ freeList \subseteq Handles
    /\ head \in Threads \cup {NULL}
    /\ next \in [Threads -> Threads \cup {NULL}]
    /\ flag \in [Threads -> BOOLEAN]
    /\ event \in [Threads -> {"raw", "unset", "set"}]
    /\ phase \in {"open", "swept", "kept"}
    /\ tpc \in [Threads -> Labels]
    /\ op \in [Threads -> {"one", "enum", "sweep"}]
    /\ h \in [Threads -> Handles]
    /\ seen \in [Threads -> EntryValue]
    /\ walk \in [Threads -> Threads \cup {NULL}]
    /\ wnext \in [Threads -> Threads \cup {NULL}]
    /\ after \in [Threads -> {"done", "free", "retry"}]

(* If the free list gives out free entries only (HandleFreeList shows that *)
(* the code's list does not), then an entry that names an object and has   *)
(* its bit clear is held by exactly one thread, a free entry is closed,    *)
(* and what the ASSERTs of the code say holds: the unlock finds the bit    *)
(* clear (handle.c:900), the destroyed entry named an object and was       *)
(* locked (handle.c:987, 994-995), and no handle is left when the sweep is *)
(* over (obhandle.c:2185), this one only if the sweep met no refusal.      *)
EntriesGuarded ==
    /\ TableTypeOK
    /\ \A x \in Handles :
           /\ word[x] # Closed /\ ~word[x].bit
                  => \E t \in Threads : HoldsEntry(t) /\ h[t] = x
           /\ x \in freeList => word[x] = Closed
    /\ \A t \in Threads : HoldsEntry(t) =>
           /\ word[h[t]].object # NULL /\ ~word[h[t]].bit
           /\ \A u \in Threads \ {t} : HoldsEntry(u) => h[u] # h[t]
    /\ phase = "swept" /\ (\A t \in Threads : At(t, "idle")) => freeList = Handles

(* The wait blocks are on their threads' stacks: every block on the        *)
(* contention event, and every block an unblocker will still read, reset   *)
(* or signal, belongs to a thread that has not left                        *)
(* ExpBlockOnLockedHandleEntry; no block is on two lists; and the event of *)
(* a block is signalled only after its owner initialized it, and sleeps.   *)
(* This needs nothing of the free list.                                    *)
StackBlocksAlive ==
    /\ \A b \in Chain(head) : Blocked(b)
    /\ \A t \in Threads :
           /\ \A b \in Taken(t) : Blocked(b) /\ b \notin Chain(head)
           /\ \A u \in Threads \ {t} : Taken(t) \cap Taken(u) = {}
           /\ tpc[t] = "signal" => tpc[walk[t]] = "sleep" /\ event[walk[t]] = "unset"

(* No wakeup is lost between the two looks at the entry (handle.c:829-833) *)
(* or to a thread that another one's unblock left behind: a thread that    *)
(* decided to wait and was not woken yet is on the contention event or in  *)
(* an unblocker's hands, and if it is on the event while its entry is      *)
(* already unlocked or closed, somebody is about to take the event's list. *)
(* This, too, needs nothing of the free list.                              *)
NoLostWakeup ==
    \A t \in Threads :
        (tpc[t] \in {"wait", "bit"} /\ flag[t]) \/ (tpc[t] = "sleep" /\ event[t] # "set") =>
            \/ \E u \in Threads : t \in Taken(u)
            \/ /\ t \in Chain(head)
               /\ \/ word[h[t]] # Closed /\ ~word[h[t]].bit
                  \/ \E u \in Threads : At(u, "exchange")

(* With a sound free list, the entries, with their lock in the value, keep *)
(* what a handle table promises: one holder at a time, closed by its       *)
(* holder only, given out only when the closer gave it back.               *)
HeldBy(x) ==
    IF \E t \in Threads : HoldsEntry(t) /\ h[t] = x
    THEN CHOOSE t \in Threads : HoldsEntry(t) /\ h[t] = x
    ELSE NULL

S == INSTANCE HandleTableSpec WITH
        owner <- [x \in Handles |-> HeldBy(x)],
        open <- {x \in Handles : word[x].object # NULL},
        given <- Handles \ freeList,
        Nobody <- NULL

ImplementsHandleTable == S!Spec

=============================================================================
