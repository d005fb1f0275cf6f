--------------------------- MODULE HandleFreeList ---------------------------
(***************************************************************************)
(* The free entries of a handle table (ntoskrnl/ex/handle.c): a stack      *)
(* FirstFree that is popped and pushed by compare-exchange, a second stack *)
(* LastFree for entries freed meanwhile, which is moved to FirstFree when  *)
(* that is empty, and growth by one low-level table.  Four push locks are  *)
(* meant to keep an entry that somebody is about to pop from coming back   *)
(* under him.  One action is one access to shared memory.                  *)
(*                                                                         *)
(* A handle is its index; entry 0 of every low-level table is reserved.    *)
(* The push locks are reader-writer locks (PushLock shows that they are),  *)
(* and the locking and clearing of an open entry is one step (HandleTable  *)
(* models it).  StrictFIFO is FALSE, as for every table made by the code.  *)
(***************************************************************************)
EXTENDS Naturals

CONSTANTS
    Threads,
    LOW_LEVEL_ENTRIES,  \* entries of a low-level table
    MaxTables           \* bound: allocation of more tables fails

Index == 0 .. LOW_LEVEL_ENTRIES * MaxTables - 1
Handles == {x \in Index : x % LOW_LEVEL_ENTRIES # 0}
Locks == 0 .. 3

(* the first and the last handle of a low-level table that starts at index base *)
First(base) == base + 1
Last(base) == base + LOW_LEVEL_ENTRIES - 1

VARIABLES
    FirstFree, LastFree,    \* tops of the two stacks, 0 when empty
    nextFree,               \* NextFreeTableEntry
    entry,                  \* "closed", "locked" or "unlocked"
    pool,                   \* NextHandleNeedingPool
    shared, exclusive,      \* holders of HandleTableLock[i]
    pc, h, old, new         \* the threads and their locals

locks == <<shared, exclusive>>
vars == <<FirstFree, LastFree, nextFree, entry, pool, shared, exclusive, pc, h, old, new>>

NewLinks(base, last) ==
    [x \in First(base) .. Last(base) |-> IF x = Last(base) THEN last ELSE x + 1]

(* ExpAllocateHandleTable: one low-level table, all of it free *)
Init ==
    /\ FirstFree = First(0)
    /\ LastFree = 0
    /\ nextFree = [x \in Handles |-> IF x < LOW_LEVEL_ENTRIES THEN NewLinks(0, 0)[x] ELSE 0]
    /\ entry = [x \in Handles |-> "closed"]
    /\ pool = LOW_LEVEL_ENTRIES
    /\ shared = [i \in Locks |-> {}]
    /\ exclusive = [i \in Locks |-> {}]
    /\ pc = [t \in Threads |-> "idle"]
    /\ h = [t \in Threads |-> 0]
    /\ old = [t \in Threads |-> 0]
    /\ new = [t \in Threads |-> 0]

At(t, l) == pc[t] = l
Goto(t, l) == pc' = [pc EXCEPT ![t] = l]
Locked(i) == shared[i] # {} \/ exclusive[i] # {}

-----------------------------------------------------------------------------
(* ExpAllocateHandleTableEntry *)

ReadFirst(t) ==
    /\ At(t, "idle") \/ At(t, "alloc")
    /\ old' = [old EXCEPT ![t] = FirstFree]
    /\ Goto(t, IF FirstFree = 0 THEN "lock0" ELSE "lock")
    /\ UNCHANGED <<FirstFree, LastFree, nextFree, entry, pool, locks, h, new>>

AcquireShared(t) ==
    LET i == old[t] % 4 IN
    /\ At(t, "lock")
    /\ exclusive[i] = {}
    /\ shared' = [shared EXCEPT ![i] = @ \cup {t}]
    /\ Goto(t, "recheck")
    /\ UNCHANGED <<FirstFree, LastFree, nextFree, entry, pool, exclusive, h, old, new>>

ReleaseShared(t) ==
    shared' = [shared EXCEPT ![old[t] % 4] = @ \ {t}]

Recheck(t) ==
    /\ At(t, "recheck")
    /\ IF old[t] = FirstFree
       THEN Goto(t, "readnext") /\ UNCHANGED shared
       ELSE Goto(t, "alloc") /\ ReleaseShared(t)
    /\ UNCHANGED <<FirstFree, LastFree, nextFree, entry, pool, exclusive, h, old, new>>

ReadNext(t) ==
    /\ At(t, "readnext")
    /\ new' = [new EXCEPT ![t] = nextFree[old[t]]]
    /\ Goto(t, "pop")
    /\ UNCHANGED <<FirstFree, LastFree, nextFree, entry, pool, locks, h, old>>

Pop(t) ==
    /\ At(t, "pop")
    /\ IF FirstFree = old[t]
       THEN /\ FirstFree' = new[t]
            /\ h' = [h EXCEPT ![t] = old[t]]
            /\ Goto(t, "popped")
       ELSE Goto(t, "failed") /\ UNCHANGED <<FirstFree, h>>
    /\ UNCHANGED <<LastFree, nextFree, entry, pool, locks, old, new>>

PopRelease(t) ==
    /\ At(t, "popped") \/ At(t, "failed")
    /\ ReleaseShared(t)
    /\ Goto(t, IF At(t, "popped") THEN "write" ELSE "alloc")
    /\ new' = [new EXCEPT ![t] = 0]
    /\ UNCHANGED <<FirstFree, LastFree, nextFree, entry, pool, exclusive, h, old>>

(* No free entry: under lock 0, look again, move the freed ones or grow. *)
AcquireExclusive0(t) ==
    /\ At(t, "lock0")
    /\ ~Locked(0)
    /\ exclusive' = [exclusive EXCEPT ![0] = {t}]
    /\ Goto(t, "recheck0")
    /\ UNCHANGED <<FirstFree, LastFree, nextFree, entry, pool, shared, h, old, new>>

ReleaseExclusive0 == exclusive' = [exclusive EXCEPT ![0] = {}]

Recheck0(t) ==
    /\ At(t, "recheck0")
    /\ IF FirstFree # 0
       THEN Goto(t, "lock") /\ old' = [old EXCEPT ![t] = FirstFree] /\ ReleaseExclusive0
       ELSE Goto(t, "move") /\ UNCHANGED <<old, exclusive>>
    /\ UNCHANGED <<FirstFree, LastFree, nextFree, entry, pool, shared, h, new>>

(* ExpMoveFreeHandles *)
MoveTake(t) ==
    /\ At(t, "move")
    /\ LastFree' = 0
    /\ old' = [old EXCEPT ![t] = LastFree]
    /\ Goto(t, IF LastFree = 0 THEN "grow" ELSE "wait1")
    /\ UNCHANGED <<FirstFree, nextFree, entry, pool, locks, h, new>>

(* ExWaitOnPushLock for locks 1, 2 and 3 in turn *)
WaitLabel == <<"wait1", "wait2", "wait3", "install">>

MoveWait(t) ==
    \E i \in 1 .. 3 :
        /\ At(t, WaitLabel[i])
        /\ ~Locked(i)
        /\ Goto(t, WaitLabel[i + 1])
        /\ UNCHANGED <<FirstFree, LastFree, nextFree, entry, pool, locks, h, old, new>>

(* If something is on FirstFree again the exchange fails, which the code   *)
(* asserts it cannot (handle.c:641), and the entries taken are lost.       *)
MoveInstall(t) ==
    /\ At(t, "install")
    /\ IF FirstFree = 0
       THEN FirstFree' = old[t]
       ELSE UNCHANGED FirstFree
    /\ ReleaseExclusive0
    /\ Goto(t, "lock")
    /\ UNCHANGED <<LastFree, nextFree, entry, pool, shared, h, old, new>>

(* ExpAllocateHandleTableEntrySlow: a new low-level table, or failure *)
Grow(t) ==
    /\ At(t, "grow")
    /\ \/ /\ pool < LOW_LEVEL_ENTRIES * MaxTables
          /\ pool' = pool + LOW_LEVEL_ENTRIES
          /\ h' = [h EXCEPT ![t] = pool]
          /\ Goto(t, "link")
          /\ UNCHANGED exclusive
       \/ /\ Goto(t, "full")
          /\ ReleaseExclusive0
          /\ UNCHANGED <<pool, h>>
    /\ UNCHANGED <<FirstFree, LastFree, nextFree, entry, shared, old, new>>

GrowLink(t) ==
    /\ At(t, "link")
    /\ old' = [old EXCEPT ![t] = FirstFree]
    /\ nextFree' = [x \in Handles |-> IF x \in First(h[t]) .. Last(h[t])
                                      THEN NewLinks(h[t], FirstFree)[x]
                                      ELSE nextFree[x]]
    /\ Goto(t, "publish")
    /\ UNCHANGED <<FirstFree, LastFree, entry, pool, locks, h, new>>

GrowPublish(t) ==
    /\ At(t, "publish")
    /\ IF FirstFree = old[t]
       THEN /\ FirstFree' = First(h[t])
            /\ ReleaseExclusive0
            /\ h' = [h EXCEPT ![t] = 0]
            /\ Goto(t, "alloc")
       ELSE /\ Goto(t, "link")
            /\ UNCHANGED <<FirstFree, exclusive, h>>
    /\ UNCHANGED <<LastFree, nextFree, entry, pool, shared, old, new>>

(* The allocation fails if there is still no free entry. *)
GrowFailed(t) ==
    /\ At(t, "full")
    /\ old' = [old EXCEPT ![t] = FirstFree]
    /\ Goto(t, IF FirstFree = 0 THEN "idle" ELSE "lock")
    /\ UNCHANGED <<FirstFree, LastFree, nextFree, entry, pool, locks, h, new>>

-----------------------------------------------------------------------------
(* ExCreateHandle: write the entry, then set its bit.  The second word of  *)
(* the entry, a link while it is free, now holds the granted access, here  *)
(* 0 (no rights): a thread that reads another mask as a link only does     *)
(* worse.                                                                  *)
WriteEntry(t) ==
    /\ At(t, "write")
    /\ entry' = [entry EXCEPT ![h[t]] = "locked"]
    /\ nextFree' = [nextFree EXCEPT ![h[t]] = 0]
    /\ Goto(t, "written")
    /\ UNCHANGED <<FirstFree, LastFree, pool, locks, h, old, new>>

Unlock(t) ==
    /\ At(t, "written")
    /\ entry' = [entry EXCEPT ![h[t]] = "unlocked"]
    /\ h' = [h EXCEPT ![t] = 0]
    /\ Goto(t, "idle")
    /\ UNCHANGED <<FirstFree, LastFree, nextFree, pool, locks, old, new>>

-----------------------------------------------------------------------------
(* ExDestroyHandle and ExpFreeHandleTableEntry *)

Destroy(t) ==
    /\ At(t, "idle")
    /\ \E x \in Handles :
           /\ entry[x] = "unlocked"
           /\ entry' = [entry EXCEPT ![x] = "closed"]
           /\ h' = [h EXCEPT ![t] = x]
    /\ Goto(t, "choose")
    /\ UNCHANGED <<FirstFree, LastFree, nextFree, pool, locks, old, new>>

(* While the entry's lock is held it goes to FirstFree, else to LastFree. *)
ChooseList(t) ==
    /\ At(t, "choose")
    /\ Goto(t, IF Locked(h[t] % 4) THEN "freeFirst" ELSE "freeLast")
    /\ UNCHANGED <<FirstFree, LastFree, nextFree, entry, pool, locks, h, old, new>>

List(t) == IF pc[t] \in {"freeFirst", "pushFirst"} THEN FirstFree ELSE LastFree

FreeLink(t) ==
    /\ pc[t] \in {"freeFirst", "freeLast"}
    /\ old' = [old EXCEPT ![t] = List(t)]
    /\ nextFree' = [nextFree EXCEPT ![h[t]] = List(t)]
    /\ Goto(t, IF At(t, "freeFirst") THEN "pushFirst" ELSE "pushLast")
    /\ UNCHANGED <<FirstFree, LastFree, entry, pool, locks, h, new>>

FreePush(t) ==
    /\ pc[t] \in {"pushFirst", "pushLast"}
    /\ IF List(t) = old[t]
       THEN /\ IF At(t, "pushFirst")
               THEN FirstFree' = h[t] /\ UNCHANGED LastFree
               ELSE LastFree' = h[t] /\ UNCHANGED FirstFree
            /\ h' = [h EXCEPT ![t] = 0]
            /\ Goto(t, "idle")
       ELSE /\ Goto(t, IF At(t, "pushFirst") THEN "freeFirst" ELSE "freeLast")
            /\ UNCHANGED <<FirstFree, LastFree, h>>
    /\ UNCHANGED <<nextFree, entry, pool, locks, old, new>>

-----------------------------------------------------------------------------
Next ==
    \E t \in Threads :
        \/ ReadFirst(t) \/ AcquireShared(t) \/ Recheck(t) \/ ReadNext(t) \/ Pop(t) \/ PopRelease(t)
        \/ AcquireExclusive0(t) \/ Recheck0(t) \/ MoveTake(t) \/ MoveWait(t) \/ MoveInstall(t)
        \/ Grow(t) \/ GrowLink(t) \/ GrowPublish(t) \/ GrowFailed(t)
        \/ WriteEntry(t) \/ Unlock(t)
        \/ Destroy(t) \/ ChooseList(t) \/ FreeLink(t) \/ FreePush(t)

Spec == Init /\ [][Next]_vars

(* "Set the lock bit and make sure it wasn't earlier" (handle.c:897): the  *)
(* entry a new handle is written to is nobody else's.                      *)
EntryWasLocked ==
    \A t \in Threads : At(t, "written") => entry[h[t]] # "unlocked"
=============================================================================
