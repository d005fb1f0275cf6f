------------------------- MODULE ConditionVariable -------------------------
(***************************************************************************)
(* Condition variables (dll/win32/ntdll_vista/condvar.c) on top of keyed    *)
(* events (KeyedEvent).                                                     *)
(*                                                                         *)
(* A sleeper puts an entry, which is on its stack, on the list, gives up    *)
(* the caller's lock and waits for a keyed event with the address of its    *)
(* entry as the key.  A wake goes through the list, oldest entry first, and *)
(* releases each key with a timeout of zero.  The list is protected by a    *)
(* lock bit in the pointer to its head, for which threads spin.            *)
(***************************************************************************)
EXTENDS KeyedEvent

\* A thread also names its OwnEntry, whose address is a key; NoEntry is NULL.
ASSUME EntryAssumption == Callers \subseteq Keys
NoEntry == NoKey

\* The threads that use a condition variable are of one process.
OneProcess == \A t, u \in Callers : Process[t] = Process[u]

VARIABLES entries,   \* the list, from its head (the newest entry); an entry is
                     \* named by the thread whose OwnEntry it is
          locked,    \* the thread that set COND_VAR_LOCKED_FLAG, or NoEntry
          handled,   \* OwnEntry.ListRemovalHandled
          holder,    \* who has the caller provided lock, or NoEntry
          at,        \* where each thread is; kpc says where in the kernel
          entry,     \* InternalWake: Entry
          all,       \* InternalWake: ReleaseAll
          remove,    \* the RemoveEntry that InternalUnlockCondVar is called with
          woken,     \* history: how many sleepers have met this wake of one
          asleep     \* history: who was on the list and in the kernel
                     \* when this wake of all got the lock

condVars == <<entries, locked, handled, holder, at, entry, all, remove,
              woken, asleep>>

CondInit == /\ entries = <<>>
            /\ locked = NoEntry
            /\ handled = [t \in Callers |-> FALSE]
            /\ holder = NoEntry
            /\ at = [t \in Callers |-> "idle"]
            /\ entry = [t \in Callers |-> NoEntry]
            /\ all = [t \in Callers |-> FALSE]
            /\ remove = [t \in Callers |-> NoEntry]
            /\ woken = [t \in Callers |-> 0]
            /\ asleep = [t \in Callers |-> {}]
            /\ KeyedInit

Entries == {entries[i] : i \in DOMAIN entries}

\* Where the entry of u is, and the list without it.
Place(u) == CHOOSE i \in DOMAIN entries : entries[i] = u
Unlinked(u) == Without(entries, Place(u))

CondGoto(t, from, to) == at[t] = from /\ at' = [at EXCEPT ![t] = to]

-----------------------------------------------------------------------------
(***************************************************************************)
(* The caller provided lock, a critical section or an SRW lock.            *)
(***************************************************************************)
AcquireLock(t) ==
    /\ at[t] = "idle"
    /\ holder = NoEntry
    /\ holder' = t
    /\ UNCHANGED <<entries, locked, handled, at, entry, all, remove, woken,
                   asleep, keyedVars>>

ReleaseLock(t) ==
    /\ at[t] = "idle"
    /\ holder = t
    /\ holder' = NoEntry
    /\ UNCHANGED <<entries, locked, handled, at, entry, all, remove, woken,
                   asleep, keyedVars>>

-----------------------------------------------------------------------------
(***************************************************************************)
(* InternalUnlockCondVar: RemoveEntry is taken off the list and its owner   *)
(* is told, which may be gone before the lock bit is cleared.              *)
(***************************************************************************)
RemoveEntry(t, from, to) ==
    /\ CondGoto(t, from, to)
    /\ entries' = IF remove[t] = NoEntry THEN entries ELSE Unlinked(remove[t])
    /\ handled' = [u \in Callers |-> handled[u] \/ u = remove[t]]
    /\ remove' = [remove EXCEPT ![t] = NoEntry]
    /\ UNCHANGED <<locked, holder, entry, all, woken, asleep, keyedVars>>

\* "Now unlock thread-safe"; the locals are dead from here on.
ClearFlag(t, from, to) ==
    /\ CondGoto(t, from, to)
    /\ locked' = NoEntry
    /\ woken' = [woken EXCEPT ![t] = 0]
    /\ asleep' = [asleep EXCEPT ![t] = {}]
    /\ all' = [all EXCEPT ![t] = FALSE]
    /\ entry' = [entry EXCEPT ![t] = NoEntry]
    /\ UNCHANGED <<entries, handled, holder, remove, keyedVars>>

-----------------------------------------------------------------------------
(***************************************************************************)
(* InternalSleep.                                                          *)
(***************************************************************************)
\* InternalLockCondVar(ConditionVariable, &OwnEntry, NULL)
LockInsert(t) ==
    /\ holder = t
    /\ locked = NoEntry
    /\ CondGoto(t, "idle", "inserted")
    /\ locked' = t
    /\ entries' = <<t>> \o entries
    /\ handled' = [handled EXCEPT ![t] = FALSE]
    /\ UNCHANGED <<holder, entry, all, remove, woken, asleep, keyedVars>>

UnlockInserted(t) == ClearFlag(t, "inserted", "drop")

\* "We can now drop the caller provided lock"
Drop(t) ==
    /\ CondGoto(t, "drop", "sleep")
    /\ holder' = NoEntry
    /\ UNCHANGED <<entries, locked, handled, entry, all, remove, woken, asleep,
                   keyedVars>>

\* NtWaitForKeyedEvent meets a release that has not timed out yet,
SleepMeets(t) ==
    /\ CondGoto(t, "sleep", "slept")
    /\ Meet(t, t, "wait")
    /\ woken' = [w \in Callers |->
                    IF entry[w] = t /\ ~all[w] THEN woken[w] + 1 ELSE woken[w]]
    /\ UNCHANGED <<entries, locked, handled, holder, entry, all, remove, asleep>>

\* or waits,
SleepWaits(t) ==
    /\ CondGoto(t, "sleep", "waiting")
    /\ Enlist(t, t, "wait")
    /\ UNCHANGED <<entries, locked, handled, holder, entry, all, remove, woken,
                   asleep>>

\* and returns.
Slept(t) ==
    /\ CondGoto(t, "waiting", "slept")
    /\ Restore(t)
    /\ UNCHANGED <<entries, locked, handled, holder, entry, all, remove, woken,
                   asleep>>

\* Mutant of CheckHandled: the entry is left to whoever wakes.
CheckHandledMutant(t) ==
    /\ CondGoto(t, "slept", "return")
    /\ UNCHANGED <<entries, locked, handled, holder, entry, all, remove, woken,
                   asleep, keyedVars>>

\* Whoever woke it may have removed the entry.
CheckHandled(t) ==
    /\ CondGoto(t, "slept", IF handled[t] THEN "return" ELSE "spin")
    /\ UNCHANGED <<entries, locked, handled, holder, entry, all, remove, woken,
                   asleep, keyedVars>>

\* InternalLockCondVar(ConditionVariable, NULL, &ListRemovalHandled): it gives
\* up when the flag is set while another thread has the lock,
SpinAbort(t) ==
    /\ CondGoto(t, "spin", "return")
    /\ locked # NoEntry
    /\ handled[t]
    /\ UNCHANGED <<entries, locked, handled, holder, entry, all, remove, woken,
                   asleep, keyedVars>>

\* and when there is nothing to lock;
SpinEmpty(t) ==
    /\ CondGoto(t, "spin", "return")
    /\ locked = NoEntry
    /\ entries = <<>>
    /\ UNCHANGED <<entries, locked, handled, holder, entry, all, remove, woken,
                   asleep, keyedVars>>

\* otherwise it gets the lock, and looks again.
SpinLock(t) ==
    /\ CondGoto(t, "spin", "leave")
    /\ locked = NoEntry
    /\ entries # <<>>
    /\ locked' = t
    /\ remove' = [remove EXCEPT ![t] = IF handled[t] THEN NoEntry ELSE t]
    /\ UNCHANGED <<entries, handled, holder, entry, all, woken, asleep, keyedVars>>

Leave(t) == RemoveEntry(t, "leave", "left")
UnlockLeft(t) == ClearFlag(t, "left", "return")

\* "Reacquire the caller provided lock": OwnEntry is gone from here on.
Reacquire(t) ==
    /\ CondGoto(t, "return", "idle")
    /\ holder = NoEntry
    /\ holder' = t
    /\ handled' = [handled EXCEPT ![t] = FALSE]
    /\ UNCHANGED <<entries, locked, entry, all, remove, woken, asleep, keyedVars>>

-----------------------------------------------------------------------------
(***************************************************************************)
(* InternalWake.  It does nothing when the list is empty.                  *)
(***************************************************************************)
IsAsleep(t) == IsListed(t) /\ at[t] = "waiting"

LockWake(t, a) ==
    /\ CondGoto(t, "idle", "release")
    /\ locked = NoEntry
    /\ entries # <<>>
    /\ locked' = t
    /\ all' = [all EXCEPT ![t] = a]
    /\ entry' = [entry EXCEPT ![t] = entries[Len(entries)]]
    /\ asleep' = [asleep EXCEPT ![t] = IF a THEN {u \in Entries : IsAsleep(u)} ELSE {}]
    /\ UNCHANGED <<entries, handled, holder, remove, woken, keyedVars>>

\* NextEntry: the one towards the head.
NextEntry(t) ==
    IF Place(entry[t]) = 1 THEN NoEntry ELSE entries[Place(entry[t]) - 1]

\* NtReleaseKeyedEvent finds the sleeper,
ReleaseMeets(t) ==
    /\ CondGoto(t, "release", "released")
    /\ Meet(t, entry[t], "release")
    /\ woken' = [woken EXCEPT ![t] = IF all[t] THEN @ ELSE @ + 1]
    /\ UNCHANGED <<entries, locked, handled, holder, entry, all, remove, asleep>>

\* or waits for no time at all,
ReleaseWaits(t) ==
    /\ CondGoto(t, "release", "zero")
    /\ Enlist(t, entry[t], "release")
    /\ UNCHANGED <<entries, locked, handled, holder, entry, all, remove, woken,
                   asleep>>

\* which is enough when the sleeper comes now.  Either way the status is one of
\* success, STATUS_TIMEOUT included (NT_SUCCESS), and the branch for "We failed
\* to wake a thread" is not taken.
Released(t) ==
    /\ CondGoto(t, "zero", "released")
    /\ Restore(t)
    /\ UNCHANGED <<entries, locked, handled, holder, entry, all, remove, woken,
                   asleep>>

\* "This is the list head. We can't remove it as easily as other entries".
KeepHead(t) ==
    /\ CondGoto(t, "released", "woke")
    /\ entry[t] = Head(entries)
    /\ remove' = [remove EXCEPT ![t] = entry[t]]
    /\ entry' = [entry EXCEPT ![t] = NoEntry]
    /\ UNCHANGED <<entries, locked, handled, holder, all, woken, asleep, keyedVars>>

\* Mutant of Unlink: the entry stays on the list.
UnlinkMutant(t) ==
    LET next == IF all[t] THEN NextEntry(t) ELSE NoEntry
    IN  /\ CondGoto(t, "released", IF next = NoEntry THEN "woke" ELSE "release")
        /\ entry[t] # Head(entries)
        /\ handled' = [handled EXCEPT ![entry[t]] = TRUE]
        /\ entry' = [entry EXCEPT ![t] = next]
        /\ UNCHANGED <<entries, locked, holder, all, remove, woken, asleep,
                       keyedVars>>

\* The entry is removed, and "We may not touch Entry after signaling this".
Unlink(t) ==
    LET next == IF all[t] THEN NextEntry(t) ELSE NoEntry
    IN  /\ CondGoto(t, "released", IF next = NoEntry THEN "woke" ELSE "release")
        /\ entry[t] # Head(entries)
        /\ entries' = Unlinked(entry[t])
        /\ handled' = [handled EXCEPT ![entry[t]] = TRUE]
        /\ entry' = [entry EXCEPT ![t] = next]
        /\ UNCHANGED <<locked, holder, all, remove, woken, asleep, keyedVars>>

RemoveHead(t) == RemoveEntry(t, "woke", "done")
UnlockWoke(t) == ClearFlag(t, "done", "idle")

-----------------------------------------------------------------------------
\* The keyed event, while a thread is in the kernel; both callers pass a
\* timeout, if the sleeper's caller wants one.
Kernel(t) == /\ Woken(t) \/ Unlist(t) \/ NotListed(t)
             /\ UNCHANGED condVars

Timeout(t) == Aborted(t) /\ UNCHANGED condVars

Sleeping(t) == \/ UnlockInserted(t) \/ Drop(t) \/ SleepMeets(t) \/ SleepWaits(t)
               \/ Slept(t) \/ CheckHandled(t) \/ SpinAbort(t) \/ SpinEmpty(t)
               \/ SpinLock(t) \/ Leave(t) \/ UnlockLeft(t)

Waking(t) == \/ ReleaseMeets(t) \/ ReleaseWaits(t) \/ Released(t)
             \/ KeepHead(t) \/ Unlink(t) \/ RemoveHead(t)
             \/ UnlockWoke(t) \/ (at[t] = "zero" /\ Timeout(t))

Begin(t) == LockInsert(t) \/ \E a \in BOOLEAN : LockWake(t, a)

CondNext == \E t \in Callers :
            \/ AcquireLock(t) \/ ReleaseLock(t) \/ Begin(t) \/ Reacquire(t)
            \/ Sleeping(t) \/ Waking(t) \/ Kernel(t)
            \/ (at[t] = "waiting" /\ Timeout(t))

CondSpec == CondInit /\ [][CondNext]_<<condVars, keyedVars>>

-----------------------------------------------------------------------------
Pcs == {"idle", "inserted", "drop", "sleep", "waiting", "slept", "spin", "leave",
        "left", "return", "release", "zero", "released", "woke", "done"}

CondTypeOK ==
    /\ entries \in Seq(Callers)
    /\ locked \in Callers \cup {NoEntry}
    /\ handled \in [Callers -> BOOLEAN]
    /\ holder \in Callers \cup {NoEntry}
    /\ at \in [Callers -> Pcs]
    /\ entry \in [Callers -> Callers \cup {NoEntry}]
    /\ all \in [Callers -> BOOLEAN]
    /\ remove \in [Callers -> Callers \cup {NoEntry}]
    /\ woken \in [Callers -> Nat]
    /\ asleep \in [Callers -> SUBSET Callers]
    /\ KeyedTypeOK

\* The stack frame of t with its OwnEntry is there.
HasFrame(t) == at[t] \in {"inserted", "drop", "sleep", "waiting", "slept",
                          "spin", "leave"}

\* No entry is used after its owner has returned: neither the ones on the list
\* nor the one a wake or an unlock holds, "since it may lie in invalid memory".
NoDangling ==
    /\ \A t \in Entries : HasFrame(t)
    /\ \A t \in Callers : /\ entry[t] # NoEntry => HasFrame(entry[t])
                          /\ remove[t] # NoEntry => HasFrame(remove[t])

\* InternalUnlockCondVar "assumes that RemoveEntry is on the list" (condvar.c:193),
\* and a flag that is set means that the entry is on it no more.
RemovedOnce ==
    /\ \A t \in Callers : remove[t] # NoEntry => remove[t] \in Entries
    /\ \A t \in Entries : ~handled[t]
    /\ \A t \in Callers : at[t] \in {"left", "return"} => t \notin Entries

\* Entries lie on the stacks of threads that come and go: each is on the list
\* while it may be found there, and is removed once.
EntriesSafe == CondTypeOK /\ NoDangling /\ RemovedOnce

\* "If ReleaseAll is zero on entry, one thread at most will be woken" (condvar.c:262):
\* one, although a release that has timed out may have been met.  A wake of all wakes
\* at least the threads that were on the list and in the kernel when it began: none of
\* them still waits when it ends.
WokenAsAsked ==
    \A w \in Callers :
        IF all[w] THEN at[w] = "woke" => \A t \in asleep[w] : ~IsAsleep(t)
                  ELSE woken[w] <= 1

\* "Wakeups happen in FIFO order" (condvar.c:263): the entry a wake is at is the
\* oldest one, however the releases before it ended.
FifoOrder ==
    \A w \in Callers : entry[w] # NoEntry =>
        entries # <<>> /\ entry[w] = entries[Len(entries)]

\* A wake of one wakes no second thread, a wake of all leaves nobody asleep who was
\* so when it began, and the oldest entry is always first.
WakesCorrect == WokenAsAsked /\ FifoOrder

\* "Otherwise all waiting threads are woken" (condvar.c:263): nobody sleeps when a wake
\* of all is done with the list.  The list is locked meanwhile, so that whoever sleeps
\* then had put its entry on it before.  What the code does is otherwise: a sleeper
\* that has dropped the caller's lock, but is not in NtWaitForKeyedEvent yet, misses
\* the release of zero timeout, loses its entry to "We've woken a thread" (condvar.c:319)
\* and sleeps where no later wake finds it.
AllAreWoken ==
    \A w, t \in Callers : all[w] /\ at[w] = "done" => ~IsAsleep(t)
=============================================================================
