------------------------- MODULE HandleTableProofs -------------------------
(***************************************************************************)
(* Proofs about HandleTable, for any set of threads, any objects and any   *)
(* number of handles.                                                      *)
(*                                                                         *)
(* The invariant has two halves.  EInv is about the entries: who holds an  *)
(* entry, who keeps one that is off the free list and names no object yet  *)
(* or no longer, and what the sweep has left behind it.  It holds if the   *)
(* free list is sound.  It does not mention the wait blocks, so every step *)
(* of a thread that waits or wakes others keeps it (Moves).  BInv is about *)
(* the wait blocks and holds whatever the free list gives out: the lists   *)
(* run into no block twice and share no block (Lists), a block is on a     *)
(* list exactly while its thread has not left and has not been told        *)
(* (Blocks), and a thread that waits on the contention event has its entry *)
(* still locked or an unblocker about to take the list (Wakeups).  The     *)
(* steps that leave the lists alone keep BInv by one argument (OwnStep);   *)
(* the push, the exchange and the steps of the walk have one each.         *)
(*                                                                         *)
(* Lists are handled with no induction: Reach(nx, b) is the least set with *)
(* b that nx does not lead out of, and ReachStep, ReachSub and ReachSame   *)
(* follow from that alone.                                                 *)
(***************************************************************************)
EXTENDS HandleTable, TLAPS

(* A thread between taking an entry off the free list and naming an object *)
(* in it, or between clearing an entry and giving it back.                 *)
Keeps(t) == tpc[t] = "write" \/ after[t] = "free"

(* Types; an unblock that will free or look again is under way; an entry   *)
(* is locked by who saw it unlocked.                                       *)
Base ==
    /\ TableTypeOK
    /\ \A t \in Threads :
           /\ after[t] # "done" => tpc[t] \in Unblocking
           /\ tpc[t] = "idle" => op[t] = "one"
           /\ tpc[t] = "cas" => seen[t].bit

(* Nobody holds or keeps an entry that another thread holds or keeps. *)
Held ==
    \A t \in Threads :
        /\ HoldsEntry(t) => word[h[t]].object # NULL /\ ~word[h[t]].bit
        /\ Keeps(t) => word[h[t]] = Closed /\ h[t] \notin freeList
        /\ \A u \in Threads \ {t} :
               (HoldsEntry(t) /\ HoldsEntry(u)) \/ (Keeps(t) /\ Keeps(u)) => h[t] # h[u]

(* What an entry says of who holds or keeps it, the converse of Held. *)
Values ==
    \A x \in Handles :
        /\ word[x].bit => word[x].object # NULL
        /\ word[x] # Closed /\ ~word[x].bit => \E t \in Threads : HoldsEntry(t) /\ h[t] = x
        /\ x \in freeList => word[x] = Closed
        /\ x \notin freeList /\ word[x] = Closed => \E t \in Threads : Keeps(t) /\ h[t] = x

(* The thread that sweeps the table is alone, and has closed what is       *)
(* behind it if no close was refused.                                      *)
Sweeping ==
    /\ phase = "swept" /\ (\A t \in Threads : At(t, "idle")) => freeList = Handles
    /\ \A t \in Threads : phase # "open" => At(t, "idle") \/ op[t] = "sweep"
    /\ \A t \in Threads : op[t] = "sweep" =>
           /\ phase # "open"
           /\ \A u \in Threads \ {t} : At(u, "idle")
           /\ phase = "swept" => \A x \in 1 .. h[t] - 1 : x \in freeList
           /\ tpc[t] \in {"lock", "cas", "hold"} \cup Unblocking
           /\ tpc[t] = "cas" => word[h[t]] = seen[t]
           /\ tpc[t] \in Unblocking => after[t] = "free" \/ (phase = "kept" /\ after[t] = "done")

EInv == Base /\ Held /\ Values /\ Sweeping

-----------------------------------------------------------------------------
(* t's block is on the contention event or in an unblocker's hands. *)
Listed(t) == t \in Chain(head) \/ \E u \in Threads : t \in Taken(u)

(* Nobody has told t yet. *)
Untold(t) == flag[t] \/ (tpc[t] = "sleep" /\ event[t] = "unset")

(* The list from b comes back to no block. *)
Loopless(nx, b) == \A c \in Reach(nx, b) : c \notin Reach(nx, nx[c])

Walking == {"walk", "reset", "signal"}

(* The lists of blocks are sound, and no two share a block. *)
Lists ==
    /\ Loopless(next, head)
    /\ \A t \in Threads :
           /\ tpc[t] = "walk" => Loopless(next, walk[t])
           /\ tpc[t] \in {"reset", "signal"} =>
                  /\ walk[t] # NULL
                  /\ walk[t] \notin Chain(wnext[t])
                  /\ Loopless(next, wnext[t])
           /\ Taken(t) \cap Chain(head) = {}
           /\ \A u \in Threads \ {t} : Taken(t) \cap Taken(u) = {}

(* A block is listed as long as its thread has not been told, and what it is then. *)
Blocks ==
    \A t \in Threads :
        /\ Listed(t) <=> Blocked(t) /\ Untold(t)
        /\ tpc[t] = "push" => flag[t]
        /\ tpc[t] = "sleep" => ~flag[t] /\ event[t] # "raw"
        /\ tpc[t] = "bit" => event[t] = "unset"
        /\ tpc[t] = "signal" => tpc[walk[t]] = "sleep" /\ event[walk[t]] = "unset"

(* Nobody who waits on the event is forgotten; a thread that walks a list left none behind. *)
Wakeups ==
    \A t \in Threads :
        /\ tpc[t] \in Walking /\ after[t] = "retry" => t \notin Chain(head)
        /\ t \in Chain(head) /\ tpc[t] \in {"wait", "bit", "sleep"} =>
               \/ word[h[t]] # Closed /\ ~word[h[t]].bit
               \/ \E u \in Threads : At(u, "exchange")

BInv == Lists /\ Blocks /\ Wakeups

(* A closed entry is the one value with no object and a clear bit. *)
LEMMA ClosedIs ==
  /\ Closed \in EntryValue
  /\ Closed.object = NULL /\ ~Closed.bit
  /\ \A v \in EntryValue : v.bit \in BOOLEAN /\ (v = Closed <=> v.object = NULL /\ ~v.bit)
  <1>1. Closed \in EntryValue /\ Closed.object = NULL /\ Closed.bit = FALSE
    BY DEF Closed, EntryValue
  <1>2. ASSUME NEW v \in EntryValue
        PROVE  v.bit \in BOOLEAN /\ (v = Closed <=> v.object = NULL /\ ~v.bit)
    <2>1. v = [object |-> v.object, bit |-> v.bit] /\ v.bit \in BOOLEAN
      BY DEF EntryValue
    <2> QED BY <2>1 DEF Closed
  <1> QED BY <1>1, <1>2

(* What a thread does when it is through with an entry: it is idle, or at  *)
(* the next entry of its enumeration or sweep.                             *)
LEMMA NextHandleIs ==
  ASSUME Base, NEW t \in Threads, NEW stop \in BOOLEAN, NextHandle(t, stop)
  PROVE  /\ h' \in [Threads -> Handles] /\ op' \in [Threads -> {"one", "enum", "sweep"}]
         /\ tpc' = [tpc EXCEPT ![t] = tpc'[t]]
         /\ tpc'[t] \in {"idle", "check", "lock"}
         /\ \A u \in Threads \ {t} : h'[u] = h[u] /\ op'[u] = op[u]
         /\ tpc'[t] = "idle" => op'[t] = "one"
         /\ op'[t] = "sweep" => op[t] = "sweep" /\ tpc'[t] = "lock" /\ h'[t] = h[t] + 1
         /\ op[t] = "sweep" => op'[t] = "sweep" \/ (tpc'[t] = "idle" /\ (stop \/ h[t] = NHandles))
  <1> USE HandlesAssumption DEF NextHandle, TableGoto, Base, TableTypeOK, Handles
  <1>1. CASE op[t] = "one" \/ stop \/ h[t] = NHandles
    <2>1. 1 \in Handles
      OBVIOUS
    <2>2. /\ tpc' = [tpc EXCEPT ![t] = "idle"]
          /\ op' = [op EXCEPT ![t] = "one"]
          /\ h' = [h EXCEPT ![t] = 1]
      BY <1>1
    <2>3. h' \in [Threads -> Handles] /\ op' \in [Threads -> {"one", "enum", "sweep"}]
      BY <2>1, <2>2
    <2>4. tpc'[t] = "idle" /\ op'[t] = "one"
      BY <2>2
    <2>5. op[t] = "sweep" => stop \/ h[t] = NHandles
      BY <1>1
    <2> QED BY <2>2, <2>3, <2>4, <2>5
  <1>2. CASE ~(op[t] = "one" \/ stop \/ h[t] = NHandles)
    <2>1. h[t] + 1 \in Handles
       BY <1>2
    <2>2. /\ tpc' = [tpc EXCEPT ![t] = IF op[t] = "enum" THEN "check" ELSE "lock"]
          /\ h' = [h EXCEPT ![t] = h[t] + 1]
          /\ op' = op
       BY <1>2
    <2>3. h' \in [Threads -> Handles] /\ h'[t] = h[t] + 1
       BY <2>1, <2>2
    <2> QED BY <1>2, <2>2, <2>3
  <1> QED BY <1>1, <1>2

(* A new table satisfies Base. *)
LEMMA InitBase == TableInit => Base
  <1> SUFFICES ASSUME TableInit PROVE Base
    OBVIOUS
  <1> USE DEF TableInit
  <1>1. 1 \in Handles /\ "idle" \in Labels
    BY HandlesAssumption DEF Handles, Labels
  <1>2. flag \in [Threads -> BOOLEAN]
    BY Zenon
  <1> QED BY <1>1, <1>2, ClosedIs DEF Base, TableTypeOK

(* The steps of a thread in ExpBlockOnLockedHandleEntry or                 *)
(* ExfUnblockPushLock keep Base.                                           *)
LEMMA WaitingBase ==
  ASSUME Base, NEW t \in Threads,
         \/ BlockLink(t) \/ BlockPush(t) \/ Relook(t) \/ WaitInitialize(t) \/ WaitBit(t) \/ Wake(t)
         \/ TakeStack(t) \/ WalkNext(t) \/ WalkReset(t) \/ WalkSignal(t) \/ WalkEndOwn(t)
  PROVE  Base'
  <1> USE DEF TableGoto, At, blockVars, tableLocals
  <1>1. CASE BlockLink(t)
    BY <1>1 DEF BlockLink, Base, TableTypeOK, Labels, Unblocking
  <1>2. CASE BlockPush(t)
    <2>1. CASE head = next[t]
      BY <1>2, <2>1 DEF BlockPush, Base, TableTypeOK, Labels, Unblocking
    <2>2. CASE head # next[t]
      BY <1>2, <2>2 DEF BlockPush, Base, TableTypeOK, Labels, Unblocking
    <2> QED BY <2>1, <2>2
  <1>3. CASE Relook(t)
    <2>1. /\ tpc[t] = "relook"
          /\ UNCHANGED <<word, freeList, blockVars, phase, op, h, seen, walk, wnext>>
          /\ \/ tpc' = [tpc EXCEPT ![t] = "exchange"] /\ after' = [after EXCEPT ![t] = "retry"]
             \/ tpc' = [tpc EXCEPT ![t] = "wait"] /\ UNCHANGED after
      BY <1>3 DEF Relook
    <2> QED BY <2>1 DEF Base, TableTypeOK, Labels, Unblocking
  <1>4. CASE WaitInitialize(t)
    BY <1>4 DEF WaitInitialize, Base, TableTypeOK, Labels, Unblocking
  <1>5. CASE WaitBit(t)
    <2>1. CASE flag[t]
      <3>1. /\ tpc[t] = "bit"
            /\ flag' = [flag EXCEPT ![t] = FALSE] /\ tpc' = [tpc EXCEPT ![t] = "sleep"]
            /\ UNCHANGED <<word, freeList, head, event, next, phase, op, h, tableLocals>>
        BY <1>5, <2>1 DEF WaitBit
      <3> QED BY <3>1 DEF Base, TableTypeOK, Labels, Unblocking
    <2>2. CASE ~flag[t]
      BY <1>5, <2>2 DEF WaitBit, LeaveBlock, Base, TableTypeOK, Labels, Unblocking
    <2> QED BY <2>1, <2>2
  <1>6. CASE Wake(t)
    BY <1>6 DEF Wake, LeaveBlock, Base, TableTypeOK, Labels, Unblocking
  <1>7. CASE TakeStack(t)
    BY <1>7 DEF TakeStack, Base, TableTypeOK, Labels, Unblocking
  <1>8. CASE WalkNext(t)
    BY <1>8 DEF WalkNext, Base, TableTypeOK, Labels, Unblocking
  <1>9. CASE WalkReset(t)
    <2>1. CASE flag[walk[t]]
      <3>1. /\ tpc[t] = "reset"
            /\ flag' = [flag EXCEPT ![walk[t]] = FALSE] /\ Advance(t)
            /\ UNCHANGED <<word, freeList, head, event, next, phase, op, h, seen, after>>
        BY <1>9, <2>1 DEF WalkReset
      <3> QED BY <3>1 DEF Advance, Base, TableTypeOK, Labels, Unblocking
    <2>2. CASE ~flag[walk[t]]
      BY <1>9, <2>2 DEF WalkReset, Base, TableTypeOK, Labels, Unblocking
    <2> QED BY <2>1, <2>2
  <1>10. CASE WalkSignal(t)
    BY <1>10 DEF WalkSignal, Advance, Base, TableTypeOK, Labels, Unblocking
  <1>11. CASE WalkEndOwn(t)
    <2>1. /\ tpc[t] = "walk" /\ after[t] = "retry"
          /\ after' = [after EXCEPT ![t] = "done"]
          /\ UNCHANGED <<word, freeList, head, flag, phase, op, h, seen, walk, wnext>>
          /\ \/ tpc' = [tpc EXCEPT ![t] = "wait"] /\ UNCHANGED <<event, next>>
             \/ LeaveBlock(t)
      BY <1>11 DEF WalkEndOwn
    <2> QED BY <2>1 DEF LeaveBlock, Base, TableTypeOK, Labels, Unblocking
  <1> QED BY <1>1, <1>2, <1>3, <1>4, <1>5, <1>6, <1>7, <1>8, <1>9, <1>10, <1>11

(* A step that goes on with the next entry does, *)
LEMMA GoesOnBase ==
  ASSUME Base, NEW t \in Threads, NEW stop \in BOOLEAN, NextHandle(t, stop),
         freeList' \subseteq Handles, after' = [after EXCEPT ![t] = "done"],
         UNCHANGED <<word, blockVars, phase, seen, walk, wnext>>
  PROVE  Base'
  BY NextHandleIs DEF Base, TableTypeOK, Labels, Unblocking, blockVars

(* and one that begins a call, *)
LEMMA BeginBase ==
  ASSUME Base, NEW t \in Threads, NEW x \in Handles, NEW what \in {"one", "enum", "sweep"},
         NEW label \in {"lock", "check", "write"}, BeginCall(t, x, what, label),
         freeList' \subseteq Handles, phase' \in {"open", "swept"},
         UNCHANGED <<word, blockVars, tableLocals>>
  PROVE  Base'
  BY DEF BeginCall, At, TableGoto, Base, TableTypeOK, Labels, Unblocking, blockVars, tableLocals

(* as do the steps that read, lock, write or clear an entry. *)
LEMMA EntryBase ==
  ASSUME Base, NEW t \in Threads,
         \/ LockRead(t) \/ LockCas(t) \/ WriteEntry(t) \/ CheckEntry(t) \/ Unlock(t) \/ Destroy(t)
         \/ WalkEndUnlock(t) \/ FreeEntry(t)
  PROVE  Base'
  <1>0. /\ h[t] \in Handles /\ word \in [Handles -> EntryValue] /\ word[h[t]] \in EntryValue
        /\ tpc[t] \notin Unblocking => after = [after EXCEPT ![t] = "done"]
    BY DEF Base, TableTypeOK
  <1> USE DEF At, blockVars, tableLocals
  <1>1. CASE LockRead(t)
    <2>0. /\ tpc[t] = "lock" /\ UNCHANGED <<word, freeList, blockVars, phase, walk, wnext, after>>
          /\ tpc[t] \notin Unblocking
      BY <1>1 DEF LockRead, Unblocking
    <2>1. CASE word[h[t]].bit /\ seen' = [seen EXCEPT ![t] = word[h[t]]] /\ TableGoto(t, "cas") /\ UNCHANGED <<op, h>>
      BY <1>0, <2>0, <2>1 DEF TableGoto, Base, TableTypeOK, Labels, Unblocking
    <2>2. CASE NextHandle(t, FALSE) /\ UNCHANGED seen
      <3>1. after' = [after EXCEPT ![t] = "done"] /\ freeList' \subseteq Handles
        BY <1>0, <2>0 DEF Base, TableTypeOK
      <3> QED BY <2>0, <2>2, <3>1, GoesOnBase
    <2>3. CASE TableGoto(t, "block") /\ UNCHANGED <<op, h, seen>>
      BY <2>0, <2>3 DEF TableGoto, Base, TableTypeOK, Labels, Unblocking
    <2> QED BY <1>1, <2>1, <2>2, <2>3 DEF LockRead
  <1>2. CASE LockCas(t)
    <2>1. word' \in [Handles -> EntryValue]
      <3>1. [word[h[t]] EXCEPT !.bit = FALSE] \in EntryValue
        BY <1>0 DEF EntryValue
      <3> QED BY <1>0, <1>2, <3>1 DEF LockCas
    <2>2. /\ tpc[t] = "cas" /\ \E l \in {"hold", "block"} : tpc' = [tpc EXCEPT ![t] = l]
          /\ seen' = [seen EXCEPT ![t] = Closed]
          /\ UNCHANGED <<freeList, blockVars, phase, op, h, walk, wnext, after>>
      BY <1>2 DEF LockCas, TableGoto
    <2> QED BY <2>1, <2>2, ClosedIs DEF Base, TableTypeOK, Labels, Unblocking
  <1>3. CASE WriteEntry(t)
    <2>1. PICK o \in Objects : word' = [word EXCEPT ![h[t]] = [object |-> o, bit |-> FALSE]]
      BY <1>3 DEF WriteEntry
    <2>2. [object |-> o, bit |-> FALSE] \in EntryValue
      BY DEF EntryValue
    <2>3. word' \in [Handles -> EntryValue]
      BY <1>0, <2>1, <2>2
    <2> QED BY <1>3, <2>3 DEF WriteEntry, TableGoto, Base, TableTypeOK, Labels, Unblocking
  <1>4. CASE CheckEntry(t)
    <2>0. /\ tpc[t] = "check" /\ tpc[t] \notin Unblocking
          /\ UNCHANGED <<word, freeList, blockVars, phase, tableLocals>>
      BY <1>4 DEF CheckEntry, Unblocking
    <2>1. CASE TableGoto(t, "lock") /\ UNCHANGED <<op, h>>
      BY <2>0, <2>1 DEF TableGoto, Base, TableTypeOK, Labels, Unblocking
    <2>2. CASE NextHandle(t, FALSE)
      <3>1. after' = [after EXCEPT ![t] = "done"] /\ freeList' \subseteq Handles
        BY <1>0, <2>0 DEF Base, TableTypeOK
      <3> QED BY <2>0, <2>2, <3>1, GoesOnBase
    <2> QED BY <1>4, <2>1, <2>2 DEF CheckEntry
  <1>5. CASE Unlock(t)
    <2>1. [word[h[t]] EXCEPT !.bit = TRUE] \in EntryValue
      BY <1>0 DEF EntryValue
    <2>2. word' \in [Handles -> EntryValue] /\ phase' \in {"open", "swept", "kept"}
      BY <1>0, <1>5, <2>1 DEF Unlock, Base, TableTypeOK
    <2> QED BY <1>5, <2>2 DEF Unlock, TableGoto, Base, TableTypeOK, Labels, Unblocking
  <1>6. CASE Destroy(t)
    <2>1. word' \in [Handles -> EntryValue]
      BY <1>0, <1>6, ClosedIs DEF Destroy
    <2> QED BY <1>6, <2>1 DEF Destroy, TableGoto, Base, TableTypeOK, Labels, Unblocking
  <1>7. CASE WalkEndUnlock(t)
    <2>1. PICK result \in BOOLEAN : NextHandle(t, result)
      BY <1>7 DEF WalkEndUnlock
    <2>2. after' = [after EXCEPT ![t] = "done"] /\ freeList' \subseteq Handles
      BY <1>7 DEF WalkEndUnlock, Base, TableTypeOK
    <2> QED BY <1>7, <2>1, <2>2, GoesOnBase DEF WalkEndUnlock
  <1>8. CASE FreeEntry(t)
    <2>1. freeList' \subseteq Handles
      BY <1>0, <1>8 DEF FreeEntry, Base, TableTypeOK
    <2> QED BY <1>8, <2>1, GoesOnBase DEF FreeEntry
  <1> QED BY <1>1, <1>2, <1>3, <1>4, <1>5, <1>6, <1>7, <1>8

(* Base is inductive, whatever the free list gives out. *)
LEMMA NextBase == Base /\ [TableNext]_tableVars => Base'
  <1> SUFFICES ASSUME Base, [TableNext]_tableVars PROVE Base'
    OBVIOUS
  <1>1. CASE UNCHANGED tableVars
    BY <1>1 DEF tableVars, Base, TableTypeOK
  <1>2. CASE DestroyTable
    BY <1>2, ClosedIs DEF DestroyTable, At, Base, TableTypeOK, blockVars, tableLocals
  <1>3. ASSUME NEW t \in Threads, Start(t) PROVE Base'
    <2>0. freeList \subseteq Handles /\ 1 \in Handles
      BY HandlesAssumption DEF Base, TableTypeOK, Handles
    <2>1. CASE CreateHandle(t)
      <3>1. PICK x \in Handles : BeginCall(t, x, "one", "write") /\ freeList' = freeList \ {x}
        BY <2>0, <2>1 DEF CreateHandle
      <3> QED BY <2>0, <2>1, <3>1, BeginBase DEF CreateHandle, BeginCall
    <2>2. CASE MapHandle(t) \/ ChangeHandle(t)
      <3>1. PICK x \in Handles : BeginCall(t, x, "one", "lock")
        BY <2>2 DEF MapHandle, ChangeHandle
      <3> QED BY <2>0, <2>2, <3>1, BeginBase DEF MapHandle, ChangeHandle, BeginCall
    <2>3. CASE EnumHandles(t)
      BY <2>0, <2>3, BeginBase DEF EnumHandles, BeginCall
    <2>4. CASE Sweep(t)
      BY <2>0, <2>4, BeginBase DEF Sweep
    <2> QED BY <1>3, <2>1, <2>2, <2>3, <2>4 DEF Start
  <1>4. ASSUME NEW t \in Threads, Step(t) PROVE Base'
    BY <1>4, WaitingBase, EntryBase DEF Step
  <1> QED BY <1>1, <1>2, <1>3, <1>4 DEF TableNext

(* A thread that goes on with the next entry keeps EInv, if a sweep that   *)
(* met no refusal has freed this one.                                      *)
LEMMA GoesOn ==
  ASSUME EInv, Base', NEW t \in Threads, NEW stop \in BOOLEAN, NextHandle(t, stop),
         tpc[t] \in {"lock", "check", "walk"}, after[t] = "done",
         op[t] = "sweep" => (phase = "swept" => h[t] \in freeList) /\ ~stop,
         UNCHANGED <<word, freeList, blockVars, phase, tableLocals>>
  PROVE  EInv'
  <1> USE NextHandleIs DEF EInv
  <1>1. freeList \subseteq Handles
    BY DEF Base, TableTypeOK
  <1>2. Held'
    BY DEF Base, TableTypeOK, Held, HoldsEntry, Keeps, tableLocals
  <1>3. Values'
    <2>1. \A u \in Threads : /\ HoldsEntry(u) => HoldsEntry(u)' /\ h'[u] = h[u]
                             /\ Keeps(u) => Keeps(u)' /\ h'[u] = h[u]
      BY DEF Base, TableTypeOK, HoldsEntry, Keeps, tableLocals
    <2> QED BY <2>1 DEF Values
  <1>4. Sweeping'
    <2>1. CASE op'[t] = "sweep"
      <3>1. phase = "swept" => \A x \in 1 .. h'[t] - 1 : x \in freeList
        BY <2>1 DEF Base, TableTypeOK, Sweeping, Handles
      <3> QED BY <2>1, <3>1 DEF Base, TableTypeOK, Sweeping, At, Unblocking, tableLocals
    <2>2. CASE op[t] = "sweep" /\ op'[t] # "sweep"
      <3>1. tpc'[t] = "idle" /\ h[t] = NHandles
        BY <2>2
      <3>2. phase = "swept" => freeList = Handles
        <4>1. ASSUME phase = "swept", NEW x \in Handles PROVE x \in freeList
          BY <2>2, <3>1, <4>1, HandlesAssumption DEF Sweeping, Handles
        <4> QED BY <1>1, <4>1
      <3>3. \A u \in Threads : At(u, "idle")' /\ op'[u] # "sweep"
        <4>1. \A u \in Threads \ {t} : tpc[u] = "idle" /\ tpc'[u] = "idle" /\ op'[u] = "one"
          BY <2>2 DEF Base, TableTypeOK, Sweeping, At
        <4> QED BY <2>2, <3>1, <4>1 DEF At
      <3> QED BY <3>2, <3>3 DEF Sweeping
    <2>3. CASE op[t] # "sweep"
      BY <2>3 DEF Base, TableTypeOK, Sweeping, At, Unblocking, tableLocals
    <2> QED BY <2>1, <2>2, <2>3
  <1> QED BY <1>2, <1>3, <1>4

(* The first look of ExpLockHandleTableEntry keeps EInv. *)
LEMMA LockReadEntries ==
  ASSUME EInv, Base', NEW t \in Threads, LockRead(t)
  PROVE  EInv'
  <1>1. CASE /\ word[h[t]].bit
             /\ seen' = [seen EXCEPT ![t] = word[h[t]]]
             /\ TableGoto(t, "cas")
             /\ UNCHANGED <<op, h>>
    <2>0. tpc[t] = "lock" /\ UNCHANGED <<word, freeList, blockVars, phase, walk, wnext, after>>
      BY DEF LockRead, At
    <2> USE <1>1, <2>0 DEF EInv, TableGoto
    <2>2. Held'
      BY DEF Base, TableTypeOK, Held, HoldsEntry, Keeps
    <2>3. Values'
      BY DEF Base, TableTypeOK, Values, HoldsEntry, Keeps
    <2>4. Sweeping'
      BY DEF Base, TableTypeOK, Sweeping, At, Unblocking
    <2> QED BY <2>2, <2>3, <2>4
  <1>2. CASE /\ word[h[t]] = Closed
             /\ NextHandle(t, FALSE)
             /\ UNCHANGED seen
    <2>0. tpc[t] = "lock" /\ UNCHANGED <<word, freeList, blockVars, phase, walk, wnext, after>>
      BY DEF LockRead, At
    <2>1. op[t] = "sweep" => h[t] \in freeList
      <3>1. ASSUME op[t] = "sweep", h[t] \notin freeList PROVE FALSE
        <4>1. h[t] \in Handles
          BY DEF EInv, Base, TableTypeOK
        <4>2. PICK u \in Threads : Keeps(u) /\ h[u] = h[t]
          BY <1>2, <3>1, <4>1 DEF EInv, Values
        <4>3. u # t /\ ~At(u, "idle")
          BY <2>0, <4>2 DEF EInv, Base, Keeps, At, Unblocking
        <4> QED BY <3>1, <4>3 DEF EInv, Sweeping
      <3> QED BY <3>1
    <2>2. after[t] = "done"
      BY <2>0 DEF EInv, Base, Unblocking
    <2> QED BY <1>2, <2>0, <2>1, <2>2, GoesOn DEF tableLocals
  <1>3. CASE /\ ~word[h[t]].bit /\ word[h[t]] # Closed
             /\ TableGoto(t, "block")
             /\ UNCHANGED <<op, h, seen>>
    <2>0. tpc[t] = "lock" /\ UNCHANGED <<word, freeList, blockVars, phase, walk, wnext, after>>
      BY DEF LockRead, At
    <2> USE <1>3, <2>0 DEF EInv, TableGoto
    <2>2. Held'
      BY DEF Base, TableTypeOK, Held, HoldsEntry, Keeps
    <2>3. Values'
      BY DEF Base, TableTypeOK, Values, HoldsEntry, Keeps
    <2>4. Sweeping'
      <3>1. h[t] \in Handles
        BY DEF Base, TableTypeOK
      <3>2. PICK u \in Threads : HoldsEntry(u) /\ h[u] = h[t]
        BY <3>1 DEF Values
      <3>3. u # t /\ ~At(u, "idle")
        BY <3>2 DEF HoldsEntry, At
      <3> QED BY <3>3 DEF Base, TableTypeOK, Sweeping, At
    <2> QED BY <2>2, <2>3, <2>4
  <1> QED BY <1>1, <1>2, <1>3 DEF LockRead

Waiting == {"block", "push", "relook", "wait", "bit", "sleep"}

(* A thread that waits or unblocks neither holds nor takes an entry. *)
LEMMA Moves ==
  ASSUME EInv, Base', NEW t \in Threads, NEW l \in Waiting \cup Unblocking \cup {"lock"},
         tpc' = [tpc EXCEPT ![t] = l],
         tpc[t] \in Waiting \cup Unblocking,
         tpc[t] \in Unblocking => l \in Unblocking \/ after[t] = "retry",
         \A u \in Threads : /\ after'[u] = "free" <=> after[u] = "free"
                            /\ op[u] = "sweep" => after'[u] = after[u],
         UNCHANGED <<word, freeList, phase, op, h, seen>>
  PROVE  EInv'
  <1> USE DEF EInv
  <1>1. tpc \in [Threads -> Labels] /\ tpc[t] \in Labels
    BY DEF Base, TableTypeOK
  <1>2. \A u \in Threads : /\ HoldsEntry(u)' <=> HoldsEntry(u)
                           /\ Keeps(u)' <=> Keeps(u)
                           /\ tpc'[u] = "cas" <=> tpc[u] = "cas"
                           /\ At(u, "idle")' <=> At(u, "idle")
    BY <1>1 DEF HoldsEntry, Keeps, Waiting, Unblocking, At
  <1>3. Held'
    BY <1>2 DEF Held
  <1>4. Values'
    BY <1>2 DEF Values
  <1>5. Sweeping'
    <2>1. op[t] = "sweep" => tpc[t] \in Unblocking /\ after[t] # "retry" /\ l \in Unblocking
      BY DEF Sweeping, Waiting, Unblocking
    <2>2. \A u \in Threads : op[u] = "sweep" =>
             /\ tpc'[u] \in {"lock", "cas", "hold"} \cup Unblocking
             /\ tpc'[u] = "cas" => tpc[u] = "cas"
             /\ tpc'[u] \in Unblocking => after'[u] = after[u] /\ tpc[u] \in Unblocking
      BY <1>1, <2>1 DEF Sweeping, Unblocking
    <2> QED BY <1>2, <2>2 DEF Sweeping
  <1> QED BY <1>3, <1>4, <1>5

(* The steps of a thread that waits or unblocks leave the entries alone. *)
LEMMA WaitingEntries ==
  ASSUME EInv, Base', NEW t \in Threads,
         \/ BlockLink(t) \/ BlockPush(t) \/ Relook(t) \/ WaitInitialize(t) \/ WaitBit(t) \/ Wake(t)
         \/ TakeStack(t) \/ WalkNext(t) \/ WalkReset(t) \/ WalkSignal(t) \/ WalkEndOwn(t)
  PROVE  EInv'
  <1>0. Base /\ tpc \in [Threads -> Labels]
    BY DEF EInv, Base, TableTypeOK
  <1> USE <1>0 DEF TableGoto, At, blockVars, tableLocals
  <1>1. CASE BlockLink(t) \/ WaitInitialize(t)
    BY <1>1, Moves DEF BlockLink, WaitInitialize, Waiting, Unblocking
  <1>2. CASE BlockPush(t)
    <2>1. tpc' = [tpc EXCEPT ![t] = IF head = next[t] THEN "relook" ELSE "push"]
      BY <1>2 DEF BlockPush
    <2> QED BY <1>2, <2>1, Moves DEF BlockPush, Waiting, Unblocking
  <1>3. CASE Relook(t)
    <2>0. /\ tpc[t] = "relook"
          /\ UNCHANGED <<word, freeList, blockVars, phase, op, h, seen, walk, wnext>>
          /\ \/ tpc' = [tpc EXCEPT ![t] = "exchange"] /\ after' = [after EXCEPT ![t] = "retry"]
             \/ tpc' = [tpc EXCEPT ![t] = "wait"] /\ UNCHANGED after
      BY <1>3 DEF Relook
    <2>1. after[t] = "done" /\ op[t] # "sweep"
      BY <2>0 DEF EInv, Base, Sweeping, Unblocking
    <2>2. \A u \in Threads : /\ after'[u] = "free" <=> after[u] = "free"
                             /\ op[u] = "sweep" => after'[u] = after[u]
      BY <2>0, <2>1 DEF Base, TableTypeOK
    <2> QED BY <2>0, <2>2, Moves DEF Waiting, Unblocking
  <1>4. CASE WaitBit(t)
    <2>1. tpc' = [tpc EXCEPT ![t] = IF flag[t] THEN "sleep" ELSE "lock"]
      BY <1>4 DEF WaitBit, LeaveBlock
    <2> QED BY <1>4, <2>1, Moves DEF WaitBit, Waiting, Unblocking
  <1>5. CASE Wake(t)
    BY <1>5, Moves DEF Wake, LeaveBlock, Waiting, Unblocking
  <1>6. CASE TakeStack(t) \/ WalkNext(t) \/ WalkSignal(t)
    BY <1>6, Moves DEF TakeStack, WalkNext, WalkSignal, Advance, Unblocking
  <1>7. CASE WalkReset(t)
    <2>1. tpc' = [tpc EXCEPT ![t] = IF flag[walk[t]] THEN "walk" ELSE "signal"]
      BY <1>7 DEF WalkReset, Advance
    <2> QED BY <1>7, <2>1, Moves DEF WalkReset, Unblocking
  <1>8. CASE WalkEndOwn(t)
    <2>0. /\ tpc[t] = "walk" /\ after[t] = "retry"
          /\ after' = [after EXCEPT ![t] = "done"]
          /\ UNCHANGED <<word, freeList, head, flag, phase, op, h, seen, walk, wnext>>
          /\ tpc' = [tpc EXCEPT ![t] = IF flag[t] THEN "wait" ELSE "lock"]
      BY <1>8 DEF WalkEndOwn, LeaveBlock
    <2>1. op[t] # "sweep"
      BY <2>0 DEF EInv, Sweeping, Unblocking
    <2>2. \A u \in Threads : /\ after'[u] = "free" <=> after[u] = "free"
                             /\ op[u] = "sweep" => after'[u] = after[u]
      BY <2>0, <2>1 DEF Base, TableTypeOK
    <2> QED BY <2>0, <2>2, Moves DEF Waiting, Unblocking
  <1> QED BY <1>1, <1>2, <1>3, <1>4, <1>5, <1>6, <1>7, <1>8

(* The compare-exchange of ExpLockHandleTableEntry keeps EInv. *)
LEMMA LockCasEntries ==
  ASSUME EInv, Base', NEW t \in Threads, LockCas(t)
  PROVE  EInv'
  <1>0. /\ Base /\ tpc[t] = "cas" /\ seen[t].bit /\ h[t] \in Handles
        /\ word[h[t]] \in EntryValue
        /\ seen' = [seen EXCEPT ![t] = Closed]
        /\ UNCHANGED <<freeList, blockVars, phase, op, h, walk, wnext, after>>
    BY DEF LockCas, At, EInv, Base, TableTypeOK, Held
  <1>1. CASE word[h[t]] = seen[t]
    <2>1. /\ word' = [word EXCEPT ![h[t]].bit = FALSE]
          /\ tpc' = [tpc EXCEPT ![t] = "hold"]
      BY <1>1 DEF LockCas, TableGoto
    <2>2. /\ word' \in [Handles -> EntryValue]
          /\ \A x \in Handles \ {h[t]} : word'[x] = word[x]
          /\ word'[h[t]].object = word[h[t]].object /\ ~word'[h[t]].bit
      BY <1>0, <2>1 DEF Base, TableTypeOK, EntryValue
    <2>3. /\ word[h[t]].object # NULL /\ word'[h[t]] # Closed /\ word[h[t]] # Closed
          /\ word[h[t]].bit
      BY <1>0, <1>1, <2>2, ClosedIs DEF EInv, Values
    <2>5. Held'
      BY <1>0, <2>1, <2>2, <2>3 DEF EInv, Base, TableTypeOK, Held, HoldsEntry, Keeps
    <2>6. Values'
      <3>1. /\ HoldsEntry(t)' /\ h' = h
            /\ \A u \in Threads : (HoldsEntry(u) => HoldsEntry(u)') /\ (Keeps(u) => Keeps(u)')
        BY <1>0, <2>1 DEF Base, TableTypeOK, HoldsEntry, Keeps
      <3>2. ASSUME NEW x \in Handles \ {h[t]}
            PROVE /\ word'[x].bit => word'[x].object # NULL
                  /\ word'[x] # Closed /\ ~word'[x].bit => \E u \in Threads : HoldsEntry(u)' /\ h'[u] = x
                  /\ x \in freeList' => word'[x] = Closed
                  /\ x \notin freeList' /\ word'[x] = Closed => \E u \in Threads : Keeps(u)' /\ h'[u] = x
        BY <1>0, <2>2, <3>1 DEF EInv, Values
      <3>3. h[t] \notin freeList
        BY <1>0, <2>3 DEF EInv, Values
      <3> QED BY <1>0, <2>2, <2>3, <3>1, <3>2, <3>3 DEF Values
    <2>7. Sweeping'
      BY <1>0, <2>1 DEF EInv, Base, TableTypeOK, Sweeping, At, Unblocking
    <2> QED BY <2>5, <2>6, <2>7 DEF EInv
  <1>2. CASE word[h[t]] # seen[t]
    <2>1. word' = word /\ tpc' = [tpc EXCEPT ![t] = "block"]
      BY <1>2 DEF LockCas, TableGoto
    <2>3. Held'
      BY <1>0, <2>1 DEF EInv, Base, TableTypeOK, Held, HoldsEntry, Keeps
    <2>4. Values'
      BY <1>0, <2>1 DEF EInv, Base, TableTypeOK, Values, HoldsEntry, Keeps
    <2>5. Sweeping'
      BY <1>0, <1>2, <2>1 DEF EInv, Base, TableTypeOK, Sweeping, At, Unblocking
    <2> QED BY <2>3, <2>4, <2>5 DEF EInv
  <1> QED BY <1>1, <1>2

(* So does the return from an unlock, *)
LEMMA WalkEndUnlockEntries ==
  ASSUME EInv, Base', NEW t \in Threads, WalkEndUnlock(t)
  PROVE  EInv'
  <1>1. PICK result \in BOOLEAN : (op[t] = "sweep" => ~result) /\ NextHandle(t, result)
    BY DEF WalkEndUnlock
  <1>2. tpc[t] = "walk" /\ after[t] = "done" /\ UNCHANGED <<word, freeList, blockVars, phase, tableLocals>>
    BY DEF WalkEndUnlock, At
  <1>3. op[t] = "sweep" => phase = "kept"
    BY <1>2 DEF EInv, Sweeping, Unblocking
  <1> QED BY <1>1, <1>2, <1>3, GoesOn

(* the look of an enumeration, *)
LEMMA CheckEntryEntries ==
  ASSUME EInv, Base', NEW t \in Threads, CheckEntry(t)
  PROVE  EInv'
  <1>1. /\ tpc[t] = "check" /\ after[t] = "done" /\ op[t] # "sweep"
        /\ UNCHANGED <<word, freeList, blockVars, phase, tableLocals>>
    BY DEF CheckEntry, At, EInv, Base, Sweeping, Unblocking
  <1>2. CASE TableGoto(t, "lock") /\ UNCHANGED <<op, h>>
    <2> USE <1>1, <1>2 DEF TableGoto, EInv, tableLocals
    <2>2. Held'
      BY DEF Base, TableTypeOK, Held, HoldsEntry, Keeps
    <2>3. Values'
      BY DEF Base, TableTypeOK, Values, HoldsEntry, Keeps
    <2>4. Sweeping'
      BY DEF Base, TableTypeOK, Sweeping, At, Unblocking
    <2> QED BY <2>2, <2>3, <2>4
  <1>3. CASE NextHandle(t, FALSE)
    BY <1>1, <1>3, GoesOn
  <1> QED BY <1>2, <1>3 DEF CheckEntry

(* ExpFreeHandleTableEntry, *)
LEMMA FreeEntryEntries ==
  ASSUME EInv, Base', NEW t \in Threads, FreeEntry(t)
  PROVE  EInv'
  <1>0. /\ tpc[t] = "walk" /\ after[t] = "free" /\ h[t] \in Handles
        /\ freeList' = freeList \cup {h[t]}
        /\ after' = [after EXCEPT ![t] = "done"]
        /\ NextHandle(t, FALSE)
        /\ UNCHANGED <<word, blockVars, phase, seen, walk, wnext>>
    BY DEF FreeEntry, At, EInv, Base, TableTypeOK
  <1>1. word[h[t]] = Closed
    BY <1>0 DEF EInv, Held, Keeps
  <1>n. /\ h' \in [Threads -> Handles] /\ op' \in [Threads -> {"one", "enum", "sweep"}]
        /\ tpc' = [tpc EXCEPT ![t] = tpc'[t]]
        /\ tpc'[t] \in {"idle", "check", "lock"}
        /\ \A u \in Threads \ {t} : h'[u] = h[u] /\ op'[u] = op[u]
        /\ tpc'[t] = "idle" => op'[t] = "one"
        /\ op'[t] = "sweep" => op[t] = "sweep" /\ tpc'[t] = "lock" /\ h'[t] = h[t] + 1
        /\ op[t] = "sweep" => op'[t] = "sweep" \/ (tpc'[t] = "idle" /\ h[t] = NHandles)
    BY <1>0, NextHandleIs DEF EInv
  <1> USE <1>0, <1>n DEF EInv
  <1>3. Held'
    BY DEF Base, TableTypeOK, Held, HoldsEntry, Keeps
  <1>4. Values'
    <2>1. \A u \in Threads \ {t} : /\ HoldsEntry(u) => HoldsEntry(u)' /\ h'[u] = h[u]
                                   /\ Keeps(u) => Keeps(u)' /\ h'[u] = h[u]
      BY DEF Base, TableTypeOK, HoldsEntry, Keeps
    <2>2. ~HoldsEntry(t)
      BY DEF HoldsEntry
    <2> QED BY <1>1, <2>1, <2>2 DEF Values
  <1>5. Sweeping'
    <2>1. CASE op'[t] = "sweep"
      <3>1. phase = "swept" => \A x \in 1 .. h'[t] - 1 : x \in freeList'
        BY <2>1 DEF Base, TableTypeOK, Sweeping, Handles
      <3> QED BY <2>1, <3>1 DEF Base, TableTypeOK, Sweeping, At, Unblocking
    <2>2. CASE op[t] = "sweep" /\ op'[t] # "sweep"
      <3>1. tpc'[t] = "idle" /\ h[t] = NHandles
        BY <2>2
      <3>2. phase = "swept" => freeList' = Handles
        <4>1. ASSUME phase = "swept", NEW x \in Handles PROVE x \in freeList'
          BY <2>2, <3>1, <4>1, HandlesAssumption DEF Sweeping, Handles
        <4> QED BY <4>1 DEF Base, TableTypeOK
      <3> QED BY <2>2, <3>1, <3>2 DEF Base, TableTypeOK, Sweeping, At, Unblocking
    <2>3. CASE op[t] # "sweep"
      BY <2>3 DEF Base, TableTypeOK, Sweeping, At, Unblocking
    <2> QED BY <2>1, <2>2, <2>3
  <1> QED BY <1>3, <1>4, <1>5

(* the write of ExCreateHandle, *)
LEMMA WriteEntryEntries ==
  ASSUME EInv, Base', NEW t \in Threads, WriteEntry(t)
  PROVE  EInv'
  <1>0. /\ Base /\ tpc[t] = "write" /\ h[t] \in Handles
        /\ tpc' = [tpc EXCEPT ![t] = "written"]
        /\ UNCHANGED <<freeList, blockVars, phase, op, h, tableLocals>>
    BY DEF WriteEntry, At, TableGoto, EInv, Base, TableTypeOK
  <1>1. PICK o \in Objects : word' = [word EXCEPT ![h[t]] = [object |-> o, bit |-> FALSE]]
    BY DEF WriteEntry
  <1>2. /\ word' \in [Handles -> EntryValue]
        /\ \A x \in Handles \ {h[t]} : word'[x] = word[x]
        /\ word'[h[t]].object # NULL /\ ~word'[h[t]].bit
    <2> DEFINE new == [object |-> o, bit |-> FALSE]
    <2>1. new \in EntryValue /\ new.object # NULL /\ ~new.bit
      BY ObjectsAssumption DEF EntryValue
    <2>2. word' = [word EXCEPT ![h[t]] = new]
      BY <1>1
    <2> HIDE DEF new
    <2> QED BY <1>0, <2>1, <2>2 DEF Base, TableTypeOK
  <1>3. word[h[t]] = Closed /\ h[t] \notin freeList /\ word'[h[t]] # Closed
    BY <1>0, <1>2, ClosedIs DEF EInv, Held, Keeps
  <1>5. Held'
    <2>1. /\ h' = h /\ seen' = seen /\ freeList' = freeList
          /\ \A u \in Threads : /\ HoldsEntry(u)' <=> HoldsEntry(u) \/ u = t
                                /\ Keeps(u)' <=> Keeps(u) /\ u # t
                                /\ tpc'[u] = "cas" => tpc[u] = "cas"
      BY <1>0 DEF EInv, Base, TableTypeOK, HoldsEntry, Keeps, tableLocals, Unblocking
    <2>2. Keeps(t) /\ \A u \in Threads : HoldsEntry(u) => h[u] # h[t]
      BY <1>0, <1>3, ClosedIs DEF EInv, Held, Keeps
    <2>3. \A u \in Threads : u # t /\ (HoldsEntry(u) \/ Keeps(u)) => h[u] \in Handles /\ h[u] # h[t]
      BY <2>2 DEF EInv, Held, Base, TableTypeOK
    <2> QED BY <1>0, <1>2, <2>1, <2>2, <2>3 DEF EInv, Held
  <1>6. Values'
    <2>1. /\ HoldsEntry(t)' /\ h' = h
          /\ \A u \in Threads : (HoldsEntry(u) => HoldsEntry(u)') /\ (u # t /\ Keeps(u) => Keeps(u)')
      BY <1>0 DEF Base, TableTypeOK, HoldsEntry, Keeps, tableLocals
    <2>2. ASSUME NEW x \in Handles \ {h[t]}
          PROVE /\ word'[x].bit => word'[x].object # NULL
                /\ word'[x] # Closed /\ ~word'[x].bit => \E u \in Threads : HoldsEntry(u)' /\ h'[u] = x
                /\ x \in freeList' => word'[x] = Closed
                /\ x \notin freeList' /\ word'[x] = Closed => \E u \in Threads : Keeps(u)' /\ h'[u] = x
      BY <1>0, <1>2, <2>1 DEF EInv, Values
    <2> QED BY <1>0, <1>2, <1>3, <2>1, <2>2 DEF Values
  <1>7. Sweeping'
    BY <1>0 DEF EInv, Base, TableTypeOK, Sweeping, At, Unblocking, tableLocals
  <1> QED BY <1>5, <1>6, <1>7 DEF EInv

(* ExUnlockHandleTableEntry, *)
LEMMA UnlockEntries ==
  ASSUME EInv, Base', NEW t \in Threads, Unlock(t)
  PROVE  EInv'
  <1>0. /\ Base /\ HoldsEntry(t) /\ h[t] \in Handles /\ after[t] = "done"
        /\ word' = [word EXCEPT ![h[t]].bit = TRUE]
        /\ tpc' = [tpc EXCEPT ![t] = "exchange"]
        /\ phase' = IF op[t] = "sweep" THEN "kept" ELSE phase
        /\ UNCHANGED <<freeList, blockVars, op, h, tableLocals>>
    BY DEF Unlock, At, TableGoto, EInv, Base, TableTypeOK, HoldsEntry, Sweeping, Unblocking
  <1>1. /\ word[h[t]].object # NULL
        /\ \A u \in Threads \ {t} : HoldsEntry(u) => h[u] # h[t]
    BY <1>0 DEF EInv, Held
  <1>2. /\ word' \in [Handles -> EntryValue]
        /\ \A x \in Handles \ {h[t]} : word'[x] = word[x]
        /\ word'[h[t]].object # NULL /\ word'[h[t]].bit
    <2> DEFINE new == [word[h[t]] EXCEPT !.bit = TRUE]
    <2>1. word \in [Handles -> EntryValue] /\ h[t] \in Handles /\ word[h[t]] \in EntryValue
      BY <1>0 DEF Base, TableTypeOK
    <2>2. new \in EntryValue /\ new.object # NULL /\ new.bit
      BY <1>1, <2>1 DEF EntryValue
    <2>3. word' = [word EXCEPT ![h[t]] = new]
      BY <1>0
    <2> HIDE DEF new
    <2>4. /\ word' \in [Handles -> EntryValue] /\ word'[h[t]] = new
          /\ \A x \in Handles \ {h[t]} : word'[x] = word[x]
      BY <2>1, <2>2, <2>3
    <2> QED BY <2>2, <2>4
  <1>3. word[h[t]] # Closed /\ h[t] \notin freeList /\ word'[h[t]] # Closed
    BY <1>0, <1>1, <1>2, ClosedIs DEF EInv, Values
  <1>5. Held'
    <2>1. /\ h' = h /\ seen' = seen /\ freeList' = freeList
          /\ \A u \in Threads : /\ HoldsEntry(u)' <=> HoldsEntry(u) /\ u # t
                                /\ Keeps(u)' <=> Keeps(u)
                                /\ tpc'[u] = "cas" => tpc[u] = "cas"
      BY <1>0 DEF EInv, Base, TableTypeOK, HoldsEntry, Keeps, tableLocals, Unblocking
    <2>2. \A u \in Threads : u # t /\ (HoldsEntry(u) \/ Keeps(u)) => h[u] \in Handles /\ h[u] # h[t]
      BY <1>1, <1>3 DEF EInv, Held, Base, TableTypeOK
    <2>3. ~Keeps(t)
      BY <1>0 DEF Keeps, HoldsEntry
    <2> QED BY <1>0, <1>2, <2>1, <2>2, <2>3 DEF EInv, Held
  <1>6. Values'
    <2>1. /\ h' = h
          /\ \A u \in Threads : (u # t /\ HoldsEntry(u) => HoldsEntry(u)') /\ (Keeps(u) => Keeps(u)')
      BY <1>0 DEF Base, TableTypeOK, HoldsEntry, Keeps, tableLocals
    <2>2. ASSUME NEW x \in Handles \ {h[t]}
          PROVE /\ word'[x].bit => word'[x].object # NULL
                /\ word'[x] # Closed /\ ~word'[x].bit => \E u \in Threads : HoldsEntry(u)' /\ h'[u] = x
                /\ x \in freeList' => word'[x] = Closed
                /\ x \notin freeList' /\ word'[x] = Closed => \E u \in Threads : Keeps(u)' /\ h'[u] = x
      BY <1>0, <1>2, <2>1 DEF EInv, Values
    <2> QED BY <1>0, <1>2, <1>3, <2>1, <2>2 DEF Values
  <1>7. Sweeping'
    BY <1>0 DEF EInv, Base, TableTypeOK, Sweeping, HoldsEntry, At, Unblocking, tableLocals
  <1> QED BY <1>5, <1>6, <1>7 DEF EInv

(* the clearing of ExDestroyHandle, *)
LEMMA DestroyEntries ==
  ASSUME EInv, Base', NEW t \in Threads, Destroy(t)
  PROVE  EInv'
  <1>0. /\ Base /\ tpc[t] = "hold" /\ HoldsEntry(t) /\ h[t] \in Handles
        /\ word' = [word EXCEPT ![h[t]] = Closed]
        /\ after' = [after EXCEPT ![t] = "free"]
        /\ tpc' = [tpc EXCEPT ![t] = "exchange"]
        /\ UNCHANGED <<freeList, blockVars, phase, op, h, seen, walk, wnext>>
    BY DEF Destroy, At, TableGoto, EInv, Base, TableTypeOK, HoldsEntry
  <1>1. /\ word[h[t]] # Closed /\ h[t] \notin freeList
        /\ \A u \in Threads \ {t} : (HoldsEntry(u) => h[u] # h[t]) /\ (Keeps(u) => h[u] # h[t])
    BY <1>0, ClosedIs DEF EInv, Held, Values
  <1>2. /\ word' \in [Handles -> EntryValue]
        /\ \A x \in Handles \ {h[t]} : word'[x] = word[x]
        /\ word'[h[t]] = Closed
    BY <1>0, ClosedIs DEF Base, TableTypeOK
  <1>5. Held'
    BY <1>0, <1>1, <1>2 DEF EInv, Base, TableTypeOK, Held, HoldsEntry, Keeps
  <1>6. Values'
    <2>1. /\ h' = h /\ Keeps(t)'
          /\ \A u \in Threads : (u # t /\ HoldsEntry(u) => HoldsEntry(u)') /\ (Keeps(u) => Keeps(u)')
      BY <1>0 DEF Base, TableTypeOK, HoldsEntry, Keeps
    <2>2. ASSUME NEW x \in Handles \ {h[t]}
          PROVE /\ word'[x].bit => word'[x].object # NULL
                /\ word'[x] # Closed /\ ~word'[x].bit => \E u \in Threads : HoldsEntry(u)' /\ h'[u] = x
                /\ x \in freeList' => word'[x] = Closed
                /\ x \notin freeList' /\ word'[x] = Closed => \E u \in Threads : Keeps(u)' /\ h'[u] = x
      BY <1>0, <1>2, <2>1 DEF EInv, Values
    <2> QED BY <1>0, <1>1, <1>2, <2>1, <2>2, ClosedIs DEF Values
  <1>7. Sweeping'
    BY <1>0 DEF EInv, Base, TableTypeOK, Sweeping, At, Unblocking
  <1> QED BY <1>5, <1>6, <1>7 DEF EInv

(* the allocation of an entry from a sound free list, *)
LEMMA CreateHandleEntries ==
  ASSUME FreeListSound, EInv, Base', NEW t \in Threads, CreateHandle(t)
  PROVE  EInv'
  <1>1. PICK x \in freeList : BeginCall(t, x, "one", "write") /\ freeList' = freeList \ {x}
    BY DEF CreateHandle
  <1>0. /\ Base /\ tpc[t] = "idle" /\ phase = "open" /\ x \in Handles /\ after[t] = "done"
        /\ tpc' = [tpc EXCEPT ![t] = "write"]
        /\ h' = [h EXCEPT ![t] = x]
        /\ op' = [op EXCEPT ![t] = "one"]
        /\ UNCHANGED <<word, blockVars, phase, tableLocals>>
    BY <1>1 DEF CreateHandle, BeginCall, At, TableGoto, EInv, Base, TableTypeOK, Unblocking
  <1>2. word[x] = Closed /\ \A u \in Threads : Keeps(u) => h[u] # x
    BY <1>0, <1>1 DEF EInv, Values, Held
  <1>5. Held'
    BY <1>0, <1>1, <1>2 DEF EInv, Base, TableTypeOK, Held, HoldsEntry, Keeps, tableLocals
  <1>6. Values'
    <2>1. /\ Keeps(t)' /\ h'[t] = x /\ ~HoldsEntry(t) /\ ~Keeps(t)
          /\ \A u \in Threads \ {t} : (HoldsEntry(u) => HoldsEntry(u)') /\ (Keeps(u) => Keeps(u)') /\ h'[u] = h[u]
      BY <1>0 DEF Base, TableTypeOK, HoldsEntry, Keeps, tableLocals
    <2> QED BY <1>0, <1>1, <1>2, <2>1 DEF EInv, Values
  <1>7. Sweeping'
    BY <1>0 DEF EInv, Base, TableTypeOK, Sweeping, At, Unblocking, tableLocals
  <1> QED BY <1>5, <1>6, <1>7 DEF EInv

(* the start of another operation, *)
LEMMA StartEntries ==
  ASSUME EInv, Base', NEW t \in Threads, MapHandle(t) \/ ChangeHandle(t) \/ EnumHandles(t) \/ Sweep(t)
  PROVE  EInv'
  <1>1. PICK x \in Handles, what \in {"one", "enum", "sweep"}, label \in {"lock", "check"} :
             /\ BeginCall(t, x, what, label)
             /\ what = "sweep" => Sweep(t) /\ x = 1 /\ label = "lock"
    BY HandlesAssumption DEF MapHandle, ChangeHandle, EnumHandles, Sweep, Handles
  <1>0. /\ Base /\ tpc[t] = "idle" /\ phase = "open" /\ after[t] = "done"
        /\ tpc' = [tpc EXCEPT ![t] = label]
        /\ h' = [h EXCEPT ![t] = x]
        /\ op' = [op EXCEPT ![t] = what]
        /\ UNCHANGED <<word, freeList, blockVars, tableLocals>>
        /\ phase' \in {"open", "swept"}
        /\ phase' # phase => Sweep(t)
    BY <1>1 DEF MapHandle, ChangeHandle, EnumHandles, Sweep, BeginCall, At, TableGoto, EInv, Base, TableTypeOK, Unblocking
  <1>5. Held'
    BY <1>0, <1>1 DEF EInv, Base, TableTypeOK, Held, HoldsEntry, Keeps, tableLocals
  <1>6. Values'
    <2>1. /\ ~HoldsEntry(t) /\ ~Keeps(t)
          /\ \A u \in Threads \ {t} : (HoldsEntry(u) => HoldsEntry(u)') /\ (Keeps(u) => Keeps(u)') /\ h'[u] = h[u]
      BY <1>0 DEF Base, TableTypeOK, HoldsEntry, Keeps, tableLocals
    <2> QED BY <1>0, <2>1 DEF EInv, Values
  <1>7. Sweeping'
    <2>1. CASE what = "sweep"
      BY <1>0, <1>1, <2>1 DEF EInv, Base, TableTypeOK, Sweeping, Sweep, At, Unblocking, tableLocals
    <2>2. CASE what # "sweep"
      <3>1. phase' = "open"
        BY <1>0, <1>1, <2>2, HandlesAssumption DEF Sweep, BeginCall, Base, TableTypeOK
      <3> QED BY <1>0, <2>2, <3>1 DEF EInv, Base, TableTypeOK, Sweeping, At, Unblocking, tableLocals
    <2> QED BY <2>1, <2>2
  <1> QED BY <1>5, <1>6, <1>7 DEF EInv

(* and the end of the table. *)
LEMMA DestroyTableEntries ==
  ASSUME EInv, Base', DestroyTable
  PROVE  EInv'
  <1> USE DEF EInv, DestroyTable, At, tableLocals
  <1>2. \A t \in Threads : ~HoldsEntry(t)' /\ ~Keeps(t)' /\ tpc'[t] = "idle" /\ op'[t] = "one"
    BY DEF Base, HoldsEntry, Keeps, Unblocking
  <1>3. Held' /\ Sweeping'
    BY <1>2 DEF Held, Sweeping
  <1>4. Values'
    BY ClosedIs DEF Values
  <1> QED BY <1>3, <1>4

(* A new table satisfies EInv. *)
LEMMA InitEntries == TableInit => EInv
  <1> SUFFICES ASSUME TableInit PROVE EInv
    OBVIOUS
  <1>1. Base
    BY InitBase
  <1> USE DEF TableInit
  <1>2. Held /\ Sweeping
    BY DEF Held, Sweeping, HoldsEntry, Keeps
  <1>3. Values
    BY ClosedIs DEF Values
  <1> QED BY <1>1, <1>2, <1>3 DEF EInv

(* EInv is inductive, if the free list is sound. *)
LEMMA NextEntries == FreeListSound /\ EInv /\ [TableNext]_tableVars => EInv'
  <1> SUFFICES ASSUME FreeListSound, EInv, [TableNext]_tableVars PROVE EInv'
    OBVIOUS
  <1>0. Base'
    BY NextBase DEF EInv
  <1>1. CASE UNCHANGED tableVars
    BY <1>1 DEF tableVars, EInv, Base, TableTypeOK, Held, Values, Sweeping, HoldsEntry, Keeps, At
  <1>2. ASSUME NEW t \in Threads, Start(t) PROVE EInv'
    BY <1>0, <1>2, CreateHandleEntries, StartEntries DEF Start
  <1>3. ASSUME NEW t \in Threads, Step(t) PROVE EInv'
    BY <1>0, <1>3, LockReadEntries, LockCasEntries, WaitingEntries, WalkEndUnlockEntries,
       FreeEntryEntries, WriteEntryEntries, CheckEntryEntries, UnlockEntries, DestroyEntries DEF Step
  <1> QED BY <1>0, <1>1, <1>2, <1>3, DestroyTableEntries DEF TableNext

-----------------------------------------------------------------------------
(* Reach is a set of blocks, *)
LEMMA ReachIn ==
  ASSUME NEW nx, NEW b PROVE Reach(nx, b) \subseteq Threads
  BY DEF Reach

(* empty for an empty list; *)
LEMMA ReachNull ==
  ASSUME NEW nx PROVE Reach(nx, NULL) = {}
  <1>1. {} \in SUBSET Threads /\ NULL \in {} \cup {NULL}
    OBVIOUS
  <1> QED BY <1>1 DEF Reach

Links == [Threads -> Threads \cup {NULL}]

(* it is not left by a successor; *)
LEMMA ReachNext ==
  ASSUME NEW nx \in Links, NEW b \in Threads \cup {NULL}, NEW c \in Reach(nx, b)
  PROVE  nx[c] \in Reach(nx, b) \cup {NULL}
  <1> SUFFICES ASSUME nx[c] # NULL PROVE nx[c] \in Reach(nx, b)
    OBVIOUS
  <1>1. c \in Threads /\ nx[c] \in Threads
    BY ReachIn DEF Links
  <1>2. ASSUME NEW T \in SUBSET Threads, b \in T \cup {NULL},
               \A d \in T : nx[d] \in T \cup {NULL}
        PROVE  nx[c] \in T
    <2>1. c \in T
      BY <1>2 DEF Reach
    <2> QED BY <1>2, <2>1
  <1> QED BY <1>1, <1>2 DEF Reach

(* it is the first block and what its successor reaches; *)
LEMMA ReachStep ==
  ASSUME NEW nx \in Links, NEW b \in Threads
  PROVE  Reach(nx, b) = {b} \cup Reach(nx, nx[b])
  <1>0. b # NULL /\ nx[b] \in Threads \cup {NULL}
    BY NullAssumption DEF Links
  <1>1. b \in Reach(nx, b)
    BY <1>0 DEF Reach
  <1>2. ASSUME NEW c \in Reach(nx, nx[b]) PROVE c \in Reach(nx, b)
    <2>1. ASSUME NEW T \in SUBSET Threads, b \in T \cup {NULL},
                 \A d \in T : nx[d] \in T \cup {NULL}
          PROVE  c \in T
      <3>1. b \in T
        BY <1>0, <2>1
      <3>2. nx[b] \in T \cup {NULL}
        BY <2>1, <3>1
      <3> QED BY <2>1, <3>2 DEF Reach
    <2> QED BY <2>1, ReachIn DEF Reach
  <1>3. ASSUME NEW c \in Reach(nx, b), c # b PROVE c \in Reach(nx, nx[b])
    <2>1. ASSUME NEW T \in SUBSET Threads, nx[b] \in T \cup {NULL},
                 \A d \in T : nx[d] \in T \cup {NULL}
          PROVE  c \in T
      <3>1. /\ T \cup {b} \in SUBSET Threads /\ b \in (T \cup {b}) \cup {NULL}
            /\ \A d \in T \cup {b} : nx[d] \in (T \cup {b}) \cup {NULL}
        BY <2>1
      <3>2. c \in T \cup {b}
        BY <3>1 DEF Reach
      <3> QED BY <1>3, <3>2
    <2> QED BY <2>1, ReachIn DEF Reach
  <1> QED BY <1>1, <1>2, <1>3

(* a block on the list reaches nothing else; *)
LEMMA ReachSub ==
  ASSUME NEW nx \in Links, NEW b \in Threads \cup {NULL}, NEW c \in Reach(nx, b)
  PROVE  Reach(nx, nx[c]) \subseteq Reach(nx, b)
  <1>1. nx[c] \in Reach(nx, b) \cup {NULL}
    BY ReachNext
  <1>2. Reach(nx, b) \in SUBSET Threads /\ \A d \in Reach(nx, b) : nx[d] \in Reach(nx, b) \cup {NULL}
    BY ReachIn, ReachNext
  <1> QED BY <1>1, <1>2 DEF Reach

(* and it depends on the successors of its own blocks only. *)
LEMMA ReachSame ==
  ASSUME NEW m \in Links, NEW n \in Links, NEW b \in Threads \cup {NULL},
         \A c \in Reach(m, b) : n[c] = m[c]
  PROVE  Reach(n, b) = Reach(m, b)
  <1>1. ASSUME NEW c \in Reach(m, b) PROVE c \in Reach(n, b)
    <2>1. ASSUME NEW T \in SUBSET Threads, b \in T \cup {NULL},
                 \A d \in T : n[d] \in T \cup {NULL}
          PROVE  c \in T
      <3> DEFINE U == T \cap Reach(m, b)
      <3>1. U \in SUBSET Threads /\ b \in U \cup {NULL}
        <4>1. b # NULL => b \in Reach(m, b)
          BY ReachStep
        <4> QED BY <2>1, <4>1
      <3>2. \A d \in U : m[d] \in U \cup {NULL}
        BY <2>1, ReachNext
      <3>3. c \in U
        BY <3>1, <3>2 DEF Reach
      <3> QED BY <3>3
    <2> QED BY <2>1, ReachIn DEF Reach
  <1>2. ASSUME NEW c \in Reach(n, b) PROVE c \in Reach(m, b)
    <2>1. Reach(m, b) \in SUBSET Threads /\ b \in Reach(m, b) \cup {NULL}
      BY ReachIn, ReachStep
    <2>2. \A d \in Reach(m, b) : n[d] \in Reach(m, b) \cup {NULL}
      BY ReachNext
    <2> QED BY <2>1, <2>2 DEF Reach
  <1> QED BY <1>1, <1>2

(* So does whether the list comes back to a block. *)
LEMMA LooplessSame ==
  ASSUME NEW m \in Links, NEW n \in Links, NEW b \in Threads \cup {NULL},
         \A c \in Reach(m, b) : n[c] = m[c], Loopless(m, b)
  PROVE  Loopless(n, b)
  <1>1. Reach(n, b) = Reach(m, b)
    BY ReachSame
  <1>2. ASSUME NEW c \in Reach(m, b) PROVE c \notin Reach(n, n[c])
    <2>1. n[c] = m[c] /\ m[c] \in Threads \cup {NULL}
      BY ReachIn DEF Links
    <2>2. Reach(m, m[c]) \subseteq Reach(m, b)
      BY ReachSub
    <2>3. Reach(n, n[c]) = Reach(m, m[c])
      BY <2>1, <2>2, ReachSame
    <2> QED BY <2>3 DEF Loopless
  <1> QED BY <1>1, <1>2 DEF Loopless

(* The rest of a list without loops has none, *)
LEMMA LooplessTail ==
  ASSUME NEW nx \in Links, NEW b \in Threads, Loopless(nx, b)
  PROVE  b \notin Reach(nx, nx[b]) /\ Loopless(nx, nx[b])
  BY ReachStep DEF Loopless

(* and a new block before it makes none. *)
LEMMA LooplessHead ==
  ASSUME NEW nx \in Links, NEW b \in Threads, b \notin Reach(nx, nx[b]), Loopless(nx, nx[b])
  PROVE  Loopless(nx, b)
  BY ReachStep DEF Loopless

(* t has no taken blocks. *)
EmptyHanded(t) == tpc[t] \notin Walking \/ (tpc[t] = "walk" /\ walk[t] = NULL)

(* The blocks in t's hands, by where it is. *)
LEMMA TakenIs ==
  ASSUME NEW t \in Threads
  PROVE  /\ tpc[t] = "walk" => Taken(t) = Reach(next, walk[t])
         /\ tpc[t] \in {"reset", "signal"} => Taken(t) = {walk[t]} \cup Reach(next, wnext[t])
         /\ EmptyHanded(t) => Taken(t) = {}
  BY ReachNull DEF Taken, Chain, EmptyHanded, Walking

(* A step that moves no list and changes no listed block's successor keeps *)
(* the lists.                                                              *)
LEMMA ListsKept ==
  ASSUME Base, Base', Lists,
         UNCHANGED <<head, walk, wnext>>,
         \A c \in Threads : Listed(c) => next'[c] = next[c],
         \A u \in Threads : tpc'[u] = tpc[u] \/ (EmptyHanded(u) /\ EmptyHanded(u)')
  PROVE  /\ Lists' /\ Chain(head)' = Chain(head)
         /\ \A u \in Threads : Taken(u)' = Taken(u) /\ (Listed(u)' <=> Listed(u))
  <1>0. /\ next \in Links /\ next' \in Links /\ head \in Threads \cup {NULL}
        /\ \A u \in Threads : walk[u] \in Threads \cup {NULL} /\ wnext[u] \in Threads \cup {NULL}
    BY DEF Base, TableTypeOK, Links
  <1>1. Reach(next', head) = Reach(next, head) /\ Loopless(next', head)
    <2>1. \A c \in Reach(next, head) : next'[c] = next[c]
      BY ReachIn DEF Listed, Chain
    <2>2. Loopless(next, head)
      BY DEF Lists
    <2> QED BY <1>0, <2>1, <2>2, ReachSame, LooplessSame
  <1>2. ASSUME NEW u \in Threads, ~EmptyHanded(u)
        PROVE  /\ tpc'[u] = tpc[u]
               /\ tpc[u] = "walk" =>
                      Reach(next', walk[u]) = Reach(next, walk[u]) /\ Loopless(next', walk[u])
               /\ tpc[u] \in {"reset", "signal"} =>
                      Reach(next', wnext[u]) = Reach(next, wnext[u]) /\ Loopless(next', wnext[u])
    <2>1. \A c \in Taken(u) \cap Threads : next'[c] = next[c]
      BY DEF Listed
    <2>2. CASE tpc[u] = "walk"
      <3>1. \A c \in Reach(next, walk[u]) : next'[c] = next[c]
        BY <2>1, <2>2, ReachIn, TakenIs
      <3>2. Loopless(next, walk[u])
        BY <2>2 DEF Lists
      <3> QED BY <1>0, <1>2, <2>2, <3>1, <3>2, ReachSame, LooplessSame
    <2>3. CASE tpc[u] \in {"reset", "signal"}
      <3>1. \A c \in Reach(next, wnext[u]) : next'[c] = next[c]
        BY <2>1, <2>3, ReachIn, TakenIs
      <3>2. Loopless(next, wnext[u])
        BY <2>3 DEF Lists
      <3> QED BY <1>0, <1>2, <2>3, <3>1, <3>2, ReachSame, LooplessSame
    <2> QED BY <1>2, <2>2, <2>3 DEF EmptyHanded, Walking
  <1>3. ASSUME NEW u \in Threads PROVE Taken(u)' = Taken(u)
    <2>1. CASE ~EmptyHanded(u)
      BY <1>2, <2>1 DEF Taken, Chain
    <2>2. CASE EmptyHanded(u)
      <3>1. EmptyHanded(u)'
        BY <2>2 DEF EmptyHanded
      <3>2. Taken(u)' = {}
        BY <3>1, ReachNull DEF Taken, Chain, EmptyHanded, Walking
      <3> QED BY <2>2, <3>2, TakenIs
    <2> QED BY <2>1, <2>2
  <1>4. Chain(head)' = Chain(head)
    BY <1>1 DEF Chain
  <1>5. ASSUME NEW u \in Threads
        PROVE  /\ tpc'[u] = "walk" => Loopless(next', walk'[u])
               /\ tpc'[u] \in {"reset", "signal"} =>
                  /\ walk'[u] # NULL
                  /\ walk'[u] \notin Reach(next', wnext'[u])
                  /\ Loopless(next', wnext'[u])
    <2>1. CASE EmptyHanded(u)'
      <3>1. Loopless(next', NULL)
        BY ReachNull DEF Loopless
      <3> QED BY <2>1, <3>1 DEF EmptyHanded, Walking
    <2>2. CASE ~EmptyHanded(u)' 
      <3>1. tpc'[u] = tpc[u] /\ ~EmptyHanded(u)
        BY <2>2 DEF EmptyHanded
      <3> QED BY <1>2, <3>1 DEF Lists, Chain
    <2> QED BY <2>1, <2>2
  <1>6. Lists'
    BY <1>1, <1>3, <1>4, <1>5 DEF Lists, Chain
  <1> QED BY <1>3, <1>4, <1>6 DEF Listed

(* Somebody holds the entry of x. *)
Locked(x) == word[x] # Closed /\ ~word[x].bit

(* A step of t that leaves the other threads and their blocks alone. *)
SameElsewhere(t) ==
    \A u \in Threads \ {t} :
        /\ tpc'[u] = tpc[u] /\ after'[u] = after[u] /\ h'[u] = h[u]
        /\ next'[u] = next[u] /\ flag'[u] = flag[u] /\ event'[u] = event[u]

(* A step of a thread that moves no list, and changes at most its own      *)
(* block, keeps BInv if its own block stays listed exactly while it should *)
(* be.                                                                     *)
LEMMA OwnStep ==
  ASSUME Base, Base', BInv, NEW t \in Threads,
         UNCHANGED <<head, walk, wnext>>, SameElsewhere(t),
         EmptyHanded(t), tpc[t] # "exchange", tpc'[t] \notin Walking,
         ~(tpc[t] = "sleep" /\ event[t] = "unset"),
         Listed(t) => next'[t] = next[t],
         Blocked(t)' /\ Untold(t)' <=> Blocked(t) /\ Untold(t),
         tpc'[t] = "push" => flag'[t],
         tpc'[t] = "sleep" => ~flag'[t] /\ event'[t] # "raw",
         tpc'[t] = "bit" => event'[t] = "unset",
         t \in Chain(head) /\ tpc'[t] \in {"wait", "bit", "sleep"} =>
             Locked(h[t])' \/ \E u \in Threads : At(u, "exchange")',
         tpc'[t] = "exchange" \/ \A x \in Handles : Locked(x) => Locked(x)'
  PROVE  BInv'
  <1> USE DEF BInv
  <1>1. \A c \in Threads : Listed(c) => next'[c] = next[c]
    BY DEF SameElsewhere
  <1>2. \A u \in Threads : tpc'[u] = tpc[u] \/ (EmptyHanded(u) /\ EmptyHanded(u)')
    BY DEF SameElsewhere, EmptyHanded
  <1>3. /\ Lists' /\ Chain(head)' = Chain(head)
        /\ \A u \in Threads : Taken(u)' = Taken(u) /\ (Listed(u)' <=> Listed(u))
    BY <1>1, <1>2, ListsKept
  <1>4. \A u \in Threads \ {t} : (Blocked(u)' <=> Blocked(u)) /\ (Untold(u)' <=> Untold(u))
    BY DEF SameElsewhere, Blocked, Untold
  <1>5. Blocks'
    <2>1. ASSUME NEW u \in Threads
          PROVE  Listed(u)' <=> Blocked(u)' /\ Untold(u)'
      BY <1>3, <1>4 DEF Blocks
    <2>2. ASSUME NEW u \in Threads
          PROVE  /\ tpc'[u] = "push" => flag'[u]
                 /\ tpc'[u] = "sleep" => ~flag'[u] /\ event'[u] # "raw"
                 /\ tpc'[u] = "bit" => event'[u] = "unset"
      BY DEF Blocks, SameElsewhere
    <2>3. ASSUME NEW u \in Threads, tpc'[u] = "signal"
          PROVE  tpc'[walk'[u]] = "sleep" /\ event'[walk'[u]] = "unset"
      <3>1. u # t /\ tpc[u] = "signal"
        BY <2>3 DEF SameElsewhere, Walking
      <3>2. walk[u] \in Threads
        BY <3>1 DEF Lists, Base, TableTypeOK
      <3> QED BY <3>1, <3>2 DEF Blocks, SameElsewhere
    <2> QED BY <2>1, <2>2, <2>3 DEF Blocks
  <1>6. Wakeups'
    <2>1. ASSUME NEW u \in Threads, tpc'[u] \in Walking, after'[u] = "retry"
          PROVE  u \notin Chain(head)'
      BY <1>3, <2>1 DEF Wakeups, SameElsewhere
    <2>2. ASSUME NEW u \in Threads \ {t}, u \in Chain(head), tpc'[u] \in {"wait", "bit", "sleep"}
          PROVE  Locked(h[u])' \/ \E v \in Threads : At(v, "exchange")'
      <3>1. h[u] \in Handles /\ h'[u] = h[u] /\ tpc'[u] = tpc[u]
        BY DEF SameElsewhere, Base, TableTypeOK
      <3>2. Locked(h[u]) \/ \E v \in Threads : At(v, "exchange")
        BY <2>2, <3>1 DEF Wakeups, Locked
      <3>3. CASE Locked(h[u])
        <4>1. CASE tpc'[t] = "exchange"
          BY <4>1 DEF At
        <4>2. CASE \A x \in Handles : Locked(x) => Locked(x)'
          <5>1. word'[h[u]] # Closed /\ ~word'[h[u]].bit
            BY <3>1, <3>3, <4>2 DEF Locked
          <5> QED BY <3>1, <5>1 DEF Locked
        <4> QED BY <4>1, <4>2
      <3>4. CASE \E v \in Threads : At(v, "exchange")
        BY <3>4 DEF At, SameElsewhere
      <3> QED BY <3>2, <3>3, <3>4
    <2> QED BY <1>3, <2>1, <2>2 DEF Wakeups, Locked
  <1> QED BY <1>3, <1>5, <1>6

(* In particular when it is not blocked before or after. *)
LEMMA OutsideStep ==
  ASSUME Base, Base', BInv, NEW t \in Threads,
         UNCHANGED <<head, walk, wnext>>, SameElsewhere(t),
         EmptyHanded(t), tpc[t] # "exchange", tpc'[t] \notin Walking,
         ~Blocked(t), ~Blocked(t)', tpc'[t] = "push" => flag'[t],
         tpc'[t] = "exchange" \/ \A x \in Handles : Locked(x) => Locked(x)'
  PROVE  BInv'
  <1>1. ~Listed(t)
    BY DEF BInv, Blocks
  <1>2. tpc[t] # "sleep" /\ tpc'[t] \notin {"wait", "bit", "sleep"}
    BY DEF Blocked
  <1> QED BY <1>1, <1>2, OwnStep

(* A thread that is through with an entry neither walks nor waits. *)
LEMMA EntryLeft ==
  ASSUME Base, NEW t \in Threads, NEW stop \in BOOLEAN, NextHandle(t, stop)
  PROVE  /\ \A u \in Threads \ {t} : tpc'[u] = tpc[u] /\ h'[u] = h[u]
         /\ tpc'[t] \notin Walking /\ tpc'[t] \notin Unblocking
         /\ tpc'[t] \notin {"push", "relook", "wait", "bit", "sleep", "exchange"}
  <1>1. tpc' = [tpc EXCEPT ![t] = tpc'[t]] /\ tpc'[t] \in {"idle", "check", "lock"}
    BY NextHandleIs
  <1>2. \A u \in Threads \ {t} : h'[u] = h[u]
    BY NextHandleIs
  <1>3. tpc \in [Threads -> Labels]
    BY DEF Base, TableTypeOK
  <1> QED BY <1>1, <1>2, <1>3 DEF Walking, Unblocking

(* The steps outside ExpBlockOnLockedHandleEntry and ExfUnblockPushLock    *)
(* keep BInv.                                                              *)
LEMMA OutsideBlocks ==
  ASSUME Base, Base', BInv, NEW t \in Threads,
         \/ LockRead(t) \/ LockCas(t) \/ BlockLink(t) \/ WalkEndUnlock(t) \/ FreeEntry(t)
         \/ WriteEntry(t) \/ CheckEntry(t) \/ Unlock(t) \/ Destroy(t) \/ Start(t)
  PROVE  BInv'
  <1> DEFINE Apart ==
        /\ UNCHANGED <<head, walk, wnext>> /\ SameElsewhere(t)
        /\ EmptyHanded(t) /\ tpc[t] # "exchange" /\ tpc'[t] \notin Walking
        /\ ~Blocked(t) /\ ~Blocked(t)' /\ (tpc'[t] = "push" => flag'[t])
  <1> USE DEF TableGoto, At, blockVars, tableLocals
  <1>1. CASE LockRead(t)
    <2>1. Apart /\ word' = word
      <3>1. CASE NextHandle(t, FALSE) /\ UNCHANGED seen
        <4>1. \A u \in Threads \ {t} : tpc'[u] = tpc[u] /\ h'[u] = h[u]
          BY <3>1, EntryLeft
        <4>2. ~Blocked(t)' /\ tpc'[t] \notin Walking /\ tpc'[t] # "push"
          BY <3>1, EntryLeft DEF Blocked
        <4> QED BY <1>1, <4>1, <4>2 DEF LockRead, SameElsewhere, EmptyHanded, Walking, Blocked, Unblocking
      <3>2. CASE UNCHANGED <<op, h>> /\ \E l \in {"cas", "block"} : TableGoto(t, l)
        BY <1>1, <3>2 DEF LockRead, SameElsewhere, EmptyHanded, Walking, Blocked, Unblocking, Base, TableTypeOK
      <3> QED BY <1>1, <3>1, <3>2 DEF LockRead
    <2> QED BY <2>1, OutsideStep DEF Locked
  <1>2. CASE LockCas(t)
    <2>1. Apart
      BY <1>2 DEF LockCas, SameElsewhere, EmptyHanded, Walking, Blocked, Unblocking, Base, TableTypeOK
    <2>2. \A x \in Handles : Locked(x) => word'[x] = word[x]
      <3>1. CASE word[h[t]] = seen[t]
        <4>1. word[h[t]].bit
          BY <1>2, <3>1 DEF LockCas, Base
        <4> QED BY <1>2, <3>1, <4>1 DEF LockCas, Locked, Base, TableTypeOK
      <3>2. CASE word[h[t]] # seen[t]
        BY <1>2, <3>2 DEF LockCas
      <3> QED BY <3>1, <3>2
    <2> QED BY <2>1, <2>2, OutsideStep DEF Locked
  <1>3. CASE BlockLink(t)
    <2>1. Apart /\ word' = word
      BY <1>3 DEF BlockLink, SameElsewhere, EmptyHanded, Walking, Blocked, Unblocking, Base, TableTypeOK
    <2> QED BY <2>1, OutsideStep DEF Locked
  <1>4. CASE WalkEndUnlock(t)
    <2>0. PICK result \in BOOLEAN : NextHandle(t, result)
      BY <1>4 DEF WalkEndUnlock
    <2>1. Apart /\ word' = word
      BY <1>4, <2>0, NextHandleIs DEF WalkEndUnlock, SameElsewhere, EmptyHanded, Walking, Blocked, Unblocking, Base, TableTypeOK
    <2> QED BY <2>1, OutsideStep DEF Locked
  <1>5. CASE FreeEntry(t)
    <2>0. NextHandle(t, FALSE)
      BY <1>5 DEF FreeEntry
    <2>1. Apart /\ word' = word
      <3>1. \A u \in Threads \ {t} : tpc'[u] = tpc[u] /\ h'[u] = h[u]
        BY <2>0, EntryLeft
      <3>2. ~Blocked(t)' /\ tpc'[t] \notin Walking /\ tpc'[t] # "push"
        BY <2>0, EntryLeft DEF Blocked
      <3>3. \A u \in Threads \ {t} : after'[u] = after[u]
        BY <1>5 DEF FreeEntry, Base, TableTypeOK
      <3> QED BY <1>5, <3>1, <3>2, <3>3 DEF FreeEntry, SameElsewhere, EmptyHanded, Walking, Blocked, Unblocking
    <2> QED BY <2>1, OutsideStep DEF Locked
  <1>6. CASE WriteEntry(t)
    <2>1. Apart
      BY <1>6 DEF WriteEntry, SameElsewhere, EmptyHanded, Walking, Blocked, Unblocking, Base, TableTypeOK
    <2>2. \A x \in Handles : Locked(x) => Locked(x)'
      <3>1. h[t] \in Handles /\ word \in [Handles -> EntryValue]
        BY DEF Base, TableTypeOK
      <3>2. PICK o \in Objects : word' = [word EXCEPT ![h[t]] = [object |-> o, bit |-> FALSE]]
        BY <1>6 DEF WriteEntry
      <3>3. word'[h[t]] # Closed /\ ~word'[h[t]].bit
        BY <3>1, <3>2, ObjectsAssumption DEF Closed
      <3>4. \A x \in Handles \ {h[t]} : word'[x] = word[x]
        BY <3>1, <3>2
      <3> QED BY <3>3, <3>4 DEF Locked
    <2> QED BY <2>1, <2>2, OutsideStep
  <1>7. CASE CheckEntry(t)
    <2>1. Apart /\ word' = word
      <3>1. CASE NextHandle(t, FALSE)
        <4>1. \A u \in Threads \ {t} : tpc'[u] = tpc[u] /\ h'[u] = h[u]
          BY <3>1, EntryLeft
        <4>2. ~Blocked(t)' /\ tpc'[t] \notin Walking /\ tpc'[t] # "push"
          BY <3>1, EntryLeft DEF Blocked
        <4> QED BY <1>7, <4>1, <4>2 DEF CheckEntry, SameElsewhere, EmptyHanded, Walking, Blocked, Unblocking
      <3>2. CASE TableGoto(t, "lock") /\ UNCHANGED <<op, h>>
        BY <1>7, <3>2 DEF CheckEntry, SameElsewhere, EmptyHanded, Walking, Blocked, Unblocking, Base, TableTypeOK
      <3> QED BY <1>7, <3>1, <3>2 DEF CheckEntry
    <2> QED BY <2>1, OutsideStep DEF Locked
  <1>8. CASE Unlock(t)
    <2>1. Apart /\ tpc'[t] = "exchange"
      BY <1>8 DEF Unlock, SameElsewhere, EmptyHanded, Walking, Blocked, Unblocking, Base, TableTypeOK
    <2> QED BY <2>1, OutsideStep
  <1>9. CASE Destroy(t)
    <2>1. Apart /\ tpc'[t] = "exchange"
      BY <1>9 DEF Destroy, SameElsewhere, EmptyHanded, Walking, Blocked, Unblocking, Base, TableTypeOK
    <2> QED BY <2>1, OutsideStep
  <1>10. CASE Start(t)
    <2>1. Apart /\ word' = word
      BY <1>10 DEF Start, CreateHandle, MapHandle, ChangeHandle, EnumHandles, Sweep, BeginCall,
             SameElsewhere, EmptyHanded, Walking, Blocked, Unblocking, Base, TableTypeOK
    <2> QED BY <2>1, OutsideStep DEF Locked
  <1> QED BY <1>1, <1>2, <1>3, <1>4, <1>5, <1>6, <1>7, <1>8, <1>9, <1>10

(* So do the steps of a blocked thread that move no list. *)
LEMMA WaitingBlocks ==
  ASSUME Base, Base', BInv, NEW t \in Threads,
         \/ BlockPush(t) /\ head # next[t]
         \/ Relook(t) \/ WaitInitialize(t) \/ WaitBit(t) \/ Wake(t) \/ WalkEndOwn(t)
  PROVE  BInv'
  <1>0. Base /\ Base' /\ Blocks /\ Wakeups
    BY DEF BInv
  <1> DEFINE Same ==
        /\ UNCHANGED <<head, walk, wnext, word>> /\ SameElsewhere(t)
        /\ EmptyHanded(t) /\ tpc[t] # "exchange" /\ tpc'[t] \notin Walking
  <1> USE DEF TableGoto, At, blockVars, tableLocals
  <1>1. CASE BlockPush(t) /\ head # next[t]
    <2>1. Same /\ ~Blocked(t) /\ ~Blocked(t)' /\ flag'[t]
      BY <1>0, <1>1 DEF Blocks, BlockPush, SameElsewhere, EmptyHanded, Walking, Blocked, Unblocking, Base, TableTypeOK
    <2> QED BY <1>0, <2>1, OutsideStep DEF Locked
  <1>2. CASE Relook(t)
    <2>1. Same /\ next' = next /\ flag' = flag /\ event' = event
      BY <1>0, <1>2 DEF Relook, SameElsewhere, EmptyHanded, Walking, Base, TableTypeOK
    <2>2. /\ Blocked(t) /\ Blocked(t)' /\ tpc[t] = "relook" /\ h'[t] = h[t]
          /\ tpc'[t] = "exchange" \/ (tpc'[t] = "wait" /\ Locked(h[t]))
      BY <1>0, <1>2 DEF Relook, Blocked, Unblocking, Locked, Base, TableTypeOK
    <2>3. Untold(t)' <=> Untold(t)
      BY <2>1, <2>2 DEF Untold
    <2>4. tpc'[t] = "wait" => Locked(h[t])'
      BY <2>1, <2>2 DEF Locked
    <2>5. \A x \in Handles : Locked(x) => Locked(x)'
      BY <2>1 DEF Locked
    <2> QED BY <1>0, <2>1, <2>2, <2>3, <2>4, <2>5, OwnStep
  <1>3. CASE WaitInitialize(t)
    <2>1. Same /\ next' = next /\ flag' = flag
      BY <1>0, <1>3 DEF WaitInitialize, SameElsewhere, EmptyHanded, Walking, Base, TableTypeOK
    <2>2. /\ Blocked(t) /\ Blocked(t)' /\ tpc[t] = "wait" /\ h'[t] = h[t]
          /\ tpc'[t] = "bit" /\ event'[t] = "unset"
      BY <1>0, <1>3 DEF WaitInitialize, Blocked, Base, TableTypeOK
    <2>3. Untold(t)' <=> Untold(t)
      BY <2>1, <2>2 DEF Untold
    <2>4. t \in Chain(head) => Locked(h[t]) \/ \E u \in Threads \ {t} : tpc[u] = "exchange"
      BY <1>0, <2>2 DEF Wakeups, Locked
    <2>5. t \in Chain(head) => Locked(h[t])' \/ \E u \in Threads : At(u, "exchange")'
      BY <2>1, <2>2, <2>4 DEF Locked, SameElsewhere
    <2>6. \A x \in Handles : Locked(x) => Locked(x)'
      BY <2>1 DEF Locked
    <2> QED BY <1>0, <2>1, <2>2, <2>3, <2>5, <2>6, OwnStep
  <1>4. CASE WaitBit(t) /\ flag[t]
    <2>1. Same /\ next' = next /\ event' = event
      BY <1>0, <1>4 DEF WaitBit, SameElsewhere, EmptyHanded, Walking, Base, TableTypeOK
    <2>2. /\ Blocked(t) /\ Blocked(t)' /\ tpc[t] = "bit" /\ h'[t] = h[t]
          /\ tpc'[t] = "sleep" /\ ~flag'[t] /\ event[t] = "unset"
      BY <1>0, <1>4 DEF WaitBit, Blocked, Base, TableTypeOK, Blocks
    <2>3. Untold(t)' /\ Untold(t)
      BY <1>4, <2>1, <2>2 DEF Untold
    <2>4. t \in Chain(head) => Locked(h[t]) \/ \E u \in Threads \ {t} : tpc[u] = "exchange"
      BY <1>0, <2>2 DEF Wakeups, Locked
    <2>5. t \in Chain(head) => Locked(h[t])' \/ \E u \in Threads : At(u, "exchange")'
      BY <2>1, <2>2, <2>4 DEF Locked, SameElsewhere
    <2>6. \A x \in Handles : Locked(x) => Locked(x)'
      BY <2>1 DEF Locked
    <2> QED BY <1>0, <2>1, <2>2, <2>3, <2>5, <2>6, OwnStep
  <1> DEFINE Leaves == Same /\ ~Untold(t) /\ tpc'[t] = "lock" /\ ~Blocked(t)'
  <1>5. CASE Leaves
    <2>1. ~Listed(t) /\ ~(tpc[t] = "sleep" /\ event[t] = "unset")
      BY <1>0, <1>5 DEF Blocks, Untold
    <2>2. \A x \in Handles : Locked(x) => Locked(x)'
      BY <1>5 DEF Locked
    <2> QED BY <1>0, <1>5, <2>1, <2>2, OwnStep
  <1>6. CASE WaitBit(t) /\ ~flag[t]
    <2>1. Same /\ tpc'[t] = "lock" /\ tpc[t] = "bit" /\ after'[t] = "done"
      BY <1>0, <1>6 DEF WaitBit, LeaveBlock, SameElsewhere, EmptyHanded, Walking, Unblocking, Base, TableTypeOK
    <2> QED BY <1>5, <1>6, <2>1 DEF Untold, Blocked, Unblocking
  <1>7. CASE Wake(t)
    <2>1. Same /\ tpc'[t] = "lock" /\ tpc[t] = "sleep" /\ event[t] = "set"
      BY <1>0, <1>7 DEF Wake, LeaveBlock, SameElsewhere, EmptyHanded, Walking, Unblocking, Base, TableTypeOK
    <2>2. ~flag[t]
      BY <1>0, <2>1 DEF Blocks
    <2> QED BY <1>5, <2>1, <2>2 DEF Untold, Blocked, Unblocking
  <1>8. CASE WalkEndOwn(t) /\ ~flag[t]
    <2>1. Same /\ tpc'[t] = "lock" /\ tpc[t] = "walk"
      BY <1>0, <1>8 DEF WalkEndOwn, LeaveBlock, SameElsewhere, EmptyHanded, Walking, Unblocking, Base, TableTypeOK
    <2> QED BY <1>5, <1>8, <2>1 DEF Untold, Blocked, Unblocking
  <1>9. CASE WalkEndOwn(t) /\ flag[t]
    <2>1. Same /\ next' = next /\ event' = event /\ flag' = flag
      BY <1>0, <1>9 DEF WalkEndOwn, SameElsewhere, EmptyHanded, Walking, Base, TableTypeOK
    <2>2. /\ Blocked(t) /\ Blocked(t)' /\ tpc[t] = "walk" /\ tpc'[t] = "wait" /\ t \notin Chain(head)
      BY <1>0, <1>9 DEF WalkEndOwn, Blocked, Base, TableTypeOK, Unblocking, Wakeups, Walking
    <2>3. Untold(t)' <=> Untold(t)
      BY <2>1, <2>2 DEF Untold
    <2>4. \A x \in Handles : Locked(x) => Locked(x)'
      BY <2>1 DEF Locked
    <2> QED BY <1>0, <2>1, <2>2, <2>3, <2>4, OwnStep
  <1> QED BY <1>1, <1>2, <1>3, <1>4, <1>6, <1>7, <1>8, <1>9

(* The push of ExBlockPushLock adds the thread's block to the event's list. *)
LEMMA PushBlocks ==
  ASSUME Base, BInv, NEW t \in Threads, BlockPush(t), head = next[t]
  PROVE  BInv'
  <1> USE DEF TableGoto, At, tableLocals
  <1>0. Base /\ Lists /\ Blocks /\ Wakeups /\ next \in Links
    BY DEF BInv, Base, TableTypeOK, Links
  <1>1. /\ UNCHANGED <<word, next, flag, event, walk, wnext, after, h>> /\ head' = t
        /\ tpc' = [tpc EXCEPT ![t] = "relook"] /\ tpc[t] = "push" /\ flag[t]
    BY <1>0 DEF BlockPush, Blocks
  <1>2. tpc'[t] = "relook" /\ \A u \in Threads \ {t} : tpc'[u] = tpc[u]
    BY <1>0, <1>1 DEF Base, TableTypeOK
  <1>3. ~Listed(t)
    <2>1. ~Blocked(t)
      BY <1>1 DEF Blocked, Unblocking
    <2> QED BY <1>0, <2>1 DEF Blocks
  <1>4. Chain(head)' = {t} \cup Chain(head) /\ t \notin Chain(head)
    <2>1. Reach(next, t) = {t} \cup Reach(next, next[t])
      BY <1>0, ReachStep
    <2> QED BY <1>1, <1>3, <2>1 DEF Chain, Listed
  <1>5. \A u \in Threads : Taken(u)' = Taken(u) /\ t \notin Taken(u)
    BY <1>1, <1>2, <1>3 DEF Taken, Chain, Listed
  <1>6. \A u \in Threads : Listed(u)' <=> Listed(u) \/ u = t
    BY <1>4, <1>5 DEF Listed
  <1>7. Lists'
    <2>1. Loopless(next, t)
      BY <1>0, <1>4, LooplessHead DEF Lists, Chain
    <2>2. Loopless(next, head)'
      BY <1>1, <2>1
    <2>3. ASSUME NEW u \in Threads
          PROVE  /\ tpc'[u] = "walk" => Loopless(next, walk[u])'
                 /\ tpc'[u] \in {"reset", "signal"} =>
                        /\ walk'[u] # NULL
                        /\ walk'[u] \notin Chain(wnext[u])'
                        /\ Loopless(next, wnext[u])'
      BY <1>0, <1>1, <1>2 DEF Lists, Chain
    <2> QED BY <1>0, <1>4, <1>5, <2>2, <2>3 DEF Lists
  <1>8. Blocks'
    <2>1. ASSUME NEW u \in Threads PROVE Listed(u)' <=> Blocked(u)' /\ Untold(u)'
      <3>1. CASE u = t
        BY <1>1, <1>2, <1>6, <3>1 DEF Blocked, Untold
      <3>2. CASE u # t
        BY <1>0, <1>1, <1>2, <1>6, <3>2 DEF Blocks, Blocked, Untold
      <3> QED BY <3>1, <3>2
    <2>2. ASSUME NEW u \in Threads, tpc'[u] = "signal"
          PROVE  tpc'[walk'[u]] = "sleep" /\ event'[walk'[u]] = "unset"
      <3>1. walk[u] \in Threads /\ tpc[walk[u]] = "sleep" /\ event[walk[u]] = "unset"
        BY <1>0, <1>2, <2>2 DEF Lists, Blocks, Base, TableTypeOK
      <3> QED BY <1>1, <1>2, <3>1
    <2> QED BY <1>0, <1>1, <1>2, <2>1, <2>2 DEF Blocks
  <1>9. Wakeups'
    <2>1. ASSUME NEW u \in Threads, tpc'[u] \in Walking, after'[u] = "retry"
          PROVE  u \notin Chain(head)'
      BY <1>0, <1>1, <1>2, <1>4, <2>1 DEF Wakeups, Walking
    <2>2. ASSUME NEW u \in Threads, u \in Chain(head)', tpc'[u] \in {"wait", "bit", "sleep"}
          PROVE  Locked(h[u])' \/ \E v \in Threads : tpc'[v] = "exchange"
      <3>1. u # t /\ u \in Chain(head) /\ tpc[u] \in {"wait", "bit", "sleep"}
        BY <1>2, <1>4, <2>2
      <3>2. Locked(h[u]) \/ \E v \in Threads \ {t} : tpc[v] = "exchange"
        BY <1>0, <1>1, <3>1 DEF Wakeups, Locked
      <3> QED BY <1>1, <1>2, <3>2 DEF Locked
    <2> QED BY <2>1, <2>2 DEF Wakeups, Locked
  <1> QED BY <1>7, <1>8, <1>9 DEF BInv

(* The exchange of ExfUnblockPushLock takes the whole list. *)
LEMMA TakeStackBlocks ==
  ASSUME Base, BInv, NEW t \in Threads, TakeStack(t)
  PROVE  BInv'
  <1> USE DEF TableGoto, At, tableLocals
  <1>0. Base /\ Lists /\ Blocks /\ Wakeups /\ next \in Links
    BY DEF BInv, Base, TableTypeOK, Links
  <1>1. /\ UNCHANGED <<word, next, flag, event, wnext, after, h>> /\ head' = NULL
        /\ tpc' = [tpc EXCEPT ![t] = "walk"] /\ tpc[t] = "exchange"
        /\ walk' = [walk EXCEPT ![t] = head]
    BY DEF TakeStack
  <1>2. /\ tpc'[t] = "walk" /\ \A u \in Threads \ {t} : tpc'[u] = tpc[u]
        /\ walk'[t] = head /\ \A u \in Threads \ {t} : walk'[u] = walk[u]
    BY <1>0, <1>1 DEF Base, TableTypeOK
  <1>3. Chain(head)' = {}
    BY <1>1, ReachNull DEF Chain
  <1>4. /\ Taken(t)' = Chain(head) /\ Taken(t) = {}
        /\ \A u \in Threads \ {t} : Taken(u)' = Taken(u)
    BY <1>1, <1>2 DEF Taken, Chain
  <1>5. \A u \in Threads : Listed(u)' <=> Listed(u)
    BY <1>3, <1>4 DEF Listed
  <1>6. Lists'
    <2>1. Loopless(next, head)'
      BY <1>1, ReachNull DEF Loopless
    <2>2. ASSUME NEW u \in Threads
          PROVE  /\ tpc'[u] = "walk" => Loopless(next, walk[u])'
                 /\ tpc'[u] \in {"reset", "signal"} =>
                        /\ walk'[u] # NULL
                        /\ walk'[u] \notin Chain(wnext[u])'
                        /\ Loopless(next, wnext[u])'
      BY <1>0, <1>1, <1>2 DEF Lists, Chain
    <2>3. \A u \in Threads : Taken(u) \cap Chain(head) = {}
      BY <1>0 DEF Lists
    <2>4. \A u \in Threads, v \in Threads : u # v => Taken(u) \cap Taken(v) = {}
      BY <1>0 DEF Lists
    <2>5. \A u \in Threads, v \in Threads : u # v => Taken(u)' \cap Taken(v)' = {}
      BY <1>4, <2>3, <2>4
    <2> QED BY <1>3, <2>1, <2>2, <2>5 DEF Lists
  <1>7. Blocks'
    <2>1. ASSUME NEW u \in Threads PROVE Listed(u)' <=> Blocked(u)' /\ Untold(u)'
      BY <1>0, <1>1, <1>2, <1>5 DEF Blocks, Blocked, Untold, Unblocking
    <2>2. ASSUME NEW u \in Threads, tpc'[u] = "signal"
          PROVE  tpc'[walk'[u]] = "sleep" /\ event'[walk'[u]] = "unset"
      <3>1. walk[u] \in Threads /\ tpc[walk[u]] = "sleep" /\ event[walk[u]] = "unset" /\ walk'[u] = walk[u]
        BY <1>0, <1>2, <2>2 DEF Lists, Blocks, Base, TableTypeOK
      <3> QED BY <1>1, <1>2, <3>1
    <2> QED BY <1>0, <1>1, <1>2, <2>1, <2>2 DEF Blocks
  <1>8. Wakeups'
    BY <1>3 DEF Wakeups
  <1> QED BY <1>6, <1>7, <1>8 DEF BInv

(* Reading the successor leaves the same blocks to be treated. *)
LEMMA WalkNextBlocks ==
  ASSUME Base, BInv, NEW t \in Threads, WalkNext(t)
  PROVE  BInv'
  <1> USE DEF TableGoto, At, blockVars
  <1>0. Base /\ Lists /\ Blocks /\ Wakeups /\ next \in Links
    BY DEF BInv, Base, TableTypeOK, Links
  <1>1. /\ UNCHANGED <<word, head, next, flag, event, walk, after, h>>
        /\ tpc' = [tpc EXCEPT ![t] = "reset"] /\ tpc[t] = "walk" /\ walk[t] \in Threads
        /\ wnext' = [wnext EXCEPT ![t] = next[walk[t]]]
    BY <1>0 DEF WalkNext, Base, TableTypeOK
  <1>2. /\ tpc'[t] = "reset" /\ \A u \in Threads \ {t} : tpc'[u] = tpc[u]
        /\ wnext'[t] = next[walk[t]] /\ \A u \in Threads \ {t} : wnext'[u] = wnext[u]
    BY <1>0, <1>1 DEF Base, TableTypeOK
  <1>3. Chain(head)' = Chain(head)
    BY <1>1 DEF Chain
  <1>4. \A u \in Threads : Taken(u)' = Taken(u)
    <2>1. Reach(next, walk[t]) = {walk[t]} \cup Reach(next, next[walk[t]])
      BY <1>0, <1>1, ReachStep
    <2>2. Taken(t)' = Taken(t)
      BY <1>1, <1>2, <2>1 DEF Taken, Chain
    <2>3. \A u \in Threads \ {t} : Taken(u)' = Taken(u)
      BY <1>1, <1>2 DEF Taken, Chain
    <2> QED BY <2>2, <2>3
  <1>5. \A u \in Threads : Listed(u)' <=> Listed(u)
    BY <1>3, <1>4 DEF Listed
  <1>6. Lists'
    <2>1. Loopless(next, head)'
      BY <1>0, <1>1 DEF Lists
    <2>2. Loopless(next, walk[t])
      BY <1>0, <1>1 DEF Lists
    <2>3. walk[t] \notin Reach(next, next[walk[t]]) /\ Loopless(next, next[walk[t]])
      BY <1>0, <1>1, <2>2, LooplessTail
    <2>4. walk[t] # NULL
      BY <1>1, NullAssumption
    <2>5. ASSUME NEW u \in Threads
          PROVE  /\ tpc'[u] = "walk" => Loopless(next, walk[u])'
                 /\ tpc'[u] \in {"reset", "signal"} =>
                        /\ walk'[u] # NULL
                        /\ walk'[u] \notin Chain(wnext[u])'
                        /\ Loopless(next, wnext[u])'
      BY <1>0, <1>1, <1>2, <2>3, <2>4 DEF Lists, Chain
    <2> QED BY <1>0, <1>3, <1>4, <2>1, <2>5 DEF Lists
  <1>7. Blocks'
    <2>1. ASSUME NEW u \in Threads PROVE Listed(u)' <=> Blocked(u)' /\ Untold(u)'
      BY <1>0, <1>1, <1>2, <1>5 DEF Blocks, Blocked, Untold, Unblocking
    <2>2. ASSUME NEW u \in Threads, tpc'[u] = "signal"
          PROVE  tpc'[walk'[u]] = "sleep" /\ event'[walk'[u]] = "unset"
      <3>1. walk[u] \in Threads /\ tpc[walk[u]] = "sleep" /\ event[walk[u]] = "unset"
        BY <1>0, <1>2, <2>2 DEF Lists, Blocks, Base, TableTypeOK
      <3> QED BY <1>1, <1>2, <3>1
    <2> QED BY <1>0, <1>1, <1>2, <2>1, <2>2 DEF Blocks
  <1>8. Wakeups'
    <2>1. \A u \in Threads :
              /\ tpc'[u] \in Walking => tpc[u] \in Walking
              /\ tpc'[u] \in {"wait", "bit", "sleep"} => tpc[u] = tpc'[u]
              /\ tpc[u] = "exchange" => tpc'[u] = "exchange"
      BY <1>1, <1>2 DEF Walking
    <2> QED BY <1>0, <1>1, <1>3, <2>1 DEF Wakeups
  <1> QED BY <1>6, <1>7, <1>8 DEF BInv

(* The block an unblocker treats is that of a blocked thread that was not  *)
(* told; if its bit is clear the thread sleeps.                            *)
LEMMA WalkSleeps ==
  ASSUME Base, BInv, NEW t \in Threads, tpc[t] \in {"reset", "signal"}
  PROVE  /\ walk[t] \in Threads /\ walk[t] \in Taken(t) /\ Blocked(walk[t]) /\ Untold(walk[t])
         /\ tpc[walk[t]] # "push"
         /\ ~flag[walk[t]] => tpc[walk[t]] = "sleep" /\ event[walk[t]] = "unset"
  <1>1. Base /\ Lists /\ Blocks
    BY DEF BInv
  <1>2. walk[t] \in Threads
    BY <1>1 DEF Lists, Base, TableTypeOK
  <1>3. walk[t] \in Taken(t)
    BY DEF Taken
  <1>4. Blocked(walk[t]) /\ Untold(walk[t])
    BY <1>1, <1>2, <1>3 DEF Blocks, Listed
  <1> QED BY <1>2, <1>3, <1>4 DEF Untold, Blocked, Unblocking

(* So the unblocker that finds the bit clear may signal the event. *)
LEMMA SignalNext ==
  ASSUME Base, BInv, NEW t \in Threads, WalkReset(t), ~flag[walk[t]]
  PROVE  BInv'
  <1> USE DEF TableGoto, At
  <1>0. Base /\ Lists /\ Blocks /\ Wakeups
    BY DEF BInv, Base, TableTypeOK
  <1>1. /\ UNCHANGED <<word, head, next, flag, event, walk, wnext, after, h>>
        /\ tpc' = [tpc EXCEPT ![t] = "signal"] /\ tpc[t] = "reset"
    BY DEF WalkReset
  <1>2. /\ tpc'[t] = "signal" /\ \A u \in Threads \ {t} : tpc'[u] = tpc[u]
    BY <1>0, <1>1 DEF Base, TableTypeOK
  <1>3. Chain(head)' = Chain(head)
    BY <1>1 DEF Chain
  <1>4. \A u \in Threads : Taken(u)' = Taken(u)
    BY <1>1, <1>2 DEF Taken, Chain
  <1>5. \A u \in Threads : Listed(u)' <=> Listed(u)
    BY <1>3, <1>4 DEF Listed
  <1>6. Lists'
    <2>1. Loopless(next, head)'
      BY <1>0, <1>1 DEF Lists
    <2>2. ASSUME NEW u \in Threads
          PROVE  /\ tpc'[u] = "walk" => Loopless(next, walk[u])'
                 /\ tpc'[u] \in {"reset", "signal"} =>
                        /\ walk'[u] # NULL
                        /\ walk'[u] \notin Chain(wnext[u])'
                        /\ Loopless(next, wnext[u])'
      BY <1>0, <1>1, <1>2 DEF Lists, Chain
    <2> QED BY <1>0, <1>3, <1>4, <2>1, <2>2 DEF Lists
  <1>7. Blocks'
    <2>1. ASSUME NEW u \in Threads PROVE Listed(u)' <=> Blocked(u)' /\ Untold(u)'
      BY <1>0, <1>1, <1>2, <1>5 DEF Blocks, Blocked, Untold, Unblocking
    <2>2. ASSUME NEW u \in Threads, tpc'[u] = "signal"
          PROVE  tpc'[walk'[u]] = "sleep" /\ event'[walk'[u]] = "unset"
      <3>1. tpc[walk[t]] = "sleep" /\ event[walk[t]] = "unset"
        BY <1>1, WalkSleeps
      <3>2. walk[u] \in Threads /\ tpc[walk[u]] = "sleep" /\ event[walk[u]] = "unset"
        BY <1>0, <1>1, <1>2, <2>2, <3>1 DEF Lists, Blocks, Base, TableTypeOK
      <3> QED BY <1>1, <1>2, <3>2
    <2> QED BY <1>0, <1>1, <1>2, <2>1, <2>2 DEF Blocks
  <1>8. Wakeups'
    <2>1. \A u \in Threads :
              /\ tpc'[u] \in Walking => tpc[u] \in Walking
              /\ tpc'[u] \in {"wait", "bit", "sleep"} => tpc[u] = tpc'[u]
              /\ tpc[u] = "exchange" => tpc'[u] = "exchange"
      BY <1>1, <1>2 DEF Walking
    <2> QED BY <1>0, <1>1, <1>3, <2>1 DEF Wakeups
  <1> QED BY <1>6, <1>7, <1>8 DEF BInv

(* The block that was told, by its bit or by its event, leaves the list. *)
LEMMA AdvanceBlocks ==
  ASSUME Base, BInv, NEW t \in Threads,
         WalkSignal(t) \/ (WalkReset(t) /\ flag[walk[t]])
  PROVE  BInv'
  <1> DEFINE b == walk[t]
  <1> USE DEF TableGoto, At
  <1>0. Base /\ Lists /\ Blocks /\ Wakeups /\ next \in Links
    BY DEF BInv, Base, TableTypeOK, Links
  <1>1. /\ UNCHANGED <<word, head, next, after, h>>
        /\ tpc[t] \in {"reset", "signal"} /\ tpc' = [tpc EXCEPT ![t] = "walk"]
        /\ walk' = [walk EXCEPT ![t] = wnext[t]]
        /\ wnext' = [wnext EXCEPT ![t] = NULL]
    BY DEF WalkReset, WalkSignal, Advance
  <1>2. /\ tpc'[t] = "walk" /\ \A u \in Threads \ {t} : tpc'[u] = tpc[u]
        /\ walk'[t] = wnext[t] /\ \A u \in Threads \ {t} : walk'[u] = walk[u]
        /\ \A u \in Threads \ {t} : wnext'[u] = wnext[u]
    BY <1>0, <1>1 DEF Base, TableTypeOK
  <1>3. b \in Threads /\ b \in Taken(t) /\ Blocked(b) /\ Untold(b) /\ tpc[b] # "push"
    BY <1>1, WalkSleeps
  <1>4. Chain(head)' = Chain(head)
    BY <1>1 DEF Chain
  <1>5. /\ Taken(t)' = Taken(t) \ {b}
        /\ \A u \in Threads \ {t} : Taken(u)' = Taken(u)
    <2>1. Taken(t) = {b} \cup Reach(next, wnext[t]) /\ b \notin Reach(next, wnext[t])
      BY <1>0, <1>1, TakenIs DEF Lists, Chain
    <2>2. Taken(t)' = Reach(next, wnext[t])
      BY <1>1, <1>2 DEF Taken, Chain
    <2>3. \A u \in Threads \ {t} : Taken(u)' = Taken(u)
      BY <1>1, <1>2 DEF Taken, Chain
    <2> QED BY <2>1, <2>2, <2>3
  <1>6. b \notin Chain(head) /\ \A u \in Threads \ {t} : b \notin Taken(u)
    BY <1>0, <1>3 DEF Lists
  <1>7. \A u \in Threads : Listed(u)' <=> Listed(u) /\ u # b
    BY <1>4, <1>5, <1>6 DEF Listed
  <1>8. /\ \A u \in Threads \ {b} : flag'[u] = flag[u] /\ event'[u] = event[u]
        /\ ~flag'[b] /\ ~(tpc[b] = "sleep" /\ event'[b] = "unset")
        /\ tpc[b] = "bit" => event'[b] = "unset"
        /\ tpc[b] = "sleep" => event'[b] # "raw"
    <2>1. CASE WalkSignal(t)
      <3>1. flag' = flag /\ event' = [event EXCEPT ![b] = "set"] /\ tpc[b] = "sleep"
        BY <1>0, <2>1 DEF WalkSignal, Blocks
      <3>2. ~flag[b]
        BY <1>0, <1>3, <3>1 DEF Blocks
      <3> QED BY <1>0, <1>3, <3>1, <3>2 DEF Base, TableTypeOK
    <2>2. CASE WalkReset(t) /\ flag[b]
      <3>1. event' = event /\ flag' = [flag EXCEPT ![b] = FALSE]
        BY <2>2 DEF WalkReset
      <3>2. tpc[b] # "sleep"
        BY <1>0, <1>3, <2>2 DEF Blocks
      <3> QED BY <1>0, <1>3, <3>1, <3>2 DEF Base, TableTypeOK, Blocks
    <2> QED BY <2>1, <2>2
  <1>9. Lists'
    <2>1. Loopless(next, head)'
      BY <1>0, <1>1 DEF Lists
    <2>2. ASSUME NEW u \in Threads
          PROVE  /\ tpc'[u] = "walk" => Loopless(next, walk[u])'
                 /\ tpc'[u] \in {"reset", "signal"} =>
                        /\ walk'[u] # NULL
                        /\ walk'[u] \notin Chain(wnext[u])'
                        /\ Loopless(next, wnext[u])'
      BY <1>0, <1>1, <1>2 DEF Lists, Chain
    <2>3. \A u \in Threads : Taken(u)' \subseteq Taken(u)
      BY <1>5
    <2>4. ASSUME NEW u \in Threads
          PROVE  /\ Taken(u)' \cap Chain(head)' = {}
                 /\ \A v \in Threads \ {u} : Taken(u)' \cap Taken(v)' = {}
      BY <1>0, <1>4, <2>3 DEF Lists
    <2> QED BY <2>1, <2>2, <2>4 DEF Lists
  <1>10. Blocks'
    <2>1. \A u \in Threads : Blocked(u)' <=> Blocked(u)
      BY <1>1, <1>2 DEF Blocked, Unblocking
    <2>2. ASSUME NEW u \in Threads PROVE Listed(u)' <=> Blocked(u)' /\ Untold(u)'
      <3>1. CASE u = b
        <4>1. ~Untold(u)'
          BY <1>1, <1>2, <1>3, <1>8, <3>1 DEF Untold
        <4> QED BY <1>7, <3>1, <4>1
      <3>2. CASE u # b
        <4>1. Untold(u)' <=> Untold(u)
          BY <1>1, <1>2, <1>8, <3>2 DEF Untold
        <4> QED BY <1>0, <1>7, <2>1, <3>2, <4>1 DEF Blocks
      <3> QED BY <3>1, <3>2
    <2>3. ASSUME NEW u \in Threads, tpc'[u] = "signal"
          PROVE  tpc'[walk'[u]] = "sleep" /\ event'[walk'[u]] = "unset"
      <3>1. u # t /\ tpc[u] = "signal" /\ walk'[u] = walk[u]
        BY <1>2, <2>3
      <3>2. walk[u] \in Threads /\ walk[u] \in Taken(u) /\ tpc[walk[u]] = "sleep" /\ event[walk[u]] = "unset"
        BY <1>0, <3>1, WalkSleeps DEF Blocks
      <3>3. walk[u] # b /\ walk[u] # t
        BY <1>1, <1>6, <3>1, <3>2
      <3> QED BY <1>2, <1>8, <3>1, <3>2, <3>3
    <2>4. ASSUME NEW u \in Threads
          PROVE  /\ tpc'[u] = "push" => flag'[u]
                 /\ tpc'[u] = "sleep" => ~flag'[u] /\ event'[u] # "raw"
                 /\ tpc'[u] = "bit" => event'[u] = "unset"
      BY <1>0, <1>1, <1>2, <1>3, <1>8 DEF Blocks
    <2> QED BY <2>2, <2>3, <2>4 DEF Blocks
  <1>11. Wakeups'
    <2>1. \A u \in Threads :
              /\ tpc'[u] \in Walking => tpc[u] \in Walking
              /\ tpc'[u] \in {"wait", "bit", "sleep"} => tpc[u] = tpc'[u]
              /\ tpc[u] = "exchange" => tpc'[u] = "exchange"
      BY <1>1, <1>2 DEF Walking
    <2> QED BY <1>0, <1>1, <1>4, <2>1 DEF Wakeups
  <1> QED BY <1>9, <1>10, <1>11 DEF BInv

(* Nobody is blocked when the table ends. *)
LEMMA DestroyTableBlocks ==
  ASSUME Base, BInv, DestroyTable
  PROVE  BInv'
  <1>1. \A t \in Threads : tpc[t] = "idle" /\ tpc'[t] = "idle" /\ ~Blocked(t) /\ ~Listed(t)
    BY DEF DestroyTable, At, BInv, Blocks, Blocked, Unblocking
  <1>2. UNCHANGED <<head, next, flag, event, walk, wnext, after, tpc>>
    BY DEF DestroyTable, blockVars, tableLocals
  <1>3. /\ Chain(head)' = Chain(head)
        /\ \A t \in Threads : Taken(t)' = Taken(t) /\ ~Listed(t)' /\ ~Blocked(t)'
    BY <1>1, <1>2 DEF Chain, Taken, Listed, Blocked
  <1>4. Lists'
    BY <1>1, <1>2, <1>3 DEF BInv, Lists
  <1>5. Blocks'
    BY <1>1, <1>3 DEF Blocks
  <1>6. Wakeups'
    BY <1>1 DEF Wakeups, Walking
  <1> QED BY <1>4, <1>5, <1>6 DEF BInv

(* BInv depends on the variables only. *)
LEMMA StutterBlocks ==
  ASSUME BInv, UNCHANGED tableVars
  PROVE  BInv'
  <1> USE DEF tableVars
  <1>1. /\ Chain(head)' = Chain(head)
        /\ \A t \in Threads : Taken(t)' = Taken(t)
    BY DEF Chain, Taken
  <1>2. \A t \in Threads : (Listed(t)' <=> Listed(t)) /\ (Blocked(t)' <=> Blocked(t)) /\ (Untold(t)' <=> Untold(t))
    BY <1>1 DEF Listed, Blocked, Untold
  <1>3. Lists'
    BY <1>1 DEF BInv, Lists, Chain
  <1>4. Blocks'
    BY <1>2 DEF BInv, Blocks
  <1>5. Wakeups'
    BY <1>1 DEF BInv, Wakeups, At
  <1> QED BY <1>3, <1>4, <1>5 DEF BInv

(* A new table satisfies BInv. *)
LEMMA InitBlocks == TableInit => BInv
  <1> SUFFICES ASSUME TableInit PROVE BInv
    OBVIOUS
  <1>1. head = NULL /\ \A t \in Threads : tpc[t] = "idle"
    BY DEF TableInit
  <1>2. Chain(head) = {} /\ \A t \in Threads : Taken(t) = {}
    BY <1>1, ReachNull DEF Chain, Taken
  <1>3. Lists
    BY <1>1, <1>2 DEF Lists, Loopless, Chain
  <1>4. Blocks
    BY <1>1, <1>2 DEF Blocks, Listed, Blocked, Unblocking
  <1>5. Wakeups
    BY <1>1, <1>2 DEF Wakeups
  <1> QED BY <1>3, <1>4, <1>5 DEF BInv

(* BInv is inductive, given Base. *)
LEMMA NextBlocks == Base /\ Base' /\ BInv /\ [TableNext]_tableVars => BInv'
  <1> SUFFICES ASSUME Base, Base', BInv, [TableNext]_tableVars PROVE BInv'
    OBVIOUS
  <1>1. CASE UNCHANGED tableVars
    BY <1>1, StutterBlocks
  <1>2. ASSUME NEW t \in Threads, Start(t) PROVE BInv'
    BY <1>2, OutsideBlocks
  <1>3. ASSUME NEW t \in Threads, Step(t) PROVE BInv'
    <2>1. CASE \/ LockRead(t) \/ LockCas(t) \/ BlockLink(t) \/ WalkEndUnlock(t) \/ FreeEntry(t)
               \/ WriteEntry(t) \/ CheckEntry(t) \/ Unlock(t) \/ Destroy(t)
      BY <2>1, OutsideBlocks
    <2>2. CASE Relook(t) \/ WaitInitialize(t) \/ WaitBit(t) \/ Wake(t) \/ WalkEndOwn(t)
      BY <2>2, WaitingBlocks
    <2>3. CASE BlockPush(t)
      BY <2>3, WaitingBlocks, PushBlocks
    <2>4. CASE TakeStack(t)
      BY <2>4, TakeStackBlocks
    <2>5. CASE WalkNext(t)
      BY <2>5, WalkNextBlocks
    <2>6. CASE WalkReset(t) \/ WalkSignal(t)
      BY <2>6, SignalNext, AdvanceBlocks
    <2> QED BY <1>3, <2>1, <2>2, <2>3, <2>4, <2>5, <2>6 DEF Step
  <1> QED BY <1>1, <1>2, <1>3, DestroyTableBlocks DEF TableNext

(* Base and BInv hold in every reachable state, whatever the free list     *)
(* gives out,                                                              *)
THEOREM BlocksInvariance == TableSpec => [](Base /\ BInv)
  <1>1. TableInit => Base /\ BInv
    BY InitBase, InitBlocks
  <1>2. Base /\ BInv /\ [TableNext]_tableVars => (Base /\ BInv)'
    BY NextBase, NextBlocks
  <1> QED BY <1>1, <1>2, PTL DEF TableSpec

(* and EInv does if the free list is sound.                                *)
THEOREM EntriesInvariance == FreeListSound => (TableSpec => []EInv)
  <1> SUFFICES ASSUME FreeListSound PROVE TableSpec => []EInv
    OBVIOUS
  <1>1. TableInit => EInv
    BY InitEntries
  <1>2. EInv /\ [TableNext]_tableVars => EInv'
    BY NextEntries
  <1> QED BY <1>1, <1>2, PTL DEF TableSpec

(* If the free list gives out free entries only, which the code's list     *)
(* does not (HandleFreeList), an entry with its bit clear is held by       *)
(* exactly one thread, a free one is closed, the ASSERTs of                *)
(* ExUnlockHandleTableEntry and ExDestroyHandle hold, and the sweep of     *)
(* ObKillProcess leaves no handle unless a close was refused.              *)
THEOREM EntriesAreGuarded == FreeListSound => (TableSpec => []EntriesGuarded)
  <1> SUFFICES ASSUME FreeListSound PROVE TableSpec => []EntriesGuarded
    OBVIOUS
  <1>1. EInv => EntriesGuarded
    BY DEF EInv, Base, Held, Values, Sweeping, EntriesGuarded
  <1> QED BY <1>1, EntriesInvariance, PTL

(* ExfUnblockPushLock never reads, resets or signals the wait block of a   *)
(* thread that has left ExpBlockOnLockedHandleEntry, however pushes,       *)
(* exchanges and walks interleave; no block is on two lists.  Nothing is   *)
(* assumed of the free list.                                               *)
THEOREM BlocksAreAlive == TableSpec => []StackBlocksAlive
  <1>1. Base /\ BInv => StackBlocksAlive
    <2> SUFFICES ASSUME Base, BInv PROVE StackBlocksAlive
      OBVIOUS
    <2>0. Base /\ Lists /\ Blocks
      BY DEF BInv
    <2>1. ASSUME NEW b \in Chain(head) PROVE Blocked(b)
      BY <2>0, <2>1, ReachIn DEF Blocks, Listed, Chain
    <2>2. ASSUME NEW t \in Threads, NEW b \in Taken(t) PROVE b \in Threads
      <3>1. CASE tpc[t] = "walk"
        BY <2>2, <3>1, TakenIs, ReachIn
      <3>2. CASE tpc[t] \in {"reset", "signal"}
        <4>1. walk[t] \in Threads
          BY <2>0, <3>2 DEF Lists, Base, TableTypeOK
        <4> QED BY <2>2, <3>2, <4>1, TakenIs, ReachIn
      <3>3. CASE tpc[t] \notin Walking
        BY <2>2, <3>3, TakenIs DEF EmptyHanded
      <3> QED BY <3>1, <3>2, <3>3 DEF Walking
    <2>3. ASSUME NEW t \in Threads
          PROVE  /\ \A b \in Taken(t) : Blocked(b) /\ b \notin Chain(head)
                 /\ \A u \in Threads \ {t} : Taken(t) \cap Taken(u) = {}
                 /\ tpc[t] = "signal" => tpc[walk[t]] = "sleep" /\ event[walk[t]] = "unset"
      BY <2>0, <2>2 DEF Lists, Blocks, Listed
    <2> QED BY <2>1, <2>3 DEF StackBlocksAlive
  <1> QED BY <1>1, BlocksInvariance, PTL

(* No thread sleeps in ExpBlockOnLockedHandleEntry for an entry that was   *)
(* unlocked or closed with nobody about to wake it, whatever the free list *)
(* gives out.                                                              *)
THEOREM NoWakeupIsLost == TableSpec => []NoLostWakeup
  <1>1. Base /\ BInv => NoLostWakeup
    <2> SUFFICES ASSUME Base, BInv, NEW t \in Threads,
                        (tpc[t] \in {"wait", "bit"} /\ flag[t]) \/ (tpc[t] = "sleep" /\ event[t] # "set")
                 PROVE  \/ \E u \in Threads : t \in Taken(u)
                        \/ /\ t \in Chain(head)
                           /\ \/ word[h[t]] # Closed /\ ~word[h[t]].bit
                              \/ \E u \in Threads : At(u, "exchange")
      BY DEF NoLostWakeup
    <2>0. Base /\ Blocks /\ Wakeups
      BY DEF BInv
    <2>1. Blocked(t)
      BY DEF Blocked
    <2>2. Untold(t)
      BY <2>0 DEF Untold, Blocks, Base, TableTypeOK
    <2>3. Listed(t)
      BY <2>0, <2>1, <2>2 DEF Blocks
    <2> QED BY <2>0, <2>3 DEF Listed, Wakeups
  <1> QED BY <1>1, BlocksInvariance, PTL

(* The holder the refinement names is the one there is, *)
LEMMA HeldByIs ==
  ASSUME Held, NEW x \in Handles
  PROVE  /\ \A t \in Threads : HoldsEntry(t) /\ h[t] = x => HeldBy(x) = t
         /\ ~(\E t \in Threads : HoldsEntry(t) /\ h[t] = x) => HeldBy(x) = NULL
  <1>1. ASSUME NEW t \in Threads, HoldsEntry(t), h[t] = x PROVE HeldBy(x) = t
    <2>1. \A u \in Threads : HoldsEntry(u) /\ h[u] = x => u = t
      BY <1>1 DEF Held
    <2> QED BY <1>1, <2>1 DEF HeldBy
  <1> QED BY <1>1 DEF HeldBy

(* also after a step. *)
LEMMA HeldByWillBe ==
  ASSUME Held', NEW x \in Handles
  PROVE  /\ \A t \in Threads : HoldsEntry(t)' /\ h'[t] = x => HeldBy(x)' = t
         /\ ~(\E t \in Threads : HoldsEntry(t)' /\ h'[t] = x) => HeldBy(x)' = NULL
  <1>1. ASSUME NEW t \in Threads, HoldsEntry(t)', h'[t] = x PROVE HeldBy(x)' = t
    <2>1. \A u \in Threads : HoldsEntry(u)' /\ h'[u] = x => u = t
      BY <1>1 DEF Held
    <2> QED BY <1>1, <2>1 DEF HeldBy
  <1> QED BY <1>1 DEF HeldBy

(* What the refinement maps the variables of HandleTableSpec to *)
Owner == [x \in Handles |-> HeldBy(x)]
Open == {x \in Handles : word[x].object # NULL}
Given == Handles \ freeList

(* The owners stay when the holders do, *)
LEMMA OwnerKept ==
  ASSUME Held, Held',
         \A u \in Threads : (HoldsEntry(u)' <=> HoldsEntry(u)) /\ (HoldsEntry(u) => h'[u] = h[u])
  PROVE  Owner' = Owner
  <1>1. ASSUME NEW x \in Handles PROVE HeldBy(x)' = HeldBy(x)
    <2>1. CASE \E t \in Threads : HoldsEntry(t) /\ h[t] = x
      BY <2>1, HeldByIs, HeldByWillBe
    <2>2. CASE ~\E t \in Threads : HoldsEntry(t) /\ h[t] = x
      <3>1. ~\E t \in Threads : HoldsEntry(t)' /\ h'[t] = x
        BY <2>2
      <3> QED BY <2>2, <3>1, HeldByIs, HeldByWillBe
    <2> QED BY <2>1, <2>2
  <1> QED BY <1>1 DEF Owner

(* one is added when a thread takes an entry nobody held, *)
LEMMA OwnerTaken ==
  ASSUME Held, Held', NEW t \in Threads, h[t] \in Handles, h' = h, ~HoldsEntry(t), HoldsEntry(t)',
         \A u \in Threads \ {t} : HoldsEntry(u)' <=> HoldsEntry(u)
  PROVE  Owner[h[t]] = NULL /\ Owner' = [Owner EXCEPT ![h[t]] = t]
  <1>1. \A u \in Threads : HoldsEntry(u) => h[u] # h[t]
    BY DEF Held
  <1>2. HeldBy(h[t]) = NULL
    BY <1>1, HeldByIs
  <1>3. ASSUME NEW x \in Handles PROVE HeldBy(x)' = IF x = h[t] THEN t ELSE HeldBy(x)
    <2>1. CASE x = h[t]
      BY <2>1, HeldByWillBe
    <2>2. CASE x # h[t] /\ \E u \in Threads : HoldsEntry(u) /\ h[u] = x
      BY <2>2, HeldByIs, HeldByWillBe
    <2>3. CASE x # h[t] /\ ~\E u \in Threads : HoldsEntry(u) /\ h[u] = x
      <3>1. ~\E u \in Threads : HoldsEntry(u)' /\ h'[u] = x
        BY <2>3
      <3> QED BY <2>3, <3>1, HeldByIs, HeldByWillBe
    <2> QED BY <2>1, <2>2, <2>3
  <1> QED BY <1>2, <1>3 DEF Owner

(* and one goes when its holder lets go. *)
LEMMA OwnerGone ==
  ASSUME Held, Held', NEW t \in Threads, h[t] \in Handles, h' = h, HoldsEntry(t), ~HoldsEntry(t)',
         \A u \in Threads \ {t} : HoldsEntry(u)' <=> HoldsEntry(u)
  PROVE  Owner[h[t]] = t /\ Owner' = [Owner EXCEPT ![h[t]] = NULL]
  <1>1. \A u \in Threads \ {t} : HoldsEntry(u) => h[u] # h[t]
    BY DEF Held
  <1>2. HeldBy(h[t]) = t
    BY HeldByIs
  <1>3. ASSUME NEW x \in Handles PROVE HeldBy(x)' = IF x = h[t] THEN NULL ELSE HeldBy(x)
    <2>1. CASE x = h[t]
      <3>1. ~\E u \in Threads : HoldsEntry(u)' /\ h'[u] = x
        BY <1>1, <2>1
      <3> QED BY <2>1, <3>1, HeldByWillBe
    <2>2. CASE x # h[t] /\ \E u \in Threads : HoldsEntry(u) /\ h[u] = x
      BY <2>2, HeldByIs, HeldByWillBe
    <2>3. CASE x # h[t] /\ ~\E u \in Threads : HoldsEntry(u) /\ h[u] = x
      <3>1. ~\E u \in Threads : HoldsEntry(u)' /\ h'[u] = x
        BY <2>3
      <3> QED BY <2>3, <3>1, HeldByIs, HeldByWillBe
    <2> QED BY <2>1, <2>2, <2>3
  <1> QED BY <1>2, <1>3 DEF Owner

(* Every step is one of HandleTableSpec, or leaves what it speaks of alone. *)
LEMMA StepRefines ==
  ASSUME FreeListSound, EInv, EInv', [TableNext]_tableVars
  PROVE  [S!Next]_<<Owner, Open, Given>>
  <1>0. Base /\ Held /\ Held' /\ Values
    BY DEF EInv
  <1> DEFINE Quiet == /\ \A u \in Threads : (HoldsEntry(u)' <=> HoldsEntry(u)) /\ (HoldsEntry(u) => h'[u] = h[u])
                      /\ UNCHANGED <<word, freeList>>
  <1>q. CASE Quiet
    <2>1. Owner' = Owner
      BY <1>0, <1>q, OwnerKept
    <2> QED BY <1>q, <2>1 DEF Open, Given
  <1> USE DEF TableGoto, At, blockVars, tableLocals
  <1>1. CASE UNCHANGED tableVars
    BY <1>1, <1>q DEF tableVars, HoldsEntry
  <1>2. CASE DestroyTable
    <2>1. \A u \in Threads : ~HoldsEntry(u) /\ ~HoldsEntry(u)'
      BY <1>2 DEF DestroyTable, HoldsEntry
    <2>2. Owner' = Owner /\ \A x \in Handles : Owner[x] = NULL
      BY <2>1 DEF Owner, HeldBy
    <2>3. Open' = {} /\ Given' = {}
      BY <1>2, ClosedIs DEF DestroyTable, Open, Given
    <2>4. S!Abandon
      BY <2>2, <2>3 DEF S!Abandon, Owner, Open, Given
    <2> QED BY <2>4 DEF S!Next
  <1>3. ASSUME NEW t \in Threads, Start(t) PROVE [S!Next]_<<Owner, Open, Given>>
    <2>1. CASE CreateHandle(t)
      <3>1. PICK x \in freeList : BeginCall(t, x, "one", "write") /\ freeList' = freeList \ {x}
        BY <2>1 DEF CreateHandle
      <3>2. x \in Handles /\ word' = word
        BY <1>0, <2>1 DEF CreateHandle, Base, TableTypeOK
      <3>3. \A u \in Threads : (HoldsEntry(u)' <=> HoldsEntry(u)) /\ (HoldsEntry(u) => h'[u] = h[u])
        BY <1>0, <3>1 DEF BeginCall, Base, TableTypeOK, HoldsEntry
      <3>4. Owner' = Owner
        BY <1>0, <3>3, OwnerKept
      <3>5. x \notin Given /\ Given' = Given \cup {x} /\ Open' = Open
        BY <3>1, <3>2 DEF Open, Given
      <3>6. S!Allocate(t, x)
        BY <3>4, <3>5 DEF S!Allocate, Owner, Open, Given
      <3> QED BY <3>2, <3>6 DEF S!Next
    <2>2. CASE MapHandle(t) \/ ChangeHandle(t) \/ EnumHandles(t) \/ Sweep(t)
      <3>1. Quiet
        BY <1>0, <2>2 DEF MapHandle, ChangeHandle, EnumHandles, Sweep, BeginCall, Base, TableTypeOK, HoldsEntry
      <3> QED BY <1>q, <3>1
    <2> QED BY <1>3, <2>1, <2>2 DEF Start
  <1>4. ASSUME NEW t \in Threads, Step(t) PROVE [S!Next]_<<Owner, Open, Given>>
    <2>0. h[t] \in Handles
      BY <1>0 DEF Base, TableTypeOK
    <2>1. CASE LockRead(t) \/ CheckEntry(t) \/ WalkEndUnlock(t)
      <3>1. CASE \E stop \in BOOLEAN : NextHandle(t, stop)
        <4>1. \A u \in Threads \ {t} : tpc'[u] = tpc[u] /\ h'[u] = h[u]
          BY <1>0, <3>1, EntryLeft
        <4>2. tpc'[t] \in {"idle", "check", "lock"}
          BY <1>0, <3>1, NextHandleIs
        <4>3. ~HoldsEntry(t) /\ ~HoldsEntry(t)' /\ UNCHANGED <<word, freeList>>
          BY <2>1, <4>2 DEF LockRead, CheckEntry, WalkEndUnlock, HoldsEntry
        <4> QED BY <1>q, <4>1, <4>3 DEF HoldsEntry
      <3>2. CASE UNCHANGED h /\ \E l \in {"cas", "block", "lock"} : TableGoto(t, l)
        <4>1. Quiet
          BY <1>0, <2>1, <3>2 DEF LockRead, CheckEntry, WalkEndUnlock, Base, TableTypeOK, HoldsEntry
        <4> QED BY <1>q, <4>1
      <3> QED BY <2>1, <3>1, <3>2 DEF LockRead, CheckEntry, WalkEndUnlock
    <2>2. CASE LockCas(t)
      <3>0. /\ tpc[t] = "cas" /\ seen[t].bit /\ h' = h /\ freeList' = freeList
        BY <1>0, <2>2 DEF LockCas, Base
      <3>1. CASE word[h[t]] = seen[t]
        <4>1. /\ word' = [word EXCEPT ![h[t]].bit = FALSE]
              /\ tpc' = [tpc EXCEPT ![t] = "hold"]
          BY <2>2, <3>1 DEF LockCas
        <4>2. ~HoldsEntry(t) /\ HoldsEntry(t)' /\ \A u \in Threads \ {t} : HoldsEntry(u)' <=> HoldsEntry(u)
          BY <1>0, <3>0, <4>1 DEF Base, TableTypeOK, HoldsEntry
        <4>3. Owner[h[t]] = NULL /\ Owner' = [Owner EXCEPT ![h[t]] = t]
          BY <1>0, <2>0, <3>0, <4>2, OwnerTaken
        <4>4. \A x \in Handles : word'[x].object = word[x].object
          BY <1>0, <4>1 DEF Base, TableTypeOK, EntryValue
        <4>5. h[t] \in Open /\ Open' = Open /\ Given' = Given
          BY <1>0, <2>0, <3>0, <3>1, <4>4 DEF Values, Open, Given
        <4>6. S!Hold(t, h[t])
          BY <4>3, <4>5 DEF S!Hold, Owner, Open, Given
        <4> QED BY <2>0, <4>6 DEF S!Next
      <3>2. CASE word[h[t]] # seen[t]
        <4>1. Quiet
          BY <1>0, <2>2, <3>2 DEF LockCas, Base, TableTypeOK, HoldsEntry
        <4> QED BY <1>q, <4>1
      <3> QED BY <3>1, <3>2
    <2>3. CASE \/ BlockLink(t) \/ BlockPush(t) \/ Relook(t) \/ WaitInitialize(t) \/ WaitBit(t) \/ Wake(t)
               \/ TakeStack(t) \/ WalkNext(t) \/ WalkReset(t) \/ WalkSignal(t) \/ WalkEndOwn(t)
      <3>1. tpc[t] \notin {"hold", "written"} /\ UNCHANGED <<word, freeList, h>>
        BY <2>3 DEF BlockLink, BlockPush, Relook, WaitInitialize, WaitBit, Wake, TakeStack, WalkNext,
           WalkReset, WalkSignal, WalkEndOwn
      <3>2. tpc' = tpc \/ \E l \in Waiting \cup Unblocking \cup {"lock"} : TableGoto(t, l)
        BY <2>3 DEF BlockLink, BlockPush, Relook, WaitInitialize, WaitBit, Wake, TakeStack, WalkNext,
           WalkReset, WalkSignal, WalkEndOwn, LeaveBlock, Advance, Waiting, Unblocking
      <3>3. Quiet
        BY <1>0, <3>1, <3>2 DEF Base, TableTypeOK, HoldsEntry, Waiting, Unblocking
      <3> QED BY <1>q, <3>3
    <2>4. CASE FreeEntry(t)
      <3>0. /\ tpc[t] = "walk" /\ after[t] = "free" /\ word' = word
            /\ freeList' = freeList \cup {h[t]} /\ NextHandle(t, FALSE)
        BY <2>4 DEF FreeEntry
      <3>1. \A u \in Threads \ {t} : tpc'[u] = tpc[u] /\ h'[u] = h[u]
        BY <1>0, <3>0, EntryLeft
      <3>2. tpc'[t] \in {"idle", "check", "lock"}
        BY <1>0, <3>0, NextHandleIs
      <3>3. \A u \in Threads : (HoldsEntry(u)' <=> HoldsEntry(u)) /\ (HoldsEntry(u) => h'[u] = h[u])
        BY <3>0, <3>1, <3>2 DEF HoldsEntry
      <3>4. Owner' = Owner
        BY <1>0, <3>3, OwnerKept
      <3>5. word[h[t]] = Closed /\ h[t] \notin freeList
        BY <1>0, <3>0 DEF Held, Keeps
      <3>6. h[t] \in Given \ Open /\ Given' = Given \ {h[t]} /\ Open' = Open
        BY <2>0, <3>0, <3>5, ClosedIs DEF Given, Open
      <3>7. S!Free(h[t])
        BY <3>4, <3>6 DEF S!Free, Owner, Open, Given
      <3> QED BY <2>0, <3>7 DEF S!Next
    <2>5. CASE WriteEntry(t)
      <3>0. tpc[t] = "write" /\ tpc' = [tpc EXCEPT ![t] = "written"] /\ h' = h /\ freeList' = freeList
        BY <2>5 DEF WriteEntry
      <3>1. PICK o \in Objects : word' = [word EXCEPT ![h[t]] = [object |-> o, bit |-> FALSE]]
        BY <2>5 DEF WriteEntry
      <3>2. ~HoldsEntry(t) /\ HoldsEntry(t)' /\ \A u \in Threads \ {t} : HoldsEntry(u)' <=> HoldsEntry(u)
        BY <1>0, <3>0 DEF Base, TableTypeOK, HoldsEntry
      <3>3. Owner[h[t]] = NULL /\ Owner' = [Owner EXCEPT ![h[t]] = t]
        BY <1>0, <2>0, <3>0, <3>2, OwnerTaken
      <3>4. /\ \A x \in Handles \ {h[t]} : word'[x] = word[x]
            /\ word'[h[t]].object # NULL
        BY <1>0, <2>0, <3>1, ObjectsAssumption DEF Base, TableTypeOK
      <3>5. word[h[t]] = Closed /\ h[t] \notin freeList
        BY <1>0, <3>0 DEF Held, Keeps
      <3>6. h[t] \in Given \ Open /\ Open' = Open \cup {h[t]} /\ Given' = Given
        BY <2>0, <3>0, <3>4, <3>5, ClosedIs DEF Given, Open
      <3>7. PICK x \in Handles : x = h[t] /\ S!Fill(t, x)
        BY <2>0, <3>3, <3>6 DEF S!Fill, Owner, Open, Given
      <3>8. S!Next
        BY <3>7 DEF S!Next
      <3> QED BY <3>8
    <2>6. CASE Unlock(t)
      <3>0. /\ HoldsEntry(t) /\ tpc' = [tpc EXCEPT ![t] = "exchange"] /\ h' = h /\ freeList' = freeList
            /\ word' = [word EXCEPT ![h[t]].bit = TRUE]
        BY <2>6 DEF Unlock, HoldsEntry
      <3>1. ~HoldsEntry(t)' /\ \A u \in Threads \ {t} : HoldsEntry(u)' <=> HoldsEntry(u)
        BY <1>0, <3>0 DEF Base, TableTypeOK, HoldsEntry
      <3>2. Owner[h[t]] = t /\ Owner' = [Owner EXCEPT ![h[t]] = NULL]
        BY <1>0, <2>0, <3>0, <3>1, OwnerGone
      <3>3. \A x \in Handles : word'[x].object = word[x].object
        BY <1>0, <3>0 DEF Base, TableTypeOK, EntryValue
      <3>4. Open' = Open /\ Given' = Given
        BY <3>0, <3>3 DEF Open, Given
      <3>5. S!LetGo(t, h[t])
        BY <3>2, <3>4 DEF S!LetGo, Owner, Open, Given
      <3> QED BY <2>0, <3>5 DEF S!Next
    <2>7. CASE Destroy(t)
      <3>0. /\ HoldsEntry(t) /\ tpc' = [tpc EXCEPT ![t] = "exchange"] /\ h' = h /\ freeList' = freeList
            /\ word' = [word EXCEPT ![h[t]] = Closed]
        BY <2>7 DEF Destroy, HoldsEntry
      <3>1. ~HoldsEntry(t)' /\ \A u \in Threads \ {t} : HoldsEntry(u)' <=> HoldsEntry(u)
        BY <1>0, <3>0 DEF Base, TableTypeOK, HoldsEntry
      <3>2. Owner[h[t]] = t /\ Owner' = [Owner EXCEPT ![h[t]] = NULL]
        BY <1>0, <2>0, <3>0, <3>1, OwnerGone
      <3>3. word'[h[t]].object = NULL /\ \A x \in Handles \ {h[t]} : word'[x] = word[x]
        BY <1>0, <2>0, <3>0, ClosedIs DEF Base, TableTypeOK
      <3>4. Open' = Open \ {h[t]} /\ Given' = Given
        BY <3>0, <3>3 DEF Open, Given
      <3>5. PICK x \in Handles : x = h[t] /\ S!Close(t, x)
        BY <2>0, <3>2, <3>4 DEF S!Close, Owner, Open, Given
      <3>8. S!Next
        BY <3>5 DEF S!Next
      <3> QED BY <3>8
    <2> QED BY <1>4, <2>1, <2>2, <2>3, <2>4, <2>5, <2>6, <2>7 DEF Step
  <1> QED BY <1>1, <1>2, <1>3, <1>4 DEF TableNext

(* The handle table of handle.c, with its lock bits and its contention     *)
(* event, implements HandleTableSpec on top of any free list that gives    *)
(* out free entries only; the one of the code does not (HandleFreeList).   *)
THEOREM HandleTableRefines == FreeListSound => (TableSpec => ImplementsHandleTable)
  <1> SUFFICES ASSUME FreeListSound PROVE TableSpec => ImplementsHandleTable
    OBVIOUS
  <1>1. TableInit => S!Init
    <2> SUFFICES ASSUME TableInit PROVE S!Init
      OBVIOUS
    <2>1. \A x \in Handles : word[x].object = NULL /\ HeldBy(x) = NULL
      BY ClosedIs DEF TableInit, HeldBy, HoldsEntry
    <2> QED BY <2>1 DEF S!Init, TableInit
  <1>2. EInv /\ EInv' /\ [TableNext]_tableVars => [S!Next]_<<Owner, Open, Given>>
    BY StepRefines
  <1> QED BY <1>1, <1>2, EntriesInvariance, PTL DEF TableSpec, ImplementsHandleTable, S!Spec, Owner, Open, Given

=============================================================================
