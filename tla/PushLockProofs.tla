----------------------------- MODULE PushLockProofs -----------------------------
(***************************************************************************)
(* Proofs about PushLock, for any finite set of threads and any entry      *)
(* points in use.                                                          *)
(*                                                                         *)
(* The lock word names the newest wait block; the list is in the links of  *)
(* the blocks, which four routines edit one access at a time.  The         *)
(* invariant (IInv) says that there are a list q of the waiters, oldest    *)
(* first, and for each thread a batch b[t] of waiters that it took off q   *)
(* and has not signaled, which explain the links.  They are determined by  *)
(* the state, so no history variable is needed: Inductive quantifies them, *)
(* and each step is shown to have new ones.  A new waiter appends to q     *)
(* (PushStep), a wake moves all of q, or its oldest waiter, to the batch   *)
(* of the thread (WakeAllStep, WakeUnlinkStep), a signal shortens a batch, *)
(* and every other step leaves both alone (Steady).                        *)
(*                                                                         *)
(*   Words, Controls      what the bits mean, and what a thread knows      *)
(*   Waking, Owners       one thread has the waking bit, and how much of   *)
(*                        the list it has seen                             *)
(*   Shape, Known         the links of q, and where its oldest is found    *)
(*   Several, Counted     the holders are as many as the word, or the      *)
(*                        oldest block, says; hence exclusion              *)
(*   Batches, Members,    a parked thread is in one place until it is      *)
(*   Gates                signaled, and is signaled once                   *)
(*   Served               a free lock with waiters has somebody coming     *)
(*                                                                         *)
(* The walks of the properties are recursive functions of a length; what   *)
(* they reach on a list is proved with a least counterexample (LeastOf).   *)
(***************************************************************************)
EXTENDS PushLock, SequenceTheorems, FiniteSetTheorems, WellFoundedInduction, TLAPS

\* The places in the code.
Places == OptimizerAt \cup WakerAt \cup SignalerAt \cup WaiterAt
            \cup {"idle", "exRead", "exTry", "shRead", "shTry",
                  "relFast", "relRead", "relTry", "relWalk", "relCount",
                  "relUnlock", "tryRead", "tryWake", "rxRead", "rxTry"}
\* Where a thread has the waking bit.
OwnerAt == OptimizerAt \cup WakerAt
\* Types without the bound that TypeOK puts on the counts.
Wide == [locked : BOOLEAN, waiting : BOOLEAN, waking : BOOLEAN,
         multi : BOOLEAN, shared : Nat, ptr : Threads \cup {NULL}]
WideBlock == [next : Threads \cup {NULL}, last : Threads \cup {NULL},
              prev : Threads \cup {NULL}, shareCount : Nat,
              exclusive : BOOLEAN, wait : BOOLEAN, signaled : BOOLEAN]
Types ==
    /\ lock \in Wide
    /\ blk \in [Threads -> WideBlock]
    /\ gate \in [Threads -> BOOLEAN]
    /\ pc \in [Threads -> Places]
    /\ call \in [Threads -> EntryPoints \cup {"none"}]
    /\ hold \in [Threads -> {"none", "shared", "exclusive"}]
    /\ old \in [Threads -> Wide]
    /\ cur \in [Threads -> Wide]
    /\ wb \in [Threads -> Threads \cup {NULL}]
    /\ todo \in [Threads -> Threads \cup {NULL}]

\* Flags and count of a lock word fit together.
Word(v) ==
    /\ v.waking => v.waiting
    /\ v.waiting => v.shared = 0 /\ v.ptr # NULL
    /\ ~v.waiting => ~v.multi /\ v.ptr = NULL
    /\ v.multi => v.locked
    /\ v.shared > 0 => v.locked
Words == /\ Word(lock)
         /\ \A t \in Threads : Word(old[t]) /\ Word(cur[t])

\* Where a thread gives the lock up but has not done so.
Releasing == {"relFast", "relRead", "relTry", "relWalk", "relCount", "relUnlock"}

\* What a thread knows of its call and of what it read, at its place.
Control(t) ==
    /\ pc[t] \in {"exRead", "exTry"} => call[t] \in {"exclusive", "waitOn"}
    /\ pc[t] \in {"shRead", "shTry"} => call[t] = "shared"
    /\ pc[t] \in WaiterAt \cup OptimizerAt => Acquiring(t)
    /\ pc[t] \in Releasing \cup {"idle", "tryRead", "tryWake", "rxRead", "rxTry"} => ~Acquiring(t)
    /\ hold[t] # "none" => pc[t] \in {"idle", "rxRead"}
    /\ pc[t] = "rxRead" => hold[t] = "exclusive"
    /\ todo[t] # NULL => pc[t] = "setGate"
    /\ pc[t] \in {"relFast", "relTry", "relWalk", "relCount", "relUnlock", "rxTry"} => old[t].locked
    /\ pc[t] \in {"relWalk", "relCount", "relUnlock"} => old[t].waiting
    /\ pc[t] \in {"relWalk", "relCount"} => old[t].multi
    /\ pc[t] = "rxTry" => ~old[t].multi /\ old[t].shared = 0
    /\ pc[t] \in {"optWalk", "optDone"} => cur[t].locked
    /\ pc[t] \in {"wakeWalk", "wakeTake", "wakeClear"} => ~cur[t].locked
    /\ pc[t] \in WakerAt => ~cur[t].multi
    /\ pc[t] \in OwnerAt => cur[t].waiting
    /\ pc[t] \in OwnerAt /\ lock.multi => cur[t].multi
Controls == \A t \in Threads : Control(t)

\* The waking bit has one owner.
Waking ==
    /\ lock.waking <=> \E t \in Threads : pc[t] \in OwnerAt
    /\ \A t, u \in Threads : pc[t] \in OwnerAt /\ pc[u] \in OwnerAt => t = u

\* The list, oldest first: every Next is set, Previous only where optimized.
Shape(q) ==
    /\ q \in Seq(Threads)
    /\ \A i, j \in 1 .. Len(q) : q[i] = q[j] => i = j
    /\ lock.waiting <=> Len(q) > 0
    /\ lock.waiting => lock.ptr = q[Len(q)]
    /\ \A i \in 2 .. Len(q) : blk[q[i]].next = q[i - 1]
    /\ \A i \in 1 .. Len(q) - 1 : blk[q[i]].prev \in {NULL, q[i + 1]}
    /\ Len(q) > 0 => blk[q[Len(q)]].prev = NULL

\* Last of some block is the oldest one; up to there Previous is set.
Known(q) ==
    Len(q) > 0 =>
        \E k \in 1 .. Len(q) :
            /\ blk[q[k]].last = q[1]
            /\ \A i \in k + 1 .. Len(q) : blk[q[i]].last = NULL
            /\ \A i \in 1 .. k - 1 : blk[q[i]].prev = q[i + 1]

\* What the owner of the waking bit has seen: the block cur points to, with
\* nothing optimized past it, and how far its walk got.
OwnerView(t, q) ==
    \E j \in 1 .. Len(q) :
        /\ q[j] = cur[t].ptr
        /\ \A i \in j .. Len(q) : blk[q[i]].prev = NULL
        /\ \A i \in j + 1 .. Len(q) : blk[q[i]].last = NULL
        /\ pc[t] \in {"optWalk", "wakeWalk"} =>
              \E m \in 1 .. j :
                  /\ wb[t] = q[m]
                  /\ \A i \in m .. j - 1 : blk[q[i]].prev = q[i + 1]
                  /\ \A i \in m + 1 .. j : blk[q[i]].last = NULL
        /\ pc[t] = "optDone" => blk[q[j]].last # NULL
        /\ pc[t] = "wakeTake" =>
              /\ wb[t] = q[1]
              /\ \A i \in 1 .. j - 1 : blk[q[i]].prev = q[i + 1]
Owners(q) ==
    \A t \in Threads :
       /\ pc[t] \in OwnerAt \ {"wakeClear"} => OwnerView(t, q)
       /\ pc[t] = "wakeClear" => \E j \in 1 .. Len(q) : q[j] = cur[t].ptr

\* u is on s.
On(u, s) == \E i \in 1 .. Len(s) : s[i] = u

\* With several sharers the oldest block has the count.  What a release has
\* seen of the list is still there.
Several(q) ==
    /\ lock.multi => /\ blk[q[1]].exclusive
                     /\ blk[q[1]].last = q[1]
                     /\ \A i \in 1 .. Len(q) : blk[q[i]].last \in {NULL, q[1]}
    /\ lock.multi /\ blk[q[1]].shareCount = 0 => \E t \in Threads : pc[t] = "relUnlock"
    /\ \A u \in Threads : blk[u].shareCount # 0 => lock.multi /\ u = q[1]
    /\ \A t \in Threads :
        /\ pc[t] \in {"relTry", "relWalk", "relCount", "relUnlock"} /\ old[t].waiting =>
               lock.waiting /\ lock.multi = old[t].multi
        /\ pc[t] = "relTry" /\ old[t].multi => On(old[t].ptr, q)
        /\ pc[t] = "relWalk" => On(wb[t], q)
        /\ pc[t] = "relCount" => wb[t] = q[1]
        /\ pc[t] = "relUnlock" /\ lock.multi => blk[q[1]].shareCount = 0

\* Who has the lock.
Holders == {t \in Threads : hold[t] # "none" \/ pc[t] \in Releasing \cup {"rxTry"}}
AtLeastOne(n) == IF n > 0 THEN n ELSE 1
\* How many have it, as the lock and the oldest block say.
Held(q) == IF ~lock.locked THEN 0
           ELSE IF lock.multi THEN AtLeastOne(blk[q[1]].shareCount)
           ELSE AtLeastOne(lock.shared)
Counted(q) ==
    /\ Cardinality(Holders) = Held(q)
    /\ \A t \in Threads : hold[t] = "exclusive" \/ pc[t] = "rxTry" => ~lock.multi /\ lock.shared = 0

\* There are no more holders than threads.
Bounded ==
    /\ \A t \in Threads : /\ blk[t].shareCount <= Cardinality(Threads)
                          /\ old[t].shared <= Cardinality(Threads)
                          /\ cur[t].shared <= Cardinality(Threads)
    /\ lock.shared <= Cardinality(Threads)

\* b[t]: whom t took off the list and has not signaled, linked by Previous.
Batches(q, b) ==
    /\ b \in [Threads -> Seq(Threads)]
    /\ \A t \in Threads :
        /\ b[t] # << >> => pc[t] \in {"wakeClear"} \cup SignalerAt
        /\ pc[t] \in {"wakeClear", "signal"} => b[t] # << >> /\ wb[t] = b[t][1]
        /\ pc[t] = "wakeClear" => Len(b[t]) = 1
        /\ pc[t] = "setGate" => wb[t] # NULL /\ todo[t] = IF b[t] = << >> THEN NULL ELSE b[t][1]
        /\ \A i, j \in 1 .. Len(b[t]) : b[t][i] = b[t][j] => i = j
        /\ \A i \in 1 .. Len(b[t]) - 1 : blk[b[t][i]].prev = b[t][i + 1]
        /\ b[t] # << >> => blk[b[t][Len(b[t])]].prev = NULL
        /\ \A u \in Threads : On(u, b[t]) => ~On(u, q)
    /\ \A t, v, u \in Threads : On(u, b[t]) /\ On(u, b[v]) => t = v

\* A parked thread is on the list, or in a batch, until it is signaled.
Members(q, b) ==
    \A u \in Threads :
        Parked(u) /\ ~blk[u].signaled <=> On(u, q) \/ \E t \in Threads : On(u, b[t])

\* The wait bit decides, once, between spinning and the gate.
Gates ==
    \A u \in Threads :
        /\ Parked(u) /\ ~blk[u].signaled => (blk[u].wait <=> pc[u] # "gateWait")
        /\ Parked(u) /\ blk[u].signaled => ~blk[u].wait
        /\ pc[u] = "testWait" => ~gate[u]
        /\ pc[u] = "gateWait" /\ ~blk[u].signaled => ~gate[u]
        /\ pc[u] = "gateWait" /\ blk[u].signaled =>
              gate[u] \/ \E v \in Threads : pc[v] = "setGate" /\ wb[v] = u
        /\ \A v \in Threads : pc[v] = "setGate" /\ wb[v] = u =>
              pc[u] = "gateWait" /\ blk[u].signaled /\ ~gate[u]
        /\ \A v, w \in Threads : pc[v] = "setGate" /\ wb[v] = u /\ pc[w] = "setGate" /\ wb[w] = u => v = w

\* t will look at the lock, or wake somebody who will.
Coming(t, b) ==
     \/ pc[t] = "tryRead"
     \/ pc[t] = "tryWake" /\ old[t] = lock
     \/ pc[t] \in {"exRead", "exTry", "shRead", "shTry"}
     \/ Parked(t) /\ blk[t].signaled
     \/ b[t] # << >>
Served(b) == lock.waiting /\ ~lock.locked /\ ~lock.waking => \E t \in Threads : Coming(t, b)

\* The inductive invariant.
IInv(q, b) == /\ Types /\ Words /\ Controls /\ Waking /\ Shape(q) /\ Known(q)
              /\ Owners(q) /\ Several(q) /\ Counted(q) /\ Bounded
              /\ Batches(q, b) /\ Members(q, b) /\ Gates /\ Served(b)

\* A step of t.
Step(t) == BeginAcquire(t) \/ BeginRelease(t) \/ Convert(t) \/ InCall(t)

\* Who follows links has a block to start from, and the list is not empty.
LEMMA Walkers ==
    ASSUME NEW q, NEW b, IInv(q, b), NEW t \in Threads
    PROVE  /\ pc[t] \in WalkerAt => wb[t] \in Threads
           /\ pc[t] \in OwnerAt => cur[t].ptr \in Threads
           /\ pc[t] \in {"relWalk", "relCount"} \cup OwnerAt => Len(q) > 0
<1>0. q \in Seq(Threads) /\ b \in [Threads -> Seq(Threads)]
  BY DEF IInv, Shape, Batches
<1>1. pc[t] \in {"optWalk", "wakeWalk", "wakeTake"} => wb[t] \in Threads
  <2>1. SUFFICES ASSUME pc[t] \in {"optWalk", "wakeWalk", "wakeTake"}
                 PROVE  wb[t] \in Threads
    OBVIOUS
  <2>2. OwnerView(t, q)
    BY <2>1 DEF IInv, Owners, OwnerAt, OptimizerAt, WakerAt
  <2>3. PICK j \in 1 .. Len(q) :
            /\ pc[t] \in {"optWalk", "wakeWalk"} => \E m \in 1 .. j : wb[t] = q[m]
            /\ pc[t] = "wakeTake" => wb[t] = q[1]
    BY <2>2 DEF OwnerView
  <2> QED  BY <1>0, <2>1, <2>3
<1>2. pc[t] \in OwnerAt => cur[t].ptr \in Threads /\ Len(q) > 0
  <2>1. SUFFICES ASSUME pc[t] \in OwnerAt
                 PROVE  \E j \in 1 .. Len(q) : q[j] = cur[t].ptr
    BY <1>0
  <2> QED  BY <2>1 DEF IInv, Owners, OwnerView
<1>3. pc[t] \in {"relWalk", "relCount"} => Len(q) > 0
  BY <1>0 DEF IInv, Several, Controls, Control, Shape
<1>4. pc[t] \in {"relWalk", "relCount"} => wb[t] \in Threads
  <2>1. Several(q)  BY DEF IInv
  <2>2. pc[t] = "relWalk" => \E i \in 1 .. Len(q) : q[i] = wb[t]
    BY <2>1 DEF Several, On
  <2>3. pc[t] = "relCount" => wb[t] = q[1]
    BY <2>1 DEF Several
  <2> QED  BY <1>0, <1>3, <2>2, <2>3
<1>5. pc[t] \in {"wakeClear", "signal"} => wb[t] \in Threads
  <2>1. SUFFICES ASSUME pc[t] \in {"wakeClear", "signal"} PROVE wb[t] \in Threads
    OBVIOUS
  <2>2. b[t] # << >> /\ wb[t] = b[t][1] /\ b[t] \in Seq(Threads)
    BY <1>0, <2>1 DEF IInv, Batches
  <2> QED  BY <2>2
<1>6. pc[t] = "setGate" => wb[t] \in Threads
  BY DEF IInv, Batches, Types
<1> QED  BY <1>1, <1>2, <1>3, <1>4, <1>5, <1>6 DEF WalkerAt, SignalerAt, OwnerAt

\* A walk that goes on is not at the oldest block.
LEMMA WalksOn ==
    ASSUME NEW q, NEW b, IInv(q, b), NEW t \in Threads,
           pc[t] \in {"optWalk", "wakeWalk"}, blk[wb[t]].last = NULL
    PROVE  \E j \in 1 .. Len(q), m \in 2 .. Len(q) :
              /\ m <= j
              /\ q[j] = cur[t].ptr /\ q[m] = wb[t] /\ q[m - 1] = blk[wb[t]].next
              /\ \A i \in j .. Len(q) : blk[q[i]].prev = NULL
              /\ \A i \in j + 1 .. Len(q) : blk[q[i]].last = NULL
              /\ \A i \in m .. j - 1 : blk[q[i]].prev = q[i + 1]
              /\ \A i \in m .. Len(q) : blk[q[i]].last = NULL
<1>0. q \in Seq(Threads) /\ Len(q) \in Nat
  BY DEF IInv, Shape
<1>1. OwnerView(t, q)
  BY DEF IInv, Owners, OwnerAt, OptimizerAt, WakerAt
<1>2. PICK j \in 1 .. Len(q) :
        /\ q[j] = cur[t].ptr
        /\ \A i \in j .. Len(q) : blk[q[i]].prev = NULL
        /\ \A i \in j + 1 .. Len(q) : blk[q[i]].last = NULL
        /\ \E m \in 1 .. j :
                  /\ wb[t] = q[m]
                  /\ \A i \in m .. j - 1 : blk[q[i]].prev = q[i + 1]
                  /\ \A i \in m + 1 .. j : blk[q[i]].last = NULL
  BY <1>1 DEF OwnerView
<1>3. PICK m \in 1 .. j :
                  /\ wb[t] = q[m]
                  /\ \A i \in m .. j - 1 : blk[q[i]].prev = q[i + 1]
                  /\ \A i \in m + 1 .. j : blk[q[i]].last = NULL
  BY <1>2
<1>4. PICK k \in 1 .. Len(q) : blk[q[k]].last = q[1]
  BY <1>0 DEF IInv, Known
<1>5. \A i \in m .. Len(q) : blk[q[i]].last = NULL
  BY <1>0, <1>2, <1>3
<1>6. q[1] # NULL
  BY <1>0, NullAssumption
<1>7. m >= 2
  BY <1>0, <1>4, <1>5, <1>6
<1>8. blk[q[m]].next = q[m - 1]
  BY <1>0, <1>7 DEF IInv, Shape
<1>9. m \in 2 .. Len(q) /\ m <= j /\ q[m - 1] = blk[wb[t]].next
  BY <1>0, <1>3, <1>7, <1>8
<1> QED  BY <1>2, <1>3, <1>5, <1>9


\* The words of a free lock and of one with n sharers are well formed.
LEMMA FreeWide == Free \in Wide /\ \A n \in Nat : Locked(n) \in Wide
  BY NullAssumption DEF Free, Locked, Wide

\* A step leaves a well-formed word in the lock.
LEMMA LockTypes ==
    ASSUME NEW q, NEW b, IInv(q, b), NEW t \in Threads, Step(t)
    PROVE  lock' \in Wide
<1>0. lock \in Wide /\ old[t] \in Wide /\ cur[t] \in Wide
  BY DEF IInv, Types
<1>1. ASSUME (\E c \in Calls : AcquireExclusiveSlow(t, c)) \/ ExclusiveRead(t)
          \/ ExclusiveRetry(t) \/ AcquireSharedSlow(t) \/ SharedRead(t)
          \/ SharedRetry(t) \/ InitGate(t) \/ TestWait(t) \/ GateWait(t)
          \/ OptimizeUnlocked(t) \/ OptimizeStart(t) \/ WalkOn(t, "optWalk")
          \/ WalkOn(t, "wakeWalk") \/ OptimizeFound(t) \/ OptimizeRetry(t)
          \/ WakeReload(t) \/ WakeStart(t) \/ WakeFound(t) \/ WakeAllRetry(t)
          \/ WakeUnlink(t) \/ SignalSpinner(t) \/ SignalWaiter(t) \/ SetGate(t)
          \/ ReleaseSharedSlow(t) \/ ReleaseEnter(t) \/ ReleaseFastFails(t)
          \/ ReleaseRead(t) \/ ReleaseReload(t) \/ ReleaseFindCount(t)
          \/ ReleaseNoCount(t) \/ ReleaseWalkOn(t) \/ ReleaseFound(t)
          \/ ReleaseCounted(t) \/ ReleaseCountedLast(t)
          \/ ReleaseUnlockFails(t) \/ TryWakeRead(t) \/ TryWakeNot(t)
          \/ ReleaseExclusiveSlow(t) \/ ReleaseExclusiveRead(t)
          \/ ReleaseExclusiveReload(t)
      PROVE  lock' = lock
  BY <1>1 DEF AcquireExclusiveSlow, Enter, Goto, locals, ExclusiveRead,
      ReadLock, ExclusiveRetry, FrameGone, AcquireSharedSlow, SharedRead,
      SharedRetry, InitGate, TestWait, Again, GateWait, OptimizeUnlocked,
      OptimizeStart, WalkOn, OptimizeFound, OptimizeRetry, WakeReload,
      WakeStart, WakeFound, WakeAllRetry, WakeUnlink, WakeOneOnly,
      SignalSpinner, SignalNext, SubroutineReturns, Return, Acquiring,
      SignalWaiter, SetGate, ReleaseSharedSlow, Holds, ReleaseEnter,
      ReleaseFastFails, ReleaseRead, ReleaseReload, ReleaseFindCount,
      ReleaseNoCount, ReleaseWalkOn, ReleaseFound, ReleaseCounted,
      ReleaseCountedLast, ReleaseUnlockFails, vars, TryWakeRead, TryWakeNot,
      ReleaseExclusiveSlow, ReleaseExclusiveRead, ReleaseExclusiveReload
<1>2. CASE AcquireExclusiveFast(t)
  BY <1>2, <1>0 DEF Wide, AcquireExclusiveFast, Holds, locals
<1>3. CASE ExclusiveTake(t)
  BY <1>3, <1>0 DEF Wide, ExclusiveTake, Exchange, Return, Goto, Holds,
      FrameGone, locals, Free, NewBlock
<1>4. CASE ExclusiveNextWaiter(t)
  BY <1>4, <1>0 DEF Wide, ExclusiveNextWaiter, Exchange, NewBlock, Goto,
      Subroutine, Acquiring, locals, Free
<1>5. CASE AcquireSharedFast(t)
  BY <1>5, <1>0 DEF Wide, AcquireSharedFast, Exchange, Locked, Free, Holds,
      locals
<1>6. CASE SharedFirstWaiter(t)
  BY <1>6, <1>0 DEF Wide, SharedFirstWaiter, MayShare, Exchange, NewBlock,
      Goto, locals
<1>7. CASE SharedNextWaiter(t)
  BY <1>7, <1>0 DEF Wide, SharedNextWaiter, MayShare, Exchange, NewBlock, Goto,
      Subroutine, Acquiring, locals, Free
<1>8. CASE OptimizeDone(t)
  BY <1>8, <1>0 DEF Wide, OptimizeDone, Exchange, SubroutineReturns, Return,
      Goto, Acquiring, Free
<1>9. CASE WakeNotNow(t)
  BY <1>9, <1>0 DEF Wide, WakeNotNow, Exchange, SubroutineReturns, Return,
      Goto, Acquiring, Free
<1>10. CASE WakeAll(t)
  BY <1>10, <1>0 DEF Wide, WakeAll, Goto, Exchange, Free
<1>11. CASE WakeClear(t)
  BY <1>11, <1>0 DEF Wide, WakeClear, Goto, Free
<1>12. CASE ReleaseSharedFast(t)
  BY <1>12, <1>0 DEF Wide, ReleaseSharedFast, Exchange, Locked, Free, Holds,
      locals
<1>13. CASE ReleaseUnlock(t)
  BY <1>13, <1>0 DEF Wide, ReleaseUnlock, Exchange, Return, Subroutine, Goto,
      Acquiring, Free
<1>14. CASE ReleaseExclusiveFast(t)
  BY <1>14, <1>0 DEF Wide, ReleaseExclusiveFast, Holds, Enter, Goto, locals
<1>15. CASE TryWake(t)
  BY <1>15, <1>0 DEF Wide, TryWake, Wakeable, Exchange, Subroutine, Goto,
      Acquiring, Free
<1>16. CASE ReleaseExclusiveWake(t)
  BY <1>16, <1>0 DEF Wide, ReleaseExclusiveWake, Exchange, Subroutine, Goto,
      Acquiring, Free
<1>17. CASE ReleaseExclusiveSimple(t)
  BY <1>17, <1>0 DEF Wide, ReleaseExclusiveSimple, Exchange, Return, Goto, Free
<1>18. CASE Convert(t)
  BY <1>18, <1>0 DEF Wide, Convert, Exchange, Locked, Free, Holds, locals
<1>19. CASE ExclusiveFirstWaiter(t)
  <2>1. PICK r \in BOOLEAN : lock' = [Locked(0) EXCEPT !.waiting = TRUE, !.ptr = t, !.multi = r]
    <3> DEFINE readers == IF old[t].shared > 1 THEN old[t].shared ELSE 0
    <3>1. lock' = [Locked(0) EXCEPT !.waiting = TRUE, !.ptr = t, !.multi = readers > 0]
      BY <1>19 DEF ExclusiveFirstWaiter, Exchange
    <3>2. (readers > 0) \in BOOLEAN
      OBVIOUS
    <3> HIDE DEF readers
    <3> QED  BY <3>1, <3>2
  <2>2. Locked(0) \in Wide
    BY FreeWide
  <2> QED  BY <2>1, <2>2 DEF Wide
<1>20. CASE SharedTake(t)
  <2>1. \/ lock' = [old[t] EXCEPT !.locked = TRUE]
        \/ lock' = Locked(old[t].shared + 1)
    BY <1>20 DEF SharedTake, Exchange
  <2>2. old[t].shared + 1 \in Nat
    BY <1>0 DEF Wide
  <2>3. Locked(old[t].shared + 1) \in Wide
    BY <2>2, FreeWide
  <2> QED  BY <1>0, <2>1, <2>3 DEF Wide
<1>21. CASE ReleaseNoWaiter(t, "relFast") \/ ReleaseNoWaiter(t, "relTry")
  <2>1. lock' = Dropped(old[t])
    BY <1>21 DEF ReleaseNoWaiter, Exchange
  <2>2. old[t].shared > 1 => old[t].shared - 1 \in Nat
    BY <1>0 DEF Wide
  <2> QED  BY <2>1, <2>2, FreeWide DEF Dropped
<1> QED
  BY <1>0, <1>1, <1>2, <1>3, <1>4, <1>5, <1>6, <1>7, <1>8, <1>9, <1>10, <1>11,
      <1>12, <1>13, <1>14, <1>15, <1>16, <1>17, <1>18, <1>19, <1>20,
      <1>21 DEF Step, BeginAcquire, BeginRelease, InCall, InAcquire,
      InOptimize, InWake, InRelease

\* A step leaves well-formed wait blocks.
LEMMA BlkTypes ==
    ASSUME NEW q, NEW b, IInv(q, b), NEW t \in Threads, Step(t)
    PROVE  blk' \in [Threads -> WideBlock]
<1>0. blk \in [Threads -> WideBlock]
  BY DEF IInv, Types
<1>w. pc[t] \in WalkerAt => wb[t] \in Threads
  BY Walkers
<1>o. old[t].ptr \in Threads \cup {NULL} /\ old[t].shared \in Nat
  BY DEF IInv, Types, Wide
<1>1. ASSUME AcquireExclusiveFast(t)
          \/ (\E c \in Calls : AcquireExclusiveSlow(t, c)) \/ ExclusiveRead(t)
          \/ AcquireSharedFast(t) \/ AcquireSharedSlow(t) \/ SharedRead(t)
          \/ InitGate(t) \/ GateWait(t) \/ OptimizeUnlocked(t)
          \/ OptimizeStart(t) \/ OptimizeDone(t) \/ OptimizeRetry(t)
          \/ WakeNotNow(t) \/ WakeReload(t) \/ WakeStart(t) \/ WakeFound(t)
          \/ WakeAll(t) \/ WakeAllRetry(t) \/ WakeClear(t) \/ SetGate(t)
          \/ ReleaseSharedFast(t) \/ ReleaseSharedSlow(t) \/ ReleaseEnter(t)
          \/ ReleaseNoWaiter(t, "relFast") \/ ReleaseNoWaiter(t, "relTry")
          \/ ReleaseFastFails(t) \/ ReleaseRead(t) \/ ReleaseReload(t)
          \/ ReleaseFindCount(t) \/ ReleaseNoCount(t) \/ ReleaseWalkOn(t)
          \/ ReleaseFound(t) \/ ReleaseUnlock(t) \/ ReleaseUnlockFails(t)
          \/ ReleaseExclusiveFast(t) \/ TryWakeRead(t) \/ TryWake(t)
          \/ TryWakeNot(t) \/ ReleaseExclusiveSlow(t)
          \/ ReleaseExclusiveRead(t) \/ ReleaseExclusiveWake(t)
          \/ ReleaseExclusiveSimple(t) \/ ReleaseExclusiveReload(t)
          \/ Convert(t)
      PROVE  blk' = blk
  BY <1>1 DEF AcquireExclusiveFast, Holds, locals, AcquireExclusiveSlow, Enter,
      Goto, ExclusiveRead, ReadLock, AcquireSharedFast, Exchange, Locked,
      AcquireSharedSlow, SharedRead, InitGate, GateWait, Again,
      OptimizeUnlocked, OptimizeStart, OptimizeDone, SubroutineReturns, Return,
      Acquiring, OptimizeRetry, WakeNotNow, WakeReload, WakeStart, WakeFound,
      WakeAll, WakeAllRetry, WakeClear, SetGate, SignalNext, ReleaseSharedFast,
      ReleaseSharedSlow, ReleaseEnter, ReleaseNoWaiter, Dropped,
      ReleaseFastFails, ReleaseRead, ReleaseReload, ReleaseFindCount,
      ReleaseNoCount, ReleaseWalkOn, ReleaseFound, ReleaseUnlock, Subroutine,
      ReleaseUnlockFails, vars, ReleaseExclusiveFast, TryWakeRead, TryWake,
      Wakeable, TryWakeNot, ReleaseExclusiveSlow, ReleaseExclusiveRead,
      ReleaseExclusiveWake, ReleaseExclusiveSimple, ReleaseExclusiveReload,
      Convert
<1>2. CASE ExclusiveTake(t)
  BY <1>2, <1>0, <1>w, <1>o DEF WideBlock, WalkerAt, SignalerAt, ExclusiveTake,
      Exchange, Return, Goto, Holds, FrameGone, locals, Free, NewBlock
<1>3. CASE ExclusiveRetry(t)
  BY <1>3, <1>0, <1>w, <1>o DEF WideBlock, WalkerAt, SignalerAt,
      ExclusiveRetry, Goto, FrameGone, Free, NewBlock
<1>4. CASE ExclusiveFirstWaiter(t)
  BY <1>4, <1>0, <1>w, <1>o DEF WideBlock, WalkerAt, SignalerAt,
      ExclusiveFirstWaiter, Exchange, Locked, Free, NewBlock, Goto, locals
<1>5. CASE ExclusiveNextWaiter(t)
  BY <1>5, <1>0, <1>w, <1>o DEF WideBlock, WalkerAt, SignalerAt,
      ExclusiveNextWaiter, Exchange, NewBlock, Goto, Subroutine, Acquiring,
      locals, Free
<1>6. CASE SharedTake(t)
  BY <1>6, <1>0, <1>w, <1>o DEF WideBlock, WalkerAt, SignalerAt, SharedTake,
      MayShare, Exchange, Locked, Free, Return, Goto, Holds, FrameGone,
      NewBlock
<1>7. CASE SharedRetry(t)
  BY <1>7, <1>0, <1>w, <1>o DEF WideBlock, WalkerAt, SignalerAt, SharedRetry,
      Goto, FrameGone, Free, NewBlock
<1>8. CASE SharedFirstWaiter(t)
  BY <1>8, <1>0, <1>w, <1>o DEF WideBlock, WalkerAt, SignalerAt,
      SharedFirstWaiter, MayShare, Exchange, NewBlock, Goto, locals
<1>9. CASE SharedNextWaiter(t)
  BY <1>9, <1>0, <1>w, <1>o DEF WideBlock, WalkerAt, SignalerAt,
      SharedNextWaiter, MayShare, Exchange, NewBlock, Goto, Subroutine,
      Acquiring, locals, Free
<1>10. CASE TestWait(t)
  BY <1>10, <1>0, <1>w, <1>o DEF WideBlock, WalkerAt, SignalerAt, TestWait,
      Goto, Again, locals
<1>11. CASE WalkOn(t, "optWalk") \/ WalkOn(t, "wakeWalk")
  BY <1>11, <1>0, <1>w, <1>o DEF WideBlock, WalkerAt, SignalerAt, WalkOn
<1>12. CASE OptimizeFound(t)
  BY <1>12, <1>0, <1>w, <1>o DEF WideBlock, WalkerAt, SignalerAt,
      OptimizeFound, Goto, locals
<1>13. CASE WakeUnlink(t)
  BY <1>13, <1>0, <1>w, <1>o DEF WideBlock, WalkerAt, SignalerAt, WakeUnlink,
      Goto, WakeOneOnly, locals
<1>14. CASE SignalWaiter(t)
  BY <1>14, <1>0, <1>w, <1>o DEF WideBlock, WalkerAt, SignalerAt, SignalWaiter,
      Goto
<1>15. CASE ReleaseCounted(t)
  BY <1>15, <1>0, <1>w, <1>o DEF WideBlock, WalkerAt, SignalerAt,
      ReleaseCounted, Return, Goto, Free
<1>16. CASE ReleaseCountedLast(t)
  BY <1>16, <1>0, <1>w, <1>o DEF WideBlock, WalkerAt, SignalerAt,
      ReleaseCountedLast, Goto
<1>17. CASE SignalSpinner(t)
  <2>1. blk' = [blk EXCEPT ![wb[t]].wait = FALSE, ![wb[t]].signaled = TRUE]
    BY <1>17 DEF SignalSpinner
  <2> QED  BY <1>0, <2>1 DEF WideBlock
<1> QED
  BY <1>0, <1>1, <1>2, <1>3, <1>4, <1>5, <1>6, <1>7, <1>8, <1>9, <1>10, <1>11,
      <1>12, <1>13, <1>14, <1>15, <1>16, <1>17 DEF Step, BeginAcquire,
      BeginRelease, InCall, InAcquire, InOptimize, InWake, InRelease

\* The return from a call keeps the types of the locals.
LEMMA ReturnTypes ==
    ASSUME Types, NEW t \in Threads, NEW from, Return(t, from)
    PROVE  /\ pc' \in [Threads -> Places] /\ call' \in [Threads -> EntryPoints \cup {"none"}]
           /\ old' \in [Threads -> Wide] /\ cur' \in [Threads -> Wide]
           /\ wb' \in [Threads -> Threads \cup {NULL}]
           /\ todo' \in [Threads -> Threads \cup {NULL}]
<1>1. "idle" \in Places /\ Free \in Wide
  BY FreeWide DEF Places
<1> QED  BY <1>1 DEF Types, Return, Goto

\* So does the return of ExfWakePushLock or ExpOptimizePushLockList,
LEMMA SubroutineReturnsTypes ==
    ASSUME Types, NEW t \in Threads, NEW from, SubroutineReturns(t, from)
    PROVE  /\ pc' \in [Threads -> Places] /\ call' \in [Threads -> EntryPoints \cup {"none"}]
           /\ old' \in [Threads -> Wide] /\ cur' \in [Threads -> Wide]
           /\ wb' \in [Threads -> Threads \cup {NULL}]
           /\ todo' \in [Threads -> Threads \cup {NULL}]
<1>1. "initGate" \in Places /\ Free \in Wide
  BY FreeWide DEF Places, WaiterAt
<1>2. CASE Acquiring(t)
  BY <1>1, <1>2 DEF Types, SubroutineReturns, Goto
<1>3. CASE ~Acquiring(t)
  BY <1>3, ReturnTypes DEF SubroutineReturns
<1> QED  BY <1>2, <1>3

\* and the call of one of them.
LEMMA SubroutineTypes ==
    ASSUME Types, NEW t \in Threads, NEW from, NEW to \in Places, NEW v \in Wide,
           Subroutine(t, from, to, v)
    PROVE  /\ pc' \in [Threads -> Places] /\ call' \in [Threads -> EntryPoints \cup {"none"}]
           /\ old' \in [Threads -> Wide] /\ cur' \in [Threads -> Wide]
           /\ wb' \in [Threads -> Threads \cup {NULL}]
           /\ todo' \in [Threads -> Threads \cup {NULL}]
<1>1. old' = [old EXCEPT ![t] = IF Acquiring(t) THEN old[t] ELSE Free]
  BY DEF Subroutine, Types
<1>2. (IF Acquiring(t) THEN old[t] ELSE Free) \in Wide
  BY FreeWide DEF Types
<1> QED  BY <1>1, <1>2 DEF Types, Subroutine, Goto

\* Every step keeps the types.
LEMMA TypesStep ==
    ASSUME NEW q, NEW b, IInv(q, b), NEW t \in Threads, Step(t)
    PROVE  Types'
<1>0. lock' \in Wide /\ blk' \in [Threads -> WideBlock] /\ Free \in Wide
  BY LockTypes, BlkTypes, FreeWide
<1>t. Types
  BY DEF IInv
<1>w. pc[t] \in WalkerAt => wb[t] \in Threads
  BY Walkers
<1>b. \A u \in Threads : /\ blk[u].next \in Threads \cup {NULL}
                         /\ blk[u].prev \in Threads \cup {NULL}
                         /\ blk[u].last \in Threads \cup {NULL}
  BY <1>t DEF Types, WideBlock
<1>o. /\ old[t].ptr \in Threads \cup {NULL}
      /\ cur[t].ptr \in Threads \cup {NULL}
  BY <1>t DEF Types, Wide
<1>p. "wake" \in Places /\ "optimize" \in Places /\ "initGate" \in Places
  BY DEF Places, WakerAt, OptimizerAt, WaiterAt
<1>1. CASE AcquireExclusiveFast(t)
  BY <1>1, <1>0, <1>t, <1>w, <1>b, <1>o DEF Types, Places, OptimizerAt,
      WakerAt, SignalerAt, WaiterAt, WalkerAt, EntryPoints,
      AcquireExclusiveFast, Holds, locals
<1>2. CASE \E c \in Calls : AcquireExclusiveSlow(t, c)
  BY <1>2, <1>0, <1>t, <1>w, <1>b, <1>o DEF Types, Places, OptimizerAt,
      WakerAt, SignalerAt, WaiterAt, WalkerAt, EntryPoints,
      AcquireExclusiveSlow, Enter, Goto, locals
<1>3. CASE ExclusiveRead(t)
  BY <1>3, <1>0, <1>t, <1>w, <1>b, <1>o DEF Types, Places, OptimizerAt,
      WakerAt, SignalerAt, WaiterAt, WalkerAt, EntryPoints, ExclusiveRead,
      ReadLock, Goto
<1>4. CASE ExclusiveRetry(t)
  BY <1>4, <1>0, <1>t, <1>w, <1>b, <1>o DEF Types, Places, OptimizerAt,
      WakerAt, SignalerAt, WaiterAt, WalkerAt, EntryPoints, ExclusiveRetry,
      Goto
<1>5. CASE ExclusiveFirstWaiter(t)
  BY <1>5, <1>0, <1>t, <1>w, <1>b, <1>o DEF Types, Places, OptimizerAt,
      WakerAt, SignalerAt, WaiterAt, WalkerAt, EntryPoints,
      ExclusiveFirstWaiter, Goto, locals
<1>6. CASE AcquireSharedFast(t)
  BY <1>6, <1>0, <1>t, <1>w, <1>b, <1>o DEF Types, Places, OptimizerAt,
      WakerAt, SignalerAt, WaiterAt, WalkerAt, EntryPoints, AcquireSharedFast,
      Holds, locals
<1>7. CASE AcquireSharedSlow(t)
  BY <1>7, <1>0, <1>t, <1>w, <1>b, <1>o DEF Types, Places, OptimizerAt,
      WakerAt, SignalerAt, WaiterAt, WalkerAt, EntryPoints, AcquireSharedSlow,
      Enter, Goto, locals
<1>8. CASE SharedRead(t)
  BY <1>8, <1>0, <1>t, <1>w, <1>b, <1>o DEF Types, Places, OptimizerAt,
      WakerAt, SignalerAt, WaiterAt, WalkerAt, EntryPoints, SharedRead,
      ReadLock, Goto
<1>9. CASE SharedTake(t)
  BY <1>9, <1>0, <1>t, <1>w, <1>b, <1>o DEF Types, Places, OptimizerAt,
      WakerAt, SignalerAt, WaiterAt, WalkerAt, EntryPoints, SharedTake, Return,
      Goto, Holds
<1>10. CASE SharedRetry(t)
  BY <1>10, <1>0, <1>t, <1>w, <1>b, <1>o DEF Types, Places, OptimizerAt,
      WakerAt, SignalerAt, WaiterAt, WalkerAt, EntryPoints, SharedRetry, Goto
<1>11. CASE SharedFirstWaiter(t)
  BY <1>11, <1>0, <1>t, <1>w, <1>b, <1>o DEF Types, Places, OptimizerAt,
      WakerAt, SignalerAt, WaiterAt, WalkerAt, EntryPoints, SharedFirstWaiter,
      Goto, locals
<1>12. CASE InitGate(t)
  BY <1>12, <1>0, <1>t, <1>w, <1>b, <1>o DEF Types, Places, OptimizerAt,
      WakerAt, SignalerAt, WaiterAt, WalkerAt, EntryPoints, InitGate, Goto,
      locals
<1>13. CASE TestWait(t)
  BY <1>13, <1>0, <1>t, <1>w, <1>b, <1>o DEF Types, Places, OptimizerAt,
      WakerAt, SignalerAt, WaiterAt, WalkerAt, EntryPoints, TestWait, Goto,
      Again, locals
<1>14. CASE GateWait(t)
  BY <1>14, <1>0, <1>t, <1>w, <1>b, <1>o DEF Types, Places, OptimizerAt,
      WakerAt, SignalerAt, WaiterAt, WalkerAt, EntryPoints, GateWait, Goto,
      Again, locals
<1>15. CASE OptimizeUnlocked(t)
  BY <1>15, <1>0, <1>t, <1>w, <1>b, <1>o DEF Types, Places, OptimizerAt,
      WakerAt, SignalerAt, WaiterAt, WalkerAt, EntryPoints, OptimizeUnlocked,
      Goto, locals
<1>16. CASE OptimizeStart(t)
  BY <1>16, <1>0, <1>t, <1>w, <1>b, <1>o DEF Types, Places, OptimizerAt,
      WakerAt, SignalerAt, WaiterAt, WalkerAt, EntryPoints, OptimizeStart, Goto
<1>17. CASE WalkOn(t, "optWalk") \/ WalkOn(t, "wakeWalk")
  BY <1>17, <1>0, <1>t, <1>w, <1>b, <1>o DEF Types, Places, OptimizerAt,
      WakerAt, SignalerAt, WaiterAt, WalkerAt, EntryPoints, WalkOn
<1>18. CASE OptimizeFound(t)
  BY <1>18, <1>0, <1>t, <1>w, <1>b, <1>o DEF Types, Places, OptimizerAt,
      WakerAt, SignalerAt, WaiterAt, WalkerAt, EntryPoints, OptimizeFound,
      Goto, locals
<1>19. CASE OptimizeRetry(t)
  BY <1>19, <1>0, <1>t, <1>w, <1>b, <1>o DEF Types, Places, OptimizerAt,
      WakerAt, SignalerAt, WaiterAt, WalkerAt, EntryPoints, OptimizeRetry, Goto
<1>20. CASE WakeReload(t)
  BY <1>20, <1>0, <1>t, <1>w, <1>b, <1>o DEF Types, Places, OptimizerAt,
      WakerAt, SignalerAt, WaiterAt, WalkerAt, EntryPoints, WakeReload
<1>21. CASE WakeStart(t)
  BY <1>21, <1>0, <1>t, <1>w, <1>b, <1>o DEF Types, Places, OptimizerAt,
      WakerAt, SignalerAt, WaiterAt, WalkerAt, EntryPoints, WakeStart, Goto
<1>22. CASE WakeFound(t)
  BY <1>22, <1>0, <1>t, <1>w, <1>b, <1>o DEF Types, Places, OptimizerAt,
      WakerAt, SignalerAt, WaiterAt, WalkerAt, EntryPoints, WakeFound, Goto
<1>23. CASE WakeAll(t)
  BY <1>23, <1>0, <1>t, <1>w, <1>b, <1>o DEF Types, Places, OptimizerAt,
      WakerAt, SignalerAt, WaiterAt, WalkerAt, EntryPoints, WakeAll, Goto
<1>24. CASE WakeAllRetry(t)
  BY <1>24, <1>0, <1>t, <1>w, <1>b, <1>o DEF Types, Places, OptimizerAt,
      WakerAt, SignalerAt, WaiterAt, WalkerAt, EntryPoints, WakeAllRetry, Goto
<1>25. CASE WakeUnlink(t)
  BY <1>25, <1>0, <1>t, <1>w, <1>b, <1>o DEF Types, Places, OptimizerAt,
      WakerAt, SignalerAt, WaiterAt, WalkerAt, EntryPoints, WakeUnlink, Goto,
      WakeOneOnly, locals
<1>26. CASE WakeClear(t)
  BY <1>26, <1>0, <1>t, <1>w, <1>b, <1>o DEF Types, Places, OptimizerAt,
      WakerAt, SignalerAt, WaiterAt, WalkerAt, EntryPoints, WakeClear, Goto
<1>27. CASE SignalWaiter(t)
  BY <1>27, <1>0, <1>t, <1>w, <1>b, <1>o DEF Types, Places, OptimizerAt,
      WakerAt, SignalerAt, WaiterAt, WalkerAt, EntryPoints, SignalWaiter, Goto
<1>28. CASE ReleaseSharedFast(t)
  BY <1>28, <1>0, <1>t, <1>w, <1>b, <1>o DEF Types, Places, OptimizerAt,
      WakerAt, SignalerAt, WaiterAt, WalkerAt, EntryPoints, ReleaseSharedFast,
      Holds, locals
<1>29. CASE ReleaseSharedSlow(t)
  BY <1>29, <1>0, <1>t, <1>w, <1>b, <1>o DEF Types, Places, OptimizerAt,
      WakerAt, SignalerAt, WaiterAt, WalkerAt, EntryPoints, ReleaseSharedSlow,
      Enter, Goto, Holds, locals
<1>30. CASE ReleaseEnter(t)
  BY <1>30, <1>0, <1>t, <1>w, <1>b, <1>o DEF Types, Places, OptimizerAt,
      WakerAt, SignalerAt, WaiterAt, WalkerAt, EntryPoints, ReleaseEnter,
      Enter, Goto, Holds
<1>31. CASE ReleaseFastFails(t)
  BY <1>31, <1>0, <1>t, <1>w, <1>b, <1>o DEF Types, Places, OptimizerAt,
      WakerAt, SignalerAt, WaiterAt, WalkerAt, EntryPoints, ReleaseFastFails,
      Goto
<1>32. CASE ReleaseRead(t)
  BY <1>32, <1>0, <1>t, <1>w, <1>b, <1>o DEF Types, Places, OptimizerAt,
      WakerAt, SignalerAt, WaiterAt, WalkerAt, EntryPoints, ReleaseRead,
      ReadLock, Goto
<1>33. CASE ReleaseReload(t)
  BY <1>33, <1>0, <1>t, <1>w, <1>b, <1>o DEF Types, Places, OptimizerAt,
      WakerAt, SignalerAt, WaiterAt, WalkerAt, EntryPoints, ReleaseReload
<1>34. CASE ReleaseFindCount(t)
  BY <1>34, <1>0, <1>t, <1>w, <1>b, <1>o DEF Types, Places, OptimizerAt,
      WakerAt, SignalerAt, WaiterAt, WalkerAt, EntryPoints, ReleaseFindCount,
      Goto
<1>35. CASE ReleaseNoCount(t)
  BY <1>35, <1>0, <1>t, <1>w, <1>b, <1>o DEF Types, Places, OptimizerAt,
      WakerAt, SignalerAt, WaiterAt, WalkerAt, EntryPoints, ReleaseNoCount,
      Goto, locals
<1>36. CASE ReleaseWalkOn(t)
  BY <1>36, <1>0, <1>t, <1>w, <1>b, <1>o DEF Types, Places, OptimizerAt,
      WakerAt, SignalerAt, WaiterAt, WalkerAt, EntryPoints, ReleaseWalkOn
<1>37. CASE ReleaseFound(t)
  BY <1>37, <1>0, <1>t, <1>w, <1>b, <1>o DEF Types, Places, OptimizerAt,
      WakerAt, SignalerAt, WaiterAt, WalkerAt, EntryPoints, ReleaseFound, Goto
<1>38. CASE ReleaseCounted(t)
  BY <1>38, <1>0, <1>t, <1>w, <1>b, <1>o DEF Types, Places, OptimizerAt,
      WakerAt, SignalerAt, WaiterAt, WalkerAt, EntryPoints, ReleaseCounted,
      Return, Goto
<1>39. CASE ReleaseCountedLast(t)
  BY <1>39, <1>0, <1>t, <1>w, <1>b, <1>o DEF Types, Places, OptimizerAt,
      WakerAt, SignalerAt, WaiterAt, WalkerAt, EntryPoints, ReleaseCountedLast,
      Goto
<1>40. CASE ReleaseUnlockFails(t)
  BY <1>40, <1>0, <1>t, <1>w, <1>b, <1>o DEF Types, Places, OptimizerAt,
      WakerAt, SignalerAt, WaiterAt, WalkerAt, EntryPoints, ReleaseUnlockFails,
      vars
<1>41. CASE ReleaseExclusiveFast(t)
  BY <1>41, <1>0, <1>t, <1>w, <1>b, <1>o DEF Types, Places, OptimizerAt,
      WakerAt, SignalerAt, WaiterAt, WalkerAt, EntryPoints,
      ReleaseExclusiveFast, Holds, Enter, Goto, locals
<1>42. CASE TryWakeRead(t)
  BY <1>42, <1>0, <1>t, <1>w, <1>b, <1>o DEF Types, Places, OptimizerAt,
      WakerAt, SignalerAt, WaiterAt, WalkerAt, EntryPoints, TryWakeRead,
      ReadLock, Goto
<1>43. CASE TryWakeNot(t)
  BY <1>43, <1>0, <1>t, <1>w, <1>b, <1>o DEF Types, Places, OptimizerAt,
      WakerAt, SignalerAt, WaiterAt, WalkerAt, EntryPoints, TryWakeNot, Return,
      Goto
<1>44. CASE ReleaseExclusiveSlow(t)
  BY <1>44, <1>0, <1>t, <1>w, <1>b, <1>o DEF Types, Places, OptimizerAt,
      WakerAt, SignalerAt, WaiterAt, WalkerAt, EntryPoints,
      ReleaseExclusiveSlow, Enter, Goto, locals
<1>45. CASE ReleaseExclusiveRead(t)
  BY <1>45, <1>0, <1>t, <1>w, <1>b, <1>o DEF Types, Places, OptimizerAt,
      WakerAt, SignalerAt, WaiterAt, WalkerAt, EntryPoints,
      ReleaseExclusiveRead, Goto, Holds
<1>46. CASE ReleaseExclusiveSimple(t)
  BY <1>46, <1>0, <1>t, <1>w, <1>b, <1>o DEF Types, Places, OptimizerAt,
      WakerAt, SignalerAt, WaiterAt, WalkerAt, EntryPoints,
      ReleaseExclusiveSimple, Return, Goto
<1>47. CASE ReleaseExclusiveReload(t)
  BY <1>47, <1>0, <1>t, <1>w, <1>b, <1>o DEF Types, Places, OptimizerAt,
      WakerAt, SignalerAt, WaiterAt, WalkerAt, EntryPoints,
      ReleaseExclusiveReload
<1>48. CASE Convert(t)
  BY <1>48, <1>0, <1>t, <1>w, <1>b, <1>o DEF Types, Places, OptimizerAt,
      WakerAt, SignalerAt, WaiterAt, WalkerAt, EntryPoints, Convert, Holds,
      locals
<1>49. CASE ExclusiveTake(t)
  <2>1. gate' \in [Threads -> BOOLEAN] /\ hold' \in [Threads -> {"none", "shared", "exclusive"}]
    BY <1>49, <1>t DEF Types, ExclusiveTake, Holds
  <2>2. CASE call[t] = "exclusive"
    BY <1>49, <1>0, <1>t, <2>1, <2>2, ReturnTypes DEF Types, ExclusiveTake
  <2>3. CASE call[t] # "exclusive"
    <3>1. "rxRead" \in Places /\ "releaseExclusiveSlow" \in EntryPoints
      BY DEF Places, EntryPoints
    <3> QED  BY <1>49, <1>0, <1>t, <2>1, <2>3, <3>1 DEF Types, ExclusiveTake, Goto, locals
  <2> QED  BY <2>2, <2>3
<1>50. CASE ExclusiveNextWaiter(t)
  <2>1. gate' \in [Threads -> BOOLEAN] /\ hold' \in [Threads -> {"none", "shared", "exclusive"}]
    BY <1>50, <1>t DEF Types, ExclusiveNextWaiter
  <2>2. CASE old[t].waking
    BY <1>50, <1>0, <1>t, <1>p, <2>1, <2>2 DEF Types, ExclusiveNextWaiter, Goto, locals
  <2>3. CASE ~old[t].waking
    BY <1>50, <1>0, <1>t, <1>p, <2>1, <2>3, SubroutineTypes DEF Types, ExclusiveNextWaiter, Exchange
  <2> QED  BY <2>2, <2>3
<1>51. CASE SharedNextWaiter(t)
  <2>1. gate' \in [Threads -> BOOLEAN] /\ hold' \in [Threads -> {"none", "shared", "exclusive"}]
    BY <1>51, <1>t DEF Types, SharedNextWaiter
  <2>2. CASE old[t].waking
    BY <1>51, <1>0, <1>t, <1>p, <2>1, <2>2 DEF Types, SharedNextWaiter, Goto, locals
  <2>3. CASE ~old[t].waking
    <3>1. old[t] \in Wide
      BY <1>t DEF Types
    <3> QED  BY <1>51, <1>0, <1>t, <1>p, <2>1, <2>3, <3>1, SubroutineTypes DEF Types, SharedNextWaiter
  <2> QED  BY <2>2, <2>3
<1>52. CASE OptimizeDone(t)
  BY <1>52, <1>0, <1>t, SubroutineReturnsTypes DEF Types, OptimizeDone
<1>53. CASE WakeNotNow(t)
  BY <1>53, <1>0, <1>t, SubroutineReturnsTypes DEF Types, WakeNotNow
<1>54. CASE SignalSpinner(t)
  <2>1. gate' \in [Threads -> BOOLEAN] /\ hold' \in [Threads -> {"none", "shared", "exclusive"}]
    BY <1>54, <1>t DEF Types, SignalSpinner
  <2>2. blk[wb[t]].prev \in Threads \cup {NULL}
    BY <1>54, <1>w, <1>b DEF SignalSpinner, WalkerAt, SignalerAt
  <2>3. "signal" \in Places
    BY DEF Places, SignalerAt
  <2>4. CASE blk[wb[t]].prev = NULL
    BY <1>54, <1>0, <1>t, <2>1, <2>4, SubroutineReturnsTypes DEF Types, SignalSpinner, SignalNext
  <2>5. CASE blk[wb[t]].prev # NULL
    BY <1>54, <1>0, <1>t, <2>1, <2>2, <2>3, <2>5 DEF Types, SignalSpinner, SignalNext, Goto
  <2> QED  BY <2>4, <2>5
<1>55. CASE SetGate(t)
  <2>1. gate' \in [Threads -> BOOLEAN] /\ hold' \in [Threads -> {"none", "shared", "exclusive"}]
    BY <1>55, <1>t DEF Types, SetGate
  <2>2. todo[t] \in Threads \cup {NULL}
    BY <1>t DEF Types
  <2>3. "signal" \in Places
    BY DEF Places, SignalerAt
  <2>4. CASE todo[t] = NULL
    BY <1>55, <1>0, <1>t, <2>1, <2>4, SubroutineReturnsTypes DEF Types, SetGate, SignalNext
  <2>5. CASE todo[t] # NULL
    BY <1>55, <1>0, <1>t, <2>1, <2>2, <2>3, <2>5 DEF Types, SetGate, SignalNext, Goto
  <2> QED  BY <2>4, <2>5
<1>56. CASE ReleaseNoWaiter(t, "relFast") \/ ReleaseNoWaiter(t, "relTry")
  BY <1>56, <1>0, <1>t, ReturnTypes DEF Types, ReleaseNoWaiter
<1>57. CASE ReleaseUnlock(t)
  <2>1. CASE old[t].waking
    BY <1>57, <1>0, <1>t, <2>1, ReturnTypes DEF Types, ReleaseUnlock
  <2>2. CASE ~old[t].waking
    BY <1>57, <1>0, <1>t, <1>p, <2>2, SubroutineTypes DEF Types, ReleaseUnlock, Exchange
  <2> QED  BY <2>1, <2>2
<1>58. CASE TryWake(t)
  BY <1>58, <1>0, <1>t, <1>p, SubroutineTypes DEF Types, TryWake, Exchange
<1>59. CASE ReleaseExclusiveWake(t)
  BY <1>59, <1>0, <1>t, <1>p, SubroutineTypes DEF Types, ReleaseExclusiveWake, Exchange
<1> QED
  BY <1>1, <1>2, <1>3, <1>4, <1>5, <1>6, <1>7, <1>8, <1>9, <1>10, <1>11, <1>12,
      <1>13, <1>14, <1>15, <1>16, <1>17, <1>18, <1>19, <1>20, <1>21, <1>22,
      <1>23, <1>24, <1>25, <1>26, <1>27, <1>28, <1>29, <1>30, <1>31, <1>32,
      <1>33, <1>34, <1>35, <1>36, <1>37, <1>38, <1>39, <1>40, <1>41, <1>42,
      <1>43, <1>44, <1>45, <1>46, <1>47, <1>48, <1>49, <1>50, <1>51, <1>52,
      <1>53, <1>54, <1>55, <1>56, <1>57, <1>58, <1>59 DEF Step, BeginAcquire,
      BeginRelease, InCall, InAcquire, InOptimize, InWake, InRelease


-----------------------------------------------------------------------------
(* What the longer actions do, field by field. *)

\* A return goes to the acquire that called, or out of the release.
LEMMA SubroutineReturnsEffect ==
    ASSUME Types, NEW t \in Threads, NEW from, SubroutineReturns(t, from)
    PROVE  /\ pc[t] = from
           /\ pc' = [pc EXCEPT ![t] = IF Acquiring(t) THEN "initGate" ELSE "idle"]
           /\ call' = [call EXCEPT ![t] = IF Acquiring(t) THEN call[t] ELSE "none"]
           /\ old' = [old EXCEPT ![t] = IF Acquiring(t) THEN old[t] ELSE Free]
           /\ cur' = [cur EXCEPT ![t] = Free]
           /\ wb' = [wb EXCEPT ![t] = NULL]
           /\ todo' = [todo EXCEPT ![t] = NULL]
<1>1. CASE Acquiring(t)
  BY <1>1 DEF SubroutineReturns, Goto, Types
<1>2. CASE ~Acquiring(t)
  BY <1>2 DEF SubroutineReturns, Return, Goto, Types
<1> QED  BY <1>1, <1>2

\* A release without waiters drops one share, or frees the lock.
LEMMA ReleaseNoWaiterEffect ==
    ASSUME Types, NEW t \in Threads, NEW from, ReleaseNoWaiter(t, from)
    PROVE  /\ lock = old[t] /\ ~lock.waiting
           /\ \/ lock.shared > 1 /\ lock' = Locked(lock.shared - 1)
              \/ ~(lock.shared > 1) /\ lock' = Free
           /\ pc[t] = from /\ pc' = [pc EXCEPT ![t] = "idle"]
           /\ ~lock'.waiting /\ ~lock'.waking /\ ~lock'.multi
           /\ call' = [call EXCEPT ![t] = "none"] /\ todo' = [todo EXCEPT ![t] = NULL]
           /\ blk' = blk /\ gate' = gate /\ hold' = hold
<1>1. /\ lock = old[t] /\ lock' = Dropped(lock) /\ ~lock.waiting
      /\ blk' = blk /\ gate' = gate /\ hold' = hold
  BY DEF ReleaseNoWaiter, Exchange
<1>2. /\ pc[t] = from /\ pc' = [pc EXCEPT ![t] = "idle"]
      /\ call' = [call EXCEPT ![t] = "none"] /\ todo' = [todo EXCEPT ![t] = NULL]
  BY DEF ReleaseNoWaiter, Return, Goto
<1>3. \/ lock.shared > 1 /\ lock' = Locked(lock.shared - 1)
      \/ ~(lock.shared > 1) /\ lock' = Free
  BY <1>1 DEF Dropped
<1>4. ~lock'.waiting /\ ~lock'.waking /\ ~lock'.multi
  <2>1. ASSUME NEW n PROVE ~Locked(n).waiting /\ ~Locked(n).waking /\ ~Locked(n).multi
    BY DEF Locked, Free
  <2>2. ~Free.waiting /\ ~Free.waking /\ ~Free.multi
    BY DEF Free
  <2> QED  BY <1>3, <2>1, <2>2
<1> QED  BY <1>1, <1>2, <1>3, <1>4

\* A shared acquire takes a free lock, or adds one to the sharers.
LEMMA SharedTakeEffect ==
    ASSUME Types, NEW t \in Threads, SharedTake(t)
    PROVE  /\ lock = old[t] /\ lock'.locked
           /\ \/ /\ lock.waiting /\ ~lock.locked
                 /\ lock' = [lock EXCEPT !.locked = TRUE]
              \/ /\ ~lock.waiting /\ (~lock.locked \/ lock.shared > 0)
                 /\ lock' = Locked(lock.shared + 1)
                 /\ ~lock'.waiting /\ ~lock'.waking /\ ~lock'.multi
                 /\ lock'.ptr = NULL
           /\ pc[t] = "shTry" /\ pc' = [pc EXCEPT ![t] = "idle"]
           /\ call' = [call EXCEPT ![t] = "none"] /\ todo' = [todo EXCEPT ![t] = NULL]
           /\ blk' = [blk EXCEPT ![t] = NewBlock] /\ gate' = gate
           /\ hold' = [hold EXCEPT ![t] = "shared"]
<1>1. /\ lock = old[t] /\ MayShare(lock)
      /\ lock' = IF lock.waiting THEN [lock EXCEPT !.locked = TRUE] ELSE Locked(lock.shared + 1)
      /\ blk' = [blk EXCEPT ![t] = NewBlock] /\ gate' = gate
      /\ hold' = [hold EXCEPT ![t] = "shared"]
  BY DEF SharedTake, Exchange, FrameGone, Holds
<1>2. /\ pc[t] = "shTry" /\ pc' = [pc EXCEPT ![t] = "idle"]
      /\ call' = [call EXCEPT ![t] = "none"] /\ todo' = [todo EXCEPT ![t] = NULL]
  BY DEF SharedTake, Return, Goto
<1>3. CASE lock.waiting
  BY <1>1, <1>2, <1>3 DEF MayShare, Types, Wide
<1>4. CASE ~lock.waiting
  BY <1>1, <1>2, <1>4 DEF MayShare, Types, Wide, Locked, Free
<1> QED  BY <1>3, <1>4

\* A waiter that joins others puts its block at the head of the list.
LEMMA NextWaiterEffect ==
    ASSUME Types, NEW t \in Threads, ExclusiveNextWaiter(t) \/ SharedNextWaiter(t)
    PROVE  /\ lock = old[t] /\ lock.waiting /\ lock.locked
           /\ lock'.waiting /\ lock'.locked /\ lock'.waking
           /\ lock'.multi = lock.multi /\ lock'.shared = lock.shared
           /\ lock'.ptr = t
           /\ pc[t] = IF ExclusiveNextWaiter(t) THEN "exTry" ELSE "shTry"
           /\ \A u \in Threads : u # t => blk'[u] = blk[u]
           /\ blk'[t].next = lock.ptr /\ blk'[t].last = NULL /\ blk'[t].prev = NULL
           /\ blk'[t].shareCount = 0 /\ blk'[t].wait /\ ~blk'[t].signaled
           /\ call' = call /\ hold' = hold /\ gate' = gate
           /\ wb' = wb /\ todo' = todo
           /\ \/ /\ lock.waking /\ pc' = [pc EXCEPT ![t] = "initGate"]
                 /\ old' = old /\ cur' = cur
              \/ /\ ~lock.waking /\ pc' = [pc EXCEPT ![t] = "optimize"]
                 /\ \E v \in {lock, lock'} : cur' = [cur EXCEPT ![t] = v]
<1>0. old[t] \in Wide
  BY DEF Types
<1>1. ASSUME ExclusiveNextWaiter(t)
      PROVE  /\ lock = old[t] /\ lock.waiting /\ lock.locked
             /\ lock' = [lock EXCEPT !.locked = TRUE, !.waking = TRUE, !.ptr = t]
             /\ pc[t] = "exTry" /\ hold' = hold /\ gate' = gate
  BY <1>1 DEF ExclusiveNextWaiter, Exchange, Goto, Subroutine
<1>2. ASSUME SharedNextWaiter(t)
      PROVE  /\ lock = old[t] /\ lock.waiting /\ lock.locked
             /\ lock' = [lock EXCEPT !.waking = TRUE, !.ptr = t]
             /\ pc[t] = "shTry" /\ hold' = hold /\ gate' = gate
  BY <1>2 DEF SharedNextWaiter, Exchange, Goto, Subroutine, MayShare
<1>3. /\ lock = old[t] /\ lock.waiting /\ lock.locked
      /\ lock'.waiting /\ lock'.locked /\ lock'.waking
      /\ lock'.multi = lock.multi /\ lock'.shared = lock.shared
      /\ lock'.ptr = t
      /\ pc[t] = IF ExclusiveNextWaiter(t) THEN "exTry" ELSE "shTry"
      /\ hold' = hold /\ gate' = gate
  BY <1>0, <1>1, <1>2 DEF Wide
<1>4. /\ \A u \in Threads : u # t => blk'[u] = blk[u]
      /\ blk'[t].next = lock.ptr /\ blk'[t].last = NULL /\ blk'[t].prev = NULL
      /\ blk'[t].shareCount = 0 /\ blk'[t].wait /\ ~blk'[t].signaled
  <2>1. CASE ExclusiveNextWaiter(t)
    BY <2>1, <1>1 DEF ExclusiveNextWaiter, NewBlock, Types
  <2>2. CASE SharedNextWaiter(t)
    BY <2>2, <1>2 DEF SharedNextWaiter, NewBlock, Types
  <2> QED  BY <2>1, <2>2
<1>5. /\ call' = call /\ wb' = wb /\ todo' = todo
      /\ \/ /\ lock.waking /\ pc' = [pc EXCEPT ![t] = "initGate"]
            /\ old' = old /\ cur' = cur
         \/ /\ ~lock.waking /\ pc' = [pc EXCEPT ![t] = "optimize"]
            /\ \E v \in {lock, lock'} : cur' = [cur EXCEPT ![t] = v]
  <2>1. CASE old[t].waking
    BY <2>1, <1>3 DEF ExclusiveNextWaiter, SharedNextWaiter, Goto, locals
  <2>2. CASE ~old[t].waking
    <3>1. \E v \in {lock, lock'} : Subroutine(t, pc[t], "optimize", v)
      <4>1. ASSUME ExclusiveNextWaiter(t) PROVE Subroutine(t, pc[t], "optimize", lock')
        BY <4>1, <2>2, <1>1 DEF ExclusiveNextWaiter, Exchange
      <4>2. ASSUME SharedNextWaiter(t) PROVE Subroutine(t, pc[t], "optimize", lock)
        BY <4>2, <2>2, <1>2 DEF SharedNextWaiter
      <4> QED  BY <4>1, <4>2
    <3> QED  BY <3>1, <2>2, <1>3 DEF Subroutine, Goto
  <2> QED  BY <2>1, <2>2
<1> QED  BY <1>3, <1>4, <1>5

\* The last release of a lock with waiters frees it and sets the waking bit.
LEMMA ReleaseUnlockEffect ==
    ASSUME Types, NEW t \in Threads, ReleaseUnlock(t)
    PROVE  /\ lock = old[t]
           /\ lock' = [lock EXCEPT !.multi = FALSE, !.locked = FALSE, !.waking = TRUE]
           /\ ~lock'.multi /\ ~lock'.locked /\ lock'.waking
           /\ lock'.waiting = lock.waiting /\ lock'.shared = lock.shared /\ lock'.ptr = lock.ptr
           /\ pc[t] = "relUnlock" /\ blk' = blk /\ gate' = gate /\ hold' = hold
           /\ \/ /\ lock.waking /\ pc' = [pc EXCEPT ![t] = "idle"]
                 /\ call' = [call EXCEPT ![t] = "none"]
                 /\ todo' = [todo EXCEPT ![t] = NULL]
              \/ /\ ~lock.waking /\ pc' = [pc EXCEPT ![t] = "wake"]
                 /\ cur' = [cur EXCEPT ![t] = lock']
                 /\ call' = call /\ wb' = wb /\ todo' = todo
<1>1. /\ lock = old[t]
      /\ lock' = [lock EXCEPT !.multi = FALSE, !.locked = FALSE, !.waking = TRUE]
      /\ blk' = blk /\ gate' = gate /\ hold' = hold
  BY DEF ReleaseUnlock, Exchange
<1>4. /\ ~lock'.multi /\ ~lock'.locked /\ lock'.waking
      /\ lock'.waiting = lock.waiting /\ lock'.shared = lock.shared /\ lock'.ptr = lock.ptr
  BY <1>1 DEF Types, Wide
<1>2. CASE lock.waking
  <2>1. Return(t, "relUnlock")
    BY <1>1, <1>2 DEF ReleaseUnlock
  <2> QED  BY <1>1, <1>2, <2>1 DEF Return, Goto
<1>3. CASE ~lock.waking
  <2>1. Subroutine(t, "relUnlock", "wake", lock')
    BY <1>1, <1>3 DEF ReleaseUnlock
  <2> QED  BY <1>1, <1>3, <2>1 DEF Subroutine, Goto
<1> QED  BY <1>2, <1>3, <1>4


\* Who has the lock finds it locked.
LEMMA HoldersCounted ==
    ASSUME Types
    PROVE  /\ IsFiniteSet(Holders)
           /\ Cardinality(Holders) \in Nat
           /\ Cardinality(Holders) <= Cardinality(Threads)
           /\ \A t \in Holders : Cardinality(Holders) >= 1
           /\ \A t, u \in Holders : t # u => Cardinality(Holders) >= 2
<1>1. IsFiniteSet(Holders) /\ Cardinality(Holders) <= Cardinality(Threads)
  BY ThreadsFinite, FS_Subset DEF Holders
<1>2. Cardinality(Holders) \in Nat
  BY <1>1, FS_CardinalityType
<1>3. ASSUME NEW t \in Holders
      PROVE  /\ Cardinality(Holders \ {t}) = Cardinality(Holders) - 1
             /\ Cardinality(Holders \ {t}) \in Nat
             /\ \A u \in Holders : t # u => Cardinality(Holders \ {t}) # 0
  <2>1. /\ IsFiniteSet(Holders \ {t})
        /\ Cardinality(Holders \ {t}) = Cardinality(Holders) - 1
    BY <1>1, FS_RemoveElement
  <2>2. Cardinality(Holders \ {t}) \in Nat
    BY <2>1, FS_CardinalityType
  <2>3. \A u \in Holders : t # u => Holders \ {t} # {}
    OBVIOUS
  <2>4. Cardinality(Holders \ {t}) = 0 <=> Holders \ {t} = {}
    BY <2>1, FS_EmptySet
  <2> QED  BY <2>1, <2>2, <2>3, <2>4
<1>4. ASSUME NEW t \in Holders PROVE Cardinality(Holders) >= 1
  <2>1. Cardinality(Holders) - 1 \in Nat
    BY <1>3
  <2> QED  BY <1>2, <2>1
<1>5. ASSUME NEW t \in Holders, NEW u \in Holders, t # u
      PROVE  Cardinality(Holders) >= 2
  <2>1. Cardinality(Holders) - 1 \in Nat /\ Cardinality(Holders) - 1 # 0
    BY <1>3, <1>5
  <2> QED  BY <1>2, <2>1
<1> QED  BY <1>1, <1>2, <1>4, <1>5

\* While someone has the lock its lock bit is set.
LEMMA HoldersLock ==
    ASSUME NEW q, NEW b, IInv(q, b)
    PROVE  \A t \in Holders : lock.locked
<1>1. Types /\ Counted(q)
  BY DEF IInv
<1> QED  BY <1>1, HoldersCounted DEF Counted, Held

\* A lock held exclusively counts no sharers.
LEMMA ExclusiveWord ==
    ASSUME NEW q, NEW b, IInv(q, b), NEW t \in Threads,
           hold[t] = "exclusive" \/ pc[t] = "rxTry"
    PROVE  ~lock.multi /\ lock.shared = 0
  BY DEF IInv, Counted

\* The word 0 is consistent.
LEMMA FreeWord == Word(Free)
  BY DEF Word, Free

\* A step leaves flags and count of the lock consistent.
LEMMA LockWord ==
    ASSUME NEW q, NEW b, IInv(q, b), NEW t \in Threads, Step(t)
    PROVE  Word(lock')
<1>0. Word(lock) /\ Word(old[t]) /\ Word(cur[t])
  BY DEF IInv, Words
<1>t. lock \in Wide /\ old[t] \in Wide /\ cur[t] \in Wide
  BY DEF IInv, Types
<1>x. hold[t] = "exclusive" \/ pc[t] = "rxTry" => ~lock.multi /\ lock.shared = 0
  BY ExclusiveWord
<1>c. Control(t)
  BY DEF IInv, Controls
<1>1. ASSUME (\E c \in Calls : AcquireExclusiveSlow(t, c)) \/ ExclusiveRead(t)
          \/ ExclusiveRetry(t) \/ AcquireSharedSlow(t) \/ SharedRead(t)
          \/ SharedRetry(t) \/ InitGate(t) \/ TestWait(t) \/ GateWait(t)
          \/ OptimizeUnlocked(t) \/ OptimizeStart(t) \/ WalkOn(t, "optWalk")
          \/ WalkOn(t, "wakeWalk") \/ OptimizeFound(t) \/ OptimizeRetry(t)
          \/ WakeReload(t) \/ WakeStart(t) \/ WakeFound(t) \/ WakeAllRetry(t)
          \/ WakeUnlink(t) \/ SignalSpinner(t) \/ SignalWaiter(t) \/ SetGate(t)
          \/ ReleaseSharedSlow(t) \/ ReleaseEnter(t) \/ ReleaseFastFails(t)
          \/ ReleaseRead(t) \/ ReleaseReload(t) \/ ReleaseFindCount(t)
          \/ ReleaseNoCount(t) \/ ReleaseWalkOn(t) \/ ReleaseFound(t)
          \/ ReleaseCounted(t) \/ ReleaseCountedLast(t)
          \/ ReleaseUnlockFails(t) \/ TryWakeRead(t) \/ TryWakeNot(t)
          \/ ReleaseExclusiveSlow(t) \/ ReleaseExclusiveRead(t)
          \/ ReleaseExclusiveReload(t)
      PROVE  lock' = lock
  BY <1>1 DEF AcquireExclusiveSlow, Enter, Goto, locals, ExclusiveRead,
      ReadLock, ExclusiveRetry, FrameGone, AcquireSharedSlow, SharedRead,
      SharedRetry, InitGate, TestWait, Again, GateWait, OptimizeUnlocked,
      OptimizeStart, WalkOn, OptimizeFound, OptimizeRetry, WakeReload,
      WakeStart, WakeFound, WakeAllRetry, WakeUnlink, WakeOneOnly,
      SignalSpinner, SignalNext, SubroutineReturns, Return, Acquiring,
      SignalWaiter, SetGate, ReleaseSharedSlow, Holds, ReleaseEnter,
      ReleaseFastFails, ReleaseRead, ReleaseReload, ReleaseFindCount,
      ReleaseNoCount, ReleaseWalkOn, ReleaseFound, ReleaseCounted,
      ReleaseCountedLast, ReleaseUnlockFails, vars, TryWakeRead, TryWakeNot,
      ReleaseExclusiveSlow, ReleaseExclusiveRead, ReleaseExclusiveReload
<1>2. CASE AcquireExclusiveFast(t)
  BY <1>2, <1>0, <1>t, <1>x, <1>c, NullAssumption DEF Word, Wide, Control,
      AcquireExclusiveFast, Holds, locals
<1>3. CASE ExclusiveTake(t)
  BY <1>3, <1>0, <1>t, <1>x, <1>c, NullAssumption DEF Word, Wide, Control,
      ExclusiveTake, Exchange, Return, Goto, Holds, FrameGone, locals, Free,
      NewBlock
<1>4. CASE ExclusiveNextWaiter(t)
  BY <1>4, <1>0, <1>t, <1>x, <1>c, NullAssumption DEF Word, Wide, Control,
      ExclusiveNextWaiter, Exchange, NewBlock, Goto, Subroutine, Acquiring,
      locals, Free
<1>5. CASE AcquireSharedFast(t)
  BY <1>5, <1>0, <1>t, <1>x, <1>c, NullAssumption DEF Word, Wide, Control,
      AcquireSharedFast, Exchange, Locked, Free, Holds, locals
<1>6. CASE SharedTake(t)
  BY <1>6, <1>0, <1>t, <1>x, <1>c, NullAssumption DEF Word, Wide, Control,
      SharedTake, MayShare, Exchange, Locked, Free, Return, Goto, Holds,
      FrameGone, NewBlock
<1>7. CASE SharedFirstWaiter(t)
  BY <1>7, <1>0, <1>t, <1>x, <1>c, NullAssumption DEF Word, Wide, Control,
      SharedFirstWaiter, MayShare, Exchange, NewBlock, Goto, locals
<1>8. CASE SharedNextWaiter(t)
  BY <1>8, <1>0, <1>t, <1>x, <1>c, NullAssumption DEF Word, Wide, Control,
      SharedNextWaiter, MayShare, Exchange, NewBlock, Goto, Subroutine,
      Acquiring, locals, Free
<1>9. CASE OptimizeDone(t)
  BY <1>9, <1>0, <1>t, <1>x, <1>c, NullAssumption DEF Word, Wide, Control,
      OptimizeDone, Exchange, SubroutineReturns, Return, Goto, Acquiring, Free
<1>10. CASE WakeNotNow(t)
  BY <1>10, <1>0, <1>t, <1>x, <1>c, NullAssumption DEF Word, Wide, Control,
      WakeNotNow, Exchange, SubroutineReturns, Return, Goto, Acquiring, Free
<1>11. CASE WakeAll(t)
  BY <1>11, <1>0, <1>t, <1>x, <1>c, NullAssumption DEF Word, Wide, Control,
      WakeAll, Goto, Exchange, Free
<1>12. CASE WakeClear(t)
  BY <1>12, <1>0, <1>t, <1>x, <1>c, NullAssumption DEF Word, Wide, Control,
      WakeClear, Goto, Free
<1>13. CASE ReleaseSharedFast(t)
  BY <1>13, <1>0, <1>t, <1>x, <1>c, NullAssumption DEF Word, Wide, Control,
      ReleaseSharedFast, Exchange, Locked, Free, Holds, locals
<1>14. CASE ReleaseUnlock(t)
  BY <1>14, <1>0, <1>t, <1>x, <1>c, NullAssumption DEF Word, Wide, Control,
      ReleaseUnlock, Exchange, Return, Subroutine, Goto, Acquiring, Free
<1>15. CASE ReleaseExclusiveFast(t)
  BY <1>15, <1>0, <1>t, <1>x, <1>c, NullAssumption DEF Word, Wide, Control,
      ReleaseExclusiveFast, Holds, Enter, Goto, locals
<1>16. CASE TryWake(t)
  BY <1>16, <1>0, <1>t, <1>x, <1>c, NullAssumption DEF Word, Wide, Control,
      TryWake, Wakeable, Exchange, Subroutine, Goto, Acquiring, Free
<1>17. CASE ReleaseExclusiveWake(t)
  BY <1>17, <1>0, <1>t, <1>x, <1>c, NullAssumption DEF Word, Wide, Control,
      ReleaseExclusiveWake, Exchange, Subroutine, Goto, Acquiring, Free
<1>18. CASE ReleaseExclusiveSimple(t)
  BY <1>18, <1>0, <1>t, <1>x, <1>c, NullAssumption DEF Word, Wide, Control,
      ReleaseExclusiveSimple, Exchange, Return, Goto, Free
<1>19. CASE Convert(t)
  BY <1>19, <1>0, <1>t, <1>x, <1>c, NullAssumption DEF Word, Wide, Control,
      Convert, Exchange, Locked, Free, Holds, locals
<1>20. CASE ExclusiveFirstWaiter(t)
  <2>1. /\ lock'.waiting /\ lock'.ptr = t /\ lock'.shared = 0 /\ lock'.locked
    BY <1>20 DEF ExclusiveFirstWaiter, Exchange, Locked, Free
  <2> QED  BY <2>1, NullAssumption DEF Word
<1>21. CASE ReleaseNoWaiter(t, "relFast") \/ ReleaseNoWaiter(t, "relTry")
  <2>1. lock' = Dropped(old[t])
    BY <1>21 DEF ReleaseNoWaiter, Exchange
  <2>2. CASE old[t].shared > 1
    BY <2>1, <2>2 DEF Dropped, Locked, Free, Word
  <2>3. CASE ~(old[t].shared > 1)
    BY <2>1, <2>3, FreeWord DEF Dropped
  <2> QED  BY <2>2, <2>3
<1> QED
  BY <1>0, <1>1, <1>2, <1>3, <1>4, <1>5, <1>6, <1>7, <1>8, <1>9, <1>10, <1>11,
      <1>12, <1>13, <1>14, <1>15, <1>16, <1>17, <1>18, <1>19, <1>20,
      <1>21 DEF Step, BeginAcquire, BeginRelease, InCall, InAcquire,
      InOptimize, InWake, InRelease

\* So are the values that threads have read or written.
LEMMA WordsStep ==
    ASSUME NEW q, NEW b, IInv(q, b), NEW t \in Threads, Step(t)
    PROVE  Words'
<1>0. Words /\ Word(Free) /\ Word(lock') /\ Types
  BY LockWord, FreeWord DEF IInv
<1>1. CASE AcquireExclusiveFast(t)
  BY <1>1, <1>0 DEF Words, Types, AcquireExclusiveFast, Holds, locals
<1>2. CASE \E c \in Calls : AcquireExclusiveSlow(t, c)
  BY <1>2, <1>0 DEF Words, Types, AcquireExclusiveSlow, Enter, Goto, locals
<1>3. CASE ExclusiveRead(t)
  BY <1>3, <1>0 DEF Words, Types, ExclusiveRead, ReadLock, Goto
<1>4. CASE ExclusiveTake(t)
  BY <1>4, <1>0 DEF Words, Types, ExclusiveTake, Exchange, Return, Goto, Holds,
      locals
<1>5. CASE ExclusiveRetry(t)
  BY <1>5, <1>0 DEF Words, Types, ExclusiveRetry, Goto
<1>6. CASE ExclusiveFirstWaiter(t)
  BY <1>6, <1>0 DEF Words, Types, ExclusiveFirstWaiter, Exchange, Goto, locals
<1>7. CASE ExclusiveNextWaiter(t)
  BY <1>7, <1>0 DEF Words, Types, ExclusiveNextWaiter, Exchange, Goto,
      Subroutine, Acquiring, locals
<1>8. CASE AcquireSharedFast(t)
  BY <1>8, <1>0 DEF Words, Types, AcquireSharedFast, Exchange, Holds, locals
<1>9. CASE AcquireSharedSlow(t)
  BY <1>9, <1>0 DEF Words, Types, AcquireSharedSlow, Enter, Goto, locals
<1>10. CASE SharedRead(t)
  BY <1>10, <1>0 DEF Words, Types, SharedRead, ReadLock, Goto
<1>11. CASE SharedTake(t)
  BY <1>11, <1>0 DEF Words, Types, SharedTake, Exchange, Return, Goto, Holds
<1>12. CASE SharedRetry(t)
  BY <1>12, <1>0 DEF Words, Types, SharedRetry, Goto
<1>13. CASE SharedFirstWaiter(t)
  BY <1>13, <1>0 DEF Words, Types, SharedFirstWaiter, Exchange, Goto, locals
<1>14. CASE SharedNextWaiter(t)
  BY <1>14, <1>0 DEF Words, Types, SharedNextWaiter, Exchange, Goto,
      Subroutine, Acquiring, locals
<1>15. CASE InitGate(t)
  BY <1>15, <1>0 DEF Words, Types, InitGate, Goto, locals
<1>16. CASE TestWait(t)
  BY <1>16, <1>0 DEF Words, Types, TestWait, Goto, Again, locals
<1>17. CASE GateWait(t)
  BY <1>17, <1>0 DEF Words, Types, GateWait, Goto, Again, locals
<1>18. CASE OptimizeUnlocked(t)
  BY <1>18, <1>0 DEF Words, Types, OptimizeUnlocked, Goto, locals
<1>19. CASE OptimizeStart(t)
  BY <1>19, <1>0 DEF Words, Types, OptimizeStart, Goto
<1>20. CASE WalkOn(t, "optWalk") \/ WalkOn(t, "wakeWalk")
  BY <1>20, <1>0 DEF Words, Types, WalkOn
<1>21. CASE OptimizeFound(t)
  BY <1>21, <1>0 DEF Words, Types, OptimizeFound, Goto, locals
<1>22. CASE OptimizeDone(t)
  BY <1>22, <1>0 DEF Words, Types, OptimizeDone, Exchange, SubroutineReturns,
      Return, Goto, Acquiring
<1>23. CASE OptimizeRetry(t)
  BY <1>23, <1>0 DEF Words, Types, OptimizeRetry, Goto
<1>24. CASE WakeNotNow(t)
  BY <1>24, <1>0 DEF Words, Types, WakeNotNow, Exchange, SubroutineReturns,
      Return, Goto, Acquiring
<1>25. CASE WakeReload(t)
  BY <1>25, <1>0 DEF Words, Types, WakeReload
<1>26. CASE WakeStart(t)
  BY <1>26, <1>0 DEF Words, Types, WakeStart, Goto
<1>27. CASE WakeFound(t)
  BY <1>27, <1>0 DEF Words, Types, WakeFound, Goto
<1>28. CASE WakeAll(t)
  BY <1>28, <1>0 DEF Words, Types, WakeAll, Goto, Exchange
<1>29. CASE WakeAllRetry(t)
  BY <1>29, <1>0 DEF Words, Types, WakeAllRetry, Goto
<1>30. CASE WakeUnlink(t)
  BY <1>30, <1>0 DEF Words, Types, WakeUnlink, Goto, WakeOneOnly, locals
<1>31. CASE WakeClear(t)
  BY <1>31, <1>0 DEF Words, Types, WakeClear, Goto
<1>32. CASE SignalSpinner(t)
  BY <1>32, <1>0 DEF Words, Types, SignalSpinner, SignalNext,
      SubroutineReturns, Return, Goto, Acquiring
<1>33. CASE SignalWaiter(t)
  BY <1>33, <1>0 DEF Words, Types, SignalWaiter, Goto
<1>34. CASE SetGate(t)
  BY <1>34, <1>0 DEF Words, Types, SetGate, SignalNext, SubroutineReturns,
      Return, Goto, Acquiring
<1>35. CASE ReleaseSharedFast(t)
  BY <1>35, <1>0 DEF Words, Types, ReleaseSharedFast, Exchange, Holds, locals
<1>36. CASE ReleaseSharedSlow(t)
  BY <1>36, <1>0 DEF Words, Types, ReleaseSharedSlow, Enter, Goto, Holds,
      locals
<1>37. CASE ReleaseEnter(t)
  BY <1>37, <1>0 DEF Words, Types, ReleaseEnter, Enter, Goto, Holds
<1>38. CASE ReleaseNoWaiter(t, "relFast") \/ ReleaseNoWaiter(t, "relTry")
  BY <1>38, <1>0 DEF Words, Types, ReleaseNoWaiter, Exchange, Return, Goto
<1>39. CASE ReleaseFastFails(t)
  BY <1>39, <1>0 DEF Words, Types, ReleaseFastFails, Goto
<1>40. CASE ReleaseRead(t)
  BY <1>40, <1>0 DEF Words, Types, ReleaseRead, ReadLock, Goto
<1>41. CASE ReleaseReload(t)
  BY <1>41, <1>0 DEF Words, Types, ReleaseReload
<1>42. CASE ReleaseFindCount(t)
  BY <1>42, <1>0 DEF Words, Types, ReleaseFindCount, Goto
<1>43. CASE ReleaseNoCount(t)
  BY <1>43, <1>0 DEF Words, Types, ReleaseNoCount, Goto, locals
<1>44. CASE ReleaseWalkOn(t)
  BY <1>44, <1>0 DEF Words, Types, ReleaseWalkOn
<1>45. CASE ReleaseFound(t)
  BY <1>45, <1>0 DEF Words, Types, ReleaseFound, Goto
<1>46. CASE ReleaseCounted(t)
  BY <1>46, <1>0 DEF Words, Types, ReleaseCounted, Return, Goto
<1>47. CASE ReleaseCountedLast(t)
  BY <1>47, <1>0 DEF Words, Types, ReleaseCountedLast, Goto
<1>48. CASE ReleaseUnlock(t)
  BY <1>48, <1>0 DEF Words, Types, ReleaseUnlock, Exchange, Return, Subroutine,
      Goto, Acquiring
<1>49. CASE ReleaseUnlockFails(t)
  BY <1>49, <1>0 DEF Words, Types, ReleaseUnlockFails, vars
<1>50. CASE ReleaseExclusiveFast(t)
  BY <1>50, <1>0 DEF Words, Types, ReleaseExclusiveFast, Holds, Enter, Goto,
      locals
<1>51. CASE TryWakeRead(t)
  BY <1>51, <1>0 DEF Words, Types, TryWakeRead, ReadLock, Goto
<1>52. CASE TryWake(t)
  BY <1>52, <1>0 DEF Words, Types, TryWake, Exchange, Subroutine, Goto,
      Acquiring
<1>53. CASE TryWakeNot(t)
  BY <1>53, <1>0 DEF Words, Types, TryWakeNot, Return, Goto
<1>54. CASE ReleaseExclusiveSlow(t)
  BY <1>54, <1>0 DEF Words, Types, ReleaseExclusiveSlow, Enter, Goto, locals
<1>55. CASE ReleaseExclusiveRead(t)
  BY <1>55, <1>0 DEF Words, Types, ReleaseExclusiveRead, Goto, Holds
<1>56. CASE ReleaseExclusiveWake(t)
  BY <1>56, <1>0 DEF Words, Types, ReleaseExclusiveWake, Exchange, Subroutine,
      Goto, Acquiring
<1>57. CASE ReleaseExclusiveSimple(t)
  BY <1>57, <1>0 DEF Words, Types, ReleaseExclusiveSimple, Exchange, Return,
      Goto
<1>58. CASE ReleaseExclusiveReload(t)
  BY <1>58, <1>0 DEF Words, Types, ReleaseExclusiveReload
<1>59. CASE Convert(t)
  BY <1>59, <1>0 DEF Words, Types, Convert, Exchange, Holds, locals
<1> QED
  BY <1>1, <1>2, <1>3, <1>4, <1>5, <1>6, <1>7, <1>8, <1>9, <1>10, <1>11, <1>12,
      <1>13, <1>14, <1>15, <1>16, <1>17, <1>18, <1>19, <1>20, <1>21, <1>22,
      <1>23, <1>24, <1>25, <1>26, <1>27, <1>28, <1>29, <1>30, <1>31, <1>32,
      <1>33, <1>34, <1>35, <1>36, <1>37, <1>38, <1>39, <1>40, <1>41, <1>42,
      <1>43, <1>44, <1>45, <1>46, <1>47, <1>48, <1>49, <1>50, <1>51, <1>52,
      <1>53, <1>54, <1>55, <1>56, <1>57, <1>58, <1>59 DEF Step, BeginAcquire,
      BeginRelease, InCall, InAcquire, InOptimize, InWake, InRelease


\* A step changes the locals of its own thread only.
LEMMA OthersKeep ==
    ASSUME Types, NEW t \in Threads, Step(t), NEW u \in Threads, u # t
    PROVE  /\ pc'[u] = pc[u] /\ call'[u] = call[u] /\ hold'[u] = hold[u]
           /\ old'[u] = old[u] /\ cur'[u] = cur[u]
           /\ wb'[u] = wb[u] /\ todo'[u] = todo[u]
<1>1. CASE AcquireExclusiveFast(t)
  BY <1>1 DEF Types, AcquireExclusiveFast, Holds, locals
<1>2. CASE \E c \in Calls : AcquireExclusiveSlow(t, c)
  BY <1>2 DEF Types, AcquireExclusiveSlow, Enter, Goto, locals
<1>3. CASE ExclusiveRead(t)
  BY <1>3 DEF Types, ExclusiveRead, ReadLock, Goto
<1>4. CASE ExclusiveTake(t)
  BY <1>4 DEF Types, ExclusiveTake, Return, Goto, Holds, locals
<1>5. CASE ExclusiveRetry(t)
  BY <1>5 DEF Types, ExclusiveRetry, Goto
<1>6. CASE ExclusiveFirstWaiter(t)
  BY <1>6 DEF Types, ExclusiveFirstWaiter, Goto, locals
<1>7. CASE ExclusiveNextWaiter(t)
  BY <1>7 DEF Types, ExclusiveNextWaiter, Goto, Subroutine, Acquiring, locals
<1>8. CASE AcquireSharedFast(t)
  BY <1>8 DEF Types, AcquireSharedFast, Holds, locals
<1>9. CASE AcquireSharedSlow(t)
  BY <1>9 DEF Types, AcquireSharedSlow, Enter, Goto, locals
<1>10. CASE SharedRead(t)
  BY <1>10 DEF Types, SharedRead, ReadLock, Goto
<1>11. CASE SharedTake(t)
  BY <1>11 DEF Types, SharedTake, Return, Goto, Holds
<1>12. CASE SharedRetry(t)
  BY <1>12 DEF Types, SharedRetry, Goto
<1>13. CASE SharedFirstWaiter(t)
  BY <1>13 DEF Types, SharedFirstWaiter, Goto, locals
<1>14. CASE SharedNextWaiter(t)
  BY <1>14 DEF Types, SharedNextWaiter, Goto, Subroutine, Acquiring, locals
<1>15. CASE InitGate(t)
  BY <1>15 DEF Types, InitGate, Goto, locals
<1>16. CASE TestWait(t)
  BY <1>16 DEF Types, TestWait, Goto, Again, locals
<1>17. CASE GateWait(t)
  BY <1>17 DEF Types, GateWait, Goto, Again, locals
<1>18. CASE OptimizeUnlocked(t)
  BY <1>18 DEF Types, OptimizeUnlocked, Goto, locals
<1>19. CASE OptimizeStart(t)
  BY <1>19 DEF Types, OptimizeStart, Goto
<1>20. CASE WalkOn(t, "optWalk") \/ WalkOn(t, "wakeWalk")
  BY <1>20 DEF Types, WalkOn
<1>21. CASE OptimizeFound(t)
  BY <1>21 DEF Types, OptimizeFound, Goto, locals
<1>22. CASE OptimizeDone(t)
  BY <1>22 DEF Types, OptimizeDone, SubroutineReturns, Return, Goto, Acquiring
<1>23. CASE OptimizeRetry(t)
  BY <1>23 DEF Types, OptimizeRetry, Goto
<1>24. CASE WakeNotNow(t)
  BY <1>24 DEF Types, WakeNotNow, SubroutineReturns, Return, Goto, Acquiring
<1>25. CASE WakeReload(t)
  BY <1>25 DEF Types, WakeReload
<1>26. CASE WakeStart(t)
  BY <1>26 DEF Types, WakeStart, Goto
<1>27. CASE WakeFound(t)
  BY <1>27 DEF Types, WakeFound, Goto
<1>28. CASE WakeAll(t)
  BY <1>28 DEF Types, WakeAll, Goto
<1>29. CASE WakeAllRetry(t)
  BY <1>29 DEF Types, WakeAllRetry, Goto
<1>30. CASE WakeUnlink(t)
  BY <1>30 DEF Types, WakeUnlink, Goto, WakeOneOnly, locals
<1>31. CASE WakeClear(t)
  BY <1>31 DEF Types, WakeClear, Goto
<1>32. CASE SignalSpinner(t)
  BY <1>32 DEF Types, SignalSpinner, SignalNext, SubroutineReturns, Return,
      Goto, Acquiring
<1>33. CASE SignalWaiter(t)
  BY <1>33 DEF Types, SignalWaiter, Goto
<1>34. CASE SetGate(t)
  BY <1>34 DEF Types, SetGate, SignalNext, SubroutineReturns, Return, Goto,
      Acquiring
<1>35. CASE ReleaseSharedFast(t)
  BY <1>35 DEF Types, ReleaseSharedFast, Holds, locals
<1>36. CASE ReleaseSharedSlow(t)
  BY <1>36 DEF Types, ReleaseSharedSlow, Enter, Goto, Holds, locals
<1>37. CASE ReleaseEnter(t)
  BY <1>37 DEF Types, ReleaseEnter, Enter, Goto, Holds
<1>38. CASE ReleaseNoWaiter(t, "relFast") \/ ReleaseNoWaiter(t, "relTry")
  BY <1>38 DEF Types, ReleaseNoWaiter, Return, Goto
<1>39. CASE ReleaseFastFails(t)
  BY <1>39 DEF Types, ReleaseFastFails, Goto
<1>40. CASE ReleaseRead(t)
  BY <1>40 DEF Types, ReleaseRead, ReadLock, Goto
<1>41. CASE ReleaseReload(t)
  BY <1>41 DEF Types, ReleaseReload
<1>42. CASE ReleaseFindCount(t)
  BY <1>42 DEF Types, ReleaseFindCount, Goto
<1>43. CASE ReleaseNoCount(t)
  BY <1>43 DEF Types, ReleaseNoCount, Goto, locals
<1>44. CASE ReleaseWalkOn(t)
  BY <1>44 DEF Types, ReleaseWalkOn
<1>45. CASE ReleaseFound(t)
  BY <1>45 DEF Types, ReleaseFound, Goto
<1>46. CASE ReleaseCounted(t)
  BY <1>46 DEF Types, ReleaseCounted, Return, Goto
<1>47. CASE ReleaseCountedLast(t)
  BY <1>47 DEF Types, ReleaseCountedLast, Goto
<1>48. CASE ReleaseUnlock(t)
  BY <1>48 DEF Types, ReleaseUnlock, Return, Subroutine, Goto, Acquiring
<1>49. CASE ReleaseUnlockFails(t)
  BY <1>49 DEF Types, ReleaseUnlockFails, vars
<1>50. CASE ReleaseExclusiveFast(t)
  BY <1>50 DEF Types, ReleaseExclusiveFast, Holds, Enter, Goto, locals
<1>51. CASE TryWakeRead(t)
  BY <1>51 DEF Types, TryWakeRead, ReadLock, Goto
<1>52. CASE TryWake(t)
  BY <1>52 DEF Types, TryWake, Subroutine, Goto, Acquiring
<1>53. CASE TryWakeNot(t)
  BY <1>53 DEF Types, TryWakeNot, Return, Goto
<1>54. CASE ReleaseExclusiveSlow(t)
  BY <1>54 DEF Types, ReleaseExclusiveSlow, Enter, Goto, locals
<1>55. CASE ReleaseExclusiveRead(t)
  BY <1>55 DEF Types, ReleaseExclusiveRead, Goto, Holds
<1>56. CASE ReleaseExclusiveWake(t)
  BY <1>56 DEF Types, ReleaseExclusiveWake, Subroutine, Goto, Acquiring
<1>57. CASE ReleaseExclusiveSimple(t)
  BY <1>57 DEF Types, ReleaseExclusiveSimple, Return, Goto
<1>58. CASE ReleaseExclusiveReload(t)
  BY <1>58 DEF Types, ReleaseExclusiveReload
<1>59. CASE Convert(t)
  BY <1>59 DEF Types, Convert, Holds, locals
<1> QED
  BY <1>1, <1>2, <1>3, <1>4, <1>5, <1>6, <1>7, <1>8, <1>9, <1>10, <1>11, <1>12,
      <1>13, <1>14, <1>15, <1>16, <1>17, <1>18, <1>19, <1>20, <1>21, <1>22,
      <1>23, <1>24, <1>25, <1>26, <1>27, <1>28, <1>29, <1>30, <1>31, <1>32,
      <1>33, <1>34, <1>35, <1>36, <1>37, <1>38, <1>39, <1>40, <1>41, <1>42,
      <1>43, <1>44, <1>45, <1>46, <1>47, <1>48, <1>49, <1>50, <1>51, <1>52,
      <1>53, <1>54, <1>55, <1>56, <1>57, <1>58, <1>59 DEF Step, BeginAcquire,
      BeginRelease, InCall, InAcquire, InOptimize, InWake, InRelease

\* The multiple-shared bit is set for the first waiter only.
LEMMA MultiSet ==
    ASSUME NEW q, NEW b, IInv(q, b), NEW t \in Threads, Step(t), lock'.multi
    PROVE  lock.multi \/ (~lock.waiting /\ ExclusiveFirstWaiter(t))
<1>0. lock \in Wide /\ old[t] \in Wide /\ cur[t] \in Wide /\ Word(lock)
  BY DEF IInv, Types, Words
<1>1. ASSUME (\E c \in Calls : AcquireExclusiveSlow(t, c)) \/ ExclusiveRead(t)
          \/ ExclusiveRetry(t) \/ AcquireSharedSlow(t) \/ SharedRead(t)
          \/ SharedRetry(t) \/ InitGate(t) \/ TestWait(t) \/ GateWait(t)
          \/ OptimizeUnlocked(t) \/ OptimizeStart(t) \/ WalkOn(t, "optWalk")
          \/ WalkOn(t, "wakeWalk") \/ OptimizeFound(t) \/ OptimizeRetry(t)
          \/ WakeReload(t) \/ WakeStart(t) \/ WakeFound(t) \/ WakeAllRetry(t)
          \/ WakeUnlink(t) \/ SignalSpinner(t) \/ SignalWaiter(t) \/ SetGate(t)
          \/ ReleaseSharedSlow(t) \/ ReleaseEnter(t) \/ ReleaseFastFails(t)
          \/ ReleaseRead(t) \/ ReleaseReload(t) \/ ReleaseFindCount(t)
          \/ ReleaseNoCount(t) \/ ReleaseWalkOn(t) \/ ReleaseFound(t)
          \/ ReleaseCounted(t) \/ ReleaseCountedLast(t)
          \/ ReleaseUnlockFails(t) \/ TryWakeRead(t) \/ TryWakeNot(t)
          \/ ReleaseExclusiveSlow(t) \/ ReleaseExclusiveRead(t)
          \/ ReleaseExclusiveReload(t)
      PROVE  lock' = lock
  BY <1>1 DEF AcquireExclusiveSlow, Enter, Goto, locals, ExclusiveRead,
      ReadLock, ExclusiveRetry, FrameGone, AcquireSharedSlow, SharedRead,
      SharedRetry, InitGate, TestWait, Again, GateWait, OptimizeUnlocked,
      OptimizeStart, WalkOn, OptimizeFound, OptimizeRetry, WakeReload,
      WakeStart, WakeFound, WakeAllRetry, WakeUnlink, WakeOneOnly,
      SignalSpinner, SignalNext, SubroutineReturns, Return, Acquiring,
      SignalWaiter, SetGate, ReleaseSharedSlow, Holds, ReleaseEnter,
      ReleaseFastFails, ReleaseRead, ReleaseReload, ReleaseFindCount,
      ReleaseNoCount, ReleaseWalkOn, ReleaseFound, ReleaseCounted,
      ReleaseCountedLast, ReleaseUnlockFails, vars, TryWakeRead, TryWakeNot,
      ReleaseExclusiveSlow, ReleaseExclusiveRead, ReleaseExclusiveReload
<1>2. CASE AcquireExclusiveFast(t)
  BY <1>2, <1>0 DEF Word, Wide, AcquireExclusiveFast, Holds, locals
<1>3. CASE ExclusiveTake(t)
  BY <1>3, <1>0 DEF Word, Wide, ExclusiveTake, Exchange, Return, Goto, Holds,
      FrameGone, locals, Free, NewBlock
<1>4. CASE ExclusiveFirstWaiter(t)
  BY <1>4, <1>0 DEF Word, Wide, ExclusiveFirstWaiter, Exchange, Locked, Free,
      NewBlock, Goto, locals
<1>5. CASE ExclusiveNextWaiter(t)
  BY <1>5, <1>0 DEF Word, Wide, ExclusiveNextWaiter, Exchange, NewBlock, Goto,
      Subroutine, Acquiring, locals, Free
<1>6. CASE AcquireSharedFast(t)
  BY <1>6, <1>0 DEF Word, Wide, AcquireSharedFast, Exchange, Locked, Free,
      Holds, locals
<1>7. CASE SharedTake(t)
  BY <1>7, <1>0 DEF Word, Wide, SharedTake, MayShare, Exchange, Locked, Free,
      Return, Goto, Holds, FrameGone, NewBlock
<1>8. CASE SharedFirstWaiter(t)
  BY <1>8, <1>0 DEF Word, Wide, SharedFirstWaiter, MayShare, Exchange,
      NewBlock, Goto, locals
<1>9. CASE SharedNextWaiter(t)
  BY <1>9, <1>0 DEF Word, Wide, SharedNextWaiter, MayShare, Exchange, NewBlock,
      Goto, Subroutine, Acquiring, locals, Free
<1>10. CASE OptimizeDone(t)
  BY <1>10, <1>0 DEF Word, Wide, OptimizeDone, Exchange, SubroutineReturns,
      Return, Goto, Acquiring, Free
<1>11. CASE WakeNotNow(t)
  BY <1>11, <1>0 DEF Word, Wide, WakeNotNow, Exchange, SubroutineReturns,
      Return, Goto, Acquiring, Free
<1>12. CASE WakeAll(t)
  BY <1>12, <1>0 DEF Word, Wide, WakeAll, Goto, Exchange, Free
<1>13. CASE WakeClear(t)
  BY <1>13, <1>0 DEF Word, Wide, WakeClear, Goto, Free
<1>14. CASE ReleaseSharedFast(t)
  BY <1>14, <1>0 DEF Word, Wide, ReleaseSharedFast, Exchange, Locked, Free,
      Holds, locals
<1>15. CASE ReleaseUnlock(t)
  BY <1>15, <1>0 DEF Word, Wide, ReleaseUnlock, Exchange, Return, Subroutine,
      Goto, Acquiring, Free
<1>16. CASE ReleaseExclusiveFast(t)
  BY <1>16, <1>0 DEF Word, Wide, ReleaseExclusiveFast, Holds, Enter, Goto,
      locals
<1>17. CASE TryWake(t)
  BY <1>17, <1>0 DEF Word, Wide, TryWake, Wakeable, Exchange, Subroutine, Goto,
      Acquiring, Free
<1>18. CASE ReleaseExclusiveWake(t)
  BY <1>18, <1>0 DEF Word, Wide, ReleaseExclusiveWake, Exchange, Subroutine,
      Goto, Acquiring, Free
<1>19. CASE ReleaseExclusiveSimple(t)
  BY <1>19, <1>0 DEF Word, Wide, ReleaseExclusiveSimple, Exchange, Return,
      Goto, Free
<1>20. CASE Convert(t)
  BY <1>20, <1>0 DEF Word, Wide, Convert, Exchange, Locked, Free, Holds, locals
<1>21. CASE ReleaseNoWaiter(t, "relFast") \/ ReleaseNoWaiter(t, "relTry")
  <2>1. lock' = Dropped(old[t])
    BY <1>21 DEF ReleaseNoWaiter, Exchange
  <2>2. ~lock'.multi
    BY <2>1 DEF Dropped, Locked, Free
  <2> QED  BY <2>2
<1> QED
  BY <1>0, <1>1, <1>2, <1>3, <1>4, <1>5, <1>6, <1>7, <1>8, <1>9, <1>10, <1>11,
      <1>12, <1>13, <1>14, <1>15, <1>16, <1>17, <1>18, <1>19, <1>20,
      <1>21 DEF Step, BeginAcquire, BeginRelease, InCall, InAcquire,
      InOptimize, InWake, InRelease

\* What a thread knows at its place in the code stays true, whoever steps.
LEMMA ControlsStep ==
    ASSUME NEW q, NEW b, IInv(q, b), NEW t \in Threads, Step(t)
    PROVE  Controls'
<1>0. Types /\ Types' /\ Words /\ Waking /\ Control(t)
  BY TypesStep DEF IInv, Controls
<1>v. /\ lock \in Wide /\ old[t] \in Wide /\ cur[t] \in Wide
      /\ Word(lock) /\ Word(old[t])
      /\ Word(cur[t])
  BY <1>0 DEF Types, Words
<1>h. hold[t] # "none" \/ pc[t] \in Releasing \cup {"rxTry"} => lock.locked
  BY HoldersLock DEF Holders
<1>x. hold[t] = "exclusive" \/ pc[t] = "rxTry" => ~lock.multi /\ lock.shared = 0
  BY ExclusiveWord
<1>k. pc[t] \in OwnerAt => lock.waking
  BY <1>0 DEF Waking
<1>m. lock'.multi => lock.multi \/ ~lock.waking
  BY <1>v, MultiSet DEF Word
<1>u. ASSUME NEW u \in Threads, u # t
      PROVE  Control(u)'
  <2>1. /\ pc'[u] = pc[u] /\ call'[u] = call[u] /\ hold'[u] = hold[u]
        /\ old'[u] = old[u] /\ cur'[u] = cur[u] /\ todo'[u] = todo[u]
    BY <1>0, <1>u, OthersKeep
  <2>2. Control(u)
    BY DEF IInv, Controls
  <2>3. pc[u] \in OwnerAt => lock.waking
    BY <1>0 DEF Waking
  <2> QED  BY <1>m, <2>1, <2>2, <2>3 DEF Control, Acquiring
<1> USE <1>0, <1>v, <1>h, <1>x, <1>k, <1>m DEF Types, Wide, Word, Control, Acquiring, Releasing, OwnerAt, OptimizerAt, WakerAt, WaiterAt, SignalerAt
<1>1. ASSUME AcquireExclusiveFast(t)
      PROVE  Control(t)'
  BY <1>1 DEF AcquireExclusiveFast, Holds, locals
<1>2. ASSUME \E c \in Calls : AcquireExclusiveSlow(t, c)
      PROVE  Control(t)'
  BY <1>2 DEF AcquireExclusiveSlow, Enter, Goto, locals
<1>3. ASSUME ExclusiveRead(t)
      PROVE  Control(t)'
  BY <1>3 DEF ExclusiveRead, ReadLock, Goto
<1>4. ASSUME ExclusiveTake(t)
      PROVE  Control(t)'
  BY <1>4 DEF ExclusiveTake, Exchange, Return, Goto, Holds, FrameGone, locals,
      Free, NewBlock
<1>5. ASSUME ExclusiveRetry(t)
      PROVE  Control(t)'
  BY <1>5 DEF ExclusiveRetry, Goto, FrameGone, Free, NewBlock
<1>6. ASSUME ExclusiveFirstWaiter(t)
      PROVE  Control(t)'
  BY <1>6 DEF ExclusiveFirstWaiter, Exchange, Locked, Free, NewBlock, Goto,
      locals
<1>7. ASSUME AcquireSharedFast(t)
      PROVE  Control(t)'
  BY <1>7 DEF AcquireSharedFast, Exchange, Locked, Free, Holds, locals
<1>8. ASSUME AcquireSharedSlow(t)
      PROVE  Control(t)'
  BY <1>8 DEF AcquireSharedSlow, Enter, Goto, locals
<1>9. ASSUME SharedRead(t)
      PROVE  Control(t)'
  BY <1>9 DEF SharedRead, ReadLock, Goto
<1>10. ASSUME SharedTake(t)
      PROVE  Control(t)'
  BY <1>10 DEF SharedTake, MayShare, Exchange, Locked, Free, Return, Goto,
      Holds, FrameGone, NewBlock
<1>11. ASSUME SharedRetry(t)
      PROVE  Control(t)'
  BY <1>11 DEF SharedRetry, Goto, FrameGone, Free, NewBlock
<1>12. ASSUME SharedFirstWaiter(t)
      PROVE  Control(t)'
  BY <1>12 DEF SharedFirstWaiter, MayShare, Exchange, NewBlock, Goto, locals
<1>13. ASSUME SharedNextWaiter(t)
      PROVE  Control(t)'
  BY <1>13 DEF SharedNextWaiter, MayShare, Exchange, NewBlock, Goto,
      Subroutine, Acquiring, locals, Free
<1>14. ASSUME InitGate(t)
      PROVE  Control(t)'
  BY <1>14 DEF InitGate, Goto, locals
<1>15. ASSUME TestWait(t)
      PROVE  Control(t)'
  BY <1>15 DEF TestWait, Goto, Again, locals
<1>16. ASSUME GateWait(t)
      PROVE  Control(t)'
  BY <1>16 DEF GateWait, Goto, Again, locals
<1>17. ASSUME OptimizeUnlocked(t)
      PROVE  Control(t)'
  BY <1>17 DEF OptimizeUnlocked, Goto, locals
<1>18. ASSUME OptimizeStart(t)
      PROVE  Control(t)'
  BY <1>18 DEF OptimizeStart, Goto
<1>19. ASSUME WalkOn(t, "optWalk") \/ WalkOn(t, "wakeWalk")
      PROVE  Control(t)'
  BY <1>19 DEF WalkOn
<1>20. ASSUME OptimizeFound(t)
      PROVE  Control(t)'
  BY <1>20 DEF OptimizeFound, Goto, locals
<1>21. ASSUME OptimizeDone(t)
      PROVE  Control(t)'
  BY <1>21 DEF OptimizeDone, Exchange, SubroutineReturns, Return, Goto,
      Acquiring, Free
<1>22. ASSUME OptimizeRetry(t)
      PROVE  Control(t)'
  BY <1>22 DEF OptimizeRetry, Goto
<1>23. ASSUME WakeNotNow(t)
      PROVE  Control(t)'
  BY <1>23 DEF WakeNotNow, Exchange, SubroutineReturns, Return, Goto,
      Acquiring, Free
<1>24. ASSUME WakeReload(t)
      PROVE  Control(t)'
  BY <1>24 DEF WakeReload
<1>25. ASSUME WakeStart(t)
      PROVE  Control(t)'
  BY <1>25 DEF WakeStart, Goto
<1>26. ASSUME WakeFound(t)
      PROVE  Control(t)'
  BY <1>26 DEF WakeFound, Goto
<1>27. ASSUME WakeAll(t)
      PROVE  Control(t)'
  BY <1>27 DEF WakeAll, Goto, Exchange, Free
<1>28. ASSUME WakeAllRetry(t)
      PROVE  Control(t)'
  BY <1>28 DEF WakeAllRetry, Goto
<1>29. ASSUME WakeUnlink(t)
      PROVE  Control(t)'
  BY <1>29 DEF WakeUnlink, Goto, WakeOneOnly, locals
<1>30. ASSUME WakeClear(t)
      PROVE  Control(t)'
  BY <1>30 DEF WakeClear, Goto, Free
<1>31. ASSUME SignalSpinner(t)
      PROVE  Control(t)'
  BY <1>31 DEF SignalSpinner, SignalNext, SubroutineReturns, Return, Goto,
      Acquiring, Free
<1>32. ASSUME SignalWaiter(t)
      PROVE  Control(t)'
  BY <1>32 DEF SignalWaiter, Goto
<1>33. ASSUME SetGate(t)
      PROVE  Control(t)'
  BY <1>33 DEF SetGate, SignalNext, SubroutineReturns, Return, Goto, Acquiring,
      Free
<1>34. ASSUME ReleaseSharedFast(t)
      PROVE  Control(t)'
  BY <1>34 DEF ReleaseSharedFast, Exchange, Locked, Free, Holds, locals
<1>35. ASSUME ReleaseSharedSlow(t)
      PROVE  Control(t)'
  BY <1>35 DEF ReleaseSharedSlow, Enter, Goto, Holds, locals
<1>36. ASSUME ReleaseEnter(t)
      PROVE  Control(t)'
  BY <1>36 DEF ReleaseEnter, Enter, Goto, Holds
<1>37. ASSUME ReleaseNoWaiter(t, "relFast") \/ ReleaseNoWaiter(t, "relTry")
      PROVE  Control(t)'
  BY <1>37 DEF ReleaseNoWaiter, Exchange, Dropped, Locked, Free, Return, Goto
<1>38. ASSUME ReleaseFastFails(t)
      PROVE  Control(t)'
  BY <1>38 DEF ReleaseFastFails, Goto, Free
<1>39. ASSUME ReleaseRead(t)
      PROVE  Control(t)'
  BY <1>39 DEF ReleaseRead, ReadLock, Goto
<1>40. ASSUME ReleaseReload(t)
      PROVE  Control(t)'
  BY <1>40 DEF ReleaseReload
<1>41. ASSUME ReleaseFindCount(t)
      PROVE  Control(t)'
  BY <1>41 DEF ReleaseFindCount, Goto
<1>42. ASSUME ReleaseNoCount(t)
      PROVE  Control(t)'
  BY <1>42 DEF ReleaseNoCount, Goto, locals
<1>43. ASSUME ReleaseWalkOn(t)
      PROVE  Control(t)'
  BY <1>43 DEF ReleaseWalkOn
<1>44. ASSUME ReleaseFound(t)
      PROVE  Control(t)'
  BY <1>44 DEF ReleaseFound, Goto
<1>45. ASSUME ReleaseCounted(t)
      PROVE  Control(t)'
  BY <1>45 DEF ReleaseCounted, Return, Goto, Free
<1>46. ASSUME ReleaseCountedLast(t)
      PROVE  Control(t)'
  BY <1>46 DEF ReleaseCountedLast, Goto
<1>47. ASSUME ReleaseUnlockFails(t)
      PROVE  Control(t)'
  BY <1>47 DEF ReleaseUnlockFails, vars
<1>48. ASSUME ReleaseExclusiveFast(t)
      PROVE  Control(t)'
  BY <1>48 DEF ReleaseExclusiveFast, Holds, Enter, Goto, locals
<1>49. ASSUME TryWakeRead(t)
      PROVE  Control(t)'
  BY <1>49 DEF TryWakeRead, ReadLock, Goto
<1>50. ASSUME TryWake(t)
      PROVE  Control(t)'
  BY <1>50 DEF TryWake, Wakeable, Exchange, Subroutine, Goto, Acquiring, Free
<1>51. ASSUME TryWakeNot(t)
      PROVE  Control(t)'
  BY <1>51 DEF TryWakeNot, Return, Goto, Free
<1>52. ASSUME ReleaseExclusiveSlow(t)
      PROVE  Control(t)'
  BY <1>52 DEF ReleaseExclusiveSlow, Enter, Goto, locals
<1>53. ASSUME ReleaseExclusiveRead(t)
      PROVE  Control(t)'
  BY <1>53 DEF ReleaseExclusiveRead, Goto, Holds
<1>54. ASSUME ReleaseExclusiveWake(t)
      PROVE  Control(t)'
  BY <1>54 DEF ReleaseExclusiveWake, Exchange, Subroutine, Goto, Acquiring,
      Free
<1>55. ASSUME ReleaseExclusiveSimple(t)
      PROVE  Control(t)'
  BY <1>55 DEF ReleaseExclusiveSimple, Exchange, Return, Goto, Free
<1>56. ASSUME ReleaseExclusiveReload(t)
      PROVE  Control(t)'
  BY <1>56 DEF ReleaseExclusiveReload
<1>57. ASSUME Convert(t)
      PROVE  Control(t)'
  BY <1>57 DEF Convert, Exchange, Locked, Free, Holds, locals
<1>58. ASSUME ReleaseUnlock(t)
      PROVE  Control(t)'
  <2>1. /\ lock = old[t] /\ ~lock'.multi /\ lock'.waiting = lock.waiting
        /\ pc[t] = "relUnlock" /\ hold' = hold
        /\ \/ /\ pc'[t] = "idle" /\ call'[t] = "none" /\ todo'[t] = NULL
           \/ /\ pc'[t] = "wake" /\ cur'[t] = lock' /\ call' = call /\ todo' = todo
    BY <1>58, ReleaseUnlockEffect
  <2> QED  BY <2>1
<1>59. ASSUME ExclusiveNextWaiter(t)
      PROVE  Control(t)'
  <2>1. /\ pc[t] = "exTry" /\ call' = call /\ hold' = hold /\ todo' = todo
        /\ lock.waiting /\ lock'.waiting /\ lock'.multi = lock.multi
        /\ \/ pc'[t] = "initGate"
           \/ pc'[t] = "optimize" /\ cur'[t] \in {lock, lock'}
    BY <1>59, NextWaiterEffect
  <2> QED  BY <2>1
 <1>q. Control(t)'
  BY <1>1, <1>2, <1>3, <1>4, <1>5, <1>6, <1>7, <1>8, <1>9, <1>10, <1>11, <1>12,
      <1>13, <1>14, <1>15, <1>16, <1>17, <1>18, <1>19, <1>20, <1>21, <1>22,
      <1>23, <1>24, <1>25, <1>26, <1>27, <1>28, <1>29, <1>30, <1>31, <1>32,
      <1>33, <1>34, <1>35, <1>36, <1>37, <1>38, <1>39, <1>40, <1>41, <1>42,
      <1>43, <1>44, <1>45, <1>46, <1>47, <1>48, <1>49, <1>50, <1>51, <1>52,
      <1>53, <1>54, <1>55, <1>56, <1>57, <1>58, <1>59 DEF Step, BeginAcquire,
      BeginRelease, InCall, InAcquire, InOptimize, InWake, InRelease
<1> QED  BY <1>q, <1>u DEF Controls


\* Only its owner clears the waking bit, and only a new owner sets it.
LEMMA WakingStep ==
    ASSUME NEW q, NEW b, IInv(q, b), NEW t \in Threads, Step(t)
    PROVE  Waking'
<1>0. Types /\ Types' /\ Words /\ Control(t) /\ Waking
  BY TypesStep DEF IInv, Controls
<1>v. /\ lock \in Wide /\ old[t] \in Wide /\ cur[t] \in Wide
      /\ Word(lock) /\ Word(old[t]) /\ Word(cur[t])
  BY <1>0 DEF Types, Words
<1> DEFINE Kept == lock'.waking = lock.waking /\ (pc'[t] \in OwnerAt <=> pc[t] \in OwnerAt)
           Begun == lock'.waking /\ ~lock.waking /\ pc'[t] \in OwnerAt
           Ended == ~lock'.waking /\ pc[t] \in OwnerAt /\ pc'[t] \notin OwnerAt
<1> USE <1>0, <1>v DEF Types, Wide, Word, Control, OwnerAt, OptimizerAt, WakerAt
<1>1. ASSUME AcquireExclusiveFast(t)
      PROVE  Kept \/ Begun \/ Ended
  BY <1>1 DEF AcquireExclusiveFast, Holds, locals
<1>2. ASSUME \E c \in Calls : AcquireExclusiveSlow(t, c)
      PROVE  Kept \/ Begun \/ Ended
  BY <1>2 DEF AcquireExclusiveSlow, Enter, Goto, locals
<1>3. ASSUME ExclusiveRead(t)
      PROVE  Kept \/ Begun \/ Ended
  BY <1>3 DEF ExclusiveRead, ReadLock, Goto
<1>4. ASSUME ExclusiveTake(t)
      PROVE  Kept \/ Begun \/ Ended
  BY <1>4 DEF ExclusiveTake, Exchange, Return, Goto, Holds, FrameGone, locals,
      Free, NewBlock
<1>5. ASSUME ExclusiveRetry(t)
      PROVE  Kept \/ Begun \/ Ended
  BY <1>5 DEF ExclusiveRetry, Goto, FrameGone, Free, NewBlock
<1>6. ASSUME ExclusiveFirstWaiter(t)
      PROVE  Kept \/ Begun \/ Ended
  BY <1>6 DEF ExclusiveFirstWaiter, Exchange, Locked, Free, NewBlock, Goto,
      locals
<1>7. ASSUME AcquireSharedFast(t)
      PROVE  Kept \/ Begun \/ Ended
  BY <1>7 DEF AcquireSharedFast, Exchange, Locked, Free, Holds, locals
<1>8. ASSUME AcquireSharedSlow(t)
      PROVE  Kept \/ Begun \/ Ended
  BY <1>8 DEF AcquireSharedSlow, Enter, Goto, locals
<1>9. ASSUME SharedRead(t)
      PROVE  Kept \/ Begun \/ Ended
  BY <1>9 DEF SharedRead, ReadLock, Goto
<1>10. ASSUME SharedRetry(t)
      PROVE  Kept \/ Begun \/ Ended
  BY <1>10 DEF SharedRetry, Goto, FrameGone, Free, NewBlock
<1>11. ASSUME SharedFirstWaiter(t)
      PROVE  Kept \/ Begun \/ Ended
  BY <1>11 DEF SharedFirstWaiter, MayShare, Exchange, NewBlock, Goto, locals
<1>12. ASSUME InitGate(t)
      PROVE  Kept \/ Begun \/ Ended
  BY <1>12 DEF InitGate, Goto, locals
<1>13. ASSUME TestWait(t)
      PROVE  Kept \/ Begun \/ Ended
  BY <1>13 DEF TestWait, Goto, Again, locals
<1>14. ASSUME GateWait(t)
      PROVE  Kept \/ Begun \/ Ended
  BY <1>14 DEF GateWait, Goto, Again, locals
<1>15. ASSUME OptimizeUnlocked(t)
      PROVE  Kept \/ Begun \/ Ended
  BY <1>15 DEF OptimizeUnlocked, Goto, locals
<1>16. ASSUME OptimizeStart(t)
      PROVE  Kept \/ Begun \/ Ended
  BY <1>16 DEF OptimizeStart, Goto
<1>17. ASSUME WalkOn(t, "optWalk") \/ WalkOn(t, "wakeWalk")
      PROVE  Kept \/ Begun \/ Ended
  BY <1>17 DEF WalkOn
<1>18. ASSUME OptimizeFound(t)
      PROVE  Kept \/ Begun \/ Ended
  BY <1>18 DEF OptimizeFound, Goto, locals
<1>19. ASSUME OptimizeRetry(t)
      PROVE  Kept \/ Begun \/ Ended
  BY <1>19 DEF OptimizeRetry, Goto
<1>20. ASSUME WakeReload(t)
      PROVE  Kept \/ Begun \/ Ended
  BY <1>20 DEF WakeReload
<1>21. ASSUME WakeStart(t)
      PROVE  Kept \/ Begun \/ Ended
  BY <1>21 DEF WakeStart, Goto
<1>22. ASSUME WakeFound(t)
      PROVE  Kept \/ Begun \/ Ended
  BY <1>22 DEF WakeFound, Goto
<1>23. ASSUME WakeAll(t)
      PROVE  Kept \/ Begun \/ Ended
  BY <1>23 DEF WakeAll, Goto, Exchange, Free
<1>24. ASSUME WakeAllRetry(t)
      PROVE  Kept \/ Begun \/ Ended
  BY <1>24 DEF WakeAllRetry, Goto
<1>25. ASSUME WakeUnlink(t)
      PROVE  Kept \/ Begun \/ Ended
  BY <1>25 DEF WakeUnlink, Goto, WakeOneOnly, locals
<1>26. ASSUME WakeClear(t)
      PROVE  Kept \/ Begun \/ Ended
  BY <1>26 DEF WakeClear, Goto, Free
<1>27. ASSUME SignalSpinner(t)
      PROVE  Kept \/ Begun \/ Ended
  BY <1>27 DEF SignalSpinner, SignalNext, SubroutineReturns, Return, Goto,
      Acquiring, Free
<1>28. ASSUME SignalWaiter(t)
      PROVE  Kept \/ Begun \/ Ended
  BY <1>28 DEF SignalWaiter, Goto
<1>29. ASSUME SetGate(t)
      PROVE  Kept \/ Begun \/ Ended
  BY <1>29 DEF SetGate, SignalNext, SubroutineReturns, Return, Goto, Acquiring,
      Free
<1>30. ASSUME ReleaseSharedFast(t)
      PROVE  Kept \/ Begun \/ Ended
  BY <1>30 DEF ReleaseSharedFast, Exchange, Locked, Free, Holds, locals
<1>31. ASSUME ReleaseSharedSlow(t)
      PROVE  Kept \/ Begun \/ Ended
  BY <1>31 DEF ReleaseSharedSlow, Enter, Goto, Holds, locals
<1>32. ASSUME ReleaseEnter(t)
      PROVE  Kept \/ Begun \/ Ended
  BY <1>32 DEF ReleaseEnter, Enter, Goto, Holds
<1>33. ASSUME ReleaseFastFails(t)
      PROVE  Kept \/ Begun \/ Ended
  BY <1>33 DEF ReleaseFastFails, Goto, Free
<1>34. ASSUME ReleaseRead(t)
      PROVE  Kept \/ Begun \/ Ended
  BY <1>34 DEF ReleaseRead, ReadLock, Goto
<1>35. ASSUME ReleaseReload(t)
      PROVE  Kept \/ Begun \/ Ended
  BY <1>35 DEF ReleaseReload
<1>36. ASSUME ReleaseFindCount(t)
      PROVE  Kept \/ Begun \/ Ended
  BY <1>36 DEF ReleaseFindCount, Goto
<1>37. ASSUME ReleaseNoCount(t)
      PROVE  Kept \/ Begun \/ Ended
  BY <1>37 DEF ReleaseNoCount, Goto, locals
<1>38. ASSUME ReleaseWalkOn(t)
      PROVE  Kept \/ Begun \/ Ended
  BY <1>38 DEF ReleaseWalkOn
<1>39. ASSUME ReleaseFound(t)
      PROVE  Kept \/ Begun \/ Ended
  BY <1>39 DEF ReleaseFound, Goto
<1>40. ASSUME ReleaseCounted(t)
      PROVE  Kept \/ Begun \/ Ended
  BY <1>40 DEF ReleaseCounted, Return, Goto, Free
<1>41. ASSUME ReleaseCountedLast(t)
      PROVE  Kept \/ Begun \/ Ended
  BY <1>41 DEF ReleaseCountedLast, Goto
<1>42. ASSUME ReleaseUnlockFails(t)
      PROVE  Kept \/ Begun \/ Ended
  BY <1>42 DEF ReleaseUnlockFails, vars
<1>43. ASSUME ReleaseExclusiveFast(t)
      PROVE  Kept \/ Begun \/ Ended
  BY <1>43 DEF ReleaseExclusiveFast, Holds, Enter, Goto, locals
<1>44. ASSUME TryWakeRead(t)
      PROVE  Kept \/ Begun \/ Ended
  BY <1>44 DEF TryWakeRead, ReadLock, Goto
<1>45. ASSUME TryWake(t)
      PROVE  Kept \/ Begun \/ Ended
  BY <1>45 DEF TryWake, Wakeable, Exchange, Subroutine, Goto, Acquiring, Free
<1>46. ASSUME TryWakeNot(t)
      PROVE  Kept \/ Begun \/ Ended
  BY <1>46 DEF TryWakeNot, Return, Goto, Free
<1>47. ASSUME ReleaseExclusiveSlow(t)
      PROVE  Kept \/ Begun \/ Ended
  BY <1>47 DEF ReleaseExclusiveSlow, Enter, Goto, locals
<1>48. ASSUME ReleaseExclusiveRead(t)
      PROVE  Kept \/ Begun \/ Ended
  BY <1>48 DEF ReleaseExclusiveRead, Goto, Holds
<1>49. ASSUME ReleaseExclusiveWake(t)
      PROVE  Kept \/ Begun \/ Ended
  BY <1>49 DEF ReleaseExclusiveWake, Exchange, Subroutine, Goto, Acquiring,
      Free
<1>50. ASSUME ReleaseExclusiveSimple(t)
      PROVE  Kept \/ Begun \/ Ended
  BY <1>50 DEF ReleaseExclusiveSimple, Exchange, Return, Goto, Free
<1>51. ASSUME ReleaseExclusiveReload(t)
      PROVE  Kept \/ Begun \/ Ended
  BY <1>51 DEF ReleaseExclusiveReload
<1>52. ASSUME Convert(t)
      PROVE  Kept \/ Begun \/ Ended
  BY <1>52 DEF Convert, Exchange, Locked, Free, Holds, locals
<1>53. ASSUME ReleaseUnlock(t)
      PROVE  Kept \/ Begun \/ Ended
  <2>1. /\ lock'.waking /\ pc[t] = "relUnlock"
        /\ \/ lock.waking /\ pc'[t] = "idle"
           \/ ~lock.waking /\ pc'[t] = "wake"
    BY <1>53, ReleaseUnlockEffect
  <2> QED  BY <2>1
<1>54. ASSUME ReleaseNoWaiter(t, "relFast") \/ ReleaseNoWaiter(t, "relTry")
      PROVE  Kept \/ Begun \/ Ended
  BY <1>54, ReleaseNoWaiterEffect
<1>55. ASSUME WakeNotNow(t)
      PROVE  Kept \/ Begun \/ Ended
  <2>1. ~lock'.waking /\ pc[t] = "wake" /\ SubroutineReturns(t, "wake")
    BY <1>55 DEF WakeNotNow, Exchange, SubroutineReturns, Goto, Return
  <2>2. pc'[t] = IF Acquiring(t) THEN "initGate" ELSE "idle"
    BY <2>1, SubroutineReturnsEffect
  <2> QED  BY <2>1, <2>2
<1>56. ASSUME OptimizeDone(t)
      PROVE  Kept \/ Begun \/ Ended
  <2>1. ~lock'.waking /\ pc[t] = "optDone" /\ SubroutineReturns(t, "optDone")
    BY <1>56 DEF OptimizeDone, Exchange, SubroutineReturns, Goto, Return
  <2>2. pc'[t] = IF Acquiring(t) THEN "initGate" ELSE "idle"
    BY <2>1, SubroutineReturnsEffect
  <2> QED  BY <2>1, <2>2
<1>57. ASSUME SharedNextWaiter(t)
      PROVE  Kept \/ Begun \/ Ended
  BY <1>57, NextWaiterEffect
<1>58. ASSUME ExclusiveNextWaiter(t)
      PROVE  Kept \/ Begun \/ Ended
  BY <1>58, NextWaiterEffect
<1>59. ASSUME SharedTake(t)
      PROVE  Kept \/ Begun \/ Ended
  BY <1>59, SharedTakeEffect
 <1>q. Kept \/ Begun \/ Ended
  BY <1>1, <1>2, <1>3, <1>4, <1>5, <1>6, <1>7, <1>8, <1>9, <1>10, <1>11, <1>12,
      <1>13, <1>14, <1>15, <1>16, <1>17, <1>18, <1>19, <1>20, <1>21, <1>22,
      <1>23, <1>24, <1>25, <1>26, <1>27, <1>28, <1>29, <1>30, <1>31, <1>32,
      <1>33, <1>34, <1>35, <1>36, <1>37, <1>38, <1>39, <1>40, <1>41, <1>42,
      <1>43, <1>44, <1>45, <1>46, <1>47, <1>48, <1>49, <1>50, <1>51, <1>52,
      <1>53, <1>54, <1>55, <1>56, <1>57, <1>58, <1>59 DEF Step, BeginAcquire,
      BeginRelease, InCall, InAcquire, InOptimize, InWake, InRelease
<1>u. \A u \in Threads : u # t => pc'[u] = pc[u]
  BY OthersKeep
<1>a. CASE Kept
  BY <1>a, <1>u DEF Waking
<1>b. CASE Begun
  BY <1>b, <1>u DEF Waking
<1>c. CASE Ended
  BY <1>c, <1>u DEF Waking
<1> QED  BY <1>q, <1>a, <1>b, <1>c


-----------------------------------------------------------------------------
(* The list of waiters. *)

\* A word without its lock and waking bits leads to the same list.
LEMMA ShapeKept ==
    ASSUME NEW q, Shape(q), Types, Types',
           lock'.waiting = lock.waiting, lock.waiting => lock'.ptr = lock.ptr,
           \A i \in 1 .. Len(q) : /\ blk'[q[i]].next = blk[q[i]].next
                                  /\ blk'[q[i]].prev = blk[q[i]].prev
    PROVE  Shape(q)'
<1>1. q \in Seq(Threads) /\ Len(q) \in Nat
  BY DEF Shape
<1>2. \A i \in 2 .. Len(q) : blk'[q[i]].next = q[i - 1]
  BY <1>1 DEF Shape
<1>3. \A i \in 1 .. Len(q) - 1 : blk'[q[i]].prev \in {NULL, q[i + 1]}
  BY <1>1 DEF Shape
<1>4. Len(q) > 0 => blk'[q[Len(q)]].prev = NULL
  BY <1>1 DEF Shape
<1> QED  BY <1>1, <1>2, <1>3, <1>4 DEF Shape

\* The oldest block stays found while the links stay.
LEMMA KnownKept ==
    ASSUME NEW q, Known(q), q \in Seq(Threads),
           \A i \in 1 .. Len(q) : /\ blk'[q[i]].last = blk[q[i]].last
                                  /\ blk'[q[i]].prev = blk[q[i]].prev
    PROVE  Known(q)'
<1>1. Len(q) \in Nat
  OBVIOUS
<1>2. SUFFICES ASSUME Len(q) > 0
               PROVE  \E k \in 1 .. Len(q) :
                         /\ blk'[q[k]].last = q[1]
                         /\ \A i \in k + 1 .. Len(q) : blk'[q[i]].last = NULL
                         /\ \A i \in 1 .. k - 1 : blk'[q[i]].prev = q[i + 1]
  BY DEF Known
<1>3. PICK k \in 1 .. Len(q) :
            /\ blk[q[k]].last = q[1]
            /\ \A i \in k + 1 .. Len(q) : blk[q[i]].last = NULL
            /\ \A i \in 1 .. k - 1 : blk[q[i]].prev = q[i + 1]
  BY <1>2 DEF Known
<1>4. /\ \A i \in k + 1 .. Len(q) : blk'[q[i]].last = NULL
      /\ \A i \in 1 .. k - 1 : blk'[q[i]].prev = q[i + 1]
  BY <1>1, <1>3
<1> QED  BY <1>3, <1>4

\* A thread that is not waiting is not on the list, and its step, unless it
\* is one of the walks, changes no link.
LEMMA NotListed ==
    ASSUME NEW q, NEW b, IInv(q, b), NEW u \in Threads, ~Parked(u) \/ blk[u].signaled
    PROVE  /\ \A i \in 1 .. Len(q) : q[i] # u
           /\ \A t \in Threads : \A i \in 1 .. Len(b[t]) : b[t][i] # u
<1>1. ~(On(u, q) \/ \E t \in Threads : On(u, b[t]))
  BY DEF IInv, Members
<1> QED  BY <1>1 DEF On

\* Only waiters that join, walks, and the taker of a block change links.
LEMMA LinksKept ==
    ASSUME NEW q, NEW b, IInv(q, b), NEW t \in Threads, Step(t),
           ~ExclusiveFirstWaiter(t), ~ExclusiveNextWaiter(t),
           ~SharedFirstWaiter(t), ~SharedNextWaiter(t),
           ~WalkOn(t, "optWalk"), ~WalkOn(t, "wakeWalk"),
           ~OptimizeFound(t), ~WakeUnlink(t)
    PROVE  \A u \in Threads : u # t \/ Parked(t) =>
               /\ blk'[u].next = blk[u].next
               /\ blk'[u].prev = blk[u].prev
               /\ blk'[u].last = blk[u].last
<1>0. Types
  BY DEF IInv
<1>1. ASSUME AcquireExclusiveFast(t)
          \/ (\E c \in Calls : AcquireExclusiveSlow(t, c)) \/ ExclusiveRead(t)
          \/ AcquireSharedFast(t) \/ AcquireSharedSlow(t) \/ SharedRead(t)
          \/ InitGate(t) \/ GateWait(t) \/ OptimizeUnlocked(t)
          \/ OptimizeStart(t) \/ OptimizeDone(t) \/ OptimizeRetry(t)
          \/ WakeNotNow(t) \/ WakeReload(t) \/ WakeStart(t) \/ WakeFound(t)
          \/ WakeAll(t) \/ WakeAllRetry(t) \/ WakeClear(t) \/ SetGate(t)
          \/ ReleaseSharedFast(t) \/ ReleaseSharedSlow(t) \/ ReleaseEnter(t)
          \/ ReleaseNoWaiter(t, "relFast") \/ ReleaseNoWaiter(t, "relTry")
          \/ ReleaseFastFails(t) \/ ReleaseRead(t) \/ ReleaseReload(t)
          \/ ReleaseFindCount(t) \/ ReleaseNoCount(t) \/ ReleaseWalkOn(t)
          \/ ReleaseFound(t) \/ ReleaseUnlock(t) \/ ReleaseUnlockFails(t)
          \/ ReleaseExclusiveFast(t) \/ TryWakeRead(t) \/ TryWake(t)
          \/ TryWakeNot(t) \/ ReleaseExclusiveSlow(t)
          \/ ReleaseExclusiveRead(t) \/ ReleaseExclusiveWake(t)
          \/ ReleaseExclusiveSimple(t) \/ ReleaseExclusiveReload(t)
          \/ Convert(t)
      PROVE  blk' = blk
  BY <1>1 DEF AcquireExclusiveFast, Holds, locals, AcquireExclusiveSlow, Enter,
      Goto, ExclusiveRead, ReadLock, AcquireSharedFast, Exchange, Locked,
      AcquireSharedSlow, SharedRead, InitGate, GateWait, Again,
      OptimizeUnlocked, OptimizeStart, OptimizeDone, SubroutineReturns, Return,
      Acquiring, OptimizeRetry, WakeNotNow, WakeReload, WakeStart, WakeFound,
      WakeAll, WakeAllRetry, WakeClear, SetGate, SignalNext, ReleaseSharedFast,
      ReleaseSharedSlow, ReleaseEnter, ReleaseNoWaiter, Dropped,
      ReleaseFastFails, ReleaseRead, ReleaseReload, ReleaseFindCount,
      ReleaseNoCount, ReleaseWalkOn, ReleaseFound, ReleaseUnlock, Subroutine,
      ReleaseUnlockFails, vars, ReleaseExclusiveFast, TryWakeRead, TryWake,
      Wakeable, TryWakeNot, ReleaseExclusiveSlow, ReleaseExclusiveRead,
      ReleaseExclusiveWake, ReleaseExclusiveSimple, ReleaseExclusiveReload,
      Convert
<1>2. CASE ExclusiveTake(t)
  BY <1>2, <1>0 DEF Types, WideBlock, Parked, WaiterAt, SignalerAt,
      OptimizerAt, WakerAt, ExclusiveTake, Exchange, Return, Goto, Holds,
      FrameGone, locals, Free, NewBlock
<1>3. CASE ExclusiveRetry(t)
  BY <1>3, <1>0 DEF Types, WideBlock, Parked, WaiterAt, SignalerAt,
      OptimizerAt, WakerAt, ExclusiveRetry, Goto, FrameGone, Free, NewBlock
<1>4. CASE SharedTake(t)
  BY <1>4, <1>0 DEF Types, WideBlock, Parked, WaiterAt, SignalerAt,
      OptimizerAt, WakerAt, SharedTake, MayShare, Exchange, Locked, Free,
      Return, Goto, Holds, FrameGone, NewBlock
<1>5. CASE SharedRetry(t)
  BY <1>5, <1>0 DEF Types, WideBlock, Parked, WaiterAt, SignalerAt,
      OptimizerAt, WakerAt, SharedRetry, Goto, FrameGone, Free, NewBlock
<1>6. CASE TestWait(t)
  BY <1>6, <1>0 DEF Types, WideBlock, Parked, WaiterAt, SignalerAt,
      OptimizerAt, WakerAt, TestWait, Goto, Again, locals
<1>7. CASE SignalSpinner(t)
  BY <1>7, <1>0 DEF Types, WideBlock, Parked, WaiterAt, SignalerAt,
      OptimizerAt, WakerAt, SignalSpinner, SignalNext, SubroutineReturns,
      Return, Goto, Acquiring, Free
<1>8. CASE SignalWaiter(t)
  BY <1>8, <1>0 DEF Types, WideBlock, Parked, WaiterAt, SignalerAt,
      OptimizerAt, WakerAt, SignalWaiter, Goto
<1>9. CASE ReleaseCounted(t)
  BY <1>9, <1>0 DEF Types, WideBlock, Parked, WaiterAt, SignalerAt,
      OptimizerAt, WakerAt, ReleaseCounted, Return, Goto, Free
<1>10. CASE ReleaseCountedLast(t)
  BY <1>10, <1>0 DEF Types, WideBlock, Parked, WaiterAt, SignalerAt,
      OptimizerAt, WakerAt, ReleaseCountedLast, Goto
<1> QED
  BY <1>0, <1>1, <1>2, <1>3, <1>4, <1>5, <1>6, <1>7, <1>8, <1>9,
      <1>10 DEF Step, BeginAcquire, BeginRelease, InCall, InAcquire,
      InOptimize, InWake, InRelease


\* The steps that put nobody on the list and take nobody off it.
Steady(t) ==
    /\ Step(t)
    /\ ~ExclusiveFirstWaiter(t) /\ ~ExclusiveNextWaiter(t)
    /\ ~SharedFirstWaiter(t) /\ ~SharedNextWaiter(t)
    /\ ~WakeAll(t) /\ ~WakeUnlink(t)

\* A steady step leaves the pointer of the lock word to the newest block.
LEMMA HeadKept ==
    ASSUME NEW q, NEW b, IInv(q, b), NEW t \in Threads, Steady(t)
    PROVE  lock'.waiting = lock.waiting /\ lock'.ptr = lock.ptr
<1>w. Word(lock) /\ Step(t)
  BY DEF IInv, Words, Steady
<1>0. lock \in Wide /\ old[t] \in Wide /\ cur[t] \in Wide /\ lock' \in Wide /\ Types
  BY <1>w, LockTypes DEF IInv, Types
<1>s. /\ ~ExclusiveFirstWaiter(t) /\ ~ExclusiveNextWaiter(t)
      /\ ~SharedFirstWaiter(t) /\ ~SharedNextWaiter(t)
      /\ ~WakeAll(t) /\ ~WakeUnlink(t)
  BY DEF Steady
<1>1. ASSUME (\E c \in Calls : AcquireExclusiveSlow(t, c)) \/ ExclusiveRead(t)
          \/ ExclusiveRetry(t) \/ AcquireSharedSlow(t) \/ SharedRead(t)
          \/ SharedRetry(t) \/ InitGate(t) \/ TestWait(t) \/ GateWait(t)
          \/ OptimizeUnlocked(t) \/ OptimizeStart(t) \/ WalkOn(t, "optWalk")
          \/ WalkOn(t, "wakeWalk") \/ OptimizeFound(t) \/ OptimizeRetry(t)
          \/ WakeReload(t) \/ WakeStart(t) \/ WakeFound(t) \/ WakeAllRetry(t)
          \/ WakeUnlink(t) \/ SignalSpinner(t) \/ SignalWaiter(t) \/ SetGate(t)
          \/ ReleaseSharedSlow(t) \/ ReleaseEnter(t) \/ ReleaseFastFails(t)
          \/ ReleaseRead(t) \/ ReleaseReload(t) \/ ReleaseFindCount(t)
          \/ ReleaseNoCount(t) \/ ReleaseWalkOn(t) \/ ReleaseFound(t)
          \/ ReleaseCounted(t) \/ ReleaseCountedLast(t)
          \/ ReleaseUnlockFails(t) \/ TryWakeRead(t) \/ TryWakeNot(t)
          \/ ReleaseExclusiveSlow(t) \/ ReleaseExclusiveRead(t)
          \/ ReleaseExclusiveReload(t)
      PROVE  lock' = lock
  BY <1>1 DEF AcquireExclusiveSlow, Enter, Goto, locals, ExclusiveRead,
      ReadLock, ExclusiveRetry, FrameGone, AcquireSharedSlow, SharedRead,
      SharedRetry, InitGate, TestWait, Again, GateWait, OptimizeUnlocked,
      OptimizeStart, WalkOn, OptimizeFound, OptimizeRetry, WakeReload,
      WakeStart, WakeFound, WakeAllRetry, WakeUnlink, WakeOneOnly,
      SignalSpinner, SignalNext, SubroutineReturns, Return, Acquiring,
      SignalWaiter, SetGate, ReleaseSharedSlow, Holds, ReleaseEnter,
      ReleaseFastFails, ReleaseRead, ReleaseReload, ReleaseFindCount,
      ReleaseNoCount, ReleaseWalkOn, ReleaseFound, ReleaseCounted,
      ReleaseCountedLast, ReleaseUnlockFails, vars, TryWakeRead, TryWakeNot,
      ReleaseExclusiveSlow, ReleaseExclusiveRead, ReleaseExclusiveReload
<1>2. CASE AcquireExclusiveFast(t)
  BY <1>2, <1>0, <1>w DEF Word, Wide, AcquireExclusiveFast, Holds, locals
<1>3. CASE ExclusiveTake(t)
  BY <1>3, <1>0, <1>w DEF Word, Wide, ExclusiveTake, Exchange, Return, Goto,
      Holds, FrameGone, locals, Free, NewBlock
<1>4. CASE AcquireSharedFast(t)
  BY <1>4, <1>0, <1>w DEF Word, Wide, AcquireSharedFast, Exchange, Locked,
      Free, Holds, locals
<1>5. CASE OptimizeDone(t)
  BY <1>5, <1>0, <1>w DEF Word, Wide, OptimizeDone, Exchange,
      SubroutineReturns, Return, Goto, Acquiring, Free
<1>6. CASE WakeNotNow(t)
  BY <1>6, <1>0, <1>w DEF Word, Wide, WakeNotNow, Exchange, SubroutineReturns,
      Return, Goto, Acquiring, Free
<1>7. CASE WakeClear(t)
  BY <1>7, <1>0, <1>w DEF Word, Wide, WakeClear, Goto, Free
<1>8. CASE ReleaseSharedFast(t)
  BY <1>8, <1>0, <1>w DEF Word, Wide, ReleaseSharedFast, Exchange, Locked,
      Free, Holds, locals
<1>9. CASE ReleaseUnlock(t)
  BY <1>9, <1>0, <1>w DEF Word, Wide, ReleaseUnlock, Exchange, Return,
      Subroutine, Goto, Acquiring, Free
<1>10. CASE ReleaseExclusiveFast(t)
  BY <1>10, <1>0, <1>w DEF Word, Wide, ReleaseExclusiveFast, Holds, Enter,
      Goto, locals
<1>11. CASE TryWake(t)
  BY <1>11, <1>0, <1>w DEF Word, Wide, TryWake, Wakeable, Exchange, Subroutine,
      Goto, Acquiring, Free
<1>12. CASE ReleaseExclusiveWake(t)
  BY <1>12, <1>0, <1>w DEF Word, Wide, ReleaseExclusiveWake, Exchange,
      Subroutine, Goto, Acquiring, Free
<1>13. CASE ReleaseExclusiveSimple(t)
  BY <1>13, <1>0, <1>w DEF Word, Wide, ReleaseExclusiveSimple, Exchange,
      Return, Goto, Free
<1>14. CASE Convert(t)
  BY <1>14, <1>0, <1>w DEF Word, Wide, Convert, Exchange, Locked, Free, Holds,
      locals
<1>15. CASE SharedTake(t)
  <2>1. \/ lock.waiting /\ lock' = [lock EXCEPT !.locked = TRUE]
        \/ ~lock.waiting /\ ~lock'.waiting /\ lock'.ptr = NULL
    BY <1>15, <1>0, SharedTakeEffect
  <2> QED  BY <1>0, <1>w, <2>1 DEF Word, Wide
<1>16. CASE ReleaseNoWaiter(t, "relFast") \/ ReleaseNoWaiter(t, "relTry")
  <2>1. ~lock.waiting /\ ~lock'.waiting
    BY <1>16, <1>0, ReleaseNoWaiterEffect
  <2>2. Word(lock')
    BY <1>w, LockWord
  <2> QED  BY <1>0, <1>w, <2>1, <2>2 DEF Word, Wide
<1> QED
  BY <1>w, <1>s, <1>1, <1>2, <1>3, <1>4, <1>5, <1>6, <1>7, <1>8, <1>9, <1>10,
      <1>11, <1>12, <1>13, <1>14, <1>15, <1>16 DEF Step, BeginAcquire,
      BeginRelease, InCall, InAcquire, InOptimize, InWake, InRelease


\* A walk that is over has found the oldest block, and left links to it.
LEMMA WalkFound ==
    ASSUME NEW q, NEW b, IInv(q, b), NEW t \in Threads,
           pc[t] \in {"optWalk", "wakeWalk"}, blk[wb[t]].last # NULL
    PROVE  /\ blk[wb[t]].last = q[1]
           /\ \E j \in 1 .. Len(q) :
                 /\ q[j] = cur[t].ptr
                 /\ \A i \in j .. Len(q) : blk[q[i]].prev = NULL
                 /\ \A i \in j + 1 .. Len(q) : blk[q[i]].last = NULL
                 /\ \A i \in 1 .. j - 1 : blk[q[i]].prev = q[i + 1]
<1>0. q \in Seq(Threads) /\ Len(q) \in Nat
  BY DEF IInv, Shape
<1>1. OwnerView(t, q)
  BY DEF IInv, Owners, OwnerAt, OptimizerAt, WakerAt
<1>2. PICK j \in 1 .. Len(q) :
        /\ q[j] = cur[t].ptr
        /\ \A i \in j .. Len(q) : blk[q[i]].prev = NULL
        /\ \A i \in j + 1 .. Len(q) : blk[q[i]].last = NULL
        /\ \E m \in 1 .. j :
                  /\ wb[t] = q[m]
                  /\ \A i \in m .. j - 1 : blk[q[i]].prev = q[i + 1]
                  /\ \A i \in m + 1 .. j : blk[q[i]].last = NULL
  BY <1>1 DEF OwnerView
<1>3. PICK m \in 1 .. j :
                  /\ wb[t] = q[m]
                  /\ \A i \in m .. j - 1 : blk[q[i]].prev = q[i + 1]
                  /\ \A i \in m + 1 .. j : blk[q[i]].last = NULL
  BY <1>2
<1>4. PICK k \in 1 .. Len(q) :
            /\ blk[q[k]].last = q[1]
            /\ \A i \in k + 1 .. Len(q) : blk[q[i]].last = NULL
            /\ \A i \in 1 .. k - 1 : blk[q[i]].prev = q[i + 1]
  BY <1>0 DEF IInv, Known
<1>5. q[1] # NULL
  BY <1>0, NullAssumption
<1>6. k = m
  <2>1. m \in 1 .. Len(q) /\ blk[q[m]].last # NULL
    BY <1>0, <1>2, <1>3
  <2>2. ~(m > k)
    BY <1>0, <1>4, <2>1
  <2>3. ~(k > m /\ k <= j)
    BY <1>0, <1>3, <1>4, <1>5
  <2>4. ~(k > j)
    BY <1>0, <1>2, <1>4, <1>5
  <2> QED  BY <1>0, <2>1, <2>2, <2>3, <2>4
<1>7. \A i \in 1 .. j - 1 : blk[q[i]].prev = q[i + 1]
  <2> TAKE i \in 1 .. j - 1
  <2>1. CASE i < k
    BY <1>0, <1>4, <2>1
  <2>2. CASE i >= k
    BY <1>0, <1>3, <1>6, <2>2
  <2> QED  BY <1>0, <2>1, <2>2
<1> QED  BY <1>2, <1>3, <1>4, <1>6, <1>7

\* A steady step keeps the list a list.
LEMMA ShapeStep ==
    ASSUME NEW q, NEW b, IInv(q, b), NEW t \in Threads, Steady(t)
    PROVE  Shape(q)'
<1>0. Types /\ Types' /\ Shape(q) /\ Step(t)
  BY TypesStep DEF IInv, Steady
<1>1. lock'.waiting = lock.waiting /\ lock'.ptr = lock.ptr
  BY HeadKept
<1>2. q \in Seq(Threads) /\ Len(q) \in Nat /\ \A i, j \in 1 .. Len(q) : q[i] = q[j] => i = j
  BY <1>0 DEF Shape
<1>3. CASE WalkOn(t, "optWalk") \/ WalkOn(t, "wakeWalk")
  <2>1. pc[t] \in {"optWalk", "wakeWalk"} /\ blk[wb[t]].last = NULL
    BY <1>3 DEF WalkOn
  <2>2. PICK m \in 2 .. Len(q) : q[m] = wb[t] /\ q[m - 1] = blk[wb[t]].next
    BY <2>1, WalksOn
  <2>3. blk' = [blk EXCEPT ![q[m - 1]].prev = q[m]]
    BY <1>3, <2>2 DEF WalkOn
  <2>4. q[m - 1] \in Threads /\ q[m] \in Threads /\ m - 1 \in 1 .. Len(q) /\ m - 1 < Len(q)
    BY <1>2
  <2>5. \A u \in Threads : blk'[u].next = blk[u].next /\ (u # q[m - 1] => blk'[u].prev = blk[u].prev)
    BY <1>0, <2>3, <2>4 DEF Types, WideBlock
  <2>6. blk'[q[m - 1]].prev = q[m]
    BY <1>0, <2>3, <2>4 DEF Types, WideBlock
  <2>7. \A i \in 2 .. Len(q) : blk'[q[i]].next = q[i - 1]
    BY <1>0, <1>2, <2>5 DEF Shape
  <2>8. \A i \in 1 .. Len(q) - 1 : blk'[q[i]].prev \in {NULL, q[i + 1]}
    BY <1>0, <1>2, <2>4, <2>5, <2>6 DEF Shape
  <2>9. Len(q) > 0 => blk'[q[Len(q)]].prev = NULL
    BY <1>0, <1>2, <2>4, <2>5 DEF Shape
  <2> QED  BY <1>0, <1>1, <1>2, <2>7, <2>8, <2>9 DEF Shape
<1>4. CASE OptimizeFound(t)
  <2>1. blk' = [blk EXCEPT ![cur[t].ptr].last = blk[wb[t]].last]
    BY <1>4 DEF OptimizeFound
  <2>2. \A u \in Threads : blk'[u].next = blk[u].next /\ blk'[u].prev = blk[u].prev
    BY <1>0, <2>1 DEF Types, WideBlock
  <2> QED  BY <1>0, <1>1, <1>2, <2>2, ShapeKept
<1>5. CASE ~(WalkOn(t, "optWalk") \/ WalkOn(t, "wakeWalk") \/ OptimizeFound(t))
  <2>1. \A u \in Threads : u # t \/ Parked(t) => blk'[u].next = blk[u].next /\ blk'[u].prev = blk[u].prev
    BY <1>5, LinksKept DEF Steady
  <2>2. \A i \in 1 .. Len(q) : q[i] # t \/ Parked(t)
    BY NotListed
  <2>3. \A i \in 1 .. Len(q) : blk'[q[i]].next = blk[q[i]].next /\ blk'[q[i]].prev = blk[q[i]].prev
    BY <1>2, <2>1, <2>2
  <2> QED  BY <1>0, <1>1, <2>3, ShapeKept
<1> QED  BY <1>3, <1>4, <1>5

\* A steady step leaves a block whose Last is the oldest one.
LEMMA KnownStep ==
    ASSUME NEW q, NEW b, IInv(q, b), NEW t \in Threads, Steady(t)
    PROVE  Known(q)'
<1>0. Types /\ Types' /\ Shape(q) /\ Known(q) /\ Step(t)
  BY TypesStep DEF IInv, Steady
<1>2. q \in Seq(Threads) /\ Len(q) \in Nat /\ \A i, j \in 1 .. Len(q) : q[i] = q[j] => i = j
  BY <1>0 DEF Shape
<1>3. CASE WalkOn(t, "optWalk") \/ WalkOn(t, "wakeWalk")
  <2>1. pc[t] \in {"optWalk", "wakeWalk"} /\ blk[wb[t]].last = NULL
    BY <1>3 DEF WalkOn
  <2>2. PICK m \in 2 .. Len(q) : q[m] = wb[t] /\ q[m - 1] = blk[wb[t]].next
    BY <2>1, WalksOn
  <2>3. blk' = [blk EXCEPT ![q[m - 1]].prev = q[m]]
    BY <1>3, <2>2 DEF WalkOn
  <2>4. q[m - 1] \in Threads /\ q[m] \in Threads /\ m - 1 \in 1 .. Len(q) /\ m - 1 < Len(q)
    BY <1>2
  <2>5. \A u \in Threads : blk'[u].last = blk[u].last /\ (u # q[m - 1] => blk'[u].prev = blk[u].prev)
    BY <1>0, <2>3, <2>4 DEF Types, WideBlock
  <2>6. blk'[q[m - 1]].prev = q[m]
    BY <1>0, <2>3, <2>4 DEF Types, WideBlock
  <2>7. PICK k \in 1 .. Len(q) :
            /\ blk[q[k]].last = q[1]
            /\ \A i \in k + 1 .. Len(q) : blk[q[i]].last = NULL
            /\ \A i \in 1 .. k - 1 : blk[q[i]].prev = q[i + 1]
    BY <1>0, <1>2, <2>4 DEF Known
  <2>a. \A i \in 1 .. Len(q) : /\ blk'[q[i]].last = blk[q[i]].last
                                /\ blk'[q[i]].prev = IF i = m - 1 THEN q[i + 1] ELSE blk[q[i]].prev
    BY <1>2, <2>4, <2>5, <2>6
  <2>8. blk'[q[k]].last = q[1] /\ \A i \in k + 1 .. Len(q) : blk'[q[i]].last = NULL
    BY <1>2, <2>7, <2>a
  <2>9. \A i \in 1 .. k - 1 : blk'[q[i]].prev = q[i + 1]
    BY <1>2, <2>7, <2>a
  <2> QED  BY <2>8, <2>9 DEF Known
<1>4. CASE OptimizeFound(t)
  <2>1. pc[t] \in {"optWalk", "wakeWalk"} /\ blk[wb[t]].last # NULL
    BY <1>4 DEF OptimizeFound, Goto
  <2>2. /\ blk[wb[t]].last = q[1]
        /\ \E j \in 1 .. Len(q) :
                 /\ q[j] = cur[t].ptr
                 /\ \A i \in j + 1 .. Len(q) : blk[q[i]].last = NULL
                 /\ \A i \in 1 .. j - 1 : blk[q[i]].prev = q[i + 1]
    BY <2>1, WalkFound
  <2>3. PICK j \in 1 .. Len(q) :
                 /\ q[j] = cur[t].ptr
                 /\ \A i \in j + 1 .. Len(q) : blk[q[i]].last = NULL
                 /\ \A i \in 1 .. j - 1 : blk[q[i]].prev = q[i + 1]
    BY <2>2
  <2>4. blk' = [blk EXCEPT ![q[j]].last = q[1]] /\ q[j] \in Threads
    BY <1>2, <1>4, <2>2, <2>3 DEF OptimizeFound
  <2>5. /\ \A u \in Threads : blk'[u].prev = blk[u].prev /\ (u # q[j] => blk'[u].last = blk[u].last)
        /\ blk'[q[j]].last = q[1]
    BY <1>0, <2>4 DEF Types, WideBlock
  <2>6. \A i \in j + 1 .. Len(q) : blk'[q[i]].last = NULL
    BY <1>2, <2>3, <2>5
  <2>7. \A i \in 1 .. j - 1 : blk'[q[i]].prev = q[i + 1]
    BY <1>2, <2>3, <2>5
  <2> QED  BY <2>5, <2>6, <2>7 DEF Known
<1>5. CASE ~(WalkOn(t, "optWalk") \/ WalkOn(t, "wakeWalk") \/ OptimizeFound(t))
  <2>1. \A u \in Threads : u # t \/ Parked(t) => blk'[u].last = blk[u].last /\ blk'[u].prev = blk[u].prev
    BY <1>5, LinksKept DEF Steady
  <2>2. \A i \in 1 .. Len(q) : q[i] # t \/ Parked(t)
    BY NotListed
  <2>3. \A i \in 1 .. Len(q) : blk'[q[i]].last = blk[q[i]].last /\ blk'[q[i]].prev = blk[q[i]].prev
    BY <1>2, <2>1, <2>2
  <2> QED  BY <1>0, <1>2, <2>3, KnownKept
<1> QED  BY <1>3, <1>4, <1>5


-----------------------------------------------------------------------------
(* The owner of the waking bit. *)

\* What the owner of the waking bit has seen stays true while links stay.
LEMMA OwnerViewKept ==
    ASSUME NEW q, q \in Seq(Threads), NEW u \in Threads, OwnerView(u, q),
           pc'[u] = pc[u], cur'[u] = cur[u], wb'[u] = wb[u],
           \A i \in 1 .. Len(q) : /\ blk'[q[i]].last = blk[q[i]].last
                                  /\ blk'[q[i]].prev = blk[q[i]].prev
    PROVE  OwnerView(u, q)'
<1>0. Len(q) \in Nat
  OBVIOUS
<1>1. PICK j \in 1 .. Len(q) :
        /\ q[j] = cur[u].ptr
        /\ \A i \in j .. Len(q) : blk[q[i]].prev = NULL
        /\ \A i \in j + 1 .. Len(q) : blk[q[i]].last = NULL
        /\ pc[u] \in {"optWalk", "wakeWalk"} =>
              \E m \in 1 .. j :
                  /\ wb[u] = q[m]
                  /\ \A i \in m .. j - 1 : blk[q[i]].prev = q[i + 1]
                  /\ \A i \in m + 1 .. j : blk[q[i]].last = NULL
        /\ pc[u] = "optDone" => blk[q[j]].last # NULL
        /\ pc[u] = "wakeTake" =>
              /\ wb[u] = q[1]
              /\ \A i \in 1 .. j - 1 : blk[q[i]].prev = q[i + 1]
  BY DEF OwnerView
<1>2. /\ \A i \in j .. Len(q) : blk'[q[i]].prev = NULL
      /\ \A i \in j + 1 .. Len(q) : blk'[q[i]].last = NULL
  BY <1>0, <1>1
<1>3. ASSUME pc[u] \in {"optWalk", "wakeWalk"}
      PROVE  \E m \in 1 .. j :
                  /\ wb[u] = q[m]
                  /\ \A i \in m .. j - 1 : blk'[q[i]].prev = q[i + 1]
                  /\ \A i \in m + 1 .. j : blk'[q[i]].last = NULL
  <2>1. PICK m \in 1 .. j :
                  /\ wb[u] = q[m]
                  /\ \A i \in m .. j - 1 : blk[q[i]].prev = q[i + 1]
                  /\ \A i \in m + 1 .. j : blk[q[i]].last = NULL
    BY <1>1, <1>3
  <2>2. /\ \A i \in m .. j - 1 : blk'[q[i]].prev = q[i + 1]
        /\ \A i \in m + 1 .. j : blk'[q[i]].last = NULL
    <3>1. ASSUME NEW i \in m .. j - 1 PROVE blk'[q[i]].prev = q[i + 1]
      <4>1. i \in 1 .. Len(q)
        BY <1>0, <1>1, <2>1
      <4>2. blk[q[i]].prev = q[i + 1]
        BY <2>1
      <4> QED  BY <4>1, <4>2
    <3>2. ASSUME NEW i \in m + 1 .. j PROVE blk'[q[i]].last = NULL
      <4>1. i \in 1 .. Len(q)
        BY <1>0, <1>1, <2>1
      <4>2. blk[q[i]].last = NULL
        BY <2>1
      <4> QED  BY <4>1, <4>2
    <3> QED  BY <3>1, <3>2
  <2> QED  BY <2>1, <2>2
<1>4. pc[u] = "optDone" => blk'[q[j]].last # NULL
  BY <1>1
<1>5. pc[u] = "wakeTake" => \A i \in 1 .. j - 1 : blk'[q[i]].prev = q[i + 1]
  BY <1>0, <1>1
<1> QED  BY <1>1, <1>2, <1>3, <1>4, <1>5 DEF OwnerView

\* A thread that has just read the lock word is at the newest block.
LEMMA NewView ==
    ASSUME NEW q, NEW t \in Threads, Shape(q)', lock'.waiting,
           cur'[t].ptr = lock'.ptr, pc'[t] \in {"optimize", "wake"}
    PROVE  OwnerView(t, q)'
<1>1. q \in Seq(Threads) /\ Len(q) > 0 /\ q[Len(q)] = cur'[t].ptr /\ blk'[q[Len(q)]].prev = NULL
  BY DEF Shape
<1>2. /\ Len(q) \in 1 .. Len(q)
      /\ \A i \in Len(q) .. Len(q) : blk'[q[i]].prev = NULL
      /\ \A i \in Len(q) + 1 .. Len(q) : blk'[q[i]].last = NULL
  BY <1>1
<1>3. pc'[t] \notin {"optWalk", "wakeWalk", "optDone", "wakeTake"}
  OBVIOUS
<1> QED  BY <1>1, <1>2, <1>3 DEF OwnerView

\* A walk starts at the block the lock word had.
LEMMA StartView ==
    ASSUME NEW q, q \in Seq(Threads), NEW t \in Threads, OwnerView(t, q),
           cur' = cur, blk' = blk, wb'[t] = cur[t].ptr, pc'[t] \in {"optWalk", "wakeWalk"}
    PROVE  OwnerView(t, q)'
<1>0. Len(q) \in Nat
  OBVIOUS
<1>1. PICK j \in 1 .. Len(q) :
        /\ q[j] = cur[t].ptr
        /\ \A i \in j .. Len(q) : blk[q[i]].prev = NULL
        /\ \A i \in j + 1 .. Len(q) : blk[q[i]].last = NULL
  BY DEF OwnerView
<1>2. \E m \in 1 .. j :
          /\ wb'[t] = q[m]
          /\ \A i \in m .. j - 1 : blk'[q[i]].prev = q[i + 1]
          /\ \A i \in m + 1 .. j : blk'[q[i]].last = NULL
  <2>1. j \in 1 .. j
    BY <1>0
  <2>2. /\ \A i \in j .. j - 1 : blk'[q[i]].prev = q[i + 1]
        /\ \A i \in j + 1 .. j : blk'[q[i]].last = NULL
    BY <1>0
  <2> QED  BY <1>1, <2>1, <2>2
<1> QED  BY <1>1, <1>2 DEF OwnerView

\* A steady step keeps what the owner of the waking bit has seen.
LEMMA OwnersStep ==
    ASSUME NEW q, NEW b, IInv(q, b), NEW t \in Threads, Steady(t)
    PROVE  Owners(q)'
<1>0. Types /\ Types' /\ Shape(q) /\ Shape(q)' /\ Step(t) /\ Waking /\ Words /\ Owners(q) /\ Control(t)
  BY TypesStep, ShapeStep DEF IInv, Steady, Controls
<1>e. lock'.waiting = lock.waiting /\ lock'.ptr = lock.ptr
  BY HeadKept
<1>z. q \in Seq(Threads) /\ Len(q) \in Nat /\ \A i, j \in 1 .. Len(q) : q[i] = q[j] => i = j
  BY <1>0 DEF Shape
<1>v. lock \in Wide /\ old[t] \in Wide /\ cur[t] \in Wide /\ Word(lock) /\ Word(old[t])
  BY <1>0 DEF Types, Words
<1>o. pc[t] \in OwnerAt => lock.waking /\ lock.waiting
  BY <1>0, <1>v DEF Waking, Word
<1>l. ASSUME ~(WalkOn(t, "optWalk") \/ WalkOn(t, "wakeWalk") \/ OptimizeFound(t)), NEW i \in 1 .. Len(q)
      PROVE  blk'[q[i]].last = blk[q[i]].last /\ blk'[q[i]].prev = blk[q[i]].prev
  <2>1. \A u \in Threads : u # t \/ Parked(t) => blk'[u].last = blk[u].last /\ blk'[u].prev = blk[u].prev
    BY <1>l, LinksKept DEF Steady
  <2>2. q[i] # t \/ Parked(t)
    BY NotListed
  <2> QED  BY <1>z, <2>1, <2>2
<1>u. ASSUME NEW u \in Threads, u # t
      PROVE  /\ pc'[u] \in OwnerAt \ {"wakeClear"} => OwnerView(u, q)'
             /\ pc'[u] = "wakeClear" => \E j \in 1 .. Len(q) : q[j] = cur'[u].ptr
  <2>1. pc'[u] = pc[u] /\ cur'[u] = cur[u] /\ wb'[u] = wb[u]
    BY <1>0, <1>u, OthersKeep
  <2>2. ASSUME pc[u] \in OwnerAt \ {"wakeClear"}
        PROVE  OwnerView(u, q)'
    <3>1. pc[t] \notin OwnerAt
      BY <1>0, <1>u, <2>2 DEF Waking
    <3>2. ~(WalkOn(t, "optWalk") \/ WalkOn(t, "wakeWalk") \/ OptimizeFound(t))
      BY <3>1 DEF WalkOn, OptimizeFound, Goto, OwnerAt, OptimizerAt, WakerAt
    <3>3. OwnerView(u, q)
      BY <1>0, <2>2 DEF Owners
    <3>4. \A i \in 1 .. Len(q) : /\ blk'[q[i]].last = blk[q[i]].last
                                 /\ blk'[q[i]].prev = blk[q[i]].prev
      BY <1>l, <3>2
    <3> QED  BY <1>z, <2>1, <3>3, <3>4, OwnerViewKept
  <2>3. pc[u] = "wakeClear" => \E j \in 1 .. Len(q) : q[j] = cur[u].ptr
    BY <1>0 DEF Owners
  <2> QED  BY <2>1, <2>2, <2>3
<1>n. ASSUME cur'[t].ptr = lock'.ptr, lock'.waiting, pc'[t] \in {"optimize", "wake"}
      PROVE  OwnerView(t, q)'
  BY <1>n, <1>0, NewView
<1> DEFINE Good == /\ pc'[t] \in OwnerAt \ {"wakeClear"} => OwnerView(t, q)'
                   /\ pc'[t] # "wakeClear"
<1> HIDE DEF Good
<1>g. pc'[t] \notin OwnerAt => Good
  BY DEF Good, OwnerAt, OptimizerAt, WakerAt
<1>h. OwnerView(t, q)' /\ pc'[t] # "wakeClear" => Good
  BY DEF Good
<1>1. ASSUME AcquireExclusiveFast(t)
      PROVE  Good
  BY <1>1, <1>0, <1>g DEF Types, OwnerAt, OptimizerAt, WakerAt, Control,
      AcquireExclusiveFast, Holds, locals
<1>2. ASSUME \E c \in Calls : AcquireExclusiveSlow(t, c)
      PROVE  Good
  BY <1>2, <1>0, <1>g DEF Types, OwnerAt, OptimizerAt, WakerAt, Control,
      AcquireExclusiveSlow, Enter, Goto, locals
<1>3. ASSUME ExclusiveRead(t)
      PROVE  Good
  BY <1>3, <1>0, <1>g DEF Types, OwnerAt, OptimizerAt, WakerAt, Control,
      ExclusiveRead, ReadLock, Goto
<1>4. ASSUME ExclusiveTake(t)
      PROVE  Good
  BY <1>4, <1>0, <1>g DEF Types, OwnerAt, OptimizerAt, WakerAt, Control,
      ExclusiveTake, Return, Goto, Holds, locals
<1>5. ASSUME ExclusiveRetry(t)
      PROVE  Good
  BY <1>5, <1>0, <1>g DEF Types, OwnerAt, OptimizerAt, WakerAt, Control,
      ExclusiveRetry, Goto
<1>6. ASSUME AcquireSharedFast(t)
      PROVE  Good
  BY <1>6, <1>0, <1>g DEF Types, OwnerAt, OptimizerAt, WakerAt, Control,
      AcquireSharedFast, Holds, locals
<1>7. ASSUME AcquireSharedSlow(t)
      PROVE  Good
  BY <1>7, <1>0, <1>g DEF Types, OwnerAt, OptimizerAt, WakerAt, Control,
      AcquireSharedSlow, Enter, Goto, locals
<1>8. ASSUME SharedRead(t)
      PROVE  Good
  BY <1>8, <1>0, <1>g DEF Types, OwnerAt, OptimizerAt, WakerAt, Control,
      SharedRead, ReadLock, Goto
<1>9. ASSUME SharedRetry(t)
      PROVE  Good
  BY <1>9, <1>0, <1>g DEF Types, OwnerAt, OptimizerAt, WakerAt, Control,
      SharedRetry, Goto
<1>10. ASSUME InitGate(t)
      PROVE  Good
  BY <1>10, <1>0, <1>g DEF Types, OwnerAt, OptimizerAt, WakerAt, Control,
      InitGate, Goto, locals
<1>11. ASSUME TestWait(t)
      PROVE  Good
  BY <1>11, <1>0, <1>g DEF Types, OwnerAt, OptimizerAt, WakerAt, Control,
      TestWait, Goto, Again, locals
<1>12. ASSUME GateWait(t)
      PROVE  Good
  BY <1>12, <1>0, <1>g DEF Types, OwnerAt, OptimizerAt, WakerAt, Control,
      GateWait, Goto, Again, locals
<1>13. ASSUME WakeClear(t)
      PROVE  Good
  BY <1>13, <1>0, <1>g DEF Types, OwnerAt, OptimizerAt, WakerAt, Control,
      WakeClear, Goto
<1>14. ASSUME SignalWaiter(t)
      PROVE  Good
  BY <1>14, <1>0, <1>g DEF Types, OwnerAt, OptimizerAt, WakerAt, Control,
      SignalWaiter, Goto
<1>15. ASSUME ReleaseSharedFast(t)
      PROVE  Good
  BY <1>15, <1>0, <1>g DEF Types, OwnerAt, OptimizerAt, WakerAt, Control,
      ReleaseSharedFast, Holds, locals
<1>16. ASSUME ReleaseSharedSlow(t)
      PROVE  Good
  BY <1>16, <1>0, <1>g DEF Types, OwnerAt, OptimizerAt, WakerAt, Control,
      ReleaseSharedSlow, Enter, Goto, Holds, locals
<1>17. ASSUME ReleaseEnter(t)
      PROVE  Good
  BY <1>17, <1>0, <1>g DEF Types, OwnerAt, OptimizerAt, WakerAt, Control,
      ReleaseEnter, Enter, Goto, Holds
<1>18. ASSUME ReleaseFastFails(t)
      PROVE  Good
  BY <1>18, <1>0, <1>g DEF Types, OwnerAt, OptimizerAt, WakerAt, Control,
      ReleaseFastFails, Goto
<1>19. ASSUME ReleaseRead(t)
      PROVE  Good
  BY <1>19, <1>0, <1>g DEF Types, OwnerAt, OptimizerAt, WakerAt, Control,
      ReleaseRead, ReadLock, Goto
<1>20. ASSUME ReleaseReload(t)
      PROVE  Good
  BY <1>20, <1>0, <1>g DEF Types, OwnerAt, OptimizerAt, WakerAt, Control,
      ReleaseReload
<1>21. ASSUME ReleaseFindCount(t)
      PROVE  Good
  BY <1>21, <1>0, <1>g DEF Types, OwnerAt, OptimizerAt, WakerAt, Control,
      ReleaseFindCount, Goto
<1>22. ASSUME ReleaseNoCount(t)
      PROVE  Good
  BY <1>22, <1>0, <1>g DEF Types, OwnerAt, OptimizerAt, WakerAt, Control,
      ReleaseNoCount, Goto, locals
<1>23. ASSUME ReleaseWalkOn(t)
      PROVE  Good
  BY <1>23, <1>0, <1>g DEF Types, OwnerAt, OptimizerAt, WakerAt, Control,
      ReleaseWalkOn
<1>24. ASSUME ReleaseFound(t)
      PROVE  Good
  BY <1>24, <1>0, <1>g DEF Types, OwnerAt, OptimizerAt, WakerAt, Control,
      ReleaseFound, Goto
<1>25. ASSUME ReleaseCounted(t)
      PROVE  Good
  BY <1>25, <1>0, <1>g DEF Types, OwnerAt, OptimizerAt, WakerAt, Control,
      ReleaseCounted, Return, Goto
<1>26. ASSUME ReleaseCountedLast(t)
      PROVE  Good
  BY <1>26, <1>0, <1>g DEF Types, OwnerAt, OptimizerAt, WakerAt, Control,
      ReleaseCountedLast, Goto
<1>27. ASSUME ReleaseUnlockFails(t)
      PROVE  Good
  BY <1>27, <1>0, <1>g DEF Types, OwnerAt, OptimizerAt, WakerAt, Control,
      ReleaseUnlockFails, vars
<1>28. ASSUME ReleaseExclusiveFast(t)
      PROVE  Good
  BY <1>28, <1>0, <1>g DEF Types, OwnerAt, OptimizerAt, WakerAt, Control,
      ReleaseExclusiveFast, Holds, Enter, Goto, locals
<1>29. ASSUME TryWakeRead(t)
      PROVE  Good
  BY <1>29, <1>0, <1>g DEF Types, OwnerAt, OptimizerAt, WakerAt, Control,
      TryWakeRead, ReadLock, Goto
<1>30. ASSUME TryWakeNot(t)
      PROVE  Good
  BY <1>30, <1>0, <1>g DEF Types, OwnerAt, OptimizerAt, WakerAt, Control,
      TryWakeNot, Return, Goto
<1>31. ASSUME ReleaseExclusiveSlow(t)
      PROVE  Good
  BY <1>31, <1>0, <1>g DEF Types, OwnerAt, OptimizerAt, WakerAt, Control,
      ReleaseExclusiveSlow, Enter, Goto, locals
<1>32. ASSUME ReleaseExclusiveRead(t)
      PROVE  Good
  BY <1>32, <1>0, <1>g DEF Types, OwnerAt, OptimizerAt, WakerAt, Control,
      ReleaseExclusiveRead, Goto, Holds
<1>33. ASSUME ReleaseExclusiveSimple(t)
      PROVE  Good
  BY <1>33, <1>0, <1>g DEF Types, OwnerAt, OptimizerAt, WakerAt, Control,
      ReleaseExclusiveSimple, Return, Goto
<1>34. ASSUME ReleaseExclusiveReload(t)
      PROVE  Good
  BY <1>34, <1>0, <1>g DEF Types, OwnerAt, OptimizerAt, WakerAt, Control,
      ReleaseExclusiveReload
<1>35. ASSUME Convert(t)
      PROVE  Good
  BY <1>35, <1>0, <1>g DEF Types, OwnerAt, OptimizerAt, WakerAt, Control,
      Convert, Holds, locals
<1>36. ASSUME OptimizeDone(t)
      PROVE  Good
  BY <1>36, <1>0, <1>g, SubroutineReturnsEffect DEF Types, OptimizeDone, OwnerAt, OptimizerAt, WakerAt
<1>37. ASSUME WakeNotNow(t)
      PROVE  Good
  BY <1>37, <1>0, <1>g, SubroutineReturnsEffect DEF Types, WakeNotNow, OwnerAt, OptimizerAt, WakerAt
<1>38. ASSUME SignalSpinner(t)
      PROVE  Good
  BY <1>38, <1>0, <1>g, SubroutineReturnsEffect DEF Types, SignalSpinner, SignalNext, Goto, OwnerAt, OptimizerAt, WakerAt
<1>39. ASSUME SetGate(t)
      PROVE  Good
  BY <1>39, <1>0, <1>g, SubroutineReturnsEffect DEF Types, SetGate, SignalNext, Goto, OwnerAt, OptimizerAt, WakerAt
<1>40. ASSUME ReleaseNoWaiter(t, "relFast") \/ ReleaseNoWaiter(t, "relTry")
      PROVE  Good
  BY <1>40, <1>0, <1>g, ReleaseNoWaiterEffect DEF Types, OwnerAt, OptimizerAt, WakerAt
<1>41. ASSUME SharedTake(t)
      PROVE  Good
  BY <1>41, <1>0, <1>g, SharedTakeEffect DEF Types, OwnerAt, OptimizerAt, WakerAt
<1>42. ASSUME OptimizeUnlocked(t)
      PROVE  Good
  <2>1. /\ pc[t] = "optimize" /\ pc'[t] = "wake" /\ cur' = cur
        /\ blk' = blk
    BY <1>42, <1>0 DEF Types, OptimizeUnlocked, Goto, locals
  <2>2. OwnerView(t, q)
    BY <1>0, <2>1 DEF Owners, OwnerAt, OptimizerAt
  <2>3. OwnerView(t, q)'
    BY <2>1, <2>2 DEF OwnerView
  <2> QED  BY <1>h, <2>1, <2>3
<1>43. ASSUME OptimizeStart(t)
      PROVE  Good
  <2>1. pc[t] = "optimize" /\ pc'[t] = "optWalk" /\ cur' = cur /\ blk' = blk /\ wb'[t] = cur[t].ptr
    BY <1>43, <1>0 DEF Types, OptimizeStart, Goto
  <2>2. OwnerView(t, q)
    BY <1>0, <2>1 DEF Owners, OwnerAt, OptimizerAt
  <2>3. OwnerView(t, q)'
    BY <1>z, <2>1, <2>2, StartView
  <2> QED  BY <1>h, <2>1, <2>3
<1>44. ASSUME WakeStart(t)
      PROVE  Good
  <2>1. pc[t] = "wake" /\ pc'[t] = "wakeWalk" /\ cur' = cur /\ blk' = blk /\ wb'[t] = cur[t].ptr
    BY <1>44, <1>0 DEF Types, WakeStart, Goto
  <2>2. OwnerView(t, q)
    BY <1>0, <2>1 DEF Owners, OwnerAt, WakerAt
  <2>3. OwnerView(t, q)'
    BY <1>z, <2>1, <2>2, StartView
  <2> QED  BY <1>h, <2>1, <2>3
<1>45. ASSUME WalkOn(t, "optWalk") \/ WalkOn(t, "wakeWalk")
      PROVE  Good
  <2>1. /\ pc[t] \in {"optWalk", "wakeWalk"} /\ blk[wb[t]].last = NULL
        /\ pc' = pc /\ cur' = cur /\ wb'[t] = blk[wb[t]].next
        /\ blk' = [blk EXCEPT ![blk[wb[t]].next].prev = wb[t]]
    BY <1>45, <1>0 DEF Types, WalkOn
  <2>2. PICK j \in 1 .. Len(q), m \in 2 .. Len(q) :
              /\ m <= j
              /\ q[j] = cur[t].ptr /\ q[m] = wb[t] /\ q[m - 1] = blk[wb[t]].next
              /\ \A i \in j .. Len(q) : blk[q[i]].prev = NULL
              /\ \A i \in j + 1 .. Len(q) : blk[q[i]].last = NULL
              /\ \A i \in m .. j - 1 : blk[q[i]].prev = q[i + 1]
              /\ \A i \in m .. Len(q) : blk[q[i]].last = NULL
    BY <2>1, WalksOn
  <2>3. q[m - 1] \in Threads /\ q[m] \in Threads /\ m - 1 \in 1 .. j
    BY <1>z, <2>2
  <2>4. blk' = [blk EXCEPT ![q[m - 1]].prev = q[m]]
    BY <2>1, <2>2
  <2>5. \A i \in 1 .. Len(q) : /\ blk'[q[i]].last = blk[q[i]].last
                               /\ blk'[q[i]].prev = IF i = m - 1 THEN q[i + 1] ELSE blk[q[i]].prev
    <3>1. \A u \in Threads : /\ blk'[u].last = blk[u].last
                             /\ blk'[u].prev = IF u = q[m - 1] THEN q[m] ELSE blk[u].prev
      BY <1>0, <2>3, <2>4 DEF Types, WideBlock
    <3> QED  BY <1>z, <2>2, <2>3, <3>1
  <2>6. /\ \A i \in j .. Len(q) : blk'[q[i]].prev = NULL
        /\ \A i \in j + 1 .. Len(q) : blk'[q[i]].last = NULL
    <3>1. \A i \in j .. Len(q) : i \in 1 .. Len(q) /\ i # m - 1
      BY <1>z, <2>2
    <3>2. \A i \in j .. Len(q) : blk'[q[i]].prev = NULL
      BY <2>2, <2>5, <3>1
    <3>3. \A i \in j + 1 .. Len(q) : i \in 1 .. Len(q)
      BY <1>z, <2>2
    <3>4. \A i \in j + 1 .. Len(q) : blk'[q[i]].last = NULL
      BY <2>2, <2>5, <3>3
    <3> QED  BY <3>2, <3>4
  <2>7. \A i \in m - 1 .. j - 1 : blk'[q[i]].prev = q[i + 1]
    BY <1>z, <2>2, <2>5
  <2>8. \A i \in (m - 1) + 1 .. j : blk'[q[i]].last = NULL
    BY <1>z, <2>2, <2>5
  <2>9. pc'[t] \notin {"optDone", "wakeTake", "wakeClear"} /\ wb'[t] = q[m - 1] /\ q[j] = cur'[t].ptr
    BY <2>1, <2>2
  <2>a. OwnerView(t, q)'
    BY <2>3, <2>6, <2>7, <2>8, <2>9 DEF OwnerView
  <2> QED  BY <1>h, <2>9, <2>a
<1>46. ASSUME OptimizeFound(t)
      PROVE  Good
  <2>1. /\ pc[t] = "optWalk" /\ blk[wb[t]].last # NULL
        /\ pc'[t] = "optDone" /\ cur' = cur
        /\ blk' = [blk EXCEPT ![cur[t].ptr].last = blk[wb[t]].last]
    BY <1>46, <1>0 DEF Types, OptimizeFound, Goto, locals
  <2>2. blk[wb[t]].last = q[1] /\
        \E j \in 1 .. Len(q) :
           /\ q[j] = cur[t].ptr
           /\ \A i \in j .. Len(q) : blk[q[i]].prev = NULL
           /\ \A i \in j + 1 .. Len(q) : blk[q[i]].last = NULL
    BY <2>1, WalkFound
  <2>3. PICK j \in 1 .. Len(q) :
           /\ q[j] = cur[t].ptr
           /\ \A i \in j .. Len(q) : blk[q[i]].prev = NULL
           /\ \A i \in j + 1 .. Len(q) : blk[q[i]].last = NULL
    BY <2>2
  <2>4. \A i \in 1 .. Len(q) : /\ blk'[q[i]].prev = blk[q[i]].prev
                               /\ blk'[q[i]].last = IF i = j THEN q[1] ELSE blk[q[i]].last
    <3>1. \A u \in Threads : /\ blk'[u].prev = blk[u].prev
                             /\ blk'[u].last = IF u = q[j] THEN q[1] ELSE blk[u].last
      BY <1>0, <1>z, <2>1, <2>2, <2>3 DEF Types, WideBlock
    <3> QED  BY <1>z, <2>3, <3>1
  <2>5. /\ \A i \in j .. Len(q) : blk'[q[i]].prev = NULL
        /\ \A i \in j + 1 .. Len(q) : blk'[q[i]].last = NULL
    BY <1>z, <2>3, <2>4
  <2>6. blk'[q[j]].last # NULL
    BY <1>z, <2>3, <2>4, NullAssumption
  <2>7. OwnerView(t, q)'
    BY <2>1, <2>3, <2>5, <2>6 DEF OwnerView
  <2> QED  BY <1>h, <2>1, <2>7
<1>47. ASSUME WakeFound(t)
      PROVE  Good
  <2>1. /\ pc[t] = "wakeWalk" /\ blk[wb[t]].last # NULL
        /\ pc'[t] = "wakeTake" /\ cur' = cur /\ blk' = blk /\ wb'[t] = blk[wb[t]].last
    BY <1>47, <1>0 DEF Types, WakeFound, Goto
  <2>2. blk[wb[t]].last = q[1] /\
        \E j \in 1 .. Len(q) :
           /\ q[j] = cur[t].ptr
           /\ \A i \in j .. Len(q) : blk[q[i]].prev = NULL
           /\ \A i \in j + 1 .. Len(q) : blk[q[i]].last = NULL
           /\ \A i \in 1 .. j - 1 : blk[q[i]].prev = q[i + 1]
    BY <2>1, WalkFound
  <2>3. OwnerView(t, q)'
    BY <2>1, <2>2 DEF OwnerView
  <2> QED  BY <1>h, <2>1, <2>3
<1>48. ASSUME OptimizeRetry(t)
      PROVE  Good
  <2>1. pc[t] = "optDone" /\ pc'[t] = "optimize" /\ cur'[t] = lock
    BY <1>48, <1>0 DEF Types, OptimizeRetry, Goto
  <2> QED  BY <1>e, <1>n, <1>o, <1>h, <2>1 DEF OwnerAt, OptimizerAt
<1>49. ASSUME WakeReload(t)
      PROVE  Good
  <2>1. pc[t] = "wake" /\ pc'[t] = "wake" /\ cur'[t] = lock
    BY <1>49, <1>0 DEF Types, WakeReload
  <2> QED  BY <1>e, <1>n, <1>o, <1>h, <2>1 DEF OwnerAt, WakerAt
<1>50. ASSUME WakeAllRetry(t)
      PROVE  Good
  <2>1. pc[t] = "wakeTake" /\ pc'[t] = "wake" /\ cur'[t] = lock
    BY <1>50, <1>0 DEF Types, WakeAllRetry, Goto
  <2> QED  BY <1>e, <1>n, <1>o, <1>h, <2>1 DEF OwnerAt, WakerAt
<1>51. ASSUME ReleaseUnlock(t)
      PROVE  Good
  <2>1. /\ lock = old[t] /\ pc[t] = "relUnlock"
        /\ \/ pc'[t] = "idle"
           \/ pc'[t] = "wake" /\ cur'[t] = lock'
    BY <1>51, <1>0, ReleaseUnlockEffect DEF Types
  <2>2. lock.waiting
    BY <1>0, <2>1 DEF Control
  <2> QED  BY <1>e, <1>g, <1>n, <1>h, <2>1, <2>2 DEF OwnerAt, OptimizerAt, WakerAt
<1>52. ASSUME TryWake(t)
      PROVE  Good
  <2>1. lock.waiting /\ pc'[t] = "wake" /\ cur'[t] = lock'
    BY <1>52, <1>0 DEF Types, TryWake, Wakeable, Exchange, Subroutine, Goto
  <2> QED  BY <1>e, <1>n, <1>h, <2>1
<1>53. ASSUME ReleaseExclusiveWake(t)
      PROVE  Good
  <2>1. lock.waiting /\ pc'[t] = "wake" /\ cur'[t] = lock'
    BY <1>53, <1>0 DEF Types, ReleaseExclusiveWake, Exchange, Subroutine, Goto
  <2> QED  BY <1>e, <1>n, <1>h, <2>1
<1>s. /\ ~ExclusiveFirstWaiter(t) /\ ~ExclusiveNextWaiter(t)
      /\ ~SharedFirstWaiter(t) /\ ~SharedNextWaiter(t)
      /\ ~WakeAll(t) /\ ~WakeUnlink(t)
  BY DEF Steady
 <1>q. Good
  BY <1>0, <1>s, <1>1, <1>2, <1>3, <1>4, <1>5, <1>6, <1>7, <1>8, <1>9, <1>10,
      <1>11, <1>12, <1>13, <1>14, <1>15, <1>16, <1>17, <1>18, <1>19, <1>20,
      <1>21, <1>22, <1>23, <1>24, <1>25, <1>26, <1>27, <1>28, <1>29, <1>30,
      <1>31, <1>32, <1>33, <1>34, <1>35, <1>36, <1>37, <1>38, <1>39, <1>40,
      <1>41, <1>42, <1>43, <1>44, <1>45, <1>46, <1>47, <1>48, <1>49, <1>50,
      <1>51, <1>52, <1>53 DEF Step, BeginAcquire, BeginRelease, InCall,
      InAcquire, InOptimize, InWake, InRelease
<1> QED  BY <1>q, <1>u DEF Good, Owners


-----------------------------------------------------------------------------
(* The share count. *)

\* Sets of threads can be counted.
LEMMA ThreadSets ==
    ASSUME NEW S \in SUBSET Threads
    PROVE  /\ IsFiniteSet(S)
           /\ Cardinality(S) \in Nat
           /\ Cardinality(S) <= Cardinality(Threads)
           /\ Cardinality(Threads) \in Nat
<1>1. IsFiniteSet(S) /\ Cardinality(S) <= Cardinality(Threads)
  BY ThreadsFinite, FS_Subset
<1> QED  BY <1>1, ThreadsFinite, FS_CardinalityType

\* Only the release that unlocks takes the multiple-shared bit away.
LEMMA MultiKept ==
    ASSUME NEW q, NEW b, IInv(q, b), NEW t \in Threads, Steady(t), ~ReleaseUnlock(t)
    PROVE  lock'.multi = lock.multi
<1>w. Word(lock) /\ Step(t)
  BY DEF IInv, Words, Steady
<1>0. lock \in Wide /\ old[t] \in Wide /\ cur[t] \in Wide /\ lock' \in Wide /\ Types
  BY <1>w, LockTypes DEF IInv, Types
<1>s. /\ ~ExclusiveFirstWaiter(t) /\ ~ExclusiveNextWaiter(t)
      /\ ~SharedFirstWaiter(t) /\ ~SharedNextWaiter(t)
      /\ ~WakeAll(t) /\ ~WakeUnlink(t)
  BY DEF Steady
<1>1. ASSUME (\E c \in Calls : AcquireExclusiveSlow(t, c)) \/ ExclusiveRead(t)
          \/ ExclusiveRetry(t) \/ AcquireSharedSlow(t) \/ SharedRead(t)
          \/ SharedRetry(t) \/ InitGate(t) \/ TestWait(t) \/ GateWait(t)
          \/ OptimizeUnlocked(t) \/ OptimizeStart(t) \/ WalkOn(t, "optWalk")
          \/ WalkOn(t, "wakeWalk") \/ OptimizeFound(t) \/ OptimizeRetry(t)
          \/ WakeReload(t) \/ WakeStart(t) \/ WakeFound(t) \/ WakeAllRetry(t)
          \/ WakeUnlink(t) \/ SignalSpinner(t) \/ SignalWaiter(t) \/ SetGate(t)
          \/ ReleaseSharedSlow(t) \/ ReleaseEnter(t) \/ ReleaseFastFails(t)
          \/ ReleaseRead(t) \/ ReleaseReload(t) \/ ReleaseFindCount(t)
          \/ ReleaseNoCount(t) \/ ReleaseWalkOn(t) \/ ReleaseFound(t)
          \/ ReleaseCounted(t) \/ ReleaseCountedLast(t)
          \/ ReleaseUnlockFails(t) \/ TryWakeRead(t) \/ TryWakeNot(t)
          \/ ReleaseExclusiveSlow(t) \/ ReleaseExclusiveRead(t)
          \/ ReleaseExclusiveReload(t)
      PROVE  lock' = lock
  BY <1>1 DEF AcquireExclusiveSlow, Enter, Goto, locals, ExclusiveRead,
      ReadLock, ExclusiveRetry, FrameGone, AcquireSharedSlow, SharedRead,
      SharedRetry, InitGate, TestWait, Again, GateWait, OptimizeUnlocked,
      OptimizeStart, WalkOn, OptimizeFound, OptimizeRetry, WakeReload,
      WakeStart, WakeFound, WakeAllRetry, WakeUnlink, WakeOneOnly,
      SignalSpinner, SignalNext, SubroutineReturns, Return, Acquiring,
      SignalWaiter, SetGate, ReleaseSharedSlow, Holds, ReleaseEnter,
      ReleaseFastFails, ReleaseRead, ReleaseReload, ReleaseFindCount,
      ReleaseNoCount, ReleaseWalkOn, ReleaseFound, ReleaseCounted,
      ReleaseCountedLast, ReleaseUnlockFails, vars, TryWakeRead, TryWakeNot,
      ReleaseExclusiveSlow, ReleaseExclusiveRead, ReleaseExclusiveReload
<1>2. CASE AcquireExclusiveFast(t)
  BY <1>2, <1>0, <1>w DEF Word, Wide, AcquireExclusiveFast, Holds, locals
<1>3. CASE ExclusiveTake(t)
  BY <1>3, <1>0, <1>w DEF Word, Wide, ExclusiveTake, Exchange, Return, Goto,
      Holds, FrameGone, locals, Free, NewBlock
<1>4. CASE AcquireSharedFast(t)
  BY <1>4, <1>0, <1>w DEF Word, Wide, AcquireSharedFast, Exchange, Locked,
      Free, Holds, locals
<1>5. CASE OptimizeDone(t)
  BY <1>5, <1>0, <1>w DEF Word, Wide, OptimizeDone, Exchange,
      SubroutineReturns, Return, Goto, Acquiring, Free
<1>6. CASE WakeNotNow(t)
  BY <1>6, <1>0, <1>w DEF Word, Wide, WakeNotNow, Exchange, SubroutineReturns,
      Return, Goto, Acquiring, Free
<1>7. CASE WakeClear(t)
  BY <1>7, <1>0, <1>w DEF Word, Wide, WakeClear, Goto, Free
<1>8. CASE ReleaseSharedFast(t)
  BY <1>8, <1>0, <1>w DEF Word, Wide, ReleaseSharedFast, Exchange, Locked,
      Free, Holds, locals
<1>9. CASE ReleaseExclusiveFast(t)
  BY <1>9, <1>0, <1>w DEF Word, Wide, ReleaseExclusiveFast, Holds, Enter, Goto,
      locals
<1>10. CASE TryWake(t)
  BY <1>10, <1>0, <1>w DEF Word, Wide, TryWake, Wakeable, Exchange, Subroutine,
      Goto, Acquiring, Free
<1>11. CASE ReleaseExclusiveWake(t)
  BY <1>11, <1>0, <1>w DEF Word, Wide, ReleaseExclusiveWake, Exchange,
      Subroutine, Goto, Acquiring, Free
<1>12. CASE ReleaseExclusiveSimple(t)
  BY <1>12, <1>0, <1>w DEF Word, Wide, ReleaseExclusiveSimple, Exchange,
      Return, Goto, Free
<1>13. CASE Convert(t)
  BY <1>13, <1>0, <1>w DEF Word, Wide, Convert, Exchange, Locked, Free, Holds,
      locals
<1>14. CASE SharedTake(t)
  <2>1. \/ lock.waiting /\ lock' = [lock EXCEPT !.locked = TRUE]
        \/ ~lock.waiting /\ ~lock'.multi
    BY <1>14, <1>0, SharedTakeEffect
  <2> QED  BY <1>0, <1>w, <2>1 DEF Word, Wide
<1>15. CASE ReleaseNoWaiter(t, "relFast") \/ ReleaseNoWaiter(t, "relTry")
  <2>1. ~lock.waiting /\ ~lock'.multi
    BY <1>15, <1>0, ReleaseNoWaiterEffect
  <2> QED  BY <1>0, <1>w, <2>1 DEF Word, Wide
<1> QED
  BY <1>w, <1>s, <1>1, <1>2, <1>3, <1>4, <1>5, <1>6, <1>7, <1>8, <1>9, <1>10,
      <1>11, <1>12, <1>13, <1>14, <1>15 DEF Step, BeginAcquire, BeginRelease,
      InCall, InAcquire, InOptimize, InWake, InRelease

\* The rest of a wait block changes with its share count, or when it is gone.
LEMMA CountsKept ==
    ASSUME NEW q, NEW b, IInv(q, b), NEW t \in Threads, Steady(t),
           ~ReleaseCounted(t), ~ReleaseCountedLast(t)
    PROVE  \A u \in Threads :
              /\ blk'[u].shareCount \in {blk[u].shareCount, 0}
              /\ u # t \/ Parked(t) => /\ blk'[u].shareCount = blk[u].shareCount
                                       /\ blk'[u].exclusive = blk[u].exclusive
<1>0. Types /\ Step(t)
  BY DEF IInv, Steady
<1>s. /\ ~ExclusiveFirstWaiter(t) /\ ~ExclusiveNextWaiter(t)
      /\ ~SharedFirstWaiter(t) /\ ~SharedNextWaiter(t)
      /\ ~WakeAll(t) /\ ~WakeUnlink(t)
  BY DEF Steady
<1>1. ASSUME AcquireExclusiveFast(t)
          \/ (\E c \in Calls : AcquireExclusiveSlow(t, c)) \/ ExclusiveRead(t)
          \/ AcquireSharedFast(t) \/ AcquireSharedSlow(t) \/ SharedRead(t)
          \/ InitGate(t) \/ GateWait(t) \/ OptimizeUnlocked(t)
          \/ OptimizeStart(t) \/ OptimizeDone(t) \/ OptimizeRetry(t)
          \/ WakeNotNow(t) \/ WakeReload(t) \/ WakeStart(t) \/ WakeFound(t)
          \/ WakeAll(t) \/ WakeAllRetry(t) \/ WakeClear(t) \/ SetGate(t)
          \/ ReleaseSharedFast(t) \/ ReleaseSharedSlow(t) \/ ReleaseEnter(t)
          \/ ReleaseNoWaiter(t, "relFast") \/ ReleaseNoWaiter(t, "relTry")
          \/ ReleaseFastFails(t) \/ ReleaseRead(t) \/ ReleaseReload(t)
          \/ ReleaseFindCount(t) \/ ReleaseNoCount(t) \/ ReleaseWalkOn(t)
          \/ ReleaseFound(t) \/ ReleaseUnlock(t) \/ ReleaseUnlockFails(t)
          \/ ReleaseExclusiveFast(t) \/ TryWakeRead(t) \/ TryWake(t)
          \/ TryWakeNot(t) \/ ReleaseExclusiveSlow(t)
          \/ ReleaseExclusiveRead(t) \/ ReleaseExclusiveWake(t)
          \/ ReleaseExclusiveSimple(t) \/ ReleaseExclusiveReload(t)
          \/ Convert(t)
      PROVE  blk' = blk
  BY <1>1 DEF AcquireExclusiveFast, Holds, locals, AcquireExclusiveSlow, Enter,
      Goto, ExclusiveRead, ReadLock, AcquireSharedFast, Exchange, Locked,
      AcquireSharedSlow, SharedRead, InitGate, GateWait, Again,
      OptimizeUnlocked, OptimizeStart, OptimizeDone, SubroutineReturns, Return,
      Acquiring, OptimizeRetry, WakeNotNow, WakeReload, WakeStart, WakeFound,
      WakeAll, WakeAllRetry, WakeClear, SetGate, SignalNext, ReleaseSharedFast,
      ReleaseSharedSlow, ReleaseEnter, ReleaseNoWaiter, Dropped,
      ReleaseFastFails, ReleaseRead, ReleaseReload, ReleaseFindCount,
      ReleaseNoCount, ReleaseWalkOn, ReleaseFound, ReleaseUnlock, Subroutine,
      ReleaseUnlockFails, vars, ReleaseExclusiveFast, TryWakeRead, TryWake,
      Wakeable, TryWakeNot, ReleaseExclusiveSlow, ReleaseExclusiveRead,
      ReleaseExclusiveWake, ReleaseExclusiveSimple, ReleaseExclusiveReload,
      Convert
<1>2. CASE ExclusiveTake(t)
  BY <1>2, <1>0 DEF Types, WideBlock, Parked, WaiterAt, SignalerAt,
      OptimizerAt, WakerAt, ExclusiveTake, Exchange, Return, Goto, Holds,
      FrameGone, locals, Free, NewBlock
<1>3. CASE ExclusiveRetry(t)
  BY <1>3, <1>0 DEF Types, WideBlock, Parked, WaiterAt, SignalerAt,
      OptimizerAt, WakerAt, ExclusiveRetry, Goto, FrameGone, Free, NewBlock
<1>4. CASE SharedTake(t)
  BY <1>4, <1>0 DEF Types, WideBlock, Parked, WaiterAt, SignalerAt,
      OptimizerAt, WakerAt, SharedTake, MayShare, Exchange, Locked, Free,
      Return, Goto, Holds, FrameGone, NewBlock
<1>5. CASE SharedRetry(t)
  BY <1>5, <1>0 DEF Types, WideBlock, Parked, WaiterAt, SignalerAt,
      OptimizerAt, WakerAt, SharedRetry, Goto, FrameGone, Free, NewBlock
<1>6. CASE TestWait(t)
  BY <1>6, <1>0 DEF Types, WideBlock, Parked, WaiterAt, SignalerAt,
      OptimizerAt, WakerAt, TestWait, Goto, Again, locals
<1>7. CASE WalkOn(t, "optWalk") \/ WalkOn(t, "wakeWalk")
  BY <1>7, <1>0 DEF Types, WideBlock, Parked, WaiterAt, SignalerAt,
      OptimizerAt, WakerAt, WalkOn
<1>8. CASE OptimizeFound(t)
  BY <1>8, <1>0 DEF Types, WideBlock, Parked, WaiterAt, SignalerAt,
      OptimizerAt, WakerAt, OptimizeFound, Goto, locals
<1>9. CASE SignalSpinner(t)
  BY <1>9, <1>0 DEF Types, WideBlock, Parked, WaiterAt, SignalerAt,
      OptimizerAt, WakerAt, SignalSpinner, SignalNext, SubroutineReturns,
      Return, Goto, Acquiring, Free
<1>10. CASE SignalWaiter(t)
  BY <1>10, <1>0 DEF Types, WideBlock, Parked, WaiterAt, SignalerAt,
      OptimizerAt, WakerAt, SignalWaiter, Goto
<1> QED
  BY <1>0, <1>s, <1>1, <1>2, <1>3, <1>4, <1>5, <1>6, <1>7, <1>8, <1>9,
      <1>10 DEF Step, BeginAcquire, BeginRelease, InCall, InAcquire,
      InOptimize, InWake, InRelease

\* A count of one thread's step is a count of the oldest block.
LEMMA CountedBlock ==
    ASSUME NEW q, NEW b, IInv(q, b), NEW t \in Threads,
           ReleaseCounted(t) \/ ReleaseCountedLast(t)
    PROVE  /\ lock.multi /\ lock.waiting /\ pc[t] = "relCount"
           /\ wb[t] = q[1] /\ q[1] \in Threads /\ Len(q) > 0
           /\ blk[q[1]].shareCount \in Nat \ {0}
           /\ \A u \in Threads :
                 /\ u # q[1] => blk'[u] = blk[u]
                 /\ blk'[u].exclusive = blk[u].exclusive
                 /\ blk'[u].last = blk[u].last
                 /\ blk'[u].wait = blk[u].wait
                 /\ blk'[u].signaled = blk[u].signaled
           /\ blk'[q[1]].shareCount = blk[q[1]].shareCount - 1
           /\ lock' = lock
           /\ ReleaseCounted(t) <=> blk[q[1]].shareCount > 1
           /\ pc'[t] = IF blk[q[1]].shareCount > 1 THEN "idle" ELSE "relUnlock"
<1>0. Types /\ Several(q) /\ Control(t) /\ q \in Seq(Threads)
  BY DEF IInv, Controls, Shape
<1>1. pc[t] = "relCount" /\ wb[t] \in Threads /\ lock' = lock
  BY <1>0, Walkers DEF ReleaseCounted, ReleaseCountedLast, Return, Goto, WalkerAt
<1>2. old[t].waiting /\ old[t].multi
  BY <1>0, <1>1 DEF Control
<1>3. lock.waiting /\ lock.multi /\ wb[t] = q[1]
  BY <1>0, <1>1, <1>2 DEF Several
<1>4. Len(q) > 0
  BY <1>1, Walkers
<1>5. blk[wb[t]].shareCount \in Nat
  BY <1>0, <1>1 DEF Types, WideBlock
<1>6. CASE ReleaseCounted(t)
  <2>1. blk' = [blk EXCEPT ![wb[t]].shareCount = blk[wb[t]].shareCount - 1] /\ blk[wb[t]].shareCount > 1 /\ pc'[t] = "idle"
    BY <1>6, <1>0, <1>1 DEF ReleaseCounted, Types, WideBlock, Return, Goto
  <2>2. blk[wb[t]].shareCount # 0
    BY <1>5, <2>1
  <2> QED  BY <1>0, <1>1, <1>3, <1>4, <1>5, <1>6, <2>1, <2>2 DEF Types, WideBlock
<1>7. CASE ReleaseCountedLast(t)
  <2>1. blk' = [blk EXCEPT ![wb[t]].shareCount = 0] /\ blk[wb[t]].shareCount = 1 /\ pc'[t] = "relUnlock"
    BY <1>7, <1>0, <1>1 DEF ReleaseCountedLast, Types, WideBlock, Goto
  <2>2. ~ReleaseCounted(t)
    BY <2>1 DEF ReleaseCounted
  <2> QED  BY <1>0, <1>1, <1>3, <1>4, <1>5, <2>1, <2>2 DEF Types, WideBlock
<1> QED  BY <1>6, <1>7

\* The steps that lead into the release of a lock with waiters.
LEMMA ReleaseMoves ==
    ASSUME NEW q, NEW b, IInv(q, b), NEW t \in Threads, Step(t),
           pc'[t] \in {"relTry", "relWalk", "relCount", "relUnlock"}
    PROVE  \/ ReleaseRead(t) \/ ReleaseReload(t) \/ ReleaseFindCount(t)
           \/ ReleaseNoCount(t) \/ ReleaseWalkOn(t) \/ ReleaseFound(t)
           \/ ReleaseCountedLast(t) \/ ReleaseUnlockFails(t)
<1>0. Types
  BY DEF IInv
<1> DEFINE Out == pc'[t] \notin {"relTry", "relWalk", "relCount", "relUnlock"}
<1>1. ASSUME AcquireExclusiveFast(t)
      PROVE  Out
  BY <1>1, <1>0 DEF Types, AcquireExclusiveFast, Holds, locals
<1>2. ASSUME \E c \in Calls : AcquireExclusiveSlow(t, c)
      PROVE  Out
  BY <1>2, <1>0 DEF Types, AcquireExclusiveSlow, Enter, Goto, locals
<1>3. ASSUME ExclusiveRead(t)
      PROVE  Out
  BY <1>3, <1>0 DEF Types, ExclusiveRead, ReadLock, Goto
<1>4. ASSUME ExclusiveTake(t)
      PROVE  Out
  BY <1>4, <1>0 DEF Types, ExclusiveTake, Return, Goto, Holds, locals
<1>5. ASSUME ExclusiveRetry(t)
      PROVE  Out
  BY <1>5, <1>0 DEF Types, ExclusiveRetry, Goto
<1>6. ASSUME ExclusiveFirstWaiter(t)
      PROVE  Out
  BY <1>6, <1>0 DEF Types, ExclusiveFirstWaiter, Goto, locals
<1>7. ASSUME ExclusiveNextWaiter(t)
      PROVE  Out
  BY <1>7, <1>0 DEF Types, ExclusiveNextWaiter, Goto, Subroutine, Acquiring,
      locals
<1>8. ASSUME AcquireSharedFast(t)
      PROVE  Out
  BY <1>8, <1>0 DEF Types, AcquireSharedFast, Holds, locals
<1>9. ASSUME AcquireSharedSlow(t)
      PROVE  Out
  BY <1>9, <1>0 DEF Types, AcquireSharedSlow, Enter, Goto, locals
<1>10. ASSUME SharedRead(t)
      PROVE  Out
  BY <1>10, <1>0 DEF Types, SharedRead, ReadLock, Goto
<1>11. ASSUME SharedTake(t)
      PROVE  Out
  BY <1>11, <1>0 DEF Types, SharedTake, Return, Goto, Holds
<1>12. ASSUME SharedRetry(t)
      PROVE  Out
  BY <1>12, <1>0 DEF Types, SharedRetry, Goto
<1>13. ASSUME SharedFirstWaiter(t)
      PROVE  Out
  BY <1>13, <1>0 DEF Types, SharedFirstWaiter, Goto, locals
<1>14. ASSUME SharedNextWaiter(t)
      PROVE  Out
  BY <1>14, <1>0 DEF Types, SharedNextWaiter, Goto, Subroutine, Acquiring,
      locals
<1>15. ASSUME InitGate(t)
      PROVE  Out
  BY <1>15, <1>0 DEF Types, InitGate, Goto, locals
<1>16. ASSUME TestWait(t)
      PROVE  Out
  BY <1>16, <1>0 DEF Types, TestWait, Goto, Again, locals
<1>17. ASSUME GateWait(t)
      PROVE  Out
  BY <1>17, <1>0 DEF Types, GateWait, Goto, Again, locals
<1>18. ASSUME OptimizeUnlocked(t)
      PROVE  Out
  BY <1>18, <1>0 DEF Types, OptimizeUnlocked, Goto, locals
<1>19. ASSUME OptimizeStart(t)
      PROVE  Out
  BY <1>19, <1>0 DEF Types, OptimizeStart, Goto
<1>20. ASSUME WalkOn(t, "optWalk") \/ WalkOn(t, "wakeWalk")
      PROVE  Out
  BY <1>20, <1>0 DEF Types, WalkOn
<1>21. ASSUME OptimizeFound(t)
      PROVE  Out
  BY <1>21, <1>0 DEF Types, OptimizeFound, Goto, locals
<1>22. ASSUME OptimizeDone(t)
      PROVE  Out
  BY <1>22, <1>0 DEF Types, OptimizeDone, SubroutineReturns, Return, Goto,
      Acquiring
<1>23. ASSUME OptimizeRetry(t)
      PROVE  Out
  BY <1>23, <1>0 DEF Types, OptimizeRetry, Goto
<1>24. ASSUME WakeNotNow(t)
      PROVE  Out
  BY <1>24, <1>0 DEF Types, WakeNotNow, SubroutineReturns, Return, Goto,
      Acquiring
<1>25. ASSUME WakeReload(t)
      PROVE  Out
  BY <1>25, <1>0 DEF Types, WakeReload
<1>26. ASSUME WakeStart(t)
      PROVE  Out
  BY <1>26, <1>0 DEF Types, WakeStart, Goto
<1>27. ASSUME WakeFound(t)
      PROVE  Out
  BY <1>27, <1>0 DEF Types, WakeFound, Goto
<1>28. ASSUME WakeAll(t)
      PROVE  Out
  BY <1>28, <1>0 DEF Types, WakeAll, Goto
<1>29. ASSUME WakeAllRetry(t)
      PROVE  Out
  BY <1>29, <1>0 DEF Types, WakeAllRetry, Goto
<1>30. ASSUME WakeUnlink(t)
      PROVE  Out
  BY <1>30, <1>0 DEF Types, WakeUnlink, Goto, WakeOneOnly, locals
<1>31. ASSUME WakeClear(t)
      PROVE  Out
  BY <1>31, <1>0 DEF Types, WakeClear, Goto
<1>32. ASSUME SignalSpinner(t)
      PROVE  Out
  BY <1>32, <1>0 DEF Types, SignalSpinner, SignalNext, SubroutineReturns,
      Return, Goto, Acquiring
<1>33. ASSUME SignalWaiter(t)
      PROVE  Out
  BY <1>33, <1>0 DEF Types, SignalWaiter, Goto
<1>34. ASSUME SetGate(t)
      PROVE  Out
  BY <1>34, <1>0 DEF Types, SetGate, SignalNext, SubroutineReturns, Return,
      Goto, Acquiring
<1>35. ASSUME ReleaseSharedFast(t)
      PROVE  Out
  BY <1>35, <1>0 DEF Types, ReleaseSharedFast, Holds, locals
<1>36. ASSUME ReleaseSharedSlow(t)
      PROVE  Out
  BY <1>36, <1>0 DEF Types, ReleaseSharedSlow, Enter, Goto, Holds, locals
<1>37. ASSUME ReleaseEnter(t)
      PROVE  Out
  BY <1>37, <1>0 DEF Types, ReleaseEnter, Enter, Goto, Holds
<1>38. ASSUME ReleaseFastFails(t)
      PROVE  Out
  BY <1>38, <1>0 DEF Types, ReleaseFastFails, Goto
<1>39. ASSUME ReleaseCounted(t)
      PROVE  Out
  BY <1>39, <1>0 DEF Types, ReleaseCounted, Return, Goto
<1>40. ASSUME ReleaseUnlock(t)
      PROVE  Out
  BY <1>40, <1>0 DEF Types, ReleaseUnlock, Return, Subroutine, Goto, Acquiring
<1>41. ASSUME ReleaseExclusiveFast(t)
      PROVE  Out
  BY <1>41, <1>0 DEF Types, ReleaseExclusiveFast, Holds, Enter, Goto, locals
<1>42. ASSUME TryWakeRead(t)
      PROVE  Out
  BY <1>42, <1>0 DEF Types, TryWakeRead, ReadLock, Goto
<1>43. ASSUME TryWake(t)
      PROVE  Out
  BY <1>43, <1>0 DEF Types, TryWake, Subroutine, Goto, Acquiring
<1>44. ASSUME TryWakeNot(t)
      PROVE  Out
  BY <1>44, <1>0 DEF Types, TryWakeNot, Return, Goto
<1>45. ASSUME ReleaseExclusiveSlow(t)
      PROVE  Out
  BY <1>45, <1>0 DEF Types, ReleaseExclusiveSlow, Enter, Goto, locals
<1>46. ASSUME ReleaseExclusiveRead(t)
      PROVE  Out
  BY <1>46, <1>0 DEF Types, ReleaseExclusiveRead, Goto, Holds
<1>47. ASSUME ReleaseExclusiveWake(t)
      PROVE  Out
  BY <1>47, <1>0 DEF Types, ReleaseExclusiveWake, Subroutine, Goto, Acquiring
<1>48. ASSUME ReleaseExclusiveSimple(t)
      PROVE  Out
  BY <1>48, <1>0 DEF Types, ReleaseExclusiveSimple, Return, Goto
<1>49. ASSUME ReleaseExclusiveReload(t)
      PROVE  Out
  BY <1>49, <1>0 DEF Types, ReleaseExclusiveReload
<1>50. ASSUME Convert(t)
      PROVE  Out
  BY <1>50, <1>0 DEF Types, Convert, Holds, locals
<1>51. ASSUME ReleaseNoWaiter(t, "relFast") \/ ReleaseNoWaiter(t, "relTry")
      PROVE  Out
  BY <1>51, <1>0, ReleaseNoWaiterEffect DEF Types
<1> QED
  BY <1>1, <1>2, <1>3, <1>4, <1>5, <1>6, <1>7, <1>8, <1>9, <1>10, <1>11, <1>12,
      <1>13, <1>14, <1>15, <1>16, <1>17, <1>18, <1>19, <1>20, <1>21, <1>22,
      <1>23, <1>24, <1>25, <1>26, <1>27, <1>28, <1>29, <1>30, <1>31, <1>32,
      <1>33, <1>34, <1>35, <1>36, <1>37, <1>38, <1>39, <1>40, <1>41, <1>42,
      <1>43, <1>44, <1>45, <1>46, <1>47, <1>48, <1>49, <1>50, <1>51 DEF Step,
      BeginAcquire, BeginRelease, InCall, InAcquire, InOptimize, InWake,
      InRelease

\* A thread that unlocks is the only one that has the lock.
LEMMA UnlocksAlone ==
    ASSUME NEW q, NEW b, IInv(q, b), NEW t \in Threads, pc[t] = "relUnlock" \/ pc[t] = "rxTry",
           lock.waiting
    PROVE  /\ Holders = {t}
           /\ Cardinality(Holders) = 1 /\ Held(q) = 1
<1>0. Types /\ Counted(q) /\ Several(q) /\ Word(lock)
  BY DEF IInv, Words
<1>1. t \in Holders
  BY DEF Holders, Releasing
<1>2. lock.locked /\ lock.shared = 0
  BY <1>0, <1>1, HoldersLock DEF Word
<1>3. lock.multi => blk[q[1]].shareCount = 0
  BY <1>0 DEF Several, Counted
<1>4. Held(q) = 1
  BY <1>2, <1>3 DEF Held, AtLeastOne
<1>5. Cardinality(Holders) = 1
  BY <1>0, <1>4 DEF Counted
<1>6. \A u \in Holders : u = t
  BY <1>0, <1>1, <1>5, HoldersCounted
<1> QED  BY <1>1, <1>4, <1>5, <1>6

\* A thread at its unlock unlocks, or tries again.
LEMMA AtUnlock ==
    ASSUME NEW q, NEW b, IInv(q, b), NEW t \in Threads, Step(t),
           pc[t] = "relUnlock"
    PROVE  ReleaseUnlock(t) \/ (ReleaseUnlockFails(t) /\ pc'[t] = pc[t])
<1>0. Types /\ Control(t)
  BY DEF IInv, Controls
<1>h. hold[t] = "none"
  BY <1>0 DEF Control, Types
<1>1. ASSUME AcquireExclusiveFast(t)
      PROVE  FALSE
  BY <1>1, <1>0, <1>h DEF AcquireExclusiveFast
<1>2. ASSUME \E c \in Calls : AcquireExclusiveSlow(t, c)
      PROVE  FALSE
  BY <1>2, <1>0, <1>h DEF AcquireExclusiveSlow, Enter, Goto
<1>3. ASSUME ExclusiveRead(t)
      PROVE  FALSE
  BY <1>3, <1>0, <1>h DEF ExclusiveRead, ReadLock, Goto
<1>4. ASSUME ExclusiveTake(t)
      PROVE  FALSE
  BY <1>4, <1>0, <1>h DEF ExclusiveTake, Return, Goto
<1>5. ASSUME ExclusiveRetry(t)
      PROVE  FALSE
  BY <1>5, <1>0, <1>h DEF ExclusiveRetry, Goto
<1>6. ASSUME ExclusiveFirstWaiter(t)
      PROVE  FALSE
  BY <1>6, <1>0, <1>h DEF ExclusiveFirstWaiter, Goto
<1>7. ASSUME ExclusiveNextWaiter(t)
      PROVE  FALSE
  BY <1>7, <1>0, <1>h DEF ExclusiveNextWaiter, Goto, Subroutine
<1>8. ASSUME AcquireSharedFast(t)
      PROVE  FALSE
  BY <1>8, <1>0, <1>h DEF AcquireSharedFast
<1>9. ASSUME AcquireSharedSlow(t)
      PROVE  FALSE
  BY <1>9, <1>0, <1>h DEF AcquireSharedSlow, Enter, Goto
<1>10. ASSUME SharedRead(t)
      PROVE  FALSE
  BY <1>10, <1>0, <1>h DEF SharedRead, ReadLock, Goto
<1>11. ASSUME SharedRetry(t)
      PROVE  FALSE
  BY <1>11, <1>0, <1>h DEF SharedRetry, Goto
<1>12. ASSUME SharedFirstWaiter(t)
      PROVE  FALSE
  BY <1>12, <1>0, <1>h DEF SharedFirstWaiter, Goto
<1>13. ASSUME SharedNextWaiter(t)
      PROVE  FALSE
  BY <1>13, <1>0, <1>h DEF SharedNextWaiter, Goto, Subroutine
<1>14. ASSUME InitGate(t)
      PROVE  FALSE
  BY <1>14, <1>0, <1>h DEF InitGate, Goto
<1>15. ASSUME TestWait(t)
      PROVE  FALSE
  BY <1>15, <1>0, <1>h DEF TestWait, Goto, Again
<1>16. ASSUME GateWait(t)
      PROVE  FALSE
  BY <1>16, <1>0, <1>h DEF GateWait, Goto, Again
<1>17. ASSUME OptimizeUnlocked(t)
      PROVE  FALSE
  BY <1>17, <1>0, <1>h DEF OptimizeUnlocked, Goto
<1>18. ASSUME OptimizeStart(t)
      PROVE  FALSE
  BY <1>18, <1>0, <1>h DEF OptimizeStart, Goto
<1>19. ASSUME WalkOn(t, "optWalk") \/ WalkOn(t, "wakeWalk")
      PROVE  FALSE
  BY <1>19, <1>0, <1>h DEF WalkOn
<1>20. ASSUME OptimizeFound(t)
      PROVE  FALSE
  BY <1>20, <1>0, <1>h DEF OptimizeFound, Goto
<1>21. ASSUME OptimizeRetry(t)
      PROVE  FALSE
  BY <1>21, <1>0, <1>h DEF OptimizeRetry, Goto
<1>22. ASSUME WakeReload(t)
      PROVE  FALSE
  BY <1>22, <1>0, <1>h DEF WakeReload
<1>23. ASSUME WakeStart(t)
      PROVE  FALSE
  BY <1>23, <1>0, <1>h DEF WakeStart, Goto
<1>24. ASSUME WakeFound(t)
      PROVE  FALSE
  BY <1>24, <1>0, <1>h DEF WakeFound, Goto
<1>25. ASSUME WakeAll(t)
      PROVE  FALSE
  BY <1>25, <1>0, <1>h DEF WakeAll, Goto
<1>26. ASSUME WakeAllRetry(t)
      PROVE  FALSE
  BY <1>26, <1>0, <1>h DEF WakeAllRetry, Goto
<1>27. ASSUME WakeUnlink(t)
      PROVE  FALSE
  BY <1>27, <1>0, <1>h DEF WakeUnlink, Goto, WakeOneOnly
<1>28. ASSUME WakeClear(t)
      PROVE  FALSE
  BY <1>28, <1>0, <1>h DEF WakeClear, Goto
<1>29. ASSUME SignalWaiter(t)
      PROVE  FALSE
  BY <1>29, <1>0, <1>h DEF SignalWaiter, Goto
<1>30. ASSUME ReleaseSharedFast(t)
      PROVE  FALSE
  BY <1>30, <1>0, <1>h DEF ReleaseSharedFast
<1>31. ASSUME ReleaseSharedSlow(t)
      PROVE  FALSE
  BY <1>31, <1>0, <1>h DEF ReleaseSharedSlow, Enter, Goto
<1>32. ASSUME ReleaseEnter(t)
      PROVE  FALSE
  BY <1>32, <1>0, <1>h DEF ReleaseEnter, Enter, Goto
<1>33. ASSUME ReleaseFastFails(t)
      PROVE  FALSE
  BY <1>33, <1>0, <1>h DEF ReleaseFastFails, Goto
<1>34. ASSUME ReleaseRead(t)
      PROVE  FALSE
  BY <1>34, <1>0, <1>h DEF ReleaseRead, ReadLock, Goto
<1>35. ASSUME ReleaseReload(t)
      PROVE  FALSE
  BY <1>35, <1>0, <1>h DEF ReleaseReload
<1>36. ASSUME ReleaseFindCount(t)
      PROVE  FALSE
  BY <1>36, <1>0, <1>h DEF ReleaseFindCount, Goto
<1>37. ASSUME ReleaseNoCount(t)
      PROVE  FALSE
  BY <1>37, <1>0, <1>h DEF ReleaseNoCount, Goto
<1>38. ASSUME ReleaseWalkOn(t)
      PROVE  FALSE
  BY <1>38, <1>0, <1>h DEF ReleaseWalkOn
<1>39. ASSUME ReleaseFound(t)
      PROVE  FALSE
  BY <1>39, <1>0, <1>h DEF ReleaseFound, Goto
<1>40. ASSUME ReleaseCounted(t)
      PROVE  FALSE
  BY <1>40, <1>0, <1>h DEF ReleaseCounted, Return, Goto
<1>41. ASSUME ReleaseCountedLast(t)
      PROVE  FALSE
  BY <1>41, <1>0, <1>h DEF ReleaseCountedLast, Goto
<1>42. ASSUME ReleaseExclusiveFast(t)
      PROVE  FALSE
  BY <1>42, <1>0, <1>h DEF ReleaseExclusiveFast, Enter, Goto
<1>43. ASSUME TryWakeRead(t)
      PROVE  FALSE
  BY <1>43, <1>0, <1>h DEF TryWakeRead, ReadLock, Goto
<1>44. ASSUME TryWake(t)
      PROVE  FALSE
  BY <1>44, <1>0, <1>h DEF TryWake, Subroutine, Goto
<1>45. ASSUME TryWakeNot(t)
      PROVE  FALSE
  BY <1>45, <1>0, <1>h DEF TryWakeNot, Return, Goto
<1>46. ASSUME ReleaseExclusiveSlow(t)
      PROVE  FALSE
  BY <1>46, <1>0, <1>h DEF ReleaseExclusiveSlow, Enter, Goto
<1>47. ASSUME ReleaseExclusiveRead(t)
      PROVE  FALSE
  BY <1>47, <1>0, <1>h DEF ReleaseExclusiveRead, Goto
<1>48. ASSUME ReleaseExclusiveWake(t)
      PROVE  FALSE
  BY <1>48, <1>0, <1>h DEF ReleaseExclusiveWake, Subroutine, Goto
<1>49. ASSUME ReleaseExclusiveSimple(t)
      PROVE  FALSE
  BY <1>49, <1>0, <1>h DEF ReleaseExclusiveSimple, Return, Goto
<1>50. ASSUME ReleaseExclusiveReload(t)
      PROVE  FALSE
  BY <1>50, <1>0, <1>h DEF ReleaseExclusiveReload
<1>51. ASSUME Convert(t)
      PROVE  FALSE
  BY <1>51, <1>0, <1>h DEF Convert
<1>52. ASSUME WakeNotNow(t)
      PROVE  FALSE
  BY <1>52, <1>0, SubroutineReturnsEffect DEF WakeNotNow
<1>53. ASSUME OptimizeDone(t)
      PROVE  FALSE
  BY <1>53, <1>0, SubroutineReturnsEffect DEF OptimizeDone
<1>54. ASSUME SignalSpinner(t)
      PROVE  FALSE
  BY <1>54 DEF SignalSpinner
<1>55. ASSUME SetGate(t)
      PROVE  FALSE
  BY <1>55 DEF SetGate
<1>56. ASSUME ReleaseNoWaiter(t, "relFast") \/ ReleaseNoWaiter(t, "relTry")
      PROVE  FALSE
  BY <1>56, <1>0, ReleaseNoWaiterEffect
<1>57. ASSUME SharedTake(t)
      PROVE  FALSE
  BY <1>57, <1>0, SharedTakeEffect
 <1>q. ReleaseUnlock(t) \/ ReleaseUnlockFails(t)
  BY <1>1, <1>2, <1>3, <1>4, <1>5, <1>6, <1>7, <1>8, <1>9, <1>10, <1>11, <1>12,
      <1>13, <1>14, <1>15, <1>16, <1>17, <1>18, <1>19, <1>20, <1>21, <1>22,
      <1>23, <1>24, <1>25, <1>26, <1>27, <1>28, <1>29, <1>30, <1>31, <1>32,
      <1>33, <1>34, <1>35, <1>36, <1>37, <1>38, <1>39, <1>40, <1>41, <1>42,
      <1>43, <1>44, <1>45, <1>46, <1>47, <1>48, <1>49, <1>50, <1>51, <1>52,
      <1>53, <1>54, <1>55, <1>56, <1>57 DEF Step, BeginAcquire, BeginRelease,
      InCall, InAcquire, InOptimize, InWake, InRelease
<1>r. ASSUME ReleaseUnlockFails(t) PROVE pc'[t] = pc[t]
  <2>1. pc' = pc
    BY <1>r DEF ReleaseUnlockFails, vars
  <2> QED  BY <2>1
<1> QED  BY <1>q, <1>r


\* A steady step keeps the share count in the oldest block.
LEMMA SeveralStep ==
    ASSUME NEW q, NEW b, IInv(q, b), NEW t \in Threads, Steady(t)
    PROVE  Several(q)'
<1>0. /\ Types /\ Types' /\ Shape(q) /\ Step(t) /\ Words /\ Several(q) /\ Control(t)
      /\ lock \in Wide /\ lock' \in Wide /\ Word(lock) /\ Word(old[t])
  BY TypesStep DEF IInv, Steady, Controls, Words, Types
<1>e. lock'.waiting = lock.waiting /\ lock'.ptr = lock.ptr
  BY HeadKept
<1>z. q \in Seq(Threads) /\ Len(q) \in Nat /\ \A i, j \in 1 .. Len(q) : q[i] = q[j] => i = j
  BY <1>0 DEF Shape
<1>m. ReleaseUnlock(t) \/ lock'.multi = lock.multi
  BY MultiKept
<1>r. ASSUME ReleaseUnlock(t)
      PROVE  /\ ~lock'.multi /\ lock.waiting /\ pc[t] = "relUnlock" /\ blk' = blk
             /\ pc'[t] \in {"idle", "wake"}
             /\ \A u \in Threads : u # t => pc[u] \notin Releasing
             /\ \A u \in Threads : blk[u].shareCount = 0
  <2>1. /\ ~lock'.multi /\ pc[t] = "relUnlock" /\ blk' = blk
        /\ pc'[t] \in {"idle", "wake"}
    BY <1>r, <1>0, ReleaseUnlockEffect DEF Types
  <2>2. lock.waiting
    BY <1>0, <1>r, <2>1, ReleaseUnlockEffect DEF Control
  <2>3. Holders = {t}
    BY <2>1, <2>2, UnlocksAlone
  <2>4. \A u \in Threads : u # t => pc[u] \notin Releasing
    BY <2>3 DEF Holders
  <2>5. \A u \in Threads : blk[u].shareCount = 0
    BY <1>0, <2>1 DEF Several
  <2> QED  BY <2>1, <2>2, <2>4, <2>5
<1>w. lock.multi => lock.waiting /\ Len(q) > 0 /\ q[1] \in Threads
  BY <1>0, <1>z DEF Word, Shape
<1>n. \A i \in 1 .. Len(q) : q[i] # t \/ Parked(t)
  BY NotListed
<1>1. ASSUME lock'.multi
      PROVE  /\ blk'[q[1]].exclusive
             /\ blk'[q[1]].last = q[1]
             /\ \A i \in 1 .. Len(q) : blk'[q[i]].last \in {NULL, q[1]}
  <2>1. lock.multi
    BY <1>1, <1>m, <1>r
  <2>2. /\ blk[q[1]].exclusive /\ blk[q[1]].last = q[1]
        /\ \A i \in 1 .. Len(q) : blk[q[i]].last \in {NULL, q[1]}
    BY <1>0, <2>1 DEF Several
  <2>3. q[1] # t \/ Parked(t)
    BY <1>n, <1>w, <1>z, <2>1
  <2>4. blk'[q[1]].exclusive = blk[q[1]].exclusive
    BY <1>w, <2>1, <2>3, CountedBlock, CountsKept
  <2>5. CASE OptimizeFound(t)
    <3>1. /\ pc[t] = "optWalk" /\ blk[wb[t]].last # NULL
          /\ blk' = [blk EXCEPT ![cur[t].ptr].last = blk[wb[t]].last]
      BY <2>5 DEF OptimizeFound, Goto
    <3>2. blk[wb[t]].last = q[1]
      BY <3>1, WalkFound
    <3>3. \A u \in Threads : blk'[u].last \in {blk[u].last, q[1]}
      BY <1>0, <3>1, <3>2 DEF Types, WideBlock
    <3> QED  BY <1>w, <1>z, <2>1, <2>2, <2>4, <3>3
  <2>6. CASE WalkOn(t, "optWalk") \/ WalkOn(t, "wakeWalk")
    <3>1. \A u \in Threads : blk'[u].last = blk[u].last
      BY <1>0, <2>6 DEF Types, WideBlock, WalkOn
    <3> QED  BY <1>w, <1>z, <2>1, <2>2, <2>4, <3>1
  <2>7. CASE ~(OptimizeFound(t) \/ WalkOn(t, "optWalk") \/ WalkOn(t, "wakeWalk"))
    <3>1. \A u \in Threads : u # t \/ Parked(t) => blk'[u].last = blk[u].last
      BY <2>7, LinksKept DEF Steady
    <3>2. \A i \in 1 .. Len(q) : blk'[q[i]].last = blk[q[i]].last
      BY <1>n, <1>z, <3>1
    <3>3. 1 \in 1 .. Len(q)
      BY <1>w, <1>z, <2>1
    <3> QED  BY <2>2, <2>4, <3>2, <3>3
  <2> QED  BY <2>5, <2>6, <2>7
<1>2. ASSUME lock'.multi, blk'[q[1]].shareCount = 0
      PROVE  \E s \in Threads : pc'[s] = "relUnlock"
  <2>1. lock.multi /\ ~ReleaseUnlock(t)
    BY <1>2, <1>m, <1>r
  <2>2. CASE ReleaseCounted(t) \/ ReleaseCountedLast(t)
    BY <1>2, <2>2, CountedBlock
  <2>3. CASE ~(ReleaseCounted(t) \/ ReleaseCountedLast(t))
    <3>1. q[1] # t \/ Parked(t)
      BY <1>n, <1>w, <1>z, <2>1
    <3>2. blk[q[1]].shareCount = 0
      BY <1>2, <1>w, <2>1, <2>3, <3>1, CountsKept
    <3>3. PICK s \in Threads : pc[s] = "relUnlock"
      BY <1>0, <2>1, <3>2 DEF Several
    <3>4. CASE s = t
      BY <1>0, <3>3, <3>4, <2>1, AtUnlock
    <3>5. CASE s # t
      BY <1>0, <3>3, <3>5, OthersKeep
    <3> QED  BY <3>3, <3>4, <3>5
  <2> QED  BY <2>2, <2>3
<1>3. ASSUME NEW u \in Threads, blk'[u].shareCount # 0
      PROVE  lock'.multi /\ u = q[1]
  <2>1. CASE ReleaseCounted(t) \/ ReleaseCountedLast(t)
    <3>1. /\ lock.multi /\ lock' = lock /\ blk[q[1]].shareCount # 0
          /\ u # q[1] => blk'[u] = blk[u]
      BY <2>1, CountedBlock
    <3> QED  BY <1>0, <1>3, <3>1 DEF Several
  <2>2. CASE ~(ReleaseCounted(t) \/ ReleaseCountedLast(t))
    <3>1. blk[u].shareCount # 0
      BY <1>3, <2>2, CountsKept
    <3>2. lock.multi /\ u = q[1]
      BY <1>0, <3>1 DEF Several
    <3> QED  BY <1>m, <1>r, <3>1, <3>2
  <2> QED  BY <2>1, <2>2
<1> DEFINE Fine(u) ==
        /\ pc'[u] \in {"relTry", "relWalk", "relCount", "relUnlock"} /\ old'[u].waiting =>
               lock'.waiting /\ lock'.multi = old'[u].multi
        /\ pc'[u] = "relTry" /\ old'[u].multi => On(old'[u].ptr, q)
        /\ pc'[u] = "relWalk" => On(wb'[u], q)
        /\ pc'[u] = "relCount" => wb'[u] = q[1]
        /\ pc'[u] = "relUnlock" /\ lock'.multi => blk'[q[1]].shareCount = 0
<1>4. ASSUME NEW u \in Threads, u # t
      PROVE  Fine(u)
  <2>1. pc'[u] = pc[u] /\ old'[u] = old[u] /\ wb'[u] = wb[u]
    BY <1>0, <1>4, OthersKeep
  <2>2. CASE ReleaseUnlock(t)
    BY <1>4, <1>r, <2>1, <2>2 DEF Releasing
  <2>3. CASE ~ReleaseUnlock(t)
    <3>1. /\ pc[u] \in {"relTry", "relWalk", "relCount", "relUnlock"} /\ old[u].waiting =>
               lock.waiting /\ lock.multi = old[u].multi
          /\ pc[u] = "relTry" /\ old[u].multi => On(old[u].ptr, q)
          /\ pc[u] = "relWalk" => On(wb[u], q)
          /\ pc[u] = "relCount" => wb[u] = q[1]
          /\ pc[u] = "relUnlock" /\ lock.multi => blk[q[1]].shareCount = 0
      BY <1>0 DEF Several
    <3>2. ASSUME pc[u] = "relUnlock", lock.multi
          PROVE  blk'[q[1]].shareCount = 0
      <4>1. blk[q[1]].shareCount = 0
        BY <3>1, <3>2
      <4>2. ~(ReleaseCounted(t) \/ ReleaseCountedLast(t))
        BY <4>1, CountedBlock
      <4> QED  BY <1>w, <3>2, <4>1, <4>2, CountsKept
    <3> QED  BY <1>e, <1>m, <2>1, <2>3, <3>1, <3>2
  <2> QED  BY <2>2, <2>3
<1>5. Fine(t)
  <2>1. SUFFICES ASSUME pc'[t] \in {"relTry", "relWalk", "relCount", "relUnlock"}
                 PROVE  Fine(t)
    OBVIOUS
  <2>2. CASE ReleaseRead(t) \/ ReleaseReload(t)
    <3>1. pc'[t] = "relTry" /\ old'[t] = lock /\ lock' = lock
      BY <1>0, <2>2 DEF Types, ReleaseRead, ReleaseReload, ReadLock, Goto
    <3>2. lock.multi => lock.ptr = q[Len(q)] /\ Len(q) \in 1 .. Len(q)
      BY <1>0, <1>w, <1>z DEF Shape
    <3>3. lock.multi => On(lock.ptr, q)
      BY <3>2 DEF On
    <3> QED  BY <3>1, <3>3
  <2>3. CASE ReleaseFindCount(t)
    <3>1. /\ pc[t] = "relTry" /\ pc'[t] = "relWalk" /\ old' = old /\ lock' = lock
          /\ wb'[t] = old[t].ptr /\ old[t].waiting /\ old[t].multi
      BY <1>0, <2>3 DEF Types, ReleaseFindCount, Goto
    <3> QED  BY <1>0, <3>1 DEF Several
  <2>4. CASE ReleaseNoCount(t)
    <3>1. /\ pc[t] = "relTry" /\ pc'[t] = "relUnlock" /\ old' = old /\ lock' = lock
          /\ old[t].waiting /\ ~old[t].multi
      BY <1>0, <2>4 DEF Types, ReleaseNoCount, Goto, locals
    <3>2. lock.waiting /\ lock.multi = old[t].multi
      BY <1>0, <3>1 DEF Several
    <3> QED  BY <3>1, <3>2
  <2>5. CASE ReleaseWalkOn(t)
    <3>1. /\ pc[t] = "relWalk" /\ pc'[t] = "relWalk" /\ old' = old /\ lock' = lock
          /\ blk[wb[t]].last = NULL /\ wb'[t] = blk[wb[t]].next
      BY <1>0, <2>5 DEF Types, ReleaseWalkOn
    <3>2. old[t].waiting /\ old[t].multi
      BY <1>0, <3>1 DEF Control
    <3>3. lock.waiting /\ lock.multi = old[t].multi /\ On(wb[t], q)
      BY <1>0, <3>1, <3>2 DEF Several
    <3>4. blk[q[1]].last = q[1] /\ q[1] # NULL
      BY <1>0, <1>w, <3>2, <3>3, NullAssumption DEF Several
    <3>5. PICK i \in 1 .. Len(q) : q[i] = wb[t]
      BY <3>3 DEF On
    <3>6. i \in 2 .. Len(q) /\ i - 1 \in 1 .. Len(q)
      BY <1>z, <3>1, <3>4, <3>5
    <3>7. blk[q[i]].next = q[i - 1]
      BY <1>0, <3>6 DEF Shape
    <3>8. On(wb'[t], q)
      BY <3>1, <3>5, <3>6, <3>7 DEF On
    <3> QED  BY <3>1, <3>3, <3>8
  <2>6. CASE ReleaseFound(t)
    <3>1. /\ pc[t] = "relWalk" /\ pc'[t] = "relCount" /\ old' = old /\ lock' = lock
          /\ blk[wb[t]].last # NULL /\ wb'[t] = blk[wb[t]].last
      BY <1>0, <2>6 DEF Types, ReleaseFound, Goto
    <3>2. old[t].waiting /\ old[t].multi
      BY <1>0, <3>1 DEF Control
    <3>3. lock.waiting /\ lock.multi = old[t].multi /\ On(wb[t], q)
      BY <1>0, <3>1, <3>2 DEF Several
    <3>4. blk[wb[t]].last \in {NULL, q[1]}
      BY <1>0, <3>2, <3>3 DEF Several, On
    <3> QED  BY <3>1, <3>3, <3>4
  <2>7. CASE ReleaseCountedLast(t)
    <3>1. /\ pc[t] = "relCount" /\ pc'[t] = "relUnlock" /\ old' = old /\ lock' = lock
          /\ blk[wb[t]].shareCount = 1
      BY <1>0, <2>7 DEF Types, ReleaseCountedLast, Goto
    <3>2. wb[t] = q[1] /\ blk'[q[1]].shareCount = blk[q[1]].shareCount - 1
      BY <2>7, CountedBlock
    <3>3. blk'[q[1]].shareCount = 0
      BY <3>1, <3>2
    <3>4. old[t].waiting => lock.waiting /\ lock.multi = old[t].multi
      BY <1>0, <3>1 DEF Several
    <3> QED  BY <3>1, <3>3, <3>4
  <2>8. CASE ReleaseUnlockFails(t)
    <3>1. UNCHANGED vars
      BY <2>8 DEF ReleaseUnlockFails
    <3> QED  BY <1>0, <3>1 DEF Several, vars
  <2> QED  BY <1>0, <2>1, <2>2, <2>3, <2>4, <2>5, <2>6, <2>7, <2>8, ReleaseMoves
<1>6. \A u \in Threads : Fine(u)
  BY <1>4, <1>5
<1> QED  BY <1>1, <1>2, <1>3, <1>6 DEF Several, On


-----------------------------------------------------------------------------
(* Who has the lock. *)

\* An acquire that takes the lock adds one holder.
LEMMA HoldersJoin ==
    ASSUME NEW q, NEW b, IInv(q, b), NEW t \in Threads,
           \/ AcquireExclusiveFast(t) \/ ExclusiveTake(t)
           \/ AcquireSharedFast(t) \/ SharedTake(t)
    PROVE  /\ t \notin Holders
           /\ Cardinality(Holders') = Cardinality(Holders) + 1
<1>0. Types /\ Control(t) /\ Step(t)
  BY DEF IInv, Controls, Step, BeginAcquire, InCall, InAcquire
<1>t. t \notin Holders /\ hold'[t] # "none"
  <2>1. CASE AcquireExclusiveFast(t)
    BY <1>0, <2>1 DEF AcquireExclusiveFast, Types, Holders, Releasing, Holds
  <2>2. CASE ExclusiveTake(t)
    <3>1. pc[t] = "exTry" /\ hold' = [hold EXCEPT ![t] = "exclusive"]
      BY <2>2 DEF ExclusiveTake, Return, Goto, Holds
    <3> QED  BY <1>0, <3>1 DEF Types, Control, Holders, Releasing
  <2>3. CASE AcquireSharedFast(t)
    BY <1>0, <2>3 DEF AcquireSharedFast, Types, Holders, Releasing, Holds
  <2>4. CASE SharedTake(t)
    <3>1. pc[t] = "shTry" /\ hold' = [hold EXCEPT ![t] = "shared"]
      BY <1>0, <2>4, SharedTakeEffect
    <3> QED  BY <1>0, <3>1 DEF Types, Control, Holders, Releasing
  <2> QED  BY <2>1, <2>2, <2>3, <2>4
<1>u. \A u \in Threads : u # t => pc'[u] = pc[u] /\ hold'[u] = hold[u]
  BY <1>0, OthersKeep
<1>1. Holders' = Holders \cup {t}
  BY <1>t, <1>u DEF Holders
<1>2. IsFiniteSet(Holders)
  BY <1>0, HoldersCounted
<1> QED  BY <1>t, <1>1, <1>2, FS_AddElement

\* A release that gives the lock up takes one away.
LEMMA HoldersLeave ==
    ASSUME NEW q, NEW b, IInv(q, b), NEW t \in Threads,
           \/ ReleaseSharedFast(t) \/ ReleaseNoWaiter(t, "relFast")
           \/ ReleaseNoWaiter(t, "relTry") \/ ReleaseCounted(t)
           \/ ReleaseUnlock(t) \/ ReleaseExclusiveFast(t)
           \/ ReleaseExclusiveWake(t) \/ ReleaseExclusiveSimple(t)
    PROVE  /\ t \in Holders
           /\ Cardinality(Holders') = Cardinality(Holders) - 1
<1>0. Types /\ Control(t) /\ Step(t)
  BY DEF IInv, Controls, Step, BeginRelease, InCall, InRelease
<1>t. t \in Holders /\ hold'[t] = "none" /\ pc'[t] \notin Releasing \cup {"rxTry"}
  <2> USE <1>0 DEF Types, Control, Holders, Releasing, Goto
  <2>1. CASE ReleaseSharedFast(t)
    BY <2>1 DEF ReleaseSharedFast, Holds
  <2>2. CASE ReleaseNoWaiter(t, "relFast") \/ ReleaseNoWaiter(t, "relTry")
    BY <2>2, ReleaseNoWaiterEffect
  <2>3. CASE ReleaseCounted(t)
    BY <2>3 DEF ReleaseCounted, Return
  <2>4. CASE ReleaseUnlock(t)
    BY <2>4, ReleaseUnlockEffect
  <2>5. CASE ReleaseExclusiveFast(t)
    BY <2>5 DEF ReleaseExclusiveFast, Holds, Enter
  <2>6. CASE ReleaseExclusiveWake(t)
    BY <2>6 DEF ReleaseExclusiveWake, Subroutine
  <2>7. CASE ReleaseExclusiveSimple(t)
    BY <2>7 DEF ReleaseExclusiveSimple, Return
  <2> QED  BY <2>1, <2>2, <2>3, <2>4, <2>5, <2>6, <2>7
<1>u. \A u \in Threads : u # t => pc'[u] = pc[u] /\ hold'[u] = hold[u]
  BY <1>0, OthersKeep
<1>1. Holders' = Holders \ {t}
  BY <1>t, <1>u DEF Holders
<1>2. IsFiniteSet(Holders)
  BY <1>0, HoldersCounted
<1> QED  BY <1>t, <1>1, <1>2, FS_RemoveElement

\* No other step changes who has the lock.
LEMMA HoldersStay ==
    ASSUME NEW q, NEW b, IInv(q, b), NEW t \in Threads, Step(t),
           ~AcquireExclusiveFast(t), ~ExclusiveTake(t),
           ~AcquireSharedFast(t), ~SharedTake(t),
           ~ReleaseSharedFast(t), ~ReleaseNoWaiter(t, "relFast"),
           ~ReleaseNoWaiter(t, "relTry"), ~ReleaseCounted(t),
           ~ReleaseUnlock(t), ~ReleaseExclusiveFast(t),
           ~ReleaseExclusiveWake(t), ~ReleaseExclusiveSimple(t)
    PROVE  Holders' = Holders
<1>0. Types /\ Control(t)
  BY DEF IInv, Controls
<1>u. \A u \in Threads : u # t => pc'[u] = pc[u] /\ hold'[u] = hold[u]
  BY <1>0, OthersKeep
<1> DEFINE Has  == hold[t] # "none" \/ pc[t] \in Releasing \cup {"rxTry"}
           Has1 == hold'[t] # "none" \/ pc'[t] \in Releasing \cup {"rxTry"}
<1>1. ASSUME \E c \in Calls : AcquireExclusiveSlow(t, c)
      PROVE  Has <=> Has1
  BY <1>1, <1>0 DEF Types, Control, Releasing, AcquireExclusiveSlow, Enter,
      Goto, locals
<1>2. ASSUME ExclusiveRead(t)
      PROVE  Has <=> Has1
  BY <1>2, <1>0 DEF Types, Control, Releasing, ExclusiveRead, ReadLock, Goto
<1>3. ASSUME ExclusiveRetry(t)
      PROVE  Has <=> Has1
  BY <1>3, <1>0 DEF Types, Control, Releasing, ExclusiveRetry, Goto
<1>4. ASSUME ExclusiveFirstWaiter(t)
      PROVE  Has <=> Has1
  BY <1>4, <1>0 DEF Types, Control, Releasing, ExclusiveFirstWaiter, Goto,
      locals
<1>5. ASSUME AcquireSharedSlow(t)
      PROVE  Has <=> Has1
  BY <1>5, <1>0 DEF Types, Control, Releasing, AcquireSharedSlow, Enter, Goto,
      locals
<1>6. ASSUME SharedRead(t)
      PROVE  Has <=> Has1
  BY <1>6, <1>0 DEF Types, Control, Releasing, SharedRead, ReadLock, Goto
<1>7. ASSUME SharedRetry(t)
      PROVE  Has <=> Has1
  BY <1>7, <1>0 DEF Types, Control, Releasing, SharedRetry, Goto
<1>8. ASSUME SharedFirstWaiter(t)
      PROVE  Has <=> Has1
  BY <1>8, <1>0 DEF Types, Control, Releasing, SharedFirstWaiter, Goto, locals
<1>9. ASSUME InitGate(t)
      PROVE  Has <=> Has1
  BY <1>9, <1>0 DEF Types, Control, Releasing, InitGate, Goto, locals
<1>10. ASSUME TestWait(t)
      PROVE  Has <=> Has1
  BY <1>10, <1>0 DEF Types, Control, Releasing, TestWait, Goto, Again, locals
<1>11. ASSUME GateWait(t)
      PROVE  Has <=> Has1
  BY <1>11, <1>0 DEF Types, Control, Releasing, GateWait, Goto, Again, locals
<1>12. ASSUME OptimizeUnlocked(t)
      PROVE  Has <=> Has1
  BY <1>12, <1>0 DEF Types, Control, Releasing, OptimizeUnlocked, Goto, locals
<1>13. ASSUME OptimizeStart(t)
      PROVE  Has <=> Has1
  BY <1>13, <1>0 DEF Types, Control, Releasing, OptimizeStart, Goto
<1>14. ASSUME WalkOn(t, "optWalk") \/ WalkOn(t, "wakeWalk")
      PROVE  Has <=> Has1
  BY <1>14, <1>0 DEF Types, Control, Releasing, WalkOn
<1>15. ASSUME OptimizeFound(t)
      PROVE  Has <=> Has1
  BY <1>15, <1>0 DEF Types, Control, Releasing, OptimizeFound, Goto, locals
<1>16. ASSUME OptimizeRetry(t)
      PROVE  Has <=> Has1
  BY <1>16, <1>0 DEF Types, Control, Releasing, OptimizeRetry, Goto
<1>17. ASSUME WakeReload(t)
      PROVE  Has <=> Has1
  BY <1>17, <1>0 DEF Types, Control, Releasing, WakeReload
<1>18. ASSUME WakeStart(t)
      PROVE  Has <=> Has1
  BY <1>18, <1>0 DEF Types, Control, Releasing, WakeStart, Goto
<1>19. ASSUME WakeFound(t)
      PROVE  Has <=> Has1
  BY <1>19, <1>0 DEF Types, Control, Releasing, WakeFound, Goto
<1>20. ASSUME WakeAll(t)
      PROVE  Has <=> Has1
  BY <1>20, <1>0 DEF Types, Control, Releasing, WakeAll, Goto
<1>21. ASSUME WakeAllRetry(t)
      PROVE  Has <=> Has1
  BY <1>21, <1>0 DEF Types, Control, Releasing, WakeAllRetry, Goto
<1>22. ASSUME WakeUnlink(t)
      PROVE  Has <=> Has1
  BY <1>22, <1>0 DEF Types, Control, Releasing, WakeUnlink, Goto, WakeOneOnly,
      locals
<1>23. ASSUME WakeClear(t)
      PROVE  Has <=> Has1
  BY <1>23, <1>0 DEF Types, Control, Releasing, WakeClear, Goto
<1>24. ASSUME SignalWaiter(t)
      PROVE  Has <=> Has1
  BY <1>24, <1>0 DEF Types, Control, Releasing, SignalWaiter, Goto
<1>25. ASSUME ReleaseSharedSlow(t)
      PROVE  Has <=> Has1
  BY <1>25, <1>0 DEF Types, Control, Releasing, ReleaseSharedSlow, Enter, Goto,
      Holds, locals
<1>26. ASSUME ReleaseEnter(t)
      PROVE  Has <=> Has1
  BY <1>26, <1>0 DEF Types, Control, Releasing, ReleaseEnter, Enter, Goto,
      Holds
<1>27. ASSUME ReleaseFastFails(t)
      PROVE  Has <=> Has1
  BY <1>27, <1>0 DEF Types, Control, Releasing, ReleaseFastFails, Goto
<1>28. ASSUME ReleaseRead(t)
      PROVE  Has <=> Has1
  BY <1>28, <1>0 DEF Types, Control, Releasing, ReleaseRead, ReadLock, Goto
<1>29. ASSUME ReleaseReload(t)
      PROVE  Has <=> Has1
  BY <1>29, <1>0 DEF Types, Control, Releasing, ReleaseReload
<1>30. ASSUME ReleaseFindCount(t)
      PROVE  Has <=> Has1
  BY <1>30, <1>0 DEF Types, Control, Releasing, ReleaseFindCount, Goto
<1>31. ASSUME ReleaseNoCount(t)
      PROVE  Has <=> Has1
  BY <1>31, <1>0 DEF Types, Control, Releasing, ReleaseNoCount, Goto, locals
<1>32. ASSUME ReleaseWalkOn(t)
      PROVE  Has <=> Has1
  BY <1>32, <1>0 DEF Types, Control, Releasing, ReleaseWalkOn
<1>33. ASSUME ReleaseFound(t)
      PROVE  Has <=> Has1
  BY <1>33, <1>0 DEF Types, Control, Releasing, ReleaseFound, Goto
<1>34. ASSUME ReleaseCountedLast(t)
      PROVE  Has <=> Has1
  BY <1>34, <1>0 DEF Types, Control, Releasing, ReleaseCountedLast, Goto
<1>35. ASSUME ReleaseUnlockFails(t)
      PROVE  Has <=> Has1
  BY <1>35, <1>0 DEF Types, Control, Releasing, ReleaseUnlockFails, vars
<1>36. ASSUME TryWakeRead(t)
      PROVE  Has <=> Has1
  BY <1>36, <1>0 DEF Types, Control, Releasing, TryWakeRead, ReadLock, Goto
<1>37. ASSUME TryWake(t)
      PROVE  Has <=> Has1
  BY <1>37, <1>0 DEF Types, Control, Releasing, TryWake, Subroutine, Goto
<1>38. ASSUME TryWakeNot(t)
      PROVE  Has <=> Has1
  BY <1>38, <1>0 DEF Types, Control, Releasing, TryWakeNot, Return, Goto
<1>39. ASSUME ReleaseExclusiveSlow(t)
      PROVE  Has <=> Has1
  BY <1>39, <1>0 DEF Types, Control, Releasing, ReleaseExclusiveSlow, Enter,
      Goto, locals
<1>40. ASSUME ReleaseExclusiveRead(t)
      PROVE  Has <=> Has1
  BY <1>40, <1>0 DEF Types, Control, Releasing, ReleaseExclusiveRead, Goto,
      Holds
<1>41. ASSUME ReleaseExclusiveReload(t)
      PROVE  Has <=> Has1
  BY <1>41, <1>0 DEF Types, Control, Releasing, ReleaseExclusiveReload
<1>42. ASSUME Convert(t)
      PROVE  Has <=> Has1
  BY <1>42, <1>0 DEF Types, Control, Releasing, Convert, Holds, locals
<1>43. ASSUME SharedNextWaiter(t)
      PROVE  Has <=> Has1
  BY <1>43, <1>0, NextWaiterEffect DEF Types, Releasing
<1>44. ASSUME ExclusiveNextWaiter(t)
      PROVE  Has <=> Has1
  BY <1>44, <1>0, NextWaiterEffect DEF Types, Releasing
<1>45. ASSUME OptimizeDone(t)
      PROVE  Has <=> Has1
  BY <1>45, <1>0, SubroutineReturnsEffect DEF Types, Releasing, OptimizeDone
<1>46. ASSUME WakeNotNow(t)
      PROVE  Has <=> Has1
  BY <1>46, <1>0, SubroutineReturnsEffect DEF Types, Releasing, WakeNotNow
<1>47. ASSUME SignalSpinner(t)
      PROVE  Has <=> Has1
  BY <1>47, <1>0, SubroutineReturnsEffect DEF Types, Releasing, SignalSpinner, SignalNext, Goto
<1>48. ASSUME SetGate(t)
      PROVE  Has <=> Has1
  BY <1>48, <1>0, SubroutineReturnsEffect DEF Types, Releasing, SetGate, SignalNext, Goto
<1> HIDE DEF Has, Has1
 <1>q. Has <=> Has1
  BY <1>1, <1>2, <1>3, <1>4, <1>5, <1>6, <1>7, <1>8, <1>9, <1>10, <1>11, <1>12,
      <1>13, <1>14, <1>15, <1>16, <1>17, <1>18, <1>19, <1>20, <1>21, <1>22,
      <1>23, <1>24, <1>25, <1>26, <1>27, <1>28, <1>29, <1>30, <1>31, <1>32,
      <1>33, <1>34, <1>35, <1>36, <1>37, <1>38, <1>39, <1>40, <1>41, <1>42,
      <1>43, <1>44, <1>45, <1>46, <1>47, <1>48 DEF Step, BeginAcquire,
      BeginRelease, InCall, InAcquire, InOptimize, InWake, InRelease
<1> QED  BY <1>q, <1>u DEF Has, Has1, Holders

\* A word that an exclusive holder may see stays one while it holds the lock.
LEMMA SharedKept ==
    ASSUME NEW q, NEW b, IInv(q, b), NEW t \in Threads, Step(t),
           lock.locked, ~lock.multi, lock.shared = 0
    PROVE  ~lock'.multi /\ lock'.shared = 0
<1>0. Types /\ lock \in Wide /\ old[t] \in Wide /\ cur[t] \in Wide
  BY DEF IInv, Types
<1>1. ASSUME (\E c \in Calls : AcquireExclusiveSlow(t, c)) \/ ExclusiveRead(t)
          \/ ExclusiveRetry(t) \/ AcquireSharedSlow(t) \/ SharedRead(t)
          \/ SharedRetry(t) \/ InitGate(t) \/ TestWait(t) \/ GateWait(t)
          \/ OptimizeUnlocked(t) \/ OptimizeStart(t) \/ WalkOn(t, "optWalk")
          \/ WalkOn(t, "wakeWalk") \/ OptimizeFound(t) \/ OptimizeRetry(t)
          \/ WakeReload(t) \/ WakeStart(t) \/ WakeFound(t) \/ WakeAllRetry(t)
          \/ WakeUnlink(t) \/ SignalSpinner(t) \/ SignalWaiter(t) \/ SetGate(t)
          \/ ReleaseSharedSlow(t) \/ ReleaseEnter(t) \/ ReleaseFastFails(t)
          \/ ReleaseRead(t) \/ ReleaseReload(t) \/ ReleaseFindCount(t)
          \/ ReleaseNoCount(t) \/ ReleaseWalkOn(t) \/ ReleaseFound(t)
          \/ ReleaseCounted(t) \/ ReleaseCountedLast(t)
          \/ ReleaseUnlockFails(t) \/ TryWakeRead(t) \/ TryWakeNot(t)
          \/ ReleaseExclusiveSlow(t) \/ ReleaseExclusiveRead(t)
          \/ ReleaseExclusiveReload(t)
      PROVE  lock' = lock
  BY <1>1 DEF AcquireExclusiveSlow, Enter, Goto, locals, ExclusiveRead,
      ReadLock, ExclusiveRetry, FrameGone, AcquireSharedSlow, SharedRead,
      SharedRetry, InitGate, TestWait, Again, GateWait, OptimizeUnlocked,
      OptimizeStart, WalkOn, OptimizeFound, OptimizeRetry, WakeReload,
      WakeStart, WakeFound, WakeAllRetry, WakeUnlink, WakeOneOnly,
      SignalSpinner, SignalNext, SubroutineReturns, Return, Acquiring,
      SignalWaiter, SetGate, ReleaseSharedSlow, Holds, ReleaseEnter,
      ReleaseFastFails, ReleaseRead, ReleaseReload, ReleaseFindCount,
      ReleaseNoCount, ReleaseWalkOn, ReleaseFound, ReleaseCounted,
      ReleaseCountedLast, ReleaseUnlockFails, vars, TryWakeRead, TryWakeNot,
      ReleaseExclusiveSlow, ReleaseExclusiveRead, ReleaseExclusiveReload
<1>2. CASE AcquireExclusiveFast(t)
  BY <1>2, <1>0 DEF Wide, AcquireExclusiveFast, Holds, locals
<1>3. CASE ExclusiveTake(t)
  BY <1>3, <1>0 DEF Wide, ExclusiveTake, Exchange, Return, Goto, Holds,
      FrameGone, locals, Free, NewBlock
<1>4. CASE ExclusiveFirstWaiter(t)
  BY <1>4, <1>0 DEF Wide, ExclusiveFirstWaiter, Exchange, Locked, Free,
      NewBlock, Goto, locals
<1>5. CASE AcquireSharedFast(t)
  BY <1>5, <1>0 DEF Wide, AcquireSharedFast, Exchange, Locked, Free, Holds,
      locals
<1>6. CASE SharedFirstWaiter(t)
  BY <1>6, <1>0 DEF Wide, SharedFirstWaiter, MayShare, Exchange, NewBlock,
      Goto, locals
<1>7. CASE OptimizeDone(t)
  BY <1>7, <1>0 DEF Wide, OptimizeDone, Exchange, SubroutineReturns, Return,
      Goto, Acquiring, Free
<1>8. CASE WakeNotNow(t)
  BY <1>8, <1>0 DEF Wide, WakeNotNow, Exchange, SubroutineReturns, Return,
      Goto, Acquiring, Free
<1>9. CASE WakeAll(t)
  BY <1>9, <1>0 DEF Wide, WakeAll, Goto, Exchange, Free
<1>10. CASE WakeClear(t)
  BY <1>10, <1>0 DEF Wide, WakeClear, Goto, Free
<1>11. CASE ReleaseSharedFast(t)
  BY <1>11, <1>0 DEF Wide, ReleaseSharedFast, Exchange, Locked, Free, Holds,
      locals
<1>12. CASE ReleaseExclusiveFast(t)
  BY <1>12, <1>0 DEF Wide, ReleaseExclusiveFast, Holds, Enter, Goto, locals
<1>13. CASE TryWake(t)
  BY <1>13, <1>0 DEF Wide, TryWake, Wakeable, Exchange, Subroutine, Goto,
      Acquiring, Free
<1>14. CASE ReleaseExclusiveWake(t)
  BY <1>14, <1>0 DEF Wide, ReleaseExclusiveWake, Exchange, Subroutine, Goto,
      Acquiring, Free
<1>15. CASE ReleaseExclusiveSimple(t)
  BY <1>15, <1>0 DEF Wide, ReleaseExclusiveSimple, Exchange, Return, Goto, Free
<1>16. CASE Convert(t)
  BY <1>16, <1>0 DEF Wide, Convert, Exchange, Locked, Free, Holds, locals
<1>17. CASE SharedTake(t)
  BY <1>17, <1>0, SharedTakeEffect
<1>18. CASE ReleaseNoWaiter(t, "relFast") \/ ReleaseNoWaiter(t, "relTry")
  BY <1>18, <1>0, ReleaseNoWaiterEffect DEF Free
<1>19. CASE SharedNextWaiter(t)
  BY <1>19, <1>0, NextWaiterEffect
<1>20. CASE ExclusiveNextWaiter(t)
  BY <1>20, <1>0, NextWaiterEffect
<1>21. CASE ReleaseUnlock(t)
  BY <1>21, <1>0, ReleaseUnlockEffect
<1> QED
  BY <1>0, <1>1, <1>2, <1>3, <1>4, <1>5, <1>6, <1>7, <1>8, <1>9, <1>10, <1>11,
      <1>12, <1>13, <1>14, <1>15, <1>16, <1>17, <1>18, <1>19, <1>20,
      <1>21 DEF Step, BeginAcquire, BeginRelease, InCall, InAcquire,
      InOptimize, InWake, InRelease

\* Who becomes an exclusive holder.
LEMMA ExclusiveTurn ==
    ASSUME NEW q, NEW b, IInv(q, b), NEW t \in Threads, Step(t),
           hold'[t] = "exclusive" \/ pc'[t] = "rxTry"
    PROVE  \/ hold[t] = "exclusive" \/ pc[t] = "rxTry"
           \/ AcquireExclusiveFast(t) \/ ExclusiveTake(t) \/ Convert(t)
<1>0. Types /\ Control(t)
  BY DEF IInv, Controls
<1> DEFINE Was == hold[t] = "exclusive" \/ pc[t] = "rxTry" \/ ~(hold'[t] = "exclusive" \/ pc'[t] = "rxTry")
<1>1. ASSUME \E c \in Calls : AcquireExclusiveSlow(t, c)
      PROVE  Was
  BY <1>1, <1>0 DEF Types, Control, AcquireExclusiveSlow, Enter, Goto, locals
<1>2. ASSUME ExclusiveRead(t)
      PROVE  Was
  BY <1>2, <1>0 DEF Types, Control, ExclusiveRead, ReadLock, Goto
<1>3. ASSUME ExclusiveRetry(t)
      PROVE  Was
  BY <1>3, <1>0 DEF Types, Control, ExclusiveRetry, Goto
<1>4. ASSUME ExclusiveFirstWaiter(t)
      PROVE  Was
  BY <1>4, <1>0 DEF Types, Control, ExclusiveFirstWaiter, Goto, locals
<1>5. ASSUME AcquireSharedFast(t)
      PROVE  Was
  BY <1>5, <1>0 DEF Types, Control, AcquireSharedFast, Holds, locals
<1>6. ASSUME AcquireSharedSlow(t)
      PROVE  Was
  BY <1>6, <1>0 DEF Types, Control, AcquireSharedSlow, Enter, Goto, locals
<1>7. ASSUME SharedRead(t)
      PROVE  Was
  BY <1>7, <1>0 DEF Types, Control, SharedRead, ReadLock, Goto
<1>8. ASSUME SharedRetry(t)
      PROVE  Was
  BY <1>8, <1>0 DEF Types, Control, SharedRetry, Goto
<1>9. ASSUME SharedFirstWaiter(t)
      PROVE  Was
  BY <1>9, <1>0 DEF Types, Control, SharedFirstWaiter, Goto, locals
<1>10. ASSUME InitGate(t)
      PROVE  Was
  BY <1>10, <1>0 DEF Types, Control, InitGate, Goto, locals
<1>11. ASSUME TestWait(t)
      PROVE  Was
  BY <1>11, <1>0 DEF Types, Control, TestWait, Goto, Again, locals
<1>12. ASSUME GateWait(t)
      PROVE  Was
  BY <1>12, <1>0 DEF Types, Control, GateWait, Goto, Again, locals
<1>13. ASSUME OptimizeUnlocked(t)
      PROVE  Was
  BY <1>13, <1>0 DEF Types, Control, OptimizeUnlocked, Goto, locals
<1>14. ASSUME OptimizeStart(t)
      PROVE  Was
  BY <1>14, <1>0 DEF Types, Control, OptimizeStart, Goto
<1>15. ASSUME WalkOn(t, "optWalk") \/ WalkOn(t, "wakeWalk")
      PROVE  Was
  BY <1>15, <1>0 DEF Types, Control, WalkOn
<1>16. ASSUME OptimizeFound(t)
      PROVE  Was
  BY <1>16, <1>0 DEF Types, Control, OptimizeFound, Goto, locals
<1>17. ASSUME OptimizeRetry(t)
      PROVE  Was
  BY <1>17, <1>0 DEF Types, Control, OptimizeRetry, Goto
<1>18. ASSUME WakeReload(t)
      PROVE  Was
  BY <1>18, <1>0 DEF Types, Control, WakeReload
<1>19. ASSUME WakeStart(t)
      PROVE  Was
  BY <1>19, <1>0 DEF Types, Control, WakeStart, Goto
<1>20. ASSUME WakeFound(t)
      PROVE  Was
  BY <1>20, <1>0 DEF Types, Control, WakeFound, Goto
<1>21. ASSUME WakeAll(t)
      PROVE  Was
  BY <1>21, <1>0 DEF Types, Control, WakeAll, Goto
<1>22. ASSUME WakeAllRetry(t)
      PROVE  Was
  BY <1>22, <1>0 DEF Types, Control, WakeAllRetry, Goto
<1>23. ASSUME WakeUnlink(t)
      PROVE  Was
  BY <1>23, <1>0 DEF Types, Control, WakeUnlink, Goto, WakeOneOnly, locals
<1>24. ASSUME WakeClear(t)
      PROVE  Was
  BY <1>24, <1>0 DEF Types, Control, WakeClear, Goto
<1>25. ASSUME SignalWaiter(t)
      PROVE  Was
  BY <1>25, <1>0 DEF Types, Control, SignalWaiter, Goto
<1>26. ASSUME ReleaseSharedFast(t)
      PROVE  Was
  BY <1>26, <1>0 DEF Types, Control, ReleaseSharedFast, Holds, locals
<1>27. ASSUME ReleaseSharedSlow(t)
      PROVE  Was
  BY <1>27, <1>0 DEF Types, Control, ReleaseSharedSlow, Enter, Goto, Holds,
      locals
<1>28. ASSUME ReleaseEnter(t)
      PROVE  Was
  BY <1>28, <1>0 DEF Types, Control, ReleaseEnter, Enter, Goto, Holds
<1>29. ASSUME ReleaseFastFails(t)
      PROVE  Was
  BY <1>29, <1>0 DEF Types, Control, ReleaseFastFails, Goto
<1>30. ASSUME ReleaseRead(t)
      PROVE  Was
  BY <1>30, <1>0 DEF Types, Control, ReleaseRead, ReadLock, Goto
<1>31. ASSUME ReleaseReload(t)
      PROVE  Was
  BY <1>31, <1>0 DEF Types, Control, ReleaseReload
<1>32. ASSUME ReleaseFindCount(t)
      PROVE  Was
  BY <1>32, <1>0 DEF Types, Control, ReleaseFindCount, Goto
<1>33. ASSUME ReleaseNoCount(t)
      PROVE  Was
  BY <1>33, <1>0 DEF Types, Control, ReleaseNoCount, Goto, locals
<1>34. ASSUME ReleaseWalkOn(t)
      PROVE  Was
  BY <1>34, <1>0 DEF Types, Control, ReleaseWalkOn
<1>35. ASSUME ReleaseFound(t)
      PROVE  Was
  BY <1>35, <1>0 DEF Types, Control, ReleaseFound, Goto
<1>36. ASSUME ReleaseCounted(t)
      PROVE  Was
  BY <1>36, <1>0 DEF Types, Control, ReleaseCounted, Return, Goto
<1>37. ASSUME ReleaseCountedLast(t)
      PROVE  Was
  BY <1>37, <1>0 DEF Types, Control, ReleaseCountedLast, Goto
<1>38. ASSUME ReleaseUnlockFails(t)
      PROVE  Was
  BY <1>38, <1>0 DEF Types, Control, ReleaseUnlockFails, vars
<1>39. ASSUME ReleaseExclusiveFast(t)
      PROVE  Was
  BY <1>39, <1>0 DEF Types, Control, ReleaseExclusiveFast, Holds, Enter, Goto,
      locals
<1>40. ASSUME TryWakeRead(t)
      PROVE  Was
  BY <1>40, <1>0 DEF Types, Control, TryWakeRead, ReadLock, Goto
<1>41. ASSUME TryWake(t)
      PROVE  Was
  BY <1>41, <1>0 DEF Types, Control, TryWake, Subroutine, Goto
<1>42. ASSUME TryWakeNot(t)
      PROVE  Was
  BY <1>42, <1>0 DEF Types, Control, TryWakeNot, Return, Goto
<1>43. ASSUME ReleaseExclusiveSlow(t)
      PROVE  Was
  BY <1>43, <1>0 DEF Types, Control, ReleaseExclusiveSlow, Enter, Goto, locals
<1>44. ASSUME ReleaseExclusiveRead(t)
      PROVE  Was
  BY <1>44, <1>0 DEF Types, Control, ReleaseExclusiveRead, Goto, Holds
<1>45. ASSUME ReleaseExclusiveWake(t)
      PROVE  Was
  BY <1>45, <1>0 DEF Types, Control, ReleaseExclusiveWake, Subroutine, Goto
<1>46. ASSUME ReleaseExclusiveSimple(t)
      PROVE  Was
  BY <1>46, <1>0 DEF Types, Control, ReleaseExclusiveSimple, Return, Goto
<1>47. ASSUME ReleaseExclusiveReload(t)
      PROVE  Was
  BY <1>47, <1>0 DEF Types, Control, ReleaseExclusiveReload
<1>48. ASSUME SharedTake(t)
      PROVE  Was
  BY <1>48, <1>0, SharedTakeEffect DEF Types
<1>49. ASSUME ReleaseNoWaiter(t, "relFast") \/ ReleaseNoWaiter(t, "relTry")
      PROVE  Was
  BY <1>49, <1>0, ReleaseNoWaiterEffect DEF Types
<1>50. ASSUME ReleaseUnlock(t)
      PROVE  Was
  BY <1>50, <1>0, ReleaseUnlockEffect DEF Types
<1>51. ASSUME SharedNextWaiter(t)
      PROVE  Was
  BY <1>51, <1>0, NextWaiterEffect DEF Types
<1>52. ASSUME ExclusiveNextWaiter(t)
      PROVE  Was
  BY <1>52, <1>0, NextWaiterEffect DEF Types
<1>53. ASSUME OptimizeDone(t)
      PROVE  Was
  BY <1>53, <1>0, SubroutineReturnsEffect DEF Types, OptimizeDone
<1>54. ASSUME WakeNotNow(t)
      PROVE  Was
  BY <1>54, <1>0, SubroutineReturnsEffect DEF Types, WakeNotNow
<1>55. ASSUME SignalSpinner(t)
      PROVE  Was
  BY <1>55, <1>0, SubroutineReturnsEffect DEF Types, SignalSpinner, SignalNext, Goto
<1>56. ASSUME SetGate(t)
      PROVE  Was
  BY <1>56, <1>0, SubroutineReturnsEffect DEF Types, SetGate, SignalNext, Goto
<1> QED
  BY <1>1, <1>2, <1>3, <1>4, <1>5, <1>6, <1>7, <1>8, <1>9, <1>10, <1>11, <1>12,
      <1>13, <1>14, <1>15, <1>16, <1>17, <1>18, <1>19, <1>20, <1>21, <1>22,
      <1>23, <1>24, <1>25, <1>26, <1>27, <1>28, <1>29, <1>30, <1>31, <1>32,
      <1>33, <1>34, <1>35, <1>36, <1>37, <1>38, <1>39, <1>40, <1>41, <1>42,
      <1>43, <1>44, <1>45, <1>46, <1>47, <1>48, <1>49, <1>50, <1>51, <1>52,
      <1>53, <1>54, <1>55, <1>56 DEF Step, BeginAcquire, BeginRelease, InCall,
      InAcquire, InOptimize, InWake, InRelease

\* Who holds the lock exclusively is not joined by sharers.
LEMMA ExclusivesStep ==
    ASSUME NEW q, NEW b, IInv(q, b), NEW t \in Threads, Step(t)
    PROVE  \A u \in Threads : hold'[u] = "exclusive" \/ pc'[u] = "rxTry" =>
              ~lock'.multi /\ lock'.shared = 0
<1>0. Types /\ lock \in Wide /\ old[t] \in Wide /\ Word(lock)
  BY DEF IInv, Types, Words
<1>1. ASSUME NEW u \in Threads, hold[u] = "exclusive" \/ pc[u] = "rxTry"
      PROVE  ~lock'.multi /\ lock'.shared = 0
  <2>1. ~lock.multi /\ lock.shared = 0
    BY <1>1, ExclusiveWord
  <2>2. u \in Holders
    BY <1>1 DEF Holders
  <2>3. lock.locked
    BY <2>2, HoldersLock
  <2> QED  BY <2>1, <2>3, SharedKept
<1>2. ASSUME AcquireExclusiveFast(t) \/ ExclusiveTake(t) \/ Convert(t)
      PROVE  ~lock'.multi /\ lock'.shared = 0
  <2>1. CASE AcquireExclusiveFast(t)
    BY <1>0, <2>1 DEF AcquireExclusiveFast, Word, Wide
  <2>2. CASE ExclusiveTake(t)
    BY <1>0, <2>2 DEF ExclusiveTake, Exchange, Word, Wide
  <2>3. CASE Convert(t)
    BY <1>0, <2>3 DEF Convert, Exchange, Locked, Free
  <2> QED  BY <1>2, <2>1, <2>2, <2>3
<1>3. ASSUME NEW u \in Threads, hold'[u] = "exclusive" \/ pc'[u] = "rxTry"
      PROVE  ~lock'.multi /\ lock'.shared = 0
  <2>1. CASE u = t
    BY <1>1, <1>2, <1>3, <2>1, ExclusiveTurn
  <2>2. CASE u # t
    <3>1. hold'[u] = hold[u] /\ pc'[u] = pc[u]
      BY <1>0, <2>2, OthersKeep
    <3> QED  BY <1>1, <1>3, <3>1
  <2> QED  BY <2>1, <2>2
<1> QED  BY <1>3


\* The steps that leave the lock bit and the share count of the word alone.
LEMMA WordKept ==
    ASSUME NEW q, NEW b, IInv(q, b), NEW t \in Threads, Steady(t),
           ~AcquireExclusiveFast(t), ~ExclusiveTake(t),
           ~AcquireSharedFast(t), ~SharedTake(t),
           ~ReleaseSharedFast(t), ~ReleaseNoWaiter(t, "relFast"),
           ~ReleaseNoWaiter(t, "relTry"), ~ReleaseCounted(t),
           ~ReleaseUnlock(t), ~ReleaseExclusiveFast(t),
           ~ReleaseExclusiveWake(t), ~ReleaseExclusiveSimple(t), ~Convert(t)
    PROVE  lock'.locked = lock.locked /\ lock'.shared = lock.shared
<1>0. Types /\ lock \in Wide /\ old[t] \in Wide /\ cur[t] \in Wide /\ Step(t)
  BY DEF IInv, Types, Steady
<1>s. /\ ~ExclusiveFirstWaiter(t) /\ ~ExclusiveNextWaiter(t)
      /\ ~SharedFirstWaiter(t) /\ ~SharedNextWaiter(t)
      /\ ~WakeAll(t) /\ ~WakeUnlink(t)
  BY DEF Steady
<1>1. ASSUME (\E c \in Calls : AcquireExclusiveSlow(t, c)) \/ ExclusiveRead(t)
          \/ ExclusiveRetry(t) \/ AcquireSharedSlow(t) \/ SharedRead(t)
          \/ SharedRetry(t) \/ InitGate(t) \/ TestWait(t) \/ GateWait(t)
          \/ OptimizeUnlocked(t) \/ OptimizeStart(t) \/ WalkOn(t, "optWalk")
          \/ WalkOn(t, "wakeWalk") \/ OptimizeFound(t) \/ OptimizeRetry(t)
          \/ WakeReload(t) \/ WakeStart(t) \/ WakeFound(t) \/ WakeAllRetry(t)
          \/ WakeUnlink(t) \/ SignalSpinner(t) \/ SignalWaiter(t) \/ SetGate(t)
          \/ ReleaseSharedSlow(t) \/ ReleaseEnter(t) \/ ReleaseFastFails(t)
          \/ ReleaseRead(t) \/ ReleaseReload(t) \/ ReleaseFindCount(t)
          \/ ReleaseNoCount(t) \/ ReleaseWalkOn(t) \/ ReleaseFound(t)
          \/ ReleaseCounted(t) \/ ReleaseCountedLast(t)
          \/ ReleaseUnlockFails(t) \/ TryWakeRead(t) \/ TryWakeNot(t)
          \/ ReleaseExclusiveSlow(t) \/ ReleaseExclusiveRead(t)
          \/ ReleaseExclusiveReload(t)
      PROVE  lock' = lock
  BY <1>1 DEF AcquireExclusiveSlow, Enter, Goto, locals, ExclusiveRead,
      ReadLock, ExclusiveRetry, FrameGone, AcquireSharedSlow, SharedRead,
      SharedRetry, InitGate, TestWait, Again, GateWait, OptimizeUnlocked,
      OptimizeStart, WalkOn, OptimizeFound, OptimizeRetry, WakeReload,
      WakeStart, WakeFound, WakeAllRetry, WakeUnlink, WakeOneOnly,
      SignalSpinner, SignalNext, SubroutineReturns, Return, Acquiring,
      SignalWaiter, SetGate, ReleaseSharedSlow, Holds, ReleaseEnter,
      ReleaseFastFails, ReleaseRead, ReleaseReload, ReleaseFindCount,
      ReleaseNoCount, ReleaseWalkOn, ReleaseFound, ReleaseCounted,
      ReleaseCountedLast, ReleaseUnlockFails, vars, TryWakeRead, TryWakeNot,
      ReleaseExclusiveSlow, ReleaseExclusiveRead, ReleaseExclusiveReload
<1>2. CASE OptimizeDone(t)
  BY <1>2, <1>0 DEF Wide, OptimizeDone, Exchange
<1>3. CASE WakeNotNow(t)
  BY <1>3, <1>0 DEF Wide, WakeNotNow, Exchange
<1>4. CASE WakeClear(t)
  BY <1>4, <1>0 DEF Wide, WakeClear
<1>5. CASE TryWake(t)
  BY <1>5, <1>0 DEF Wide, TryWake, Wakeable, Exchange
<1> QED
  BY <1>0, <1>s, <1>1, <1>2, <1>3, <1>4, <1>5 DEF Step, BeginAcquire,
      BeginRelease, InCall, InAcquire, InOptimize, InWake, InRelease

\* A thread's copies of the lock word were the word, or are gone.
LEMMA ValuesRead ==
    ASSUME NEW q, NEW b, IInv(q, b), NEW t \in Threads, Step(t)
    PROVE  \A u \in Threads : /\ old'[u] \in {old[u], lock, Free}
                              /\ cur'[u] \in {cur[u], lock, lock', Free}
<1>0. Types
  BY DEF IInv
<1>u. \A u \in Threads : u # t => old'[u] = old[u] /\ cur'[u] = cur[u]
  BY <1>0, OthersKeep
<1> DEFINE Read == old'[t] \in {old[t], lock, Free} /\ cur'[t] \in {cur[t], lock, lock', Free}
<1>1. ASSUME AcquireExclusiveFast(t)
      PROVE  Read
  BY <1>1, <1>0 DEF Types, AcquireExclusiveFast, Holds, locals
<1>2. ASSUME \E c \in Calls : AcquireExclusiveSlow(t, c)
      PROVE  Read
  BY <1>2, <1>0 DEF Types, AcquireExclusiveSlow, Enter, Goto, locals
<1>3. ASSUME ExclusiveRead(t)
      PROVE  Read
  BY <1>3, <1>0 DEF Types, ExclusiveRead, ReadLock, Goto
<1>4. ASSUME ExclusiveTake(t)
      PROVE  Read
  BY <1>4, <1>0 DEF Types, ExclusiveTake, Exchange, Return, Goto, Holds, locals
<1>5. ASSUME ExclusiveRetry(t)
      PROVE  Read
  BY <1>5, <1>0 DEF Types, ExclusiveRetry, Goto
<1>6. ASSUME ExclusiveFirstWaiter(t)
      PROVE  Read
  BY <1>6, <1>0 DEF Types, ExclusiveFirstWaiter, Exchange, Goto, locals
<1>7. ASSUME AcquireSharedFast(t)
      PROVE  Read
  BY <1>7, <1>0 DEF Types, AcquireSharedFast, Exchange, Holds, locals
<1>8. ASSUME AcquireSharedSlow(t)
      PROVE  Read
  BY <1>8, <1>0 DEF Types, AcquireSharedSlow, Enter, Goto, locals
<1>9. ASSUME SharedRead(t)
      PROVE  Read
  BY <1>9, <1>0 DEF Types, SharedRead, ReadLock, Goto
<1>10. ASSUME SharedTake(t)
      PROVE  Read
  BY <1>10, <1>0 DEF Types, SharedTake, Exchange, Return, Goto, Holds
<1>11. ASSUME SharedRetry(t)
      PROVE  Read
  BY <1>11, <1>0 DEF Types, SharedRetry, Goto
<1>12. ASSUME SharedFirstWaiter(t)
      PROVE  Read
  BY <1>12, <1>0 DEF Types, SharedFirstWaiter, Exchange, Goto, locals
<1>13. ASSUME InitGate(t)
      PROVE  Read
  BY <1>13, <1>0 DEF Types, InitGate, Goto, locals
<1>14. ASSUME TestWait(t)
      PROVE  Read
  BY <1>14, <1>0 DEF Types, TestWait, Goto, Again, locals
<1>15. ASSUME GateWait(t)
      PROVE  Read
  BY <1>15, <1>0 DEF Types, GateWait, Goto, Again, locals
<1>16. ASSUME OptimizeUnlocked(t)
      PROVE  Read
  BY <1>16, <1>0 DEF Types, OptimizeUnlocked, Goto, locals
<1>17. ASSUME OptimizeStart(t)
      PROVE  Read
  BY <1>17, <1>0 DEF Types, OptimizeStart, Goto
<1>18. ASSUME WalkOn(t, "optWalk") \/ WalkOn(t, "wakeWalk")
      PROVE  Read
  BY <1>18, <1>0 DEF Types, WalkOn
<1>19. ASSUME OptimizeFound(t)
      PROVE  Read
  BY <1>19, <1>0 DEF Types, OptimizeFound, Goto, locals
<1>20. ASSUME OptimizeDone(t)
      PROVE  Read
  BY <1>20, <1>0 DEF Types, OptimizeDone, Exchange, SubroutineReturns, Return,
      Goto, Acquiring
<1>21. ASSUME OptimizeRetry(t)
      PROVE  Read
  BY <1>21, <1>0 DEF Types, OptimizeRetry, Goto
<1>22. ASSUME WakeNotNow(t)
      PROVE  Read
  BY <1>22, <1>0 DEF Types, WakeNotNow, Exchange, SubroutineReturns, Return,
      Goto, Acquiring
<1>23. ASSUME WakeReload(t)
      PROVE  Read
  BY <1>23, <1>0 DEF Types, WakeReload
<1>24. ASSUME WakeStart(t)
      PROVE  Read
  BY <1>24, <1>0 DEF Types, WakeStart, Goto
<1>25. ASSUME WakeFound(t)
      PROVE  Read
  BY <1>25, <1>0 DEF Types, WakeFound, Goto
<1>26. ASSUME WakeAll(t)
      PROVE  Read
  BY <1>26, <1>0 DEF Types, WakeAll, Goto, Exchange
<1>27. ASSUME WakeAllRetry(t)
      PROVE  Read
  BY <1>27, <1>0 DEF Types, WakeAllRetry, Goto
<1>28. ASSUME WakeUnlink(t)
      PROVE  Read
  BY <1>28, <1>0 DEF Types, WakeUnlink, Goto, WakeOneOnly, locals
<1>29. ASSUME WakeClear(t)
      PROVE  Read
  BY <1>29, <1>0 DEF Types, WakeClear, Goto
<1>30. ASSUME SignalSpinner(t)
      PROVE  Read
  BY <1>30, <1>0 DEF Types, SignalSpinner, SignalNext, SubroutineReturns,
      Return, Goto, Acquiring
<1>31. ASSUME SignalWaiter(t)
      PROVE  Read
  BY <1>31, <1>0 DEF Types, SignalWaiter, Goto
<1>32. ASSUME SetGate(t)
      PROVE  Read
  BY <1>32, <1>0 DEF Types, SetGate, SignalNext, SubroutineReturns, Return,
      Goto, Acquiring
<1>33. ASSUME ReleaseSharedFast(t)
      PROVE  Read
  BY <1>33, <1>0 DEF Types, ReleaseSharedFast, Exchange, Holds, locals
<1>34. ASSUME ReleaseSharedSlow(t)
      PROVE  Read
  BY <1>34, <1>0 DEF Types, ReleaseSharedSlow, Enter, Goto, Holds, locals
<1>35. ASSUME ReleaseEnter(t)
      PROVE  Read
  BY <1>35, <1>0 DEF Types, ReleaseEnter, Enter, Goto, Holds
<1>36. ASSUME ReleaseNoWaiter(t, "relFast") \/ ReleaseNoWaiter(t, "relTry")
      PROVE  Read
  BY <1>36, <1>0 DEF Types, ReleaseNoWaiter, Exchange, Return, Goto
<1>37. ASSUME ReleaseFastFails(t)
      PROVE  Read
  BY <1>37, <1>0 DEF Types, ReleaseFastFails, Goto
<1>38. ASSUME ReleaseRead(t)
      PROVE  Read
  BY <1>38, <1>0 DEF Types, ReleaseRead, ReadLock, Goto
<1>39. ASSUME ReleaseReload(t)
      PROVE  Read
  BY <1>39, <1>0 DEF Types, ReleaseReload
<1>40. ASSUME ReleaseFindCount(t)
      PROVE  Read
  BY <1>40, <1>0 DEF Types, ReleaseFindCount, Goto
<1>41. ASSUME ReleaseNoCount(t)
      PROVE  Read
  BY <1>41, <1>0 DEF Types, ReleaseNoCount, Goto, locals
<1>42. ASSUME ReleaseWalkOn(t)
      PROVE  Read
  BY <1>42, <1>0 DEF Types, ReleaseWalkOn
<1>43. ASSUME ReleaseFound(t)
      PROVE  Read
  BY <1>43, <1>0 DEF Types, ReleaseFound, Goto
<1>44. ASSUME ReleaseCounted(t)
      PROVE  Read
  BY <1>44, <1>0 DEF Types, ReleaseCounted, Return, Goto
<1>45. ASSUME ReleaseCountedLast(t)
      PROVE  Read
  BY <1>45, <1>0 DEF Types, ReleaseCountedLast, Goto
<1>46. ASSUME ReleaseUnlock(t)
      PROVE  Read
  BY <1>46, <1>0 DEF Types, ReleaseUnlock, Exchange, Return, Subroutine, Goto,
      Acquiring
<1>47. ASSUME ReleaseUnlockFails(t)
      PROVE  Read
  BY <1>47, <1>0 DEF Types, ReleaseUnlockFails, vars
<1>48. ASSUME ReleaseExclusiveFast(t)
      PROVE  Read
  BY <1>48, <1>0 DEF Types, ReleaseExclusiveFast, Holds, Enter, Goto, locals
<1>49. ASSUME TryWakeRead(t)
      PROVE  Read
  BY <1>49, <1>0 DEF Types, TryWakeRead, ReadLock, Goto
<1>50. ASSUME TryWake(t)
      PROVE  Read
  BY <1>50, <1>0 DEF Types, TryWake, Exchange, Subroutine, Goto, Acquiring
<1>51. ASSUME TryWakeNot(t)
      PROVE  Read
  BY <1>51, <1>0 DEF Types, TryWakeNot, Return, Goto
<1>52. ASSUME ReleaseExclusiveSlow(t)
      PROVE  Read
  BY <1>52, <1>0 DEF Types, ReleaseExclusiveSlow, Enter, Goto, locals
<1>53. ASSUME ReleaseExclusiveRead(t)
      PROVE  Read
  BY <1>53, <1>0 DEF Types, ReleaseExclusiveRead, Goto, Holds
<1>54. ASSUME ReleaseExclusiveWake(t)
      PROVE  Read
  BY <1>54, <1>0 DEF Types, ReleaseExclusiveWake, Exchange, Subroutine, Goto,
      Acquiring
<1>55. ASSUME ReleaseExclusiveSimple(t)
      PROVE  Read
  BY <1>55, <1>0 DEF Types, ReleaseExclusiveSimple, Exchange, Return, Goto
<1>56. ASSUME ReleaseExclusiveReload(t)
      PROVE  Read
  BY <1>56, <1>0 DEF Types, ReleaseExclusiveReload
<1>57. ASSUME Convert(t)
      PROVE  Read
  BY <1>57, <1>0 DEF Types, Convert, Exchange, Holds, locals
<1>58. ASSUME SharedNextWaiter(t)
      PROVE  Read
  <2>1. CASE old[t].waking
    BY <1>58, <1>0, <2>1 DEF Types, SharedNextWaiter, locals
  <2>2. CASE ~old[t].waking
    BY <1>58, <1>0, <2>2 DEF Types, SharedNextWaiter, Subroutine, Exchange
  <2> QED  BY <2>1, <2>2
<1>59. ASSUME ExclusiveNextWaiter(t)
      PROVE  Read
  <2>1. CASE old[t].waking
    BY <1>59, <1>0, <2>1 DEF Types, ExclusiveNextWaiter, locals
  <2>2. CASE ~old[t].waking
    BY <1>59, <1>0, <2>2 DEF Types, ExclusiveNextWaiter, Subroutine, Exchange
  <2> QED  BY <2>1, <2>2
<1> HIDE DEF Read
 <1>q. Read
  BY <1>1, <1>2, <1>3, <1>4, <1>5, <1>6, <1>7, <1>8, <1>9, <1>10, <1>11, <1>12,
      <1>13, <1>14, <1>15, <1>16, <1>17, <1>18, <1>19, <1>20, <1>21, <1>22,
      <1>23, <1>24, <1>25, <1>26, <1>27, <1>28, <1>29, <1>30, <1>31, <1>32,
      <1>33, <1>34, <1>35, <1>36, <1>37, <1>38, <1>39, <1>40, <1>41, <1>42,
      <1>43, <1>44, <1>45, <1>46, <1>47, <1>48, <1>49, <1>50, <1>51, <1>52,
      <1>53, <1>54, <1>55, <1>56, <1>57, <1>58, <1>59 DEF Step, BeginAcquire,
      BeginRelease, InCall, InAcquire, InOptimize, InWake, InRelease
<1> QED  BY <1>q, <1>u DEF Read

\* The share count of a block is at most the number of threads.
LEMMA CountBounded ==
    ASSUME NEW q, NEW b, IInv(q, b), NEW t \in Threads, Step(t)
    PROVE  \A u \in Threads : blk'[u].shareCount <= Cardinality(Threads)
<1>0. Types /\ Types' /\ Bounded
  BY TypesStep DEF IInv
<1>n. Cardinality(Threads) \in Nat
  BY ThreadsFinite, FS_CardinalityType
<1>b. \A u \in Threads : /\ blk[u].shareCount \in Nat
                         /\ blk[u].shareCount <= Cardinality(Threads)
                         /\ old[u].shared <= Cardinality(Threads)
  BY <1>0 DEF Types, WideBlock, Bounded
<1>1. ASSUME AcquireExclusiveFast(t)
          \/ (\E c \in Calls : AcquireExclusiveSlow(t, c)) \/ ExclusiveRead(t)
          \/ AcquireSharedFast(t) \/ AcquireSharedSlow(t) \/ SharedRead(t)
          \/ InitGate(t) \/ GateWait(t) \/ OptimizeUnlocked(t)
          \/ OptimizeStart(t) \/ OptimizeDone(t) \/ OptimizeRetry(t)
          \/ WakeNotNow(t) \/ WakeReload(t) \/ WakeStart(t) \/ WakeFound(t)
          \/ WakeAll(t) \/ WakeAllRetry(t) \/ WakeClear(t) \/ SetGate(t)
          \/ ReleaseSharedFast(t) \/ ReleaseSharedSlow(t) \/ ReleaseEnter(t)
          \/ ReleaseNoWaiter(t, "relFast") \/ ReleaseNoWaiter(t, "relTry")
          \/ ReleaseFastFails(t) \/ ReleaseRead(t) \/ ReleaseReload(t)
          \/ ReleaseFindCount(t) \/ ReleaseNoCount(t) \/ ReleaseWalkOn(t)
          \/ ReleaseFound(t) \/ ReleaseUnlock(t) \/ ReleaseUnlockFails(t)
          \/ ReleaseExclusiveFast(t) \/ TryWakeRead(t) \/ TryWake(t)
          \/ TryWakeNot(t) \/ ReleaseExclusiveSlow(t)
          \/ ReleaseExclusiveRead(t) \/ ReleaseExclusiveWake(t)
          \/ ReleaseExclusiveSimple(t) \/ ReleaseExclusiveReload(t)
          \/ Convert(t)
      PROVE  blk' = blk
  BY <1>1 DEF AcquireExclusiveFast, Holds, locals, AcquireExclusiveSlow, Enter,
      Goto, ExclusiveRead, ReadLock, AcquireSharedFast, Exchange, Locked,
      AcquireSharedSlow, SharedRead, InitGate, GateWait, Again,
      OptimizeUnlocked, OptimizeStart, OptimizeDone, SubroutineReturns, Return,
      Acquiring, OptimizeRetry, WakeNotNow, WakeReload, WakeStart, WakeFound,
      WakeAll, WakeAllRetry, WakeClear, SetGate, SignalNext, ReleaseSharedFast,
      ReleaseSharedSlow, ReleaseEnter, ReleaseNoWaiter, Dropped,
      ReleaseFastFails, ReleaseRead, ReleaseReload, ReleaseFindCount,
      ReleaseNoCount, ReleaseWalkOn, ReleaseFound, ReleaseUnlock, Subroutine,
      ReleaseUnlockFails, vars, ReleaseExclusiveFast, TryWakeRead, TryWake,
      Wakeable, TryWakeNot, ReleaseExclusiveSlow, ReleaseExclusiveRead,
      ReleaseExclusiveWake, ReleaseExclusiveSimple, ReleaseExclusiveReload,
      Convert
<1> DEFINE Kept == \A u \in Threads : blk'[u].shareCount \in {blk[u].shareCount, 0, old[t].shared}
<1>2. ASSUME ExclusiveTake(t)
      PROVE  Kept
  BY <1>2, <1>0 DEF Types, WideBlock, ExclusiveTake, Return, Goto, Holds,
      FrameGone, locals, Free, NewBlock
<1>3. ASSUME ExclusiveRetry(t)
      PROVE  Kept
  BY <1>3, <1>0 DEF Types, WideBlock, ExclusiveRetry, Goto, FrameGone, Free,
      NewBlock
<1>4. ASSUME ExclusiveFirstWaiter(t)
      PROVE  Kept
  BY <1>4, <1>0 DEF Types, WideBlock, ExclusiveFirstWaiter, Locked, Free,
      NewBlock, Goto, locals
<1>5. ASSUME ExclusiveNextWaiter(t)
      PROVE  Kept
  BY <1>5, <1>0 DEF Types, WideBlock, ExclusiveNextWaiter, NewBlock, Goto,
      Subroutine, Acquiring, locals, Free
<1>6. ASSUME SharedTake(t)
      PROVE  Kept
  BY <1>6, <1>0 DEF Types, WideBlock, SharedTake, Locked, Free, Return, Goto,
      Holds, FrameGone, NewBlock
<1>7. ASSUME SharedRetry(t)
      PROVE  Kept
  BY <1>7, <1>0 DEF Types, WideBlock, SharedRetry, Goto, FrameGone, Free,
      NewBlock
<1>8. ASSUME SharedFirstWaiter(t)
      PROVE  Kept
  BY <1>8, <1>0 DEF Types, WideBlock, SharedFirstWaiter, NewBlock, Goto, locals
<1>9. ASSUME SharedNextWaiter(t)
      PROVE  Kept
  BY <1>9, <1>0 DEF Types, WideBlock, SharedNextWaiter, NewBlock, Goto,
      Subroutine, Acquiring, locals, Free
<1>10. ASSUME TestWait(t)
      PROVE  Kept
  BY <1>10, <1>0 DEF Types, WideBlock, TestWait, Goto, Again, locals
<1>11. ASSUME WalkOn(t, "optWalk") \/ WalkOn(t, "wakeWalk")
      PROVE  Kept
  BY <1>11, <1>0 DEF Types, WideBlock, WalkOn
<1>12. ASSUME OptimizeFound(t)
      PROVE  Kept
  BY <1>12, <1>0 DEF Types, WideBlock, OptimizeFound, Goto, locals
<1>13. ASSUME WakeUnlink(t)
      PROVE  Kept
  BY <1>13, <1>0 DEF Types, WideBlock, WakeUnlink, Goto, WakeOneOnly, locals
<1>14. ASSUME SignalSpinner(t)
      PROVE  Kept
  BY <1>14, <1>0 DEF Types, WideBlock, SignalSpinner, SignalNext,
      SubroutineReturns, Return, Goto, Acquiring, Free
<1>15. ASSUME SignalWaiter(t)
      PROVE  Kept
  BY <1>15, <1>0 DEF Types, WideBlock, SignalWaiter, Goto
<1>k. Kept => \A u \in Threads : blk'[u].shareCount <= Cardinality(Threads)
  BY <1>b, <1>n
<1>c. ASSUME ReleaseCounted(t) \/ ReleaseCountedLast(t)
      PROVE  \A u \in Threads : blk'[u].shareCount <= Cardinality(Threads)
  <2>1. /\ \A u \in Threads : u # q[1] => blk'[u] = blk[u]
        /\ blk'[q[1]].shareCount = blk[q[1]].shareCount - 1
        /\ q[1] \in Threads
    BY <1>c, CountedBlock
  <2>2. blk'[q[1]].shareCount <= Cardinality(Threads)
    BY <1>b, <1>n, <2>1
  <2> QED  BY <1>b, <2>1, <2>2
<1> HIDE DEF Kept
<1> QED
  BY <1>b, <1>k, <1>c, <1>1, <1>2, <1>3, <1>4, <1>5, <1>6, <1>7, <1>8, <1>9,
      <1>10, <1>11, <1>12, <1>13, <1>14, <1>15 DEF Step, BeginAcquire,
      BeginRelease, InCall, InAcquire, InOptimize, InWake, InRelease


\* A steady step keeps the number of holders equal to what the lock says.
LEMMA CountedStep ==
    ASSUME NEW q, NEW b, IInv(q, b), NEW t \in Threads, Steady(t)
    PROVE  Counted(q)'
<1>0. /\ Types /\ Types' /\ Step(t) /\ Control(t) /\ Counted(q) /\ Several(q)
      /\ lock \in Wide /\ lock' \in Wide /\ old[t] \in Wide /\ cur[t] \in Wide
      /\ Word(lock) /\ Word(lock')
  BY TypesStep, LockWord DEF IInv, Steady, Controls, Words, Types
<1>e. \A u \in Threads : hold'[u] = "exclusive" \/ pc'[u] = "rxTry" =>
              ~lock'.multi /\ lock'.shared = 0
  BY <1>0, ExclusivesStep
<1>z. q \in Seq(Threads) /\ Len(q) \in Nat
  BY DEF IInv, Shape
<1>w. lock.multi => Len(q) > 0 /\ q[1] \in Threads
  BY <1>0, <1>z DEF Word, IInv, Shape
<1>c. /\ Cardinality(Holders) = Held(q)
      /\ Cardinality(Holders) \in Nat
  BY <1>0, HoldersCounted DEF Counted
<1>o. ~lock.locked => ~lock.multi /\ lock.shared = 0 /\ Held(q) = 0
  BY <1>0 DEF Word, Held, Wide
<1>m. ASSUME ~ReleaseUnlock(t), ~ReleaseCounted(t), ~ReleaseCountedLast(t), lock.multi
      PROVE  lock'.multi /\ blk'[q[1]].shareCount = blk[q[1]].shareCount
  <2>1. lock'.multi
    BY <1>m, MultiKept
  <2>2. q[1] # t \/ Parked(t)
    BY <1>m, <1>w, <1>z, NotListed
  <2> QED  BY <1>m, <1>w, <2>1, <2>2, CountsKept
<1> DEFINE Joins == \/ AcquireExclusiveFast(t) \/ ExclusiveTake(t)
                    \/ AcquireSharedFast(t) \/ SharedTake(t)
           Leaves == \/ ReleaseSharedFast(t) \/ ReleaseNoWaiter(t, "relFast")
                     \/ ReleaseNoWaiter(t, "relTry") \/ ReleaseCounted(t)
                     \/ ReleaseUnlock(t) \/ ReleaseExclusiveFast(t)
                     \/ ReleaseExclusiveWake(t) \/ ReleaseExclusiveSimple(t)
<1>1. ASSUME Joins
      PROVE  Held(q)' = Held(q) + 1
  <2>1. CASE AcquireExclusiveFast(t)
    <3>1. ~lock.locked /\ lock' = [lock EXCEPT !.locked = TRUE]
      BY <2>1 DEF AcquireExclusiveFast
    <3>2. lock'.locked /\ ~lock'.multi /\ lock'.shared = 0
      BY <1>0, <1>o, <3>1 DEF Wide
    <3> QED  BY <1>o, <3>1, <3>2 DEF Held, AtLeastOne
  <2>2. CASE ExclusiveTake(t)
    <3>1. ~lock.locked /\ lock' = [lock EXCEPT !.locked = TRUE]
      BY <2>2 DEF ExclusiveTake, Exchange
    <3>2. lock'.locked /\ ~lock'.multi /\ lock'.shared = 0
      BY <1>0, <1>o, <3>1 DEF Wide
    <3> QED  BY <1>o, <3>1, <3>2 DEF Held, AtLeastOne
  <2>3. CASE AcquireSharedFast(t)
    <3>1. ~lock.locked /\ lock'.locked /\ ~lock'.multi /\ lock'.shared = 1
      BY <2>3 DEF AcquireSharedFast, Exchange, Free, Locked
    <3> QED  BY <1>o, <3>1 DEF Held, AtLeastOne
  <2>4. CASE SharedTake(t)
    <3>1. \/ /\ lock.waiting /\ ~lock.locked
             /\ lock' = [lock EXCEPT !.locked = TRUE]
          \/ /\ ~lock.waiting /\ (~lock.locked \/ lock.shared > 0)
             /\ lock' = Locked(lock.shared + 1)
      BY <1>0, <2>4, SharedTakeEffect
    <3>2. CASE lock.waiting
      <4>1. lock'.locked /\ ~lock'.multi /\ lock'.shared = 0
        BY <1>0, <1>o, <3>1, <3>2 DEF Wide
      <4> QED  BY <1>o, <3>1, <3>2, <4>1 DEF Held, AtLeastOne
    <3>3. CASE ~lock.waiting
      <4>1. lock'.locked /\ ~lock'.multi /\ lock'.shared = lock.shared + 1
        BY <3>1, <3>3 DEF Locked, Free
      <4>2. lock.shared \in Nat /\ ~lock.multi
        BY <1>0, <3>3 DEF Wide, Word
      <4>3. Held(q)' = lock.shared + 1
        BY <4>1, <4>2 DEF Held, AtLeastOne
      <4>4. Held(q) = lock.shared
        BY <1>o, <3>1, <3>3, <4>2 DEF Held, AtLeastOne
      <4> QED  BY <4>3, <4>4
    <3> QED  BY <3>2, <3>3
  <2> QED  BY <1>1, <2>1, <2>2, <2>3, <2>4
<1>2. ASSUME Leaves
      PROVE  Held(q)' = Held(q) - 1
  <2>0. t \in Holders
    BY <1>2, HoldersLeave
  <2>l. lock.locked
    BY <2>0, HoldersLock
  <2>1. CASE ReleaseSharedFast(t)
    <3>1. lock.locked /\ ~lock.multi /\ lock.shared = 1 /\ ~lock'.locked
      BY <2>1 DEF ReleaseSharedFast, Exchange, Free, Locked
    <3> QED  BY <3>1 DEF Held, AtLeastOne
  <2>2. CASE ReleaseNoWaiter(t, "relFast") \/ ReleaseNoWaiter(t, "relTry")
    <3>1. /\ ~lock.waiting
          /\ \/ lock.shared > 1 /\ lock' = Locked(lock.shared - 1)
             \/ ~(lock.shared > 1) /\ lock' = Free
      BY <1>0, <2>2, ReleaseNoWaiterEffect
    <3>2. lock.shared \in Nat /\ ~lock.multi
      BY <1>0, <3>1 DEF Wide, Word
    <3>3. CASE lock.shared > 1
      <4>1. lock'.locked /\ ~lock'.multi /\ lock'.shared = lock.shared - 1
        BY <3>1, <3>3 DEF Locked, Free
      <4>2. Held(q) = lock.shared
        BY <2>l, <3>2, <3>3 DEF Held, AtLeastOne
      <4>3. Held(q)' = lock.shared - 1
        BY <4>1, <3>2, <3>3 DEF Held, AtLeastOne
      <4> QED  BY <4>2, <4>3
    <3>4. CASE ~(lock.shared > 1)
      <4>1. ~lock'.locked
        BY <3>1, <3>4 DEF Free
      <4>2. Held(q) = 1
        BY <2>l, <3>2, <3>4 DEF Held, AtLeastOne
      <4>3. Held(q)' = 0
        BY <4>1 DEF Held
      <4> QED  BY <4>2, <4>3
    <3> QED  BY <3>3, <3>4
  <2>3. CASE ReleaseCounted(t)
    <3>1. /\ lock.multi /\ lock' = lock /\ blk[q[1]].shareCount \in Nat \ {0}
          /\ blk'[q[1]].shareCount = blk[q[1]].shareCount - 1
          /\ blk[q[1]].shareCount > 1
      BY <2>3, CountedBlock
    <3>2. Held(q) = blk[q[1]].shareCount
      BY <2>l, <3>1 DEF Held, AtLeastOne
    <3>3. Held(q)' = blk[q[1]].shareCount - 1
      BY <2>l, <3>1 DEF Held, AtLeastOne
    <3> QED  BY <3>2, <3>3
  <2>4. CASE ReleaseUnlock(t)
    <3>1. pc[t] = "relUnlock" /\ ~lock'.locked /\ lock = old[t]
      BY <1>0, <2>4, ReleaseUnlockEffect
    <3>2. lock.waiting
      BY <1>0, <3>1 DEF Control
    <3>3. Held(q) = 1
      BY <3>1, <3>2, UnlocksAlone
    <3>4. Held(q)' = 0
      BY <3>1 DEF Held
    <3> QED  BY <3>3, <3>4
  <2>5. CASE ReleaseExclusiveFast(t) \/ ReleaseExclusiveWake(t) \/ ReleaseExclusiveSimple(t)
    <3>1. hold[t] = "exclusive" \/ pc[t] = "rxTry"
      BY <2>5 DEF ReleaseExclusiveFast, ReleaseExclusiveWake, ReleaseExclusiveSimple, Subroutine, Return, Goto
    <3>2. ~lock.multi /\ lock.shared = 0
      BY <3>1, ExclusiveWord
    <3>3. ~lock'.locked
      BY <1>0, <2>5 DEF ReleaseExclusiveFast, ReleaseExclusiveWake, ReleaseExclusiveSimple, Exchange, Wide
    <3>4. Held(q) = 1
      BY <2>l, <3>2 DEF Held, AtLeastOne
    <3>5. Held(q)' = 0
      BY <3>3 DEF Held
    <3> QED  BY <3>4, <3>5
  <2> QED  BY <1>2, <2>1, <2>2, <2>3, <2>4, <2>5
<1>3. ASSUME ~Joins, ~Leaves
      PROVE  Held(q)' = Held(q)
  <2>1. CASE ReleaseCountedLast(t)
    <3>1. /\ lock.multi /\ lock' = lock /\ blk[q[1]].shareCount \in Nat \ {0}
          /\ blk'[q[1]].shareCount = blk[q[1]].shareCount - 1
          /\ ~(blk[q[1]].shareCount > 1)
      BY <1>3, <2>1, CountedBlock
    <3>2. blk[q[1]].shareCount = 1 /\ blk'[q[1]].shareCount = 0
      BY <3>1
    <3> QED  BY <3>1, <3>2 DEF Held, AtLeastOne
  <2>2. CASE Convert(t)
    <3>1. /\ lock.locked /\ ~lock.multi /\ lock.shared = 1
          /\ lock'.locked /\ ~lock'.multi /\ lock'.shared = 0
      BY <2>2 DEF Convert, Exchange, Locked, Free
    <3> QED  BY <3>1 DEF Held, AtLeastOne
  <2>3. CASE ~ReleaseCountedLast(t) /\ ~Convert(t)
    <3>1. lock'.locked = lock.locked /\ lock'.shared = lock.shared
      BY <1>0, <1>3, <2>3, WordKept
    <3>2. lock'.multi = lock.multi
      BY <1>3, MultiKept
    <3>3. lock.multi => blk'[q[1]].shareCount = blk[q[1]].shareCount
      BY <1>3, <1>m, <2>3
    <3> QED  BY <3>1, <3>2, <3>3 DEF Held
  <2> QED  BY <2>1, <2>2, <2>3
<1>4. Cardinality(Holders') = Held(q)'
  <2>1. CASE Joins
    <3>1. Cardinality(Holders') = Cardinality(Holders) + 1
      BY <2>1, HoldersJoin
    <3> QED  BY <1>1, <1>c, <2>1, <3>1
  <2>2. CASE Leaves
    <3>1. Cardinality(Holders') = Cardinality(Holders) - 1
      BY <2>2, HoldersLeave
    <3> QED  BY <1>2, <1>c, <2>2, <3>1
  <2>3. CASE ~Joins /\ ~Leaves
    <3>1. Holders' = Holders
      BY <1>0, <2>3, HoldersStay
    <3> QED  BY <1>3, <1>c, <2>3, <3>1
  <2> QED  BY <2>1, <2>2, <2>3
<1> QED  BY <1>4, <1>e DEF Counted

\* The word holds no more readers than there are threads.
LEMMA BoundedStep ==
    ASSUME NEW q, NEW b, IInv(q, b), NEW t \in Threads, Step(t), NEW r, Counted(r)'
    PROVE  Bounded'
<1>0. Types /\ Types' /\ Bounded /\ Word(lock') /\ lock' \in Wide
  BY TypesStep, LockWord DEF IInv, Types
<1>n. Cardinality(Threads) \in Nat
  BY ThreadsFinite, FS_CardinalityType
<1>1. lock'.shared <= Cardinality(Threads)
  <2>1. Holders' \in SUBSET Threads
    BY DEF Holders
  <2>2. Cardinality(Holders') \in Nat /\ Cardinality(Holders') <= Cardinality(Threads)
    BY <2>1, ThreadSets
  <2>3. lock'.shared \in Nat
    BY <1>0 DEF Wide
  <2>4. CASE lock'.shared = 0
    BY <1>n, <2>4
  <2>5. CASE lock'.shared # 0
    <3>1. lock'.shared > 0
      BY <2>3, <2>5
    <3>2. lock'.locked /\ ~lock'.multi
      BY <1>0, <3>1 DEF Word, Wide
    <3>3. Held(r)' = lock'.shared
      BY <3>1, <3>2 DEF Held, AtLeastOne
    <3>4. Cardinality(Holders') = lock'.shared
      BY <3>3 DEF Counted
    <3> QED  BY <2>2, <3>4
  <2> QED  BY <2>4, <2>5
<1>2. lock.shared <= Cardinality(Threads) /\ Free.shared <= Cardinality(Threads) /\ Free.shared = 0
  BY <1>0, <1>n DEF Bounded, Free
<1>3. \A u \in Threads : old'[u] \in {old[u], lock, Free} /\ cur'[u] \in {cur[u], lock, lock', Free}
  BY ValuesRead
<1>4. \A u \in Threads : old'[u].shared <= Cardinality(Threads) /\ cur'[u].shared <= Cardinality(Threads)
  BY <1>0, <1>1, <1>2, <1>3 DEF Bounded
<1>5. \A u \in Threads : blk'[u].shareCount <= Cardinality(Threads)
  BY <1>0, <1>n, CountBounded
<1> QED  BY <1>1, <1>4, <1>5 DEF Bounded


-----------------------------------------------------------------------------
(* Waiters and the threads that signal them. *)

\* Only who was signaled leaves its block.
LEMMA ParkedMoves ==
    ASSUME NEW q, NEW b, IInv(q, b), NEW t \in Threads, Steady(t)
    PROVE  \/ ~Parked(t) /\ ~Parked(t)'
           \/ Parked(t) /\ Parked(t)'
           \/ /\ Parked(t) /\ blk[t].signaled /\ ~Parked(t)'
              /\ pc'[t] \in {"exTry", "shTry"} /\ blk'[t].signaled
<1>0. Types /\ Control(t) /\ Step(t) /\ Types'
  BY TypesStep DEF IInv, Controls, Steady
<1>s. /\ ~ExclusiveFirstWaiter(t) /\ ~ExclusiveNextWaiter(t)
      /\ ~SharedFirstWaiter(t) /\ ~SharedNextWaiter(t)
      /\ ~WakeAll(t) /\ ~WakeUnlink(t)
  BY DEF Steady
<1>g. /\ pc[t] = "testWait" /\ ~blk[t].wait => blk[t].signaled
      /\ pc[t] = "gateWait" /\ gate[t] => blk[t].signaled
  BY DEF IInv, Gates, Parked, WaiterAt
<1> DEFINE Good == \/ ~Parked(t) /\ ~Parked(t)'
                   \/ Parked(t) /\ Parked(t)'
                   \/ /\ Parked(t) /\ blk[t].signaled /\ ~Parked(t)'
                      /\ pc'[t] \in {"exTry", "shTry"} /\ blk'[t].signaled
<1>p. /\ Parked(t) <=> \/ pc[t] \in {"initGate", "testWait", "gateWait"}
                       \/ /\ pc[t] \in {"optimize", "optWalk", "optDone", "wake", "wakeWalk",
                                        "wakeTake", "wakeClear", "signal", "setGate"}
                          /\ call[t] \in {"exclusive", "shared", "waitOn"}
      /\ Parked(t)' <=> \/ pc'[t] \in {"initGate", "testWait", "gateWait"}
                        \/ /\ pc'[t] \in {"optimize", "optWalk", "optDone", "wake", "wakeWalk",
                                          "wakeTake", "wakeClear", "signal", "setGate"}
                           /\ call'[t] \in {"exclusive", "shared", "waitOn"}
  BY DEF Parked, Acquiring, WaiterAt, OptimizerAt, WakerAt, SignalerAt
<1>1. ASSUME AcquireExclusiveFast(t)
      PROVE  Good
  BY <1>1, <1>0, <1>p DEF Types, Control, Acquiring, Releasing,
      AcquireExclusiveFast, Holds, locals
<1>2. ASSUME \E c \in Calls : AcquireExclusiveSlow(t, c)
      PROVE  Good
  BY <1>2, <1>0, <1>p DEF Types, Control, Acquiring, Releasing,
      AcquireExclusiveSlow, Enter, Goto, locals
<1>3. ASSUME ExclusiveRead(t)
      PROVE  Good
  BY <1>3, <1>0, <1>p DEF Types, Control, Acquiring, Releasing, ExclusiveRead,
      ReadLock, Goto
<1>4. ASSUME ExclusiveTake(t)
      PROVE  Good
  BY <1>4, <1>0, <1>p DEF Types, Control, Acquiring, Releasing, ExclusiveTake,
      Return, Goto, Holds, locals
<1>5. ASSUME ExclusiveRetry(t)
      PROVE  Good
  BY <1>5, <1>0, <1>p DEF Types, Control, Acquiring, Releasing, ExclusiveRetry,
      Goto
<1>6. ASSUME AcquireSharedFast(t)
      PROVE  Good
  BY <1>6, <1>0, <1>p DEF Types, Control, Acquiring, Releasing,
      AcquireSharedFast, Holds, locals
<1>7. ASSUME AcquireSharedSlow(t)
      PROVE  Good
  BY <1>7, <1>0, <1>p DEF Types, Control, Acquiring, Releasing,
      AcquireSharedSlow, Enter, Goto, locals
<1>8. ASSUME SharedRead(t)
      PROVE  Good
  BY <1>8, <1>0, <1>p DEF Types, Control, Acquiring, Releasing, SharedRead,
      ReadLock, Goto
<1>9. ASSUME SharedRetry(t)
      PROVE  Good
  BY <1>9, <1>0, <1>p DEF Types, Control, Acquiring, Releasing, SharedRetry,
      Goto
<1>10. ASSUME InitGate(t)
      PROVE  Good
  BY <1>10, <1>0, <1>p DEF Types, Control, Acquiring, Releasing, InitGate,
      Goto, locals
<1>11. ASSUME OptimizeUnlocked(t)
      PROVE  Good
  BY <1>11, <1>0, <1>p DEF Types, Control, Acquiring, Releasing,
      OptimizeUnlocked, Goto, locals
<1>12. ASSUME OptimizeStart(t)
      PROVE  Good
  BY <1>12, <1>0, <1>p DEF Types, Control, Acquiring, Releasing, OptimizeStart,
      Goto
<1>13. ASSUME WalkOn(t, "optWalk") \/ WalkOn(t, "wakeWalk")
      PROVE  Good
  BY <1>13, <1>0, <1>p DEF Types, Control, Acquiring, Releasing, WalkOn
<1>14. ASSUME OptimizeFound(t)
      PROVE  Good
  BY <1>14, <1>0, <1>p DEF Types, Control, Acquiring, Releasing, OptimizeFound,
      Goto, locals
<1>15. ASSUME OptimizeRetry(t)
      PROVE  Good
  BY <1>15, <1>0, <1>p DEF Types, Control, Acquiring, Releasing, OptimizeRetry,
      Goto
<1>16. ASSUME WakeReload(t)
      PROVE  Good
  BY <1>16, <1>0, <1>p DEF Types, Control, Acquiring, Releasing, WakeReload
<1>17. ASSUME WakeStart(t)
      PROVE  Good
  BY <1>17, <1>0, <1>p DEF Types, Control, Acquiring, Releasing, WakeStart,
      Goto
<1>18. ASSUME WakeFound(t)
      PROVE  Good
  BY <1>18, <1>0, <1>p DEF Types, Control, Acquiring, Releasing, WakeFound,
      Goto
<1>19. ASSUME WakeAllRetry(t)
      PROVE  Good
  BY <1>19, <1>0, <1>p DEF Types, Control, Acquiring, Releasing, WakeAllRetry,
      Goto
<1>20. ASSUME WakeClear(t)
      PROVE  Good
  BY <1>20, <1>0, <1>p DEF Types, Control, Acquiring, Releasing, WakeClear,
      Goto
<1>21. ASSUME SignalWaiter(t)
      PROVE  Good
  BY <1>21, <1>0, <1>p DEF Types, Control, Acquiring, Releasing, SignalWaiter,
      Goto
<1>22. ASSUME ReleaseSharedFast(t)
      PROVE  Good
  BY <1>22, <1>0, <1>p DEF Types, Control, Acquiring, Releasing,
      ReleaseSharedFast, Holds, locals
<1>23. ASSUME ReleaseSharedSlow(t)
      PROVE  Good
  BY <1>23, <1>0, <1>p DEF Types, Control, Acquiring, Releasing,
      ReleaseSharedSlow, Enter, Goto, Holds, locals
<1>24. ASSUME ReleaseEnter(t)
      PROVE  Good
  BY <1>24, <1>0, <1>p DEF Types, Control, Acquiring, Releasing, ReleaseEnter,
      Enter, Goto, Holds
<1>25. ASSUME ReleaseFastFails(t)
      PROVE  Good
  BY <1>25, <1>0, <1>p DEF Types, Control, Acquiring, Releasing,
      ReleaseFastFails, Goto
<1>26. ASSUME ReleaseRead(t)
      PROVE  Good
  BY <1>26, <1>0, <1>p DEF Types, Control, Acquiring, Releasing, ReleaseRead,
      ReadLock, Goto
<1>27. ASSUME ReleaseReload(t)
      PROVE  Good
  BY <1>27, <1>0, <1>p DEF Types, Control, Acquiring, Releasing, ReleaseReload
<1>28. ASSUME ReleaseFindCount(t)
      PROVE  Good
  BY <1>28, <1>0, <1>p DEF Types, Control, Acquiring, Releasing,
      ReleaseFindCount, Goto
<1>29. ASSUME ReleaseNoCount(t)
      PROVE  Good
  BY <1>29, <1>0, <1>p DEF Types, Control, Acquiring, Releasing,
      ReleaseNoCount, Goto, locals
<1>30. ASSUME ReleaseWalkOn(t)
      PROVE  Good
  BY <1>30, <1>0, <1>p DEF Types, Control, Acquiring, Releasing, ReleaseWalkOn
<1>31. ASSUME ReleaseFound(t)
      PROVE  Good
  BY <1>31, <1>0, <1>p DEF Types, Control, Acquiring, Releasing, ReleaseFound,
      Goto
<1>32. ASSUME ReleaseCounted(t)
      PROVE  Good
  BY <1>32, <1>0, <1>p DEF Types, Control, Acquiring, Releasing,
      ReleaseCounted, Return, Goto
<1>33. ASSUME ReleaseCountedLast(t)
      PROVE  Good
  BY <1>33, <1>0, <1>p DEF Types, Control, Acquiring, Releasing,
      ReleaseCountedLast, Goto
<1>34. ASSUME ReleaseUnlockFails(t)
      PROVE  Good
  BY <1>34, <1>0, <1>p DEF Types, Control, Acquiring, Releasing,
      ReleaseUnlockFails, vars
<1>35. ASSUME ReleaseExclusiveFast(t)
      PROVE  Good
  BY <1>35, <1>0, <1>p DEF Types, Control, Acquiring, Releasing,
      ReleaseExclusiveFast, Holds, Enter, Goto, locals
<1>36. ASSUME TryWakeRead(t)
      PROVE  Good
  BY <1>36, <1>0, <1>p DEF Types, Control, Acquiring, Releasing, TryWakeRead,
      ReadLock, Goto
<1>37. ASSUME TryWake(t)
      PROVE  Good
  BY <1>37, <1>0, <1>p DEF Types, Control, Acquiring, Releasing, TryWake,
      Subroutine, Goto
<1>38. ASSUME TryWakeNot(t)
      PROVE  Good
  BY <1>38, <1>0, <1>p DEF Types, Control, Acquiring, Releasing, TryWakeNot,
      Return, Goto
<1>39. ASSUME ReleaseExclusiveSlow(t)
      PROVE  Good
  BY <1>39, <1>0, <1>p DEF Types, Control, Acquiring, Releasing,
      ReleaseExclusiveSlow, Enter, Goto, locals
<1>40. ASSUME ReleaseExclusiveRead(t)
      PROVE  Good
  BY <1>40, <1>0, <1>p DEF Types, Control, Acquiring, Releasing,
      ReleaseExclusiveRead, Goto, Holds
<1>41. ASSUME ReleaseExclusiveWake(t)
      PROVE  Good
  BY <1>41, <1>0, <1>p DEF Types, Control, Acquiring, Releasing,
      ReleaseExclusiveWake, Subroutine, Goto
<1>42. ASSUME ReleaseExclusiveSimple(t)
      PROVE  Good
  BY <1>42, <1>0, <1>p DEF Types, Control, Acquiring, Releasing,
      ReleaseExclusiveSimple, Return, Goto
<1>43. ASSUME ReleaseExclusiveReload(t)
      PROVE  Good
  BY <1>43, <1>0, <1>p DEF Types, Control, Acquiring, Releasing,
      ReleaseExclusiveReload
<1>44. ASSUME Convert(t)
      PROVE  Good
  BY <1>44, <1>0, <1>p DEF Types, Control, Acquiring, Releasing, Convert,
      Holds, locals
<1>45. ASSUME TestWait(t)
      PROVE  Good
  <2>1. /\ pc[t] = "testWait" /\ call' = call
        /\ IF blk[t].wait THEN pc'[t] = "gateWait" ELSE pc'[t] \in {"exTry", "shTry"}
    BY <1>45, <1>0 DEF TestWait, Goto, Again, Types
  <2>2. blk'[t].signaled <=> blk[t].signaled
    BY <1>45, <1>0 DEF TestWait, Types, WideBlock
  <2> QED  BY <1>g, <1>p, <2>1, <2>2
<1>46. ASSUME GateWait(t)
      PROVE  Good
  <2>1. pc[t] = "gateWait" /\ blk' = blk /\ pc'[t] \in {"exTry", "shTry"} /\ gate[t]
    BY <1>46, <1>0 DEF GateWait, Goto, Again, Types
  <2> QED  BY <1>g, <1>p, <2>1
<1>47. ASSUME OptimizeDone(t)
      PROVE  Good
  BY <1>47, <1>0, <1>p, SubroutineReturnsEffect DEF Types, OptimizeDone, Acquiring
<1>48. ASSUME WakeNotNow(t)
      PROVE  Good
  BY <1>48, <1>0, <1>p, SubroutineReturnsEffect DEF Types, WakeNotNow, Acquiring
<1>49. ASSUME SignalSpinner(t)
      PROVE  Good
  BY <1>49, <1>0, <1>p, SubroutineReturnsEffect DEF Types, SignalSpinner, SignalNext, Goto, Acquiring
<1>50. ASSUME SetGate(t)
      PROVE  Good
  BY <1>50, <1>0, <1>p, SubroutineReturnsEffect DEF Types, SetGate, SignalNext, Goto, Acquiring
<1>51. ASSUME ReleaseNoWaiter(t, "relFast") \/ ReleaseNoWaiter(t, "relTry")
      PROVE  Good
  BY <1>51, <1>0, <1>p, ReleaseNoWaiterEffect DEF Types
<1>52. ASSUME SharedTake(t)
      PROVE  Good
  BY <1>52, <1>0, <1>p, SharedTakeEffect DEF Types
<1>53. ASSUME ReleaseUnlock(t)
      PROVE  Good
  BY <1>53, <1>0, <1>p, ReleaseUnlockEffect DEF Types, Control, Acquiring, Releasing
<1> HIDE DEF Good
 <1>q. Good
  BY <1>0, <1>s, <1>1, <1>2, <1>3, <1>4, <1>5, <1>6, <1>7, <1>8, <1>9, <1>10,
      <1>11, <1>12, <1>13, <1>14, <1>15, <1>16, <1>17, <1>18, <1>19, <1>20,
      <1>21, <1>22, <1>23, <1>24, <1>25, <1>26, <1>27, <1>28, <1>29, <1>30,
      <1>31, <1>32, <1>33, <1>34, <1>35, <1>36, <1>37, <1>38, <1>39, <1>40,
      <1>41, <1>42, <1>43, <1>44, <1>45, <1>46, <1>47, <1>48, <1>49, <1>50,
      <1>51, <1>52, <1>53 DEF Step, BeginAcquire, BeginRelease, InCall,
      InAcquire, InOptimize, InWake, InRelease
<1> QED  BY <1>q DEF Good

\* A step parks and unparks nobody but the thread that takes it.
LEMMA ParkedOthers ==
    ASSUME Types, NEW t \in Threads, Step(t), NEW u \in Threads, u # t
    PROVE  Parked(u)' <=> Parked(u)
<1>1. pc'[u] = pc[u] /\ call'[u] = call[u]
  BY OthersKeep
<1> QED  BY <1>1 DEF Parked, Acquiring

\* The wait and signaled bits of a block change in the wait of its owner, and
\* when it is signaled.
LEMMA FlagsKept ==
    ASSUME NEW q, NEW b, IInv(q, b), NEW t \in Threads, Step(t),
           ~ExclusiveFirstWaiter(t), ~ExclusiveNextWaiter(t),
           ~SharedFirstWaiter(t), ~SharedNextWaiter(t),
           ~SignalSpinner(t), ~SignalWaiter(t), ~TestWait(t)
    PROVE  \A u \in Threads : u # t \/ Parked(t) =>
               /\ (blk'[u].wait <=> blk[u].wait)
               /\ (blk'[u].signaled <=> blk[u].signaled)
<1>0. Types
  BY DEF IInv
<1>1. ASSUME AcquireExclusiveFast(t)
          \/ (\E c \in Calls : AcquireExclusiveSlow(t, c)) \/ ExclusiveRead(t)
          \/ AcquireSharedFast(t) \/ AcquireSharedSlow(t) \/ SharedRead(t)
          \/ InitGate(t) \/ GateWait(t) \/ OptimizeUnlocked(t)
          \/ OptimizeStart(t) \/ OptimizeDone(t) \/ OptimizeRetry(t)
          \/ WakeNotNow(t) \/ WakeReload(t) \/ WakeStart(t) \/ WakeFound(t)
          \/ WakeAll(t) \/ WakeAllRetry(t) \/ WakeClear(t) \/ SetGate(t)
          \/ ReleaseSharedFast(t) \/ ReleaseSharedSlow(t) \/ ReleaseEnter(t)
          \/ ReleaseNoWaiter(t, "relFast") \/ ReleaseNoWaiter(t, "relTry")
          \/ ReleaseFastFails(t) \/ ReleaseRead(t) \/ ReleaseReload(t)
          \/ ReleaseFindCount(t) \/ ReleaseNoCount(t) \/ ReleaseWalkOn(t)
          \/ ReleaseFound(t) \/ ReleaseUnlock(t) \/ ReleaseUnlockFails(t)
          \/ ReleaseExclusiveFast(t) \/ TryWakeRead(t) \/ TryWake(t)
          \/ TryWakeNot(t) \/ ReleaseExclusiveSlow(t)
          \/ ReleaseExclusiveRead(t) \/ ReleaseExclusiveWake(t)
          \/ ReleaseExclusiveSimple(t) \/ ReleaseExclusiveReload(t)
          \/ Convert(t)
      PROVE  blk' = blk
  BY <1>1 DEF AcquireExclusiveFast, Holds, locals, AcquireExclusiveSlow, Enter,
      Goto, ExclusiveRead, ReadLock, AcquireSharedFast, Exchange, Locked,
      AcquireSharedSlow, SharedRead, InitGate, GateWait, Again,
      OptimizeUnlocked, OptimizeStart, OptimizeDone, SubroutineReturns, Return,
      Acquiring, OptimizeRetry, WakeNotNow, WakeReload, WakeStart, WakeFound,
      WakeAll, WakeAllRetry, WakeClear, SetGate, SignalNext, ReleaseSharedFast,
      ReleaseSharedSlow, ReleaseEnter, ReleaseNoWaiter, Dropped,
      ReleaseFastFails, ReleaseRead, ReleaseReload, ReleaseFindCount,
      ReleaseNoCount, ReleaseWalkOn, ReleaseFound, ReleaseUnlock, Subroutine,
      ReleaseUnlockFails, vars, ReleaseExclusiveFast, TryWakeRead, TryWake,
      Wakeable, TryWakeNot, ReleaseExclusiveSlow, ReleaseExclusiveRead,
      ReleaseExclusiveWake, ReleaseExclusiveSimple, ReleaseExclusiveReload,
      Convert
<1>2. CASE ExclusiveTake(t)
  BY <1>2, <1>0 DEF Types, WideBlock, Parked, WaiterAt, SignalerAt,
      OptimizerAt, WakerAt, ExclusiveTake, Exchange, Return, Goto, Holds,
      FrameGone, locals, Free, NewBlock
<1>3. CASE ExclusiveRetry(t)
  BY <1>3, <1>0 DEF Types, WideBlock, Parked, WaiterAt, SignalerAt,
      OptimizerAt, WakerAt, ExclusiveRetry, Goto, FrameGone, Free, NewBlock
<1>4. CASE SharedTake(t)
  BY <1>4, <1>0 DEF Types, WideBlock, Parked, WaiterAt, SignalerAt,
      OptimizerAt, WakerAt, SharedTake, MayShare, Exchange, Locked, Free,
      Return, Goto, Holds, FrameGone, NewBlock
<1>5. CASE SharedRetry(t)
  BY <1>5, <1>0 DEF Types, WideBlock, Parked, WaiterAt, SignalerAt,
      OptimizerAt, WakerAt, SharedRetry, Goto, FrameGone, Free, NewBlock
<1>6. CASE OptimizeFound(t)
  BY <1>6, <1>0 DEF Types, WideBlock, Parked, WaiterAt, SignalerAt,
      OptimizerAt, WakerAt, OptimizeFound, Goto, locals
<1>7. CASE WakeUnlink(t)
  BY <1>7, <1>0 DEF Types, WideBlock, Parked, WaiterAt, SignalerAt,
      OptimizerAt, WakerAt, WakeUnlink, Goto, WakeOneOnly, locals
<1>8. CASE ReleaseCounted(t)
  BY <1>8, <1>0 DEF Types, WideBlock, Parked, WaiterAt, SignalerAt,
      OptimizerAt, WakerAt, ReleaseCounted, Return, Goto, Free
<1>9. CASE ReleaseCountedLast(t)
  BY <1>9, <1>0 DEF Types, WideBlock, Parked, WaiterAt, SignalerAt,
      OptimizerAt, WakerAt, ReleaseCountedLast, Goto
<1>10. CASE WalkOn(t, "optWalk") \/ WalkOn(t, "wakeWalk")
  <2>1. \E x, y : blk' = [blk EXCEPT ![x].prev = y]
    BY <1>10 DEF WalkOn
  <2>2. PICK x, y : blk' = [blk EXCEPT ![x].prev = y]
    BY <2>1
  <2>3. \A u \in Threads : blk'[u].wait = blk[u].wait /\ blk'[u].signaled = blk[u].signaled
    BY <1>0, <2>2 DEF Types, WideBlock
  <2> QED  BY <2>3
<1> QED
  BY <1>0, <1>1, <1>2, <1>3, <1>4, <1>5, <1>6, <1>7, <1>8, <1>9,
      <1>10 DEF Step, BeginAcquire, BeginRelease, InCall, InAcquire,
      InOptimize, InWake, InRelease

\* A waiter clears its wait bit; it goes to the gate if nobody did before.
LEMMA TestWaitFlags ==
    ASSUME Types, NEW t \in Threads, TestWait(t)
    PROVE  /\ \A u \in Threads : /\ (blk'[u].signaled <=> blk[u].signaled)
                                 /\ u # t => (blk'[u].wait <=> blk[u].wait)
           /\ ~blk'[t].wait
           /\ pc[t] = "testWait" /\ Parked(t)
           /\ IF blk[t].wait THEN pc'[t] = "gateWait" ELSE pc'[t] \in {"exTry", "shTry"}
           /\ call' = call /\ gate' = gate /\ wb' = wb /\ lock' = lock
<1>1. blk' = [blk EXCEPT ![t].wait = FALSE]
  BY DEF TestWait
<1>2. /\ pc[t] = "testWait" /\ call' = call /\ gate' = gate /\ wb' = wb /\ lock' = lock
      /\ IF blk[t].wait THEN pc'[t] = "gateWait" ELSE pc'[t] \in {"exTry", "shTry"}
  BY DEF TestWait, Goto, Again, Types, locals
<1>3. /\ \A u \in Threads : /\ (blk'[u].signaled <=> blk[u].signaled)
                            /\ u # t => (blk'[u].wait <=> blk[u].wait)
      /\ ~blk'[t].wait
  BY <1>1 DEF Types, WideBlock
<1> QED  BY <1>2, <1>3 DEF Parked, WaiterAt

\* The first of a batch is signaled.
LEMMA SignalFlags ==
    ASSUME NEW q, NEW b, IInv(q, b), NEW t \in Threads, SignalSpinner(t) \/ SignalWaiter(t)
    PROVE  /\ wb[t] \in Threads /\ b[t] # << >> /\ wb[t] = b[t][1]
           /\ Parked(wb[t]) /\ ~blk[wb[t]].signaled
           /\ blk'[wb[t]].signaled /\ ~blk'[wb[t]].wait
           /\ \A u \in Threads : u # wb[t] => blk'[u] = blk[u]
           /\ \A u \in Threads : blk'[u].prev = blk[u].prev
           /\ pc[t] = "signal" /\ gate' = gate /\ lock' = lock
           /\ SignalSpinner(t) => blk[wb[t]].wait
           /\ SignalWaiter(t) => ~blk[wb[t]].wait /\ pc'[t] = "setGate" /\ wb' = wb
<1>0. Types /\ Batches(q, b) /\ Members(q, b)
  BY DEF IInv
<1>1. pc[t] = "signal" /\ gate' = gate /\ lock' = lock
  BY DEF SignalSpinner, SignalWaiter, Goto
<1>2. wb[t] \in Threads
  BY <1>1, Walkers DEF WalkerAt, SignalerAt
<1>3. b[t] # << >> /\ wb[t] = b[t][1] /\ b[t] \in Seq(Threads)
  BY <1>0, <1>1 DEF Batches
<1>4. On(wb[t], b[t])
  <2>1. 1 \in 1 .. Len(b[t])
    BY <1>3
  <2> QED  BY <1>3, <2>1 DEF On
<1>5. Parked(wb[t]) /\ ~blk[wb[t]].signaled
  BY <1>0, <1>2, <1>4 DEF Members
<1>6. CASE SignalSpinner(t)
  <2>1. blk' = [blk EXCEPT ![wb[t]].wait = FALSE, ![wb[t]].signaled = TRUE] /\ blk[wb[t]].wait
    BY <1>6 DEF SignalSpinner
  <2>2. ~SignalWaiter(t)
    BY <2>1 DEF SignalWaiter
  <2>3. /\ blk'[wb[t]].signaled /\ ~blk'[wb[t]].wait
        /\ \A u \in Threads : u # wb[t] => blk'[u] = blk[u]
        /\ \A u \in Threads : blk'[u].prev = blk[u].prev
    BY <1>0, <1>2, <2>1 DEF Types, WideBlock
  <2> QED  BY <1>1, <1>2, <1>3, <1>5, <2>1, <2>2, <2>3
<1>7. CASE SignalWaiter(t)
  <2>1. /\ blk' = [blk EXCEPT ![wb[t]].signaled = TRUE] /\ ~blk[wb[t]].wait
        /\ pc'[t] = "setGate" /\ wb' = wb
    BY <1>0, <1>7 DEF SignalWaiter, Goto, Types
  <2>2. ~SignalSpinner(t)
    BY <2>1 DEF SignalSpinner
  <2>3. /\ blk'[wb[t]].signaled /\ ~blk'[wb[t]].wait
        /\ \A u \in Threads : u # wb[t] => blk'[u] = blk[u]
        /\ \A u \in Threads : blk'[u].prev = blk[u].prev
    BY <1>0, <1>2, <2>1 DEF Types, WideBlock
  <2> QED  BY <1>1, <1>2, <1>3, <1>5, <2>1, <2>2, <2>3
<1> QED  BY <1>6, <1>7

\* The parked threads that were not signaled stay those on the lists.
LEMMA MembersStep ==
    ASSUME NEW q, NEW b, IInv(q, b), NEW t \in Threads, Steady(t),
           ~SignalSpinner(t), ~SignalWaiter(t)
    PROVE  Members(q, b)'
<1>0. Types /\ Step(t) /\ Members(q, b)
  BY DEF IInv, Steady
<1>1. ASSUME NEW u \in Threads
      PROVE  (Parked(u) /\ ~blk[u].signaled)' <=> (Parked(u) /\ ~blk[u].signaled)
  <2>1. u # t \/ Parked(t) => (blk'[u].signaled <=> blk[u].signaled)
    <3>1. CASE TestWait(t)
      BY <1>0, <3>1, TestWaitFlags
    <3>2. CASE ~TestWait(t)
      BY <1>0, <3>2, FlagsKept DEF Steady
    <3> QED  BY <3>1, <3>2
  <2>2. CASE u = t
    BY <2>1, <2>2, ParkedMoves
  <2>3. CASE u # t
    BY <1>0, <2>1, <2>3, ParkedOthers
  <2> QED  BY <2>2, <2>3
<1> QED  BY <1>0, <1>1 DEF Members, On


\* The steps of a thread that has, or gets, nobody to signal.
LEMMA SignalMoves ==
    ASSUME NEW q, NEW b, IInv(q, b), NEW t \in Threads, Step(t),
           ~WakeAll(t), ~WakeUnlink(t), ~WakeClear(t),
           ~SignalSpinner(t), ~SignalWaiter(t), ~SetGate(t)
    PROVE  /\ pc[t] \notin {"wakeClear", "signal", "setGate"}
           /\ pc'[t] \notin {"wakeClear", "signal", "setGate"}
<1>0. Types /\ Control(t)
  BY DEF IInv, Controls
<1>h. pc[t] # "idle" /\ pc[t] # "rxRead" => hold[t] = "none"
  BY <1>0 DEF Control, Types
<1> DEFINE Out == /\ pc[t] \notin {"wakeClear", "signal", "setGate"}
                  /\ pc'[t] \notin {"wakeClear", "signal", "setGate"}
<1>1. ASSUME AcquireExclusiveFast(t)
      PROVE  Out
  BY <1>1, <1>0 DEF Types, Acquiring, AcquireExclusiveFast, Holds, locals
<1>2. ASSUME \E c \in Calls : AcquireExclusiveSlow(t, c)
      PROVE  Out
  BY <1>2, <1>0 DEF Types, Acquiring, AcquireExclusiveSlow, Enter, Goto, locals
<1>3. ASSUME ExclusiveRead(t)
      PROVE  Out
  BY <1>3, <1>0 DEF Types, Acquiring, ExclusiveRead, ReadLock, Goto
<1>4. ASSUME ExclusiveTake(t)
      PROVE  Out
  BY <1>4, <1>0 DEF Types, Acquiring, ExclusiveTake, Return, Goto, Holds,
      locals
<1>5. ASSUME ExclusiveRetry(t)
      PROVE  Out
  BY <1>5, <1>0 DEF Types, Acquiring, ExclusiveRetry, Goto
<1>6. ASSUME ExclusiveFirstWaiter(t)
      PROVE  Out
  BY <1>6, <1>0 DEF Types, Acquiring, ExclusiveFirstWaiter, Goto, locals
<1>7. ASSUME ExclusiveNextWaiter(t)
      PROVE  Out
  BY <1>7, <1>0 DEF Types, Acquiring, ExclusiveNextWaiter, Goto, Subroutine,
      locals
<1>8. ASSUME AcquireSharedFast(t)
      PROVE  Out
  BY <1>8, <1>0 DEF Types, Acquiring, AcquireSharedFast, Holds, locals
<1>9. ASSUME AcquireSharedSlow(t)
      PROVE  Out
  BY <1>9, <1>0 DEF Types, Acquiring, AcquireSharedSlow, Enter, Goto, locals
<1>10. ASSUME SharedRead(t)
      PROVE  Out
  BY <1>10, <1>0 DEF Types, Acquiring, SharedRead, ReadLock, Goto
<1>11. ASSUME SharedRetry(t)
      PROVE  Out
  BY <1>11, <1>0 DEF Types, Acquiring, SharedRetry, Goto
<1>12. ASSUME SharedFirstWaiter(t)
      PROVE  Out
  BY <1>12, <1>0 DEF Types, Acquiring, SharedFirstWaiter, Goto, locals
<1>13. ASSUME SharedNextWaiter(t)
      PROVE  Out
  BY <1>13, <1>0 DEF Types, Acquiring, SharedNextWaiter, Goto, Subroutine,
      locals
<1>14. ASSUME InitGate(t)
      PROVE  Out
  BY <1>14, <1>0 DEF Types, Acquiring, InitGate, Goto, locals
<1>15. ASSUME TestWait(t)
      PROVE  Out
  BY <1>15, <1>0 DEF Types, Acquiring, TestWait, Goto, Again, locals
<1>16. ASSUME GateWait(t)
      PROVE  Out
  BY <1>16, <1>0 DEF Types, Acquiring, GateWait, Goto, Again, locals
<1>17. ASSUME OptimizeUnlocked(t)
      PROVE  Out
  BY <1>17, <1>0 DEF Types, Acquiring, OptimizeUnlocked, Goto, locals
<1>18. ASSUME OptimizeStart(t)
      PROVE  Out
  BY <1>18, <1>0 DEF Types, Acquiring, OptimizeStart, Goto
<1>19. ASSUME WalkOn(t, "optWalk") \/ WalkOn(t, "wakeWalk")
      PROVE  Out
  BY <1>19, <1>0 DEF Types, Acquiring, WalkOn
<1>20. ASSUME OptimizeFound(t)
      PROVE  Out
  BY <1>20, <1>0 DEF Types, Acquiring, OptimizeFound, Goto, locals
<1>21. ASSUME OptimizeRetry(t)
      PROVE  Out
  BY <1>21, <1>0 DEF Types, Acquiring, OptimizeRetry, Goto
<1>22. ASSUME WakeReload(t)
      PROVE  Out
  BY <1>22, <1>0 DEF Types, Acquiring, WakeReload
<1>23. ASSUME WakeStart(t)
      PROVE  Out
  BY <1>23, <1>0 DEF Types, Acquiring, WakeStart, Goto
<1>24. ASSUME WakeFound(t)
      PROVE  Out
  BY <1>24, <1>0 DEF Types, Acquiring, WakeFound, Goto
<1>25. ASSUME WakeAllRetry(t)
      PROVE  Out
  BY <1>25, <1>0 DEF Types, Acquiring, WakeAllRetry, Goto
<1>26. ASSUME ReleaseSharedFast(t)
      PROVE  Out
  BY <1>26, <1>0 DEF Types, Acquiring, ReleaseSharedFast, Holds, locals
<1>27. ASSUME ReleaseSharedSlow(t)
      PROVE  Out
  BY <1>27, <1>0 DEF Types, Acquiring, ReleaseSharedSlow, Enter, Goto, Holds,
      locals
<1>28. ASSUME ReleaseEnter(t)
      PROVE  Out
  BY <1>28, <1>0 DEF Types, Acquiring, ReleaseEnter, Enter, Goto, Holds
<1>29. ASSUME ReleaseFastFails(t)
      PROVE  Out
  BY <1>29, <1>0 DEF Types, Acquiring, ReleaseFastFails, Goto
<1>30. ASSUME ReleaseRead(t)
      PROVE  Out
  BY <1>30, <1>0 DEF Types, Acquiring, ReleaseRead, ReadLock, Goto
<1>31. ASSUME ReleaseReload(t)
      PROVE  Out
  BY <1>31, <1>0 DEF Types, Acquiring, ReleaseReload
<1>32. ASSUME ReleaseFindCount(t)
      PROVE  Out
  BY <1>32, <1>0 DEF Types, Acquiring, ReleaseFindCount, Goto
<1>33. ASSUME ReleaseNoCount(t)
      PROVE  Out
  BY <1>33, <1>0 DEF Types, Acquiring, ReleaseNoCount, Goto, locals
<1>34. ASSUME ReleaseWalkOn(t)
      PROVE  Out
  BY <1>34, <1>0 DEF Types, Acquiring, ReleaseWalkOn
<1>35. ASSUME ReleaseFound(t)
      PROVE  Out
  BY <1>35, <1>0 DEF Types, Acquiring, ReleaseFound, Goto
<1>36. ASSUME ReleaseCounted(t)
      PROVE  Out
  BY <1>36, <1>0 DEF Types, Acquiring, ReleaseCounted, Return, Goto
<1>37. ASSUME ReleaseCountedLast(t)
      PROVE  Out
  BY <1>37, <1>0 DEF Types, Acquiring, ReleaseCountedLast, Goto
<1>38. ASSUME ReleaseUnlockFails(t)
      PROVE  Out
  BY <1>38, <1>0 DEF Types, Acquiring, ReleaseUnlockFails, vars
<1>39. ASSUME ReleaseExclusiveFast(t)
      PROVE  Out
  BY <1>39, <1>0 DEF Types, Acquiring, ReleaseExclusiveFast, Holds, Enter,
      Goto, locals
<1>40. ASSUME TryWakeRead(t)
      PROVE  Out
  BY <1>40, <1>0 DEF Types, Acquiring, TryWakeRead, ReadLock, Goto
<1>41. ASSUME TryWake(t)
      PROVE  Out
  BY <1>41, <1>0 DEF Types, Acquiring, TryWake, Subroutine, Goto
<1>42. ASSUME TryWakeNot(t)
      PROVE  Out
  BY <1>42, <1>0 DEF Types, Acquiring, TryWakeNot, Return, Goto
<1>43. ASSUME ReleaseExclusiveSlow(t)
      PROVE  Out
  BY <1>43, <1>0 DEF Types, Acquiring, ReleaseExclusiveSlow, Enter, Goto,
      locals
<1>44. ASSUME ReleaseExclusiveRead(t)
      PROVE  Out
  BY <1>44, <1>0 DEF Types, Acquiring, ReleaseExclusiveRead, Goto, Holds
<1>45. ASSUME ReleaseExclusiveWake(t)
      PROVE  Out
  BY <1>45, <1>0 DEF Types, Acquiring, ReleaseExclusiveWake, Subroutine, Goto
<1>46. ASSUME ReleaseExclusiveSimple(t)
      PROVE  Out
  BY <1>46, <1>0 DEF Types, Acquiring, ReleaseExclusiveSimple, Return, Goto
<1>47. ASSUME ReleaseExclusiveReload(t)
      PROVE  Out
  BY <1>47, <1>0 DEF Types, Acquiring, ReleaseExclusiveReload
<1>48. ASSUME Convert(t)
      PROVE  Out
  BY <1>48, <1>0 DEF Types, Acquiring, Convert, Holds, locals
<1>49. ASSUME OptimizeDone(t)
      PROVE  Out
  BY <1>49, <1>0, SubroutineReturnsEffect DEF Types, OptimizeDone
<1>50. ASSUME WakeNotNow(t)
      PROVE  Out
  BY <1>50, <1>0, SubroutineReturnsEffect DEF Types, WakeNotNow
<1>51. ASSUME ReleaseNoWaiter(t, "relFast") \/ ReleaseNoWaiter(t, "relTry")
      PROVE  Out
  BY <1>51, <1>0, ReleaseNoWaiterEffect DEF Types
<1>52. ASSUME SharedTake(t)
      PROVE  Out
  BY <1>52, <1>0, SharedTakeEffect DEF Types
<1>53. ASSUME ReleaseUnlock(t)
      PROVE  Out
  BY <1>53, <1>0, ReleaseUnlockEffect DEF Types
<1> HIDE DEF Out
 <1>q. Out
  BY <1>1, <1>2, <1>3, <1>4, <1>5, <1>6, <1>7, <1>8, <1>9, <1>10, <1>11, <1>12,
      <1>13, <1>14, <1>15, <1>16, <1>17, <1>18, <1>19, <1>20, <1>21, <1>22,
      <1>23, <1>24, <1>25, <1>26, <1>27, <1>28, <1>29, <1>30, <1>31, <1>32,
      <1>33, <1>34, <1>35, <1>36, <1>37, <1>38, <1>39, <1>40, <1>41, <1>42,
      <1>43, <1>44, <1>45, <1>46, <1>47, <1>48, <1>49, <1>50, <1>51, <1>52,
      <1>53 DEF Step, BeginAcquire, BeginRelease, InCall, InAcquire,
      InOptimize, InWake, InRelease
<1> QED  BY <1>q DEF Out

\* Who is to be signaled keeps its link to the next one.
LEMMA BatchLinks ==
    ASSUME NEW q, NEW b, IInv(q, b), NEW t \in Threads, Steady(t),
           NEW v \in Threads, NEW i \in 1 .. Len(b[v])
    PROVE  blk'[b[v][i]].prev = blk[b[v][i]].prev
<1>0. Types /\ Step(t) /\ Shape(q)
  BY DEF IInv, Steady
<1>1. b[v] \in Seq(Threads)
  BY DEF IInv, Batches
<1>2. b[v][i] \in Threads /\ On(b[v][i], b[v])
  BY <1>1 DEF On
<1>3. ~On(b[v][i], q)
  BY <1>2 DEF IInv, Batches
<1>4. CASE WalkOn(t, "optWalk") \/ WalkOn(t, "wakeWalk")
  <2>1. pc[t] \in {"optWalk", "wakeWalk"} /\ blk[wb[t]].last = NULL
    BY <1>4 DEF WalkOn
  <2>2. PICK m \in 2 .. Len(q) : q[m] = wb[t] /\ q[m - 1] = blk[wb[t]].next
    BY <2>1, WalksOn
  <2>3. blk' = [blk EXCEPT ![q[m - 1]].prev = q[m]]
    BY <1>4, <2>2 DEF WalkOn
  <2>4. m - 1 \in 1 .. Len(q)
    BY <1>0 DEF Shape
  <2>5. b[v][i] # q[m - 1]
    BY <1>3, <2>4 DEF On
  <2> QED  BY <1>0, <1>2, <2>3, <2>5 DEF Types
<1>5. CASE OptimizeFound(t)
  <2>1. blk' = [blk EXCEPT ![cur[t].ptr].last = blk[wb[t]].last]
    BY <1>5 DEF OptimizeFound
  <2> QED  BY <1>0, <1>2, <2>1 DEF Types, WideBlock
<1>6. CASE ~(WalkOn(t, "optWalk") \/ WalkOn(t, "wakeWalk") \/ OptimizeFound(t))
  <2>1. \A u \in Threads : u # t \/ Parked(t) => blk'[u].prev = blk[u].prev
    BY <1>6, LinksKept DEF Steady
  <2>2. b[v][i] # t \/ Parked(t)
    BY NotListed
  <2> QED  BY <1>2, <2>1, <2>2
<1> QED  BY <1>4, <1>5, <1>6

\* A batch is as it was while its links and its thread are.
LEMMA BatchesKept ==
    ASSUME NEW q, NEW b, Batches(q, b),
           \A v \in Threads : \A i \in 1 .. Len(b[v]) : blk'[b[v][i]].prev = blk[b[v][i]].prev,
           \A v \in Threads :
              /\ b[v] # << >> => pc'[v] \in {"wakeClear"} \cup SignalerAt
              /\ pc'[v] \in {"wakeClear", "signal"} => b[v] # << >> /\ wb'[v] = b[v][1]
              /\ pc'[v] = "wakeClear" => Len(b[v]) = 1
              /\ pc'[v] = "setGate" => wb'[v] # NULL /\ todo'[v] = IF b[v] = << >> THEN NULL ELSE b[v][1]
    PROVE  Batches(q, b)'
<1>1. ASSUME NEW v \in Threads
      PROVE  /\ \A i, j \in 1 .. Len(b[v]) : b[v][i] = b[v][j] => i = j
             /\ \A i \in 1 .. Len(b[v]) - 1 : blk'[b[v][i]].prev = b[v][i + 1]
             /\ b[v] # << >> => blk'[b[v][Len(b[v])]].prev = NULL
             /\ \A u \in Threads : On(u, b[v]) => ~On(u, q)
  <2>1. b[v] \in Seq(Threads) /\ Len(b[v]) \in Nat
    BY DEF Batches
  <2>2. /\ \A i, j \in 1 .. Len(b[v]) : b[v][i] = b[v][j] => i = j
        /\ \A i \in 1 .. Len(b[v]) - 1 : blk[b[v][i]].prev = b[v][i + 1]
        /\ b[v] # << >> => blk[b[v][Len(b[v])]].prev = NULL
        /\ \A u \in Threads : On(u, b[v]) => ~On(u, q)
    BY DEF Batches
  <2>3. ASSUME NEW i \in 1 .. Len(b[v]) - 1 PROVE blk'[b[v][i]].prev = b[v][i + 1]
    <3>1. i \in 1 .. Len(b[v])
      BY <2>1
    <3>2. blk[b[v][i]].prev = b[v][i + 1]
      BY <2>2
    <3> QED  BY <3>1, <3>2
  <2>4. b[v] # << >> => Len(b[v]) \in 1 .. Len(b[v])
    BY <2>1
  <2> QED  BY <2>2, <2>3, <2>4
<1>2. b \in [Threads -> Seq(Threads)] /\ \A t, v, u \in Threads : On(u, b[t]) /\ On(u, b[v]) => t = v
  BY DEF Batches
<1> QED  BY <1>1, <1>2 DEF Batches, On

\* The batches stay lists of their own.
LEMMA BatchesStep ==
    ASSUME NEW q, NEW b, IInv(q, b), NEW t \in Threads, Steady(t),
           ~SignalSpinner(t), ~SignalWaiter(t)
    PROVE  Batches(q, b)'
<1>0. Types /\ Step(t) /\ Batches(q, b) /\ ~WakeAll(t) /\ ~WakeUnlink(t)
  BY DEF IInv, Steady
<1>l. \A v \in Threads : \A i \in 1 .. Len(b[v]) : blk'[b[v][i]].prev = blk[b[v][i]].prev
  BY BatchLinks
<1>b. \A v \in Threads :
              /\ b[v] # << >> => pc[v] \in {"wakeClear"} \cup SignalerAt
              /\ pc[v] \in {"wakeClear", "signal"} => b[v] # << >> /\ wb[v] = b[v][1]
              /\ pc[v] = "wakeClear" => Len(b[v]) = 1
              /\ pc[v] = "setGate" => wb[v] # NULL /\ todo[v] = IF b[v] = << >> THEN NULL ELSE b[v][1]
  BY <1>0 DEF Batches
<1> DEFINE Row(v) ==
              /\ b[v] # << >> => pc'[v] \in {"wakeClear"} \cup SignalerAt
              /\ pc'[v] \in {"wakeClear", "signal"} => b[v] # << >> /\ wb'[v] = b[v][1]
              /\ pc'[v] = "wakeClear" => Len(b[v]) = 1
              /\ pc'[v] = "setGate" => wb'[v] # NULL /\ todo'[v] = IF b[v] = << >> THEN NULL ELSE b[v][1]
<1>1. ASSUME NEW v \in Threads, v # t
      PROVE  Row(v)
  <2>1. pc'[v] = pc[v] /\ wb'[v] = wb[v] /\ todo'[v] = todo[v]
    BY <1>0, <1>1, OthersKeep
  <2> QED  BY <1>b, <2>1
<1>2. CASE WakeClear(t)
  <2>1. pc[t] = "wakeClear" /\ pc'[t] = "signal" /\ wb' = wb
    BY <1>0, <1>2 DEF Types, WakeClear, Goto
  <2>2. Row(t)
    BY <1>b, <2>1 DEF SignalerAt
  <2>3. \A v \in Threads : Row(v)
    BY <1>1, <2>2
  <2> QED  BY <1>0, <1>l, <2>3, BatchesKept
<1>3. CASE SetGate(t)
  <2>0. pc[t] = "setGate"
    BY <1>3 DEF SetGate
  <2>1. todo[t] = IF b[t] = << >> THEN NULL ELSE b[t][1]
    BY <1>b, <2>0
  <2>2. b[t] # << >> => b[t][1] # NULL
    BY <1>0, NullAssumption DEF Batches
  <2>3. CASE b[t] = << >>
    <3>1. SubroutineReturns(t, "setGate")
      BY <1>3, <2>1, <2>3 DEF SetGate, SignalNext
    <3>2. pc'[t] \in {"initGate", "idle"}
      BY <1>0, <3>1, SubroutineReturnsEffect DEF Types
    <3>3. Row(t)
      BY <2>3, <3>2
    <3>4. \A v \in Threads : Row(v)
      BY <1>1, <3>3
    <3> QED  BY <1>0, <1>l, <3>4, BatchesKept
  <2>4. CASE b[t] # << >>
    <3>1. pc'[t] = "signal" /\ wb'[t] = b[t][1]
      BY <1>0, <1>3, <2>1, <2>2, <2>4 DEF Types, SetGate, SignalNext, Goto
    <3>2. Row(t)
      BY <2>4, <3>1 DEF SignalerAt
    <3>3. \A v \in Threads : Row(v)
      BY <1>1, <3>2
    <3> QED  BY <1>0, <1>l, <3>3, BatchesKept
  <2> QED  BY <2>3, <2>4
<1>4. CASE ~WakeClear(t) /\ ~SetGate(t)
  <2>1. /\ pc[t] \notin {"wakeClear", "signal", "setGate"}
        /\ pc'[t] \notin {"wakeClear", "signal", "setGate"}
    BY <1>0, <1>4, SignalMoves
  <2>2. Row(t)
    BY <1>b, <2>1 DEF SignalerAt
  <2>3. \A v \in Threads : Row(v)
    BY <1>1, <2>2
  <2> QED  BY <1>0, <1>l, <2>3, BatchesKept
<1> QED  BY <1>2, <1>3, <1>4

\* The empty sequence is the one of length 0.
LEMMA EmptyLen ==
    ASSUME NEW S, NEW s \in Seq(S)
    PROVE  s = << >> <=> Len(s) = 0
  OBVIOUS

\* The tail of a nonempty sequence.
LEMMA TailFacts ==
    ASSUME NEW S, NEW s \in Seq(S), s # << >>
    PROVE  /\ Tail(s) \in Seq(S) /\ Len(Tail(s)) = Len(s) - 1 /\ Len(s) \in Nat \ {0}
           /\ \A i \in 1 .. Len(s) - 1 : Tail(s)[i] = s[i + 1]
           /\ Tail(s) = << >> <=> Len(s) = 1
<1>1. Len(s) \in Nat \ {0}
  OBVIOUS
<1>2. Tail(s) \in Seq(S) /\ Len(Tail(s)) = Len(s) - 1
  BY <1>1
<1>3. \A i \in 1 .. Len(s) - 1 : Tail(s)[i] = s[i + 1]
  BY <1>1
<1>4. Tail(s) = << >> <=> Len(Tail(s)) = 0
  BY <1>2, EmptyLen
<1> QED  BY <1>1, <1>2, <1>3, <1>4

\* The first of the batch leaves it.
LEMMA SignalStep ==
    ASSUME NEW q, NEW b, IInv(q, b), NEW t \in Threads, SignalSpinner(t) \/ SignalWaiter(t),
           NEW c, c = [b EXCEPT ![t] = Tail(b[t])]
    PROVE  Batches(q, c)' /\ Members(q, c)'
<1>0. Types /\ Batches(q, b) /\ Members(q, b) /\ Step(t)
  BY DEF IInv, Step, InCall, InWake
<1>f. /\ wb[t] \in Threads /\ b[t] # << >> /\ wb[t] = b[t][1]
      /\ blk'[wb[t]].signaled
      /\ \A u \in Threads : u # wb[t] => blk'[u] = blk[u]
      /\ \A u \in Threads : blk'[u].prev = blk[u].prev
      /\ pc[t] = "signal"
  BY SignalFlags
<1> DEFINE s == b[t]
           r == Tail(b[t])
<1>b. b \in [Threads -> Seq(Threads)] /\ s \in Seq(Threads) /\ s # << >>
  BY <1>0, <1>f DEF Batches
<1>r. /\ r \in Seq(Threads) /\ Len(r) = Len(s) - 1 /\ Len(s) \in Nat \ {0}
      /\ \A i \in 1 .. Len(s) - 1 : r[i] = s[i + 1]
      /\ r = << >> <=> Len(s) = 1
  BY <1>b, TailFacts
<1>c. c \in [Threads -> Seq(Threads)] /\ c[t] = r /\ \A v \in Threads : v # t => c[v] = b[v]
  BY <1>b, <1>r
<1>s. /\ \A i, j \in 1 .. Len(s) : s[i] = s[j] => i = j
      /\ \A i \in 1 .. Len(s) - 1 : blk[s[i]].prev = s[i + 1]
      /\ blk[s[Len(s)]].prev = NULL
      /\ \A u \in Threads : On(u, s) => ~On(u, q)
  BY <1>0, <1>b DEF Batches
<1> DEFINE Chain(x) == /\ \A i, j \in 1 .. Len(x) : x[i] = x[j] => i = j
                       /\ \A i \in 1 .. Len(x) - 1 : blk'[x[i]].prev = x[i + 1]
                       /\ x # << >> => blk'[x[Len(x)]].prev = NULL
                       /\ \A u \in Threads : On(u, x) => ~On(u, q)
<1> HIDE DEF s, r
<1>p. /\ r = << >> => blk[wb[t]].prev = NULL
      /\ r # << >> => blk[wb[t]].prev = r[1] /\ r[1] # NULL
  <2>1. wb[t] = s[1]
    BY <1>f DEF s
  <2>2. r = << >> => blk[s[1]].prev = NULL
    BY <1>r, <1>s
  <2>3. ASSUME r # << >> PROVE blk[s[1]].prev = r[1] /\ r[1] # NULL
    <3>1. 1 \in 1 .. Len(s) - 1
      BY <1>r, <2>3
    <3>2. r[1] \in Threads
      BY <1>r, <2>3
    <3> QED  BY <1>r, <1>s, <3>1, <3>2, NullAssumption
  <2> QED  BY <2>1, <2>2, <2>3
<1>o. \A u \in Threads : On(u, s) <=> u = wb[t] \/ On(u, r)
  <2>1. 1 \in 1 .. Len(s) /\ wb[t] = s[1]
    BY <1>r, <1>f DEF s
  <2>2. ASSUME NEW i \in 1 .. Len(r) PROVE i + 1 \in 1 .. Len(s) /\ r[i] = s[i + 1]
    BY <1>r
  <2>3. ASSUME NEW i \in 1 .. Len(s), i # 1 PROVE i - 1 \in 1 .. Len(r) /\ r[i - 1] = s[i]
    <3>1. i - 1 \in 1 .. Len(s) - 1 /\ (i - 1) + 1 = i
      BY <1>r, <2>3
    <3> QED  BY <1>r, <3>1
  <2> QED  BY <2>1, <2>2, <2>3 DEF On
<1>n. ~On(wb[t], r)
  <2>1. SUFFICES ASSUME NEW i \in 1 .. Len(r), r[i] = wb[t] PROVE FALSE
    BY DEF On
  <2>2. i + 1 \in 1 .. Len(s) /\ 1 \in 1 .. Len(s) /\ r[i] = s[i + 1] /\ wb[t] = s[1] /\ i + 1 # 1
    BY <1>r, <1>f DEF s
  <2> QED  BY <1>s, <2>1, <2>2
<1>1. /\ r # << >> => pc'[t] \in {"wakeClear"} \cup SignalerAt
      /\ pc'[t] \in {"wakeClear", "signal"} => r # << >> /\ wb'[t] = r[1]
      /\ pc'[t] # "wakeClear"
      /\ pc'[t] = "setGate" => wb'[t] # NULL /\ todo'[t] = IF r = << >> THEN NULL ELSE r[1]
  <2>1. CASE SignalWaiter(t)
    <3>1. pc'[t] = "setGate" /\ wb' = wb /\ todo'[t] = blk[wb[t]].prev
      BY <1>0, <2>1 DEF SignalWaiter, Goto, Types
    <3> QED  BY <1>f, <1>p, <3>1, NullAssumption DEF SignalerAt
  <2>2. CASE SignalSpinner(t) /\ r = << >>
    <3>1. SubroutineReturns(t, "signal")
      BY <1>p, <2>2 DEF SignalSpinner, SignalNext
    <3>2. pc'[t] \in {"initGate", "idle"}
      BY <1>0, <3>1, SubroutineReturnsEffect DEF Types
    <3> QED  BY <2>2, <3>2
  <2>3. CASE SignalSpinner(t) /\ r # << >>
    <3>1. pc'[t] = "signal" /\ wb'[t] = r[1]
      BY <1>0, <1>p, <2>3 DEF SignalSpinner, SignalNext, Goto, Types
    <3> QED  BY <2>3, <3>1 DEF SignalerAt
  <2> QED  BY <2>1, <2>2, <2>3
<1>2. /\ \A i, j \in 1 .. Len(r) : r[i] = r[j] => i = j
      /\ \A i \in 1 .. Len(r) - 1 : blk'[r[i]].prev = r[i + 1]
      /\ r # << >> => blk'[r[Len(r)]].prev = NULL
      /\ \A u \in Threads : On(u, r) => ~On(u, q)
  <2>1. \A i \in 1 .. Len(r) : i + 1 \in 1 .. Len(s) /\ r[i] = s[i + 1] /\ r[i] \in Threads
    BY <1>r
  <2>2. \A i, j \in 1 .. Len(r) : r[i] = r[j] => i = j
    <3> SUFFICES ASSUME NEW i \in 1 .. Len(r), NEW j \in 1 .. Len(r), r[i] = r[j] PROVE i = j
      OBVIOUS
    <3>1. i + 1 = j + 1
      BY <1>s, <2>1
    <3> QED  BY <1>r, <3>1
  <2>3. \A i \in 1 .. Len(r) - 1 : blk'[r[i]].prev = r[i + 1]
    <3> TAKE i \in 1 .. Len(r) - 1
    <3>1. i \in 1 .. Len(r) /\ i + 1 \in 1 .. Len(r) /\ i + 1 \in 1 .. Len(s) - 1
      BY <1>r
    <3>2. blk[s[i + 1]].prev = s[(i + 1) + 1]
      BY <1>s, <3>1
    <3> QED  BY <1>f, <2>1, <3>1, <3>2
  <2>4. r # << >> => blk'[r[Len(r)]].prev = NULL
    <3>1. r # << >> => Len(r) \in 1 .. Len(r) /\ Len(r) + 1 = Len(s)
      BY <1>r
    <3> QED  BY <1>f, <1>s, <2>1, <3>1
  <2> QED  BY <1>o, <1>s, <2>2, <2>3, <2>4
<1>3. ASSUME NEW v \in Threads, v # t
      PROVE  /\ b[v] # << >> => pc'[v] \in {"wakeClear"} \cup SignalerAt
             /\ pc'[v] \in {"wakeClear", "signal"} => b[v] # << >> /\ wb'[v] = b[v][1]
             /\ pc'[v] = "wakeClear" => Len(b[v]) = 1
             /\ pc'[v] = "setGate" => wb'[v] # NULL /\ todo'[v] = IF b[v] = << >> THEN NULL ELSE b[v][1]
             /\ \A i, j \in 1 .. Len(b[v]) : b[v][i] = b[v][j] => i = j
             /\ \A i \in 1 .. Len(b[v]) - 1 : blk'[b[v][i]].prev = b[v][i + 1]
             /\ b[v] # << >> => blk'[b[v][Len(b[v])]].prev = NULL
             /\ \A u \in Threads : On(u, b[v]) => ~On(u, q)
  <2>1. pc'[v] = pc[v] /\ wb'[v] = wb[v] /\ todo'[v] = todo[v] 
    BY <1>0, <1>3, OthersKeep
  <2>2. b[v] \in Seq(Threads) /\ Len(b[v]) \in Nat
    BY <1>b
  <2>3. /\ b[v] # << >> => pc[v] \in {"wakeClear"} \cup SignalerAt
        /\ pc[v] \in {"wakeClear", "signal"} => b[v] # << >> /\ wb[v] = b[v][1]
        /\ pc[v] = "wakeClear" => Len(b[v]) = 1
        /\ pc[v] = "setGate" => wb[v] # NULL /\ todo[v] = IF b[v] = << >> THEN NULL ELSE b[v][1]
        /\ \A i, j \in 1 .. Len(b[v]) : b[v][i] = b[v][j] => i = j
        /\ \A i \in 1 .. Len(b[v]) - 1 : blk[b[v][i]].prev = b[v][i + 1]
        /\ b[v] # << >> => blk[b[v][Len(b[v])]].prev = NULL
        /\ \A u \in Threads : On(u, b[v]) => ~On(u, q)
    BY <1>0 DEF Batches
  <2>4. \A i \in 1 .. Len(b[v]) : b[v][i] \in Threads
    BY <2>2
  <2>5. \A i \in 1 .. Len(b[v]) - 1 : blk'[b[v][i]].prev = b[v][i + 1]
    <3> TAKE i \in 1 .. Len(b[v]) - 1
    <3>1. i \in 1 .. Len(b[v])
      BY <2>2
    <3> QED  BY <1>f, <2>3, <2>4, <3>1
  <2>6. b[v] # << >> => Len(b[v]) \in 1 .. Len(b[v])
    BY <2>2
  <2> QED  BY <1>f, <2>1, <2>3, <2>4, <2>5, <2>6
<1>4. \A v, w, u \in Threads : On(u, c[v]) /\ On(u, c[w]) => v = w
  <2>1. \A v, u \in Threads : On(u, c[v]) => On(u, b[v])
    BY <1>c, <1>o DEF s
  <2> QED  BY <1>0, <2>1 DEF Batches
<1>5. Batches(q, c)'
  <2>1. ASSUME NEW v \in Threads
        PROVE  /\ c[v] # << >> => pc'[v] \in {"wakeClear"} \cup SignalerAt
               /\ pc'[v] \in {"wakeClear", "signal"} => c[v] # << >> /\ wb'[v] = c[v][1]
               /\ pc'[v] = "wakeClear" => Len(c[v]) = 1
               /\ pc'[v] = "setGate" => wb'[v] # NULL /\ todo'[v] = IF c[v] = << >> THEN NULL ELSE c[v][1]
               /\ \A i, j \in 1 .. Len(c[v]) : c[v][i] = c[v][j] => i = j
               /\ \A i \in 1 .. Len(c[v]) - 1 : blk'[c[v][i]].prev = c[v][i + 1]
               /\ c[v] # << >> => blk'[c[v][Len(c[v])]].prev = NULL
               /\ \A u \in Threads : On(u, c[v]) => ~On(u, q)
    <3>1. CASE v = t
      <4>1. c[v] = r
        BY <1>c, <3>1
      <4>2. /\ c[v] # << >> => pc'[v] \in {"wakeClear"} \cup SignalerAt
            /\ pc'[v] \in {"wakeClear", "signal"} => c[v] # << >> /\ wb'[v] = c[v][1]
            /\ pc'[v] # "wakeClear"
            /\ pc'[v] = "setGate" => wb'[v] # NULL /\ todo'[v] = IF c[v] = << >> THEN NULL ELSE c[v][1]
        BY <1>1, <3>1, <4>1
      <4>3. /\ \A i, j \in 1 .. Len(c[v]) : c[v][i] = c[v][j] => i = j
            /\ \A i \in 1 .. Len(c[v]) - 1 : blk'[c[v][i]].prev = c[v][i + 1]
            /\ c[v] # << >> => blk'[c[v][Len(c[v])]].prev = NULL
            /\ \A u \in Threads : On(u, c[v]) => ~On(u, q)
        <5>1. Chain(r)
          BY <1>2
        <5> HIDE DEF Chain
        <5>2. Chain(c[v])
          BY <4>1, <5>1
        <5> QED  BY <5>2 DEF Chain
      <4> QED  BY <4>2, <4>3
    <3>2. CASE v # t
      <4>1. c[v] = b[v]
        BY <1>c, <3>2
      <4> DEFINE Good(x) ==
               /\ x # << >> => pc'[v] \in {"wakeClear"} \cup SignalerAt
               /\ pc'[v] \in {"wakeClear", "signal"} => x # << >> /\ wb'[v] = x[1]
               /\ pc'[v] = "wakeClear" => Len(x) = 1
               /\ pc'[v] = "setGate" => wb'[v] # NULL /\ todo'[v] = IF x = << >> THEN NULL ELSE x[1]
               /\ \A i, j \in 1 .. Len(x) : x[i] = x[j] => i = j
               /\ \A i \in 1 .. Len(x) - 1 : blk'[x[i]].prev = x[i + 1]
               /\ x # << >> => blk'[x[Len(x)]].prev = NULL
               /\ \A u \in Threads : On(u, x) => ~On(u, q)
      <4>2. Good(b[v])
        BY <1>3, <3>2
      <4> HIDE DEF Good
      <4>3. Good(c[v])
        BY <4>1, <4>2
      <4> QED  BY <4>3 DEF Good
    <3> QED  BY <3>1, <3>2
  <2> QED  BY <1>4, <1>c, <2>1 DEF Batches, On
<1>6. ASSUME NEW u \in Threads
      PROVE  Parked(u)' /\ ~blk'[u].signaled <=> On(u, q) \/ \E v \in Threads : On(u, c[v])
  <2>1. CASE u = wb[t]
    <3>1. On(u, s) /\ ~On(u, r) /\ ~On(u, q)
      BY <1>n, <1>o, <1>s, <2>1
    <3>2. \A v \in Threads : v # t => ~On(u, b[v])
      BY <1>0, <3>1 DEF Batches, s
    <3> QED  BY <1>c, <1>f, <2>1, <3>1, <3>2
  <2>2. CASE u # wb[t]
    <3>1. blk'[u] = blk[u]
      BY <1>f, <2>2
    <3>2. Parked(u)' /\ ~blk[u].signaled <=> Parked(u) /\ ~blk[u].signaled
      <4>1. CASE u # t
        BY <1>0, <4>1, ParkedOthers
      <4>2. CASE u = t
        <5>1. Steady(t)
          BY <1>0, <1>f DEF Steady, ExclusiveFirstWaiter, ExclusiveNextWaiter,
             SharedFirstWaiter, SharedNextWaiter, WakeAll, WakeUnlink, Goto, Subroutine
        <5> QED  BY <4>2, <5>1, ParkedMoves
      <4> QED  BY <4>1, <4>2
    <3>3. Parked(u) /\ ~blk[u].signaled <=> On(u, q) \/ \E v \in Threads : On(u, b[v])
      BY <1>0 DEF Members
    <3>4. \A v \in Threads : On(u, b[v]) <=> On(u, c[v])
      BY <1>c, <1>o, <2>2 DEF s
    <3> QED  BY <3>1, <3>2, <3>3, <3>4
  <2> QED  BY <2>1, <2>2
<1> QED  BY <1>5, <1>6 DEF Members, On


-----------------------------------------------------------------------------
(* Gates. *)

\* What the gates depend on: a step that leaves it alone keeps them right.
LEMMA GatesKept ==
    ASSUME Gates,
           \A u \in Threads :
              /\ (gate'[u] <=> gate[u])
              /\ pc'[u] \in {"testWait", "gateWait", "setGate"} \/ pc[u] \in {"testWait", "gateWait", "setGate"} =>
                    pc'[u] = pc[u]
              /\ pc'[u] = "setGate" => wb'[u] = wb[u]
              /\ Parked(u)' => Parked(u) /\ (blk'[u].wait <=> blk[u].wait) /\ (blk'[u].signaled <=> blk[u].signaled)
    PROVE  Gates'
<1>1. ASSUME NEW u \in Threads
      PROVE  /\ Parked(u)' /\ ~blk'[u].signaled => (blk'[u].wait <=> pc'[u] # "gateWait")
             /\ Parked(u)' /\ blk'[u].signaled => ~blk'[u].wait
             /\ pc'[u] = "testWait" => ~gate'[u]
             /\ pc'[u] = "gateWait" /\ ~blk'[u].signaled => ~gate'[u]
  <2>1. pc'[u] = "gateWait" => Parked(u)'
    BY DEF Parked, WaiterAt
  <2>2. /\ Parked(u) /\ ~blk[u].signaled => (blk[u].wait <=> pc[u] # "gateWait")
        /\ Parked(u) /\ blk[u].signaled => ~blk[u].wait
        /\ pc[u] = "testWait" => ~gate[u]
        /\ pc[u] = "gateWait" /\ ~blk[u].signaled => ~gate[u]
    BY DEF Gates
  <2>3. (pc'[u] = "gateWait" <=> pc[u] = "gateWait") /\ (pc'[u] = "testWait" => pc[u] = "testWait")
    OBVIOUS
  <2> QED  BY <2>1, <2>2, <2>3
<1>2. \A v \in Threads : /\ pc'[v] = "setGate" <=> pc[v] = "setGate"
                         /\ pc'[v] = "setGate" => wb'[v] = wb[v]
  OBVIOUS
<1>3. ASSUME NEW u \in Threads
      PROVE  pc'[u] = "gateWait" /\ blk'[u].signaled =>
              gate'[u] \/ \E v \in Threads : pc'[v] = "setGate" /\ wb'[v] = u
  <2>1. SUFFICES ASSUME pc'[u] = "gateWait", blk'[u].signaled
                 PROVE  gate'[u] \/ \E v \in Threads : pc'[v] = "setGate" /\ wb'[v] = u
    OBVIOUS
  <2>2. pc[u] = "gateWait" /\ Parked(u)'
    BY <2>1 DEF Parked, WaiterAt
  <2>3. blk[u].signaled
    BY <2>1, <2>2
  <2>4. gate[u] \/ \E v \in Threads : pc[v] = "setGate" /\ wb[v] = u
    BY <2>2, <2>3 DEF Gates
  <2> QED  BY <1>2, <2>4
<1>4. ASSUME NEW u \in Threads, NEW v \in Threads, pc'[v] = "setGate", wb'[v] = u
      PROVE  pc'[u] = "gateWait" /\ blk'[u].signaled /\ ~gate'[u]
  <2>1. pc[u] = "gateWait" /\ blk[u].signaled /\ ~gate[u]
    BY <1>2, <1>4 DEF Gates
  <2>2. pc'[u] = "gateWait" /\ Parked(u)'
    BY <2>1 DEF Parked, WaiterAt
  <2> QED  BY <2>1, <2>2
<1>5. ASSUME NEW u \in Threads, NEW v \in Threads, NEW w \in Threads,
             pc'[v] = "setGate", wb'[v] = u, pc'[w] = "setGate", wb'[w] = u
      PROVE  v = w
  BY <1>2, <1>5 DEF Gates
<1> QED  BY <1>1, <1>3, <1>4, <1>5 DEF Gates

\* The steps that go to a gate, leave one, or set one.
LEMMA GateMoves ==
    ASSUME NEW q, NEW b, IInv(q, b), NEW t \in Threads, Step(t),
           ~InitGate(t), ~TestWait(t), ~GateWait(t), ~SignalWaiter(t), ~SetGate(t)
    PROVE  /\ pc[t] \notin {"testWait", "gateWait", "setGate"}
           /\ pc'[t] \notin {"testWait", "gateWait", "setGate"}
           /\ gate' = gate
<1>0. Types /\ Control(t)
  BY DEF IInv, Controls
<1> DEFINE Out == /\ pc[t] \notin {"testWait", "gateWait", "setGate"}
                  /\ pc'[t] \notin {"testWait", "gateWait", "setGate"}
                  /\ gate' = gate
<1>1. ASSUME AcquireExclusiveFast(t)
      PROVE  Out
  BY <1>1, <1>0 DEF Types, Acquiring, AcquireExclusiveFast, Holds, locals
<1>2. ASSUME \E c \in Calls : AcquireExclusiveSlow(t, c)
      PROVE  Out
  BY <1>2, <1>0 DEF Types, Acquiring, AcquireExclusiveSlow, Enter, Goto, locals
<1>3. ASSUME ExclusiveRead(t)
      PROVE  Out
  BY <1>3, <1>0 DEF Types, Acquiring, ExclusiveRead, ReadLock, Goto
<1>4. ASSUME ExclusiveTake(t)
      PROVE  Out
  BY <1>4, <1>0 DEF Types, Acquiring, ExclusiveTake, Return, Goto, Holds,
      locals
<1>5. ASSUME ExclusiveRetry(t)
      PROVE  Out
  BY <1>5, <1>0 DEF Types, Acquiring, ExclusiveRetry, Goto
<1>6. ASSUME ExclusiveFirstWaiter(t)
      PROVE  Out
  BY <1>6, <1>0 DEF Types, Acquiring, ExclusiveFirstWaiter, Goto, locals
<1>7. ASSUME AcquireSharedFast(t)
      PROVE  Out
  BY <1>7, <1>0 DEF Types, Acquiring, AcquireSharedFast, Holds, locals
<1>8. ASSUME AcquireSharedSlow(t)
      PROVE  Out
  BY <1>8, <1>0 DEF Types, Acquiring, AcquireSharedSlow, Enter, Goto, locals
<1>9. ASSUME SharedRead(t)
      PROVE  Out
  BY <1>9, <1>0 DEF Types, Acquiring, SharedRead, ReadLock, Goto
<1>10. ASSUME SharedRetry(t)
      PROVE  Out
  BY <1>10, <1>0 DEF Types, Acquiring, SharedRetry, Goto
<1>11. ASSUME SharedFirstWaiter(t)
      PROVE  Out
  BY <1>11, <1>0 DEF Types, Acquiring, SharedFirstWaiter, Goto, locals
<1>12. ASSUME OptimizeUnlocked(t)
      PROVE  Out
  BY <1>12, <1>0 DEF Types, Acquiring, OptimizeUnlocked, Goto, locals
<1>13. ASSUME OptimizeStart(t)
      PROVE  Out
  BY <1>13, <1>0 DEF Types, Acquiring, OptimizeStart, Goto
<1>14. ASSUME WalkOn(t, "optWalk") \/ WalkOn(t, "wakeWalk")
      PROVE  Out
  BY <1>14, <1>0 DEF Types, Acquiring, WalkOn
<1>15. ASSUME OptimizeFound(t)
      PROVE  Out
  BY <1>15, <1>0 DEF Types, Acquiring, OptimizeFound, Goto, locals
<1>16. ASSUME OptimizeRetry(t)
      PROVE  Out
  BY <1>16, <1>0 DEF Types, Acquiring, OptimizeRetry, Goto
<1>17. ASSUME WakeReload(t)
      PROVE  Out
  BY <1>17, <1>0 DEF Types, Acquiring, WakeReload
<1>18. ASSUME WakeStart(t)
      PROVE  Out
  BY <1>18, <1>0 DEF Types, Acquiring, WakeStart, Goto
<1>19. ASSUME WakeFound(t)
      PROVE  Out
  BY <1>19, <1>0 DEF Types, Acquiring, WakeFound, Goto
<1>20. ASSUME WakeAll(t)
      PROVE  Out
  BY <1>20, <1>0 DEF Types, Acquiring, WakeAll, Goto
<1>21. ASSUME WakeAllRetry(t)
      PROVE  Out
  BY <1>21, <1>0 DEF Types, Acquiring, WakeAllRetry, Goto
<1>22. ASSUME WakeUnlink(t)
      PROVE  Out
  BY <1>22, <1>0 DEF Types, Acquiring, WakeUnlink, Goto, WakeOneOnly, locals
<1>23. ASSUME WakeClear(t)
      PROVE  Out
  BY <1>23, <1>0 DEF Types, Acquiring, WakeClear, Goto
<1>24. ASSUME ReleaseSharedFast(t)
      PROVE  Out
  BY <1>24, <1>0 DEF Types, Acquiring, ReleaseSharedFast, Holds, locals
<1>25. ASSUME ReleaseSharedSlow(t)
      PROVE  Out
  BY <1>25, <1>0 DEF Types, Acquiring, ReleaseSharedSlow, Enter, Goto, Holds,
      locals
<1>26. ASSUME ReleaseEnter(t)
      PROVE  Out
  BY <1>26, <1>0 DEF Types, Acquiring, ReleaseEnter, Enter, Goto, Holds
<1>27. ASSUME ReleaseFastFails(t)
      PROVE  Out
  BY <1>27, <1>0 DEF Types, Acquiring, ReleaseFastFails, Goto
<1>28. ASSUME ReleaseRead(t)
      PROVE  Out
  BY <1>28, <1>0 DEF Types, Acquiring, ReleaseRead, ReadLock, Goto
<1>29. ASSUME ReleaseReload(t)
      PROVE  Out
  BY <1>29, <1>0 DEF Types, Acquiring, ReleaseReload
<1>30. ASSUME ReleaseFindCount(t)
      PROVE  Out
  BY <1>30, <1>0 DEF Types, Acquiring, ReleaseFindCount, Goto
<1>31. ASSUME ReleaseNoCount(t)
      PROVE  Out
  BY <1>31, <1>0 DEF Types, Acquiring, ReleaseNoCount, Goto, locals
<1>32. ASSUME ReleaseWalkOn(t)
      PROVE  Out
  BY <1>32, <1>0 DEF Types, Acquiring, ReleaseWalkOn
<1>33. ASSUME ReleaseFound(t)
      PROVE  Out
  BY <1>33, <1>0 DEF Types, Acquiring, ReleaseFound, Goto
<1>34. ASSUME ReleaseCounted(t)
      PROVE  Out
  BY <1>34, <1>0 DEF Types, Acquiring, ReleaseCounted, Return, Goto
<1>35. ASSUME ReleaseCountedLast(t)
      PROVE  Out
  BY <1>35, <1>0 DEF Types, Acquiring, ReleaseCountedLast, Goto
<1>36. ASSUME ReleaseUnlockFails(t)
      PROVE  Out
  BY <1>36, <1>0 DEF Types, Acquiring, ReleaseUnlockFails, vars
<1>37. ASSUME ReleaseExclusiveFast(t)
      PROVE  Out
  BY <1>37, <1>0 DEF Types, Acquiring, ReleaseExclusiveFast, Holds, Enter,
      Goto, locals
<1>38. ASSUME TryWakeRead(t)
      PROVE  Out
  BY <1>38, <1>0 DEF Types, Acquiring, TryWakeRead, ReadLock, Goto
<1>39. ASSUME TryWake(t)
      PROVE  Out
  BY <1>39, <1>0 DEF Types, Acquiring, TryWake, Subroutine, Goto
<1>40. ASSUME TryWakeNot(t)
      PROVE  Out
  BY <1>40, <1>0 DEF Types, Acquiring, TryWakeNot, Return, Goto
<1>41. ASSUME ReleaseExclusiveSlow(t)
      PROVE  Out
  BY <1>41, <1>0 DEF Types, Acquiring, ReleaseExclusiveSlow, Enter, Goto,
      locals
<1>42. ASSUME ReleaseExclusiveRead(t)
      PROVE  Out
  BY <1>42, <1>0 DEF Types, Acquiring, ReleaseExclusiveRead, Goto, Holds
<1>43. ASSUME ReleaseExclusiveWake(t)
      PROVE  Out
  BY <1>43, <1>0 DEF Types, Acquiring, ReleaseExclusiveWake, Subroutine, Goto
<1>44. ASSUME ReleaseExclusiveSimple(t)
      PROVE  Out
  BY <1>44, <1>0 DEF Types, Acquiring, ReleaseExclusiveSimple, Return, Goto
<1>45. ASSUME ReleaseExclusiveReload(t)
      PROVE  Out
  BY <1>45, <1>0 DEF Types, Acquiring, ReleaseExclusiveReload
<1>46. ASSUME Convert(t)
      PROVE  Out
  BY <1>46, <1>0 DEF Types, Acquiring, Convert, Holds, locals
<1>47. ASSUME OptimizeDone(t)
      PROVE  Out
  BY <1>47, <1>0, SubroutineReturnsEffect DEF Types, OptimizeDone
<1>48. ASSUME WakeNotNow(t)
      PROVE  Out
  BY <1>48, <1>0, SubroutineReturnsEffect DEF Types, WakeNotNow
<1>49. ASSUME SignalSpinner(t)
      PROVE  Out
  BY <1>49, <1>0, SubroutineReturnsEffect DEF Types, SignalSpinner, SignalNext, Goto
<1>50. ASSUME ReleaseNoWaiter(t, "relFast") \/ ReleaseNoWaiter(t, "relTry")
      PROVE  Out
  BY <1>50, <1>0, ReleaseNoWaiterEffect DEF Types
<1>51. ASSUME SharedTake(t)
      PROVE  Out
  BY <1>51, <1>0, SharedTakeEffect DEF Types
<1>52. ASSUME ReleaseUnlock(t)
      PROVE  Out
  BY <1>52, <1>0, ReleaseUnlockEffect DEF Types
<1>53. ASSUME SharedNextWaiter(t)
      PROVE  Out
  BY <1>53, <1>0, NextWaiterEffect DEF Types
<1>54. ASSUME ExclusiveNextWaiter(t)
      PROVE  Out
  BY <1>54, <1>0, NextWaiterEffect DEF Types
<1> HIDE DEF Out
 <1>q. Out
  BY <1>1, <1>2, <1>3, <1>4, <1>5, <1>6, <1>7, <1>8, <1>9, <1>10, <1>11, <1>12,
      <1>13, <1>14, <1>15, <1>16, <1>17, <1>18, <1>19, <1>20, <1>21, <1>22,
      <1>23, <1>24, <1>25, <1>26, <1>27, <1>28, <1>29, <1>30, <1>31, <1>32,
      <1>33, <1>34, <1>35, <1>36, <1>37, <1>38, <1>39, <1>40, <1>41, <1>42,
      <1>43, <1>44, <1>45, <1>46, <1>47, <1>48, <1>49, <1>50, <1>51, <1>52,
      <1>53, <1>54 DEF Step, BeginAcquire, BeginRelease, InCall, InAcquire,
      InOptimize, InWake, InRelease
<1> QED  BY <1>q DEF Out

\* A gate is signaled once, for who waits at it, by who cleared its wait bit.
LEMMA GatesStep ==
    ASSUME NEW q, NEW b, IInv(q, b), NEW t \in Threads, Steady(t)
    PROVE  Gates'
<1>0. Types /\ Step(t) /\ Gates /\ gate \in [Threads -> BOOLEAN]
  BY DEF IInv, Steady, Types
<1>o. \A u \in Threads : u # t => /\ pc'[u] = pc[u] /\ wb'[u] = wb[u]
                                  /\ Parked(u)' <=> Parked(u)
  BY <1>0, OthersKeep, ParkedOthers
<1>g. \A u \in Threads :
        /\ Parked(u) /\ ~blk[u].signaled => (blk[u].wait <=> pc[u] # "gateWait")
        /\ Parked(u) /\ blk[u].signaled => ~blk[u].wait
        /\ pc[u] = "testWait" => ~gate[u]
        /\ pc[u] = "gateWait" /\ ~blk[u].signaled => ~gate[u]
        /\ pc[u] = "gateWait" /\ blk[u].signaled =>
              gate[u] \/ \E v \in Threads : pc[v] = "setGate" /\ wb[v] = u
        /\ \A v \in Threads : pc[v] = "setGate" /\ wb[v] = u =>
              pc[u] = "gateWait" /\ blk[u].signaled /\ ~gate[u]
        /\ \A v, w \in Threads : pc[v] = "setGate" /\ wb[v] = u /\ pc[w] = "setGate" /\ wb[w] = u => v = w
  BY <1>0 DEF Gates
<1> DEFINE Fine(u) ==
        /\ Parked(u)' /\ ~blk'[u].signaled => (blk'[u].wait <=> pc'[u] # "gateWait")
        /\ Parked(u)' /\ blk'[u].signaled => ~blk'[u].wait
        /\ pc'[u] = "testWait" => ~gate'[u]
        /\ pc'[u] = "gateWait" /\ ~blk'[u].signaled => ~gate'[u]
        /\ pc'[u] = "gateWait" /\ blk'[u].signaled =>
              gate'[u] \/ \E v \in Threads : pc'[v] = "setGate" /\ wb'[v] = u
        /\ \A v \in Threads : pc'[v] = "setGate" /\ wb'[v] = u =>
              pc'[u] = "gateWait" /\ blk'[u].signaled /\ ~gate'[u]
        /\ \A v, w \in Threads : pc'[v] = "setGate" /\ wb'[v] = u /\ pc'[w] = "setGate" /\ wb'[w] = u => v = w
<1>f. (\A u \in Threads : Fine(u)) => Gates'
  BY DEF Gates
<1>b. \A u \in Threads : /\ blk[u].wait \in BOOLEAN /\ blk[u].signaled \in BOOLEAN
                         /\ blk'[u].wait \in BOOLEAN /\ blk'[u].signaled \in BOOLEAN
                         /\ gate[u] \in BOOLEAN /\ gate'[u] \in BOOLEAN
  BY <1>0, TypesStep DEF Types, WideBlock
<1>1. CASE InitGate(t)
  <2>1. /\ pc[t] = "initGate" /\ pc'[t] = "testWait" /\ blk' = blk /\ wb' = wb /\ call' = call
        /\ gate' = [gate EXCEPT ![t] = FALSE]
    BY <1>0, <1>1 DEF Types, InitGate, Goto, locals
  <2>2. Parked(t) /\ Parked(t)'
    BY <2>1 DEF Parked, WaiterAt
  <2> QED  BY <1>0, <1>g, <1>o, <2>1, <2>2 DEF Gates
<1>2. CASE TestWait(t)
  <2>1. /\ pc[t] = "testWait" /\ Parked(t)
        /\ IF blk[t].wait THEN pc'[t] = "gateWait" ELSE pc'[t] \in {"exTry", "shTry"}
        /\ call' = call /\ gate' = gate /\ wb' = wb
    BY <1>0, <1>2, TestWaitFlags
  <2>f. \A u \in Threads : blk'[u].signaled <=> blk[u].signaled
    BY <1>0, <1>2, TestWaitFlags
  <2>g. \A u \in Threads : u # t => (blk'[u].wait <=> blk[u].wait)
    BY <1>0, <1>2, TestWaitFlags
  <2>h. ~blk'[t].wait
    BY <1>0, <1>2, TestWaitFlags
  <2>2. Parked(t)' => pc'[t] = "gateWait"
    BY <2>1 DEF Parked, WaiterAt, OptimizerAt, WakerAt, SignalerAt
  <2>3. pc'[t] = "gateWait" => blk[t].wait /\ ~blk[t].signaled
    BY <1>g, <2>1
  <2>4. \A v \in Threads : ~(pc[v] = "setGate" /\ wb[v] = t)
    BY <1>g, <2>1
  <2>5. \A v \in Threads : pc'[v] = "setGate" <=> pc[v] = "setGate"
    BY <1>o, <2>1
  <2>a. wb' = wb
    BY <2>1
  <2>b. \A u \in Threads : gate'[u] <=> gate[u]
    BY <2>1
  <2>6. ASSUME NEW u \in Threads
        PROVE  Fine(u)
    <3>1. CASE u = t
      <4>1. (blk'[t].signaled <=> blk[t].signaled) /\ ~blk'[t].wait
        BY <2>f, <2>h
      <4>2. pc'[t] # "testWait" /\ ~gate'[t]
        BY <1>g, <2>1, <2>b
      <4> QED  BY <2>a, <2>2, <2>3, <2>4, <2>5, <3>1, <4>1, <4>2
    <3>2. CASE u # t
      <4>1. pc'[u] = pc[u] /\ (Parked(u)' <=> Parked(u))
        BY <1>o, <3>2
      <4>2. (blk'[u].signaled <=> blk[u].signaled) /\ (blk'[u].wait <=> blk[u].wait)
        BY <2>f, <2>g, <3>2
      <4> QED  BY <1>g, <2>a, <2>b, <2>5, <4>1, <4>2
    <3> QED  BY <3>1, <3>2
  <2> HIDE DEF Fine
  <2> QED  BY <1>f, <2>6
<1>3. CASE GateWait(t)
  <2>1. /\ pc[t] = "gateWait" /\ gate[t] /\ blk' = blk /\ wb' = wb /\ pc'[t] \in {"exTry", "shTry"}
        /\ gate' = [gate EXCEPT ![t] = FALSE]
    BY <1>0, <1>3 DEF Types, GateWait, Goto, Again, locals
  <2>2. ~Parked(t)'
    BY <2>1 DEF Parked, WaiterAt, OptimizerAt, WakerAt, SignalerAt
  <2>3. \A v \in Threads : ~(pc[v] = "setGate" /\ wb[v] = t)
    BY <1>g, <2>1
  <2> QED  BY <1>0, <1>g, <1>o, <2>1, <2>2, <2>3 DEF Gates
<1>4. CASE SignalWaiter(t)
  <2>1. /\ wb[t] \in Threads /\ Parked(wb[t]) /\ ~blk[wb[t]].signaled
        /\ blk'[wb[t]].signaled /\ ~blk'[wb[t]].wait
        /\ \A u \in Threads : u # wb[t] => blk'[u] = blk[u]
        /\ pc[t] = "signal" /\ gate' = gate
        /\ ~blk[wb[t]].wait /\ pc'[t] = "setGate" /\ wb' = wb
    BY <1>4, SignalFlags
  <2>2. pc[wb[t]] = "gateWait" /\ wb[t] # t /\ ~gate[wb[t]]
    BY <1>g, <2>1
  <2>3. \A v \in Threads : ~(pc[v] = "setGate" /\ wb[v] = wb[t])
    BY <1>g, <2>1
  <2>4. Parked(t)' => Parked(t)
    BY <1>0, <1>4, <2>1 DEF Parked, Acquiring, SignalerAt, SignalWaiter, WaiterAt, OptimizerAt, WakerAt
  <2> QED  BY <1>g, <1>o, <2>1, <2>2, <2>3, <2>4 DEF Gates
<1>5. CASE SetGate(t)
  <2>1. pc[t] = "setGate" /\ blk' = blk /\ gate' = [gate EXCEPT ![wb[t]] = TRUE]
    BY <1>5 DEF SetGate
  <2>2. wb[t] \in Threads
    BY <2>1, Walkers DEF WalkerAt, SignalerAt
  <2>3. pc'[t] \in {"signal", "initGate", "idle"}
    BY <1>0, <1>5, SubroutineReturnsEffect DEF Types, SetGate, SignalNext, Goto
  <2>4. /\ pc[wb[t]] = "gateWait" /\ blk[wb[t]].signaled /\ wb[t] # t
        /\ \A v \in Threads : pc[v] = "setGate" /\ wb[v] = wb[t] => v = t
    BY <1>g, <2>1, <2>2
  <2>5. Parked(t)' => Parked(t)
    <3>1. Steady(t)
      OBVIOUS
    <3> QED  BY ParkedMoves
  <2>6. \A u \in Threads : gate'[u] <=> (u = wb[t] \/ gate[u])
    BY <1>0, <2>1
  <2>7. \A v \in Threads : pc'[v] = "setGate" <=> pc[v] = "setGate" /\ v # t
    BY <1>o, <2>1, <2>3
  <2>8. \A v \in Threads : pc'[v] = "setGate" => wb'[v] = wb[v]
    BY <1>o, <2>7
  <2>9. ASSUME NEW u \in Threads
        PROVE  Fine(u)
    <3>1. CASE u = t
      BY <1>g, <2>1, <2>3, <2>4, <2>5, <2>6, <2>7, <2>8, <3>1
    <3>2. CASE u # t
      <4>1. /\ pc'[u] = pc[u] /\ (Parked(u)' <=> Parked(u))
            /\ (blk'[u].signaled <=> blk[u].signaled) /\ (blk'[u].wait <=> blk[u].wait)
        BY <1>o, <2>1, <3>2
      <4>2. CASE u = wb[t]
        BY <1>b, <1>g, <2>4, <2>6, <2>7, <2>8, <4>1, <4>2
      <4>3. CASE u # wb[t]
        BY <1>b, <1>g, <2>6, <2>7, <2>8, <4>1, <4>3
      <4> QED  BY <4>2, <4>3
    <3> QED  BY <3>1, <3>2
  <2> HIDE DEF Fine
  <2> QED  BY <1>f, <2>9
<1>6. CASE SignalSpinner(t)
  <2>1. /\ wb[t] \in Threads /\ Parked(wb[t]) /\ ~blk[wb[t]].signaled
        /\ blk'[wb[t]].signaled /\ ~blk'[wb[t]].wait
        /\ \A u \in Threads : u # wb[t] => blk'[u] = blk[u]
        /\ pc[t] = "signal" /\ gate' = gate
        /\ blk[wb[t]].wait
    BY <1>6, SignalFlags
  <2>2. pc[wb[t]] # "gateWait"
    BY <1>g, <2>1
  <2>3. pc'[t] \in {"signal", "initGate", "idle"}
    BY <1>0, <1>6, SubroutineReturnsEffect DEF Types, SignalSpinner, SignalNext, Goto
  <2>4. Parked(t)' => Parked(t)
    BY ParkedMoves
  <2> QED  BY <1>g, <1>o, <2>1, <2>2, <2>3, <2>4 DEF Gates
<1>7. CASE ~(InitGate(t) \/ TestWait(t) \/ GateWait(t) \/ SignalWaiter(t) \/ SetGate(t) \/ SignalSpinner(t))
  <2>1. /\ pc[t] \notin {"testWait", "gateWait", "setGate"}
        /\ pc'[t] \notin {"testWait", "gateWait", "setGate"}
        /\ gate' = gate
    BY <1>0, <1>7, GateMoves
  <2>2. \A u \in Threads : u # t \/ Parked(t) =>
               /\ (blk'[u].wait <=> blk[u].wait)
               /\ (blk'[u].signaled <=> blk[u].signaled)
    BY <1>0, <1>7, FlagsKept DEF Steady
  <2>3. Parked(t)' => Parked(t)
    BY ParkedMoves
  <2> QED  BY <1>0, <1>o, <2>1, <2>2, <2>3, GatesKept
<1> QED  BY <1>1, <1>2, <1>3, <1>4, <1>5, <1>6, <1>7


-----------------------------------------------------------------------------
(* Waiters behind an open lock. *)

\* The steps of a thread that is on its way to the lock.
LEMMA ComingMoves ==
    ASSUME NEW q, NEW b, IInv(q, b), NEW t \in Threads, Steady(t),
           pc[t] \in {"tryRead", "tryWake", "exRead", "exTry", "shRead", "shTry"}
    PROVE  \/ TryWakeRead(t) \/ TryWake(t) \/ TryWakeNot(t)
           \/ ExclusiveRead(t) \/ ExclusiveTake(t) \/ ExclusiveRetry(t)
           \/ SharedRead(t) \/ SharedTake(t) \/ SharedRetry(t)
<1>0. Types /\ Control(t) /\ Step(t)
  BY DEF IInv, Controls, Steady
<1>s. /\ ~ExclusiveFirstWaiter(t) /\ ~ExclusiveNextWaiter(t)
      /\ ~SharedFirstWaiter(t) /\ ~SharedNextWaiter(t)
      /\ ~WakeAll(t) /\ ~WakeUnlink(t)
  BY DEF Steady
<1>h. hold[t] = "none"
  BY <1>0 DEF Control, Types
<1>1. ASSUME AcquireExclusiveFast(t)
      PROVE  FALSE
  BY <1>1, <1>0, <1>h DEF AcquireExclusiveFast
<1>2. ASSUME \E c \in Calls : AcquireExclusiveSlow(t, c)
      PROVE  FALSE
  BY <1>2, <1>0, <1>h DEF AcquireExclusiveSlow, Enter, Goto
<1>3. ASSUME AcquireSharedFast(t)
      PROVE  FALSE
  BY <1>3, <1>0, <1>h DEF AcquireSharedFast
<1>4. ASSUME AcquireSharedSlow(t)
      PROVE  FALSE
  BY <1>4, <1>0, <1>h DEF AcquireSharedSlow, Enter, Goto
<1>5. ASSUME InitGate(t)
      PROVE  FALSE
  BY <1>5, <1>0, <1>h DEF InitGate, Goto
<1>6. ASSUME TestWait(t)
      PROVE  FALSE
  BY <1>6, <1>0, <1>h DEF TestWait, Goto, Again
<1>7. ASSUME GateWait(t)
      PROVE  FALSE
  BY <1>7, <1>0, <1>h DEF GateWait, Goto, Again
<1>8. ASSUME OptimizeUnlocked(t)
      PROVE  FALSE
  BY <1>8, <1>0, <1>h DEF OptimizeUnlocked, Goto
<1>9. ASSUME OptimizeStart(t)
      PROVE  FALSE
  BY <1>9, <1>0, <1>h DEF OptimizeStart, Goto
<1>10. ASSUME WalkOn(t, "optWalk") \/ WalkOn(t, "wakeWalk")
      PROVE  FALSE
  BY <1>10, <1>0, <1>h DEF WalkOn
<1>11. ASSUME OptimizeFound(t)
      PROVE  FALSE
  BY <1>11, <1>0, <1>h DEF OptimizeFound, Goto
<1>12. ASSUME OptimizeRetry(t)
      PROVE  FALSE
  BY <1>12, <1>0, <1>h DEF OptimizeRetry, Goto
<1>13. ASSUME WakeReload(t)
      PROVE  FALSE
  BY <1>13, <1>0, <1>h DEF WakeReload
<1>14. ASSUME WakeStart(t)
      PROVE  FALSE
  BY <1>14, <1>0, <1>h DEF WakeStart, Goto
<1>15. ASSUME WakeFound(t)
      PROVE  FALSE
  BY <1>15, <1>0, <1>h DEF WakeFound, Goto
<1>16. ASSUME WakeAllRetry(t)
      PROVE  FALSE
  BY <1>16, <1>0, <1>h DEF WakeAllRetry, Goto
<1>17. ASSUME WakeClear(t)
      PROVE  FALSE
  BY <1>17, <1>0, <1>h DEF WakeClear, Goto
<1>18. ASSUME SignalWaiter(t)
      PROVE  FALSE
  BY <1>18, <1>0, <1>h DEF SignalWaiter, Goto
<1>19. ASSUME ReleaseSharedFast(t)
      PROVE  FALSE
  BY <1>19, <1>0, <1>h DEF ReleaseSharedFast
<1>20. ASSUME ReleaseSharedSlow(t)
      PROVE  FALSE
  BY <1>20, <1>0, <1>h DEF ReleaseSharedSlow, Enter, Goto
<1>21. ASSUME ReleaseEnter(t)
      PROVE  FALSE
  BY <1>21, <1>0, <1>h DEF ReleaseEnter, Enter, Goto
<1>22. ASSUME ReleaseFastFails(t)
      PROVE  FALSE
  BY <1>22, <1>0, <1>h DEF ReleaseFastFails, Goto
<1>23. ASSUME ReleaseRead(t)
      PROVE  FALSE
  BY <1>23, <1>0, <1>h DEF ReleaseRead, ReadLock, Goto
<1>24. ASSUME ReleaseReload(t)
      PROVE  FALSE
  BY <1>24, <1>0, <1>h DEF ReleaseReload
<1>25. ASSUME ReleaseFindCount(t)
      PROVE  FALSE
  BY <1>25, <1>0, <1>h DEF ReleaseFindCount, Goto
<1>26. ASSUME ReleaseNoCount(t)
      PROVE  FALSE
  BY <1>26, <1>0, <1>h DEF ReleaseNoCount, Goto
<1>27. ASSUME ReleaseWalkOn(t)
      PROVE  FALSE
  BY <1>27, <1>0, <1>h DEF ReleaseWalkOn
<1>28. ASSUME ReleaseFound(t)
      PROVE  FALSE
  BY <1>28, <1>0, <1>h DEF ReleaseFound, Goto
<1>29. ASSUME ReleaseCounted(t)
      PROVE  FALSE
  BY <1>29, <1>0, <1>h DEF ReleaseCounted, Return, Goto
<1>30. ASSUME ReleaseCountedLast(t)
      PROVE  FALSE
  BY <1>30, <1>0, <1>h DEF ReleaseCountedLast, Goto
<1>31. ASSUME ReleaseUnlockFails(t)
      PROVE  FALSE
  BY <1>31, <1>0, <1>h DEF ReleaseUnlockFails, vars
<1>32. ASSUME ReleaseExclusiveFast(t)
      PROVE  FALSE
  BY <1>32, <1>0, <1>h DEF ReleaseExclusiveFast, Enter, Goto
<1>33. ASSUME ReleaseExclusiveSlow(t)
      PROVE  FALSE
  BY <1>33, <1>0, <1>h DEF ReleaseExclusiveSlow, Enter, Goto
<1>34. ASSUME ReleaseExclusiveRead(t)
      PROVE  FALSE
  BY <1>34, <1>0, <1>h DEF ReleaseExclusiveRead, Goto
<1>35. ASSUME ReleaseExclusiveWake(t)
      PROVE  FALSE
  BY <1>35, <1>0, <1>h DEF ReleaseExclusiveWake, Subroutine, Goto
<1>36. ASSUME ReleaseExclusiveSimple(t)
      PROVE  FALSE
  BY <1>36, <1>0, <1>h DEF ReleaseExclusiveSimple, Return, Goto
<1>37. ASSUME ReleaseExclusiveReload(t)
      PROVE  FALSE
  BY <1>37, <1>0, <1>h DEF ReleaseExclusiveReload
<1>38. ASSUME Convert(t)
      PROVE  FALSE
  BY <1>38, <1>0, <1>h DEF Convert
<1>39. ASSUME WakeNotNow(t)
      PROVE  FALSE
  BY <1>39, <1>0, SubroutineReturnsEffect DEF WakeNotNow
<1>40. ASSUME OptimizeDone(t)
      PROVE  FALSE
  BY <1>40, <1>0, SubroutineReturnsEffect DEF OptimizeDone
<1>41. ASSUME SignalSpinner(t)
      PROVE  FALSE
  BY <1>41 DEF SignalSpinner
<1>42. ASSUME SetGate(t)
      PROVE  FALSE
  BY <1>42 DEF SetGate
<1>43. ASSUME ReleaseNoWaiter(t, "relFast") \/ ReleaseNoWaiter(t, "relTry")
      PROVE  FALSE
  BY <1>43, <1>0, ReleaseNoWaiterEffect
<1>44. ASSUME ReleaseUnlock(t)
      PROVE  FALSE
  BY <1>44, <1>0, ReleaseUnlockEffect
<1> QED
  BY <1>0, <1>s, <1>1, <1>2, <1>3, <1>4, <1>5, <1>6, <1>7, <1>8, <1>9, <1>10,
      <1>11, <1>12, <1>13, <1>14, <1>15, <1>16, <1>17, <1>18, <1>19, <1>20,
      <1>21, <1>22, <1>23, <1>24, <1>25, <1>26, <1>27, <1>28, <1>29, <1>30,
      <1>31, <1>32, <1>33, <1>34, <1>35, <1>36, <1>37, <1>38, <1>39, <1>40,
      <1>41, <1>42, <1>43, <1>44 DEF Step, BeginAcquire, BeginRelease, InCall,
      InAcquire, InOptimize, InWake, InRelease

\* How a lock with waiters comes to be open, with nobody to wake them yet.
LEMMA OpenWord ==
    ASSUME NEW q, NEW b, IInv(q, b), NEW t \in Threads, Steady(t),
           lock'.waiting, ~lock'.locked, ~lock'.waking
    PROVE  \/ lock' = lock
           \/ pc'[t] = "tryRead"
           \/ WakeClear(t)
<1>w. Word(lock) /\ Step(t) /\ Control(t)
  BY DEF IInv, Words, Steady, Controls
<1>0. lock \in Wide /\ old[t] \in Wide /\ cur[t] \in Wide /\ lock' \in Wide /\ Types
  BY <1>w, LockTypes DEF IInv, Types
<1>s. /\ ~ExclusiveFirstWaiter(t) /\ ~ExclusiveNextWaiter(t)
      /\ ~SharedFirstWaiter(t) /\ ~SharedNextWaiter(t)
      /\ ~WakeAll(t) /\ ~WakeUnlink(t)
  BY DEF Steady
<1>1. ASSUME (\E c \in Calls : AcquireExclusiveSlow(t, c)) \/ ExclusiveRead(t)
          \/ ExclusiveRetry(t) \/ AcquireSharedSlow(t) \/ SharedRead(t)
          \/ SharedRetry(t) \/ InitGate(t) \/ TestWait(t) \/ GateWait(t)
          \/ OptimizeUnlocked(t) \/ OptimizeStart(t) \/ WalkOn(t, "optWalk")
          \/ WalkOn(t, "wakeWalk") \/ OptimizeFound(t) \/ OptimizeRetry(t)
          \/ WakeReload(t) \/ WakeStart(t) \/ WakeFound(t) \/ WakeAllRetry(t)
          \/ WakeUnlink(t) \/ SignalSpinner(t) \/ SignalWaiter(t) \/ SetGate(t)
          \/ ReleaseSharedSlow(t) \/ ReleaseEnter(t) \/ ReleaseFastFails(t)
          \/ ReleaseRead(t) \/ ReleaseReload(t) \/ ReleaseFindCount(t)
          \/ ReleaseNoCount(t) \/ ReleaseWalkOn(t) \/ ReleaseFound(t)
          \/ ReleaseCounted(t) \/ ReleaseCountedLast(t)
          \/ ReleaseUnlockFails(t) \/ TryWakeRead(t) \/ TryWakeNot(t)
          \/ ReleaseExclusiveSlow(t) \/ ReleaseExclusiveRead(t)
          \/ ReleaseExclusiveReload(t)
      PROVE  lock' = lock
  BY <1>1 DEF AcquireExclusiveSlow, Enter, Goto, locals, ExclusiveRead,
      ReadLock, ExclusiveRetry, FrameGone, AcquireSharedSlow, SharedRead,
      SharedRetry, InitGate, TestWait, Again, GateWait, OptimizeUnlocked,
      OptimizeStart, WalkOn, OptimizeFound, OptimizeRetry, WakeReload,
      WakeStart, WakeFound, WakeAllRetry, WakeUnlink, WakeOneOnly,
      SignalSpinner, SignalNext, SubroutineReturns, Return, Acquiring,
      SignalWaiter, SetGate, ReleaseSharedSlow, Holds, ReleaseEnter,
      ReleaseFastFails, ReleaseRead, ReleaseReload, ReleaseFindCount,
      ReleaseNoCount, ReleaseWalkOn, ReleaseFound, ReleaseCounted,
      ReleaseCountedLast, ReleaseUnlockFails, vars, TryWakeRead, TryWakeNot,
      ReleaseExclusiveSlow, ReleaseExclusiveRead, ReleaseExclusiveReload
<1>2. CASE AcquireExclusiveFast(t)
  BY <1>2, <1>0, <1>w DEF Wide, AcquireExclusiveFast, Holds, locals
<1>3. CASE ExclusiveTake(t)
  BY <1>3, <1>0, <1>w DEF Wide, ExclusiveTake, Exchange, Return, Goto, Holds,
      FrameGone, locals, Free, NewBlock
<1>4. CASE AcquireSharedFast(t)
  BY <1>4, <1>0, <1>w DEF Wide, AcquireSharedFast, Exchange, Locked, Free,
      Holds, locals
<1>5. CASE ReleaseSharedFast(t)
  BY <1>5, <1>0, <1>w DEF Wide, ReleaseSharedFast, Exchange, Locked, Free,
      Holds, locals
<1>6. CASE TryWake(t)
  BY <1>6, <1>0, <1>w DEF Wide, TryWake, Wakeable, Exchange, Subroutine, Goto,
      Acquiring, Free
<1>7. CASE ReleaseExclusiveWake(t)
  BY <1>7, <1>0, <1>w DEF Wide, ReleaseExclusiveWake, Exchange, Subroutine,
      Goto, Acquiring, Free
<1>8. CASE ReleaseExclusiveSimple(t)
  BY <1>8, <1>0, <1>w DEF Wide, ReleaseExclusiveSimple, Exchange, Return, Goto,
      Free
<1>9. CASE Convert(t)
  BY <1>9, <1>0, <1>w DEF Wide, Convert, Exchange, Locked, Free, Holds, locals
<1>10. CASE SharedTake(t)
  BY <1>10, <1>0, SharedTakeEffect
<1>11. CASE ReleaseNoWaiter(t, "relFast") \/ ReleaseNoWaiter(t, "relTry")
  BY <1>11, <1>0, ReleaseNoWaiterEffect
<1>12. CASE ReleaseUnlock(t)
  BY <1>12, <1>0, ReleaseUnlockEffect
<1>13. CASE OptimizeDone(t)
  <2>1. lock' = [cur[t] EXCEPT !.waking = FALSE] /\ pc[t] = "optDone"
    BY <1>13, <1>0, SubroutineReturnsEffect DEF OptimizeDone, Exchange
  <2> QED  BY <1>0, <1>w, <2>1 DEF Control, Wide
<1>14. CASE WakeNotNow(t)
  <2>1. lock' = [cur[t] EXCEPT !.waking = FALSE] /\ cur[t].locked
    BY <1>14 DEF WakeNotNow, Exchange
  <2> QED  BY <1>0, <2>1 DEF Wide
<1>15. CASE ReleaseExclusiveFast(t)
  <2>1. /\ lock' = [lock EXCEPT !.locked = FALSE]
        /\ lock.waiting /\ ~lock.waking => pc' = [pc EXCEPT ![t] = "tryRead"]
    BY <1>15 DEF ReleaseExclusiveFast, Enter, Goto
  <2>2. lock'.waiting = lock.waiting /\ lock'.waking = lock.waking
    BY <1>0, <2>1 DEF Wide
  <2> QED  BY <1>0, <2>1, <2>2 DEF Types
<1> QED
  BY <1>w, <1>s, <1>1, <1>2, <1>3, <1>4, <1>5, <1>6, <1>7, <1>8, <1>9, <1>10,
      <1>11, <1>12, <1>13, <1>14, <1>15 DEF Step, BeginAcquire, BeginRelease,
      InCall, InAcquire, InOptimize, InWake, InRelease

\* A free lock with waiters keeps somebody who will see them.
LEMMA ServedStep ==
    ASSUME NEW q, NEW b, IInv(q, b), NEW t \in Threads, Steady(t),
           ~SignalSpinner(t), ~SignalWaiter(t)
    PROVE  Served(b)'
<1>0. Types /\ Step(t) /\ Served(b)
  BY DEF IInv, Steady
<1>1. SUFFICES ASSUME lock'.waiting, ~lock'.locked, ~lock'.waking
               PROVE  \E c \in Threads : Coming(c, b)'
  BY DEF Served
<1>2. CASE pc'[t] = "tryRead"
  BY <1>2 DEF Coming
<1>3. CASE WakeClear(t)
  <2>1. pc[t] = "wakeClear"
    BY <1>3 DEF WakeClear, Goto
  <2>2. b[t] # << >>
    BY <2>1 DEF IInv, Batches
  <2> QED  BY <2>2 DEF Coming
<1>4. CASE lock' = lock
  <2>1. PICK c \in Threads : Coming(c, b)
    BY <1>0, <1>1, <1>4 DEF Served
  <2>f. c # t \/ Parked(t) => (blk'[c].signaled <=> blk[c].signaled)
    <3>1. CASE TestWait(t)
      BY <1>0, <3>1, TestWaitFlags
    <3>2. CASE ~TestWait(t)
      BY <1>0, <3>2, FlagsKept DEF Steady
    <3> QED  BY <3>1, <3>2
  <2>2. CASE c # t
    <3>1. pc'[c] = pc[c] /\ old'[c] = old[c] /\ (Parked(c)' <=> Parked(c))
      BY <1>0, <2>2, OthersKeep, ParkedOthers
    <3>2. Coming(c, b)'
      BY <1>4, <2>1, <2>2, <2>f, <3>1 DEF Coming
    <3> QED  BY <3>2
  <2>3. CASE c = t
    <3>1. CASE b[t] # << >>
      BY <3>1 DEF Coming
    <3>2. CASE Parked(t) /\ blk[t].signaled
      <4>1. blk'[t].signaled
        BY <2>3, <2>f, <3>2
      <4>2. Parked(t)' \/ pc'[t] \in {"exTry", "shTry"}
        BY <3>2, ParkedMoves
      <4> QED  BY <4>1, <4>2 DEF Coming
    <3>3. CASE \/ pc[t] \in {"tryRead", "exRead", "exTry", "shRead", "shTry"}
               \/ pc[t] = "tryWake" /\ old[t] = lock
      <4>1. \/ pc'[t] = "tryWake" /\ old'[t] = lock'
            \/ pc'[t] \in {"exRead", "exTry", "shRead", "shTry"}
        <5>1. CASE TryWakeRead(t)
          BY <1>0, <1>4, <5>1 DEF Types, TryWakeRead, ReadLock, Goto
        <5>2. CASE TryWake(t)
          BY <1>0, <1>1, <5>2 DEF Types, Wide, TryWake, Exchange
        <5>3. CASE TryWakeNot(t)
          <6>1. pc[t] = "tryWake" /\ (~Wakeable(old[t]) \/ lock # old[t])
            BY <5>3 DEF TryWakeNot, Return, Goto
          <6>2. ~Wakeable(lock)
            BY <3>3, <6>1
          <6> QED  BY <1>1, <1>4, <6>2 DEF Wakeable
        <5>4. CASE ExclusiveRead(t)
          BY <1>0, <5>4 DEF Types, ExclusiveRead, ReadLock, Goto
        <5>5. CASE ExclusiveTake(t)
          BY <1>0, <1>1, <5>5 DEF Types, Wide, ExclusiveTake, Exchange
        <5>6. CASE ExclusiveRetry(t)
          BY <1>0, <5>6 DEF Types, ExclusiveRetry, Goto
        <5>7. CASE SharedRead(t)
          BY <1>0, <5>7 DEF Types, SharedRead, ReadLock, Goto
        <5>8. CASE SharedTake(t)
          BY <1>0, <1>1, <5>8, SharedTakeEffect
        <5>9. CASE SharedRetry(t)
          BY <1>0, <5>9 DEF Types, SharedRetry, Goto
        <5> QED  BY <3>3, <5>1, <5>2, <5>3, <5>4, <5>5, <5>6, <5>7, <5>8, <5>9, ComingMoves
      <4> QED  BY <4>1 DEF Coming
    <3> QED  BY <2>1, <2>3, <3>1, <3>2, <3>3 DEF Coming
  <2> QED  BY <2>2, <2>3
<1> QED  BY <1>1, <1>2, <1>3, <1>4, OpenWord

\* Signaling a waiter leaves the list alone.
LEMMA SignalSteady ==
    ASSUME NEW t \in Threads, SignalSpinner(t) \/ SignalWaiter(t)
    PROVE  Steady(t)
<1>1. pc[t] = "signal" /\ Step(t)
  BY DEF SignalSpinner, SignalWaiter, Goto, Step, InCall, InWake
<1> QED  BY <1>1 DEF Steady, ExclusiveFirstWaiter, ExclusiveNextWaiter,
             SharedFirstWaiter, SharedNextWaiter, WakeAll, WakeUnlink, Goto, Subroutine

\* The thread just signaled is one who will see the lock.
LEMMA ServedSignal ==
    ASSUME NEW q, NEW b, IInv(q, b), NEW t \in Threads, SignalSpinner(t) \/ SignalWaiter(t), NEW c
    PROVE  Served(c)'
<1>0. Types /\ Steady(t) /\ Step(t)
  BY SignalSteady DEF IInv, Steady
<1>1. /\ wb[t] \in Threads /\ Parked(wb[t]) /\ ~blk[wb[t]].signaled
      /\ blk'[wb[t]].signaled
  BY SignalFlags
<1>w. PICK w \in Threads : w = wb[t]
  BY <1>1
<1>p. Parked(w) /\ blk'[w].signaled
  BY <1>1, <1>w
<1>2. Parked(w)'
  <2>1. CASE w = t
    <3>1. Parked(t)' \/ pc'[t] \in {"exTry", "shTry"}
      BY <1>0, <1>p, <2>1, ParkedMoves
    <3>2. pc'[t] \notin {"exTry", "shTry"}
      BY <1>0 DEF SignalSpinner, SignalWaiter, SignalNext, SubroutineReturns, Return, Goto, Types
    <3> QED  BY <2>1, <3>1, <3>2
  <2>2. CASE w # t
    BY <1>0, <1>p, <2>2, ParkedOthers
  <2> QED  BY <2>1, <2>2
<1> QED  BY <1>p, <1>2 DEF Served, Coming


-----------------------------------------------------------------------------
(* A waiter is pushed. *)

\* A waiter joins the list.
Push(t) == \/ ExclusiveFirstWaiter(t) \/ ExclusiveNextWaiter(t)
           \/ SharedFirstWaiter(t) \/ SharedNextWaiter(t)

\* The first waiter's block takes over the share count of several readers.
LEMMA FirstWaiterEffect ==
    ASSUME Types, Words, NEW t \in Threads, ExclusiveFirstWaiter(t) \/ SharedFirstWaiter(t)
    PROVE  /\ lock = old[t] /\ ~lock.waiting /\ lock.locked
           /\ lock'.waiting /\ lock'.locked /\ ~lock'.waking
           /\ (lock'.multi <=> lock.shared > 1) /\ lock'.shared = 0
           /\ lock'.ptr = t
           /\ pc[t] \in {"exTry", "shTry"}
           /\ \A u \in Threads : u # t => blk'[u] = blk[u]
           /\ blk'[t].last = t /\ blk'[t].prev = NULL
           /\ blk'[t].shareCount = IF lock.shared > 1 THEN lock.shared ELSE 0
           /\ lock.shared > 1 => blk'[t].exclusive
           /\ blk'[t].wait /\ ~blk'[t].signaled
           /\ call' = call /\ hold' = hold /\ gate' = gate
           /\ wb' = wb /\ todo' = todo /\ old' = old /\ cur' = cur
           /\ pc' = [pc EXCEPT ![t] = "initGate"]
<1>0. old[t] \in Wide /\ Word(lock) /\ lock \in Wide /\ lock.shared \in Nat
  BY DEF Types, Words, Wide
<1>1. CASE ExclusiveFirstWaiter(t)
  <2>1. /\ lock = old[t] /\ ~lock.waiting /\ lock.locked
        /\ call' = call /\ hold' = hold /\ gate' = gate
        /\ wb' = wb /\ todo' = todo /\ old' = old /\ cur' = cur
        /\ pc[t] = "exTry" /\ pc' = [pc EXCEPT ![t] = "initGate"]
    BY <1>1 DEF ExclusiveFirstWaiter, Exchange, Goto, locals
  <2> DEFINE n == IF lock.shared > 1 THEN lock.shared ELSE 0
  <2>2. /\ lock' = [Locked(0) EXCEPT !.waiting = TRUE, !.ptr = t, !.multi = n > 0]
        /\ blk' = [blk EXCEPT ![t] = [NewBlock EXCEPT !.exclusive = TRUE,
                                                  !.wait = TRUE, !.last = t,
                                                  !.shareCount = n]]
    BY <1>1, <2>1 DEF ExclusiveFirstWaiter, Exchange
  <2>3. (n > 0) <=> (lock.shared > 1)
    BY <1>0
  <2> HIDE DEF n
  <2>4. /\ lock'.waiting /\ lock'.locked /\ ~lock'.waking
        /\ (lock'.multi <=> lock.shared > 1) /\ lock'.shared = 0
        /\ lock'.ptr = t
    BY <2>2, <2>3 DEF Locked, Free
  <2>5. /\ \A u \in Threads : u # t => blk'[u] = blk[u]
        /\ blk'[t].last = t /\ blk'[t].prev = NULL /\ blk'[t].shareCount = n
        /\ blk'[t].exclusive /\ blk'[t].wait /\ ~blk'[t].signaled
    BY <2>2 DEF NewBlock, Types
  <2> QED  BY <2>1, <2>4, <2>5 DEF n
<1>2. CASE SharedFirstWaiter(t)
  <2>1. /\ lock = old[t] /\ ~lock.waiting /\ lock.locked /\ ~(lock.shared > 0)
        /\ call' = call /\ hold' = hold /\ gate' = gate
        /\ wb' = wb /\ todo' = todo /\ old' = old /\ cur' = cur
        /\ pc[t] = "shTry" /\ pc' = [pc EXCEPT ![t] = "initGate"]
    BY <1>2 DEF SharedFirstWaiter, Exchange, Goto, locals, MayShare
  <2>2. /\ lock' = [lock EXCEPT !.waiting = TRUE, !.ptr = t]
        /\ blk' = [blk EXCEPT ![t] = [NewBlock EXCEPT !.wait = TRUE, !.last = t]]
    BY <1>2, <2>1 DEF SharedFirstWaiter, Exchange
  <2>3. lock.shared = 0 /\ ~(lock.shared > 1) /\ ~lock.multi /\ ~lock.waking
    BY <1>0, <2>1 DEF Word
  <2>4. /\ lock'.waiting /\ lock'.locked /\ ~lock'.waking
        /\ (lock'.multi <=> lock.shared > 1) /\ lock'.shared = 0
        /\ lock'.ptr = t
    BY <1>0, <2>1, <2>2, <2>3 DEF Wide
  <2>5. /\ \A u \in Threads : u # t => blk'[u] = blk[u]
        /\ blk'[t].last = t /\ blk'[t].prev = NULL /\ blk'[t].shareCount = 0
        /\ blk'[t].wait /\ ~blk'[t].signaled
    BY <2>2 DEF NewBlock, Types
  <2> QED  BY <2>1, <2>3, <2>4, <2>5
<1> QED  BY <1>1, <1>2

\* What the four pushes have in common.
LEMMA PushEffect ==
    ASSUME NEW q, NEW b, IInv(q, b), NEW t \in Threads, Push(t)
    PROVE  /\ Step(t) /\ ~Parked(t) /\ ~On(t, q) /\ Parked(t)'
           /\ pc[t] \in {"exTry", "shTry"}
           /\ pc'[t] \in {"initGate", "optimize"}
           /\ lock.locked /\ lock'.waiting /\ lock'.locked /\ lock'.ptr = t
           /\ \A u \in Threads : u # t => blk'[u] = blk[u]
           /\ blk'[t].prev = NULL /\ blk'[t].wait /\ ~blk'[t].signaled
           /\ call' = call /\ hold' = hold /\ gate' = gate
           /\ wb' = wb /\ todo' = todo
<1>0. Types /\ Words /\ Control(t)
  BY DEF IInv, Controls
<1>1. Step(t)
  BY DEF Push, Step, InCall, InAcquire
<1>2. /\ pc[t] \in {"exTry", "shTry"}
      /\ pc'[t] \in {"initGate", "optimize"}
      /\ lock.locked /\ lock'.waiting /\ lock'.locked /\ lock'.ptr = t
      /\ \A u \in Threads : u # t => blk'[u] = blk[u]
      /\ blk'[t].prev = NULL /\ blk'[t].wait /\ ~blk'[t].signaled
      /\ call' = call /\ hold' = hold /\ gate' = gate
      /\ wb' = wb /\ todo' = todo
  <2>1. CASE ExclusiveFirstWaiter(t) \/ SharedFirstWaiter(t)
    BY <1>0, <2>1, FirstWaiterEffect DEF Types
  <2>2. CASE ExclusiveNextWaiter(t) \/ SharedNextWaiter(t)
    <3>1. /\ pc[t] \in {"exTry", "shTry"}
          /\ lock.locked /\ lock'.waiting /\ lock'.locked /\ lock'.ptr = t
          /\ \A u \in Threads : u # t => blk'[u] = blk[u]
          /\ blk'[t].prev = NULL /\ blk'[t].wait /\ ~blk'[t].signaled
          /\ call' = call /\ hold' = hold /\ gate' = gate
          /\ wb' = wb /\ todo' = todo
      BY <1>0, <2>2, NextWaiterEffect
    <3>2. pc' = [pc EXCEPT ![t] = "initGate"] \/ pc' = [pc EXCEPT ![t] = "optimize"]
      BY <1>0, <2>2, NextWaiterEffect
    <3> QED  BY <1>0, <3>1, <3>2 DEF Types
  <2> QED  BY <2>1, <2>2 DEF Push
<1>3. ~Parked(t)
  BY <1>2 DEF Parked, WaiterAt, OptimizerAt, WakerAt, SignalerAt
<1>4. ~On(t, q)
  BY <1>3, NotListed DEF On
<1>5. Parked(t)'
  BY <1>0, <1>2 DEF Parked, WaiterAt, OptimizerAt, Control, Acquiring
<1> QED  BY <1>1, <1>2, <1>3, <1>4, <1>5

\* The list with one more waiter at its new end.
LEMMA PushedList ==
    ASSUME NEW q \in Seq(Threads), NEW t \in Threads, ~On(t, q),
           NEW r, r = Append(q, t)
    PROVE  /\ r \in Seq(Threads) /\ Len(r) = Len(q) + 1 /\ Len(q) \in Nat
           /\ \A i \in 1 .. Len(q) : r[i] = q[i] /\ q[i] \in Threads /\ q[i] # t
           /\ r[Len(q) + 1] = t
           /\ Len(q) > 0 => r[1] = q[1]
<1>1. Len(q) \in Nat
  OBVIOUS
<1>2. /\ r \in Seq(Threads) /\ Len(r) = Len(q) + 1
      /\ \A i \in 1 .. Len(q) : r[i] = q[i] /\ q[i] \in Threads /\ q[i] # t
      /\ r[Len(q) + 1] = t
  BY <1>1 DEF On
<1>3. Len(q) > 0 => r[1] = q[1]
  BY <1>1, <1>2
<1> QED  BY <1>1, <1>2, <1>3

\* It has the waiters of the old one, and the new one.
LEMMA PushedOn ==
    ASSUME NEW q \in Seq(Threads), NEW t \in Threads, ~On(t, q),
           NEW r, r = Append(q, t), NEW u
    PROVE  On(u, r) <=> On(u, q) \/ u = t
<1>1. Len(q) \in Nat
  OBVIOUS
<1>2. /\ r \in Seq(Threads) /\ Len(r) = Len(q) + 1
      /\ \A i \in 1 .. Len(q) : r[i] = q[i]
      /\ r[Len(q) + 1] = t
  BY PushedList
<1>3. ASSUME On(u, r) PROVE On(u, q) \/ u = t
  <2>1. PICK i \in 1 .. Len(r) : r[i] = u
    BY <1>3 DEF On
  <2>2. CASE i \in 1 .. Len(q)
    BY <1>2, <2>1, <2>2 DEF On
  <2>3. CASE i = Len(q) + 1
    BY <1>2, <2>1, <2>3
  <2> QED  BY <1>1, <1>2, <2>2, <2>3
<1>4. ASSUME On(u, q) PROVE On(u, r)
  <2>1. PICK i \in 1 .. Len(q) : q[i] = u
    BY <1>4 DEF On
  <2> QED  BY <1>1, <1>2, <2>1 DEF On
<1>5. On(t, r)
  BY <1>1, <1>2 DEF On
<1> QED  BY <1>3, <1>4, <1>5

\* With the new waiter the list is a list, and its oldest block is found.
LEMMA PushShape ==
    ASSUME NEW q, NEW b, IInv(q, b), NEW t \in Threads, Push(t),
           NEW r, r = Append(q, t)
    PROVE  Shape(r)' /\ Known(r)'
<1>0. Types /\ Words /\ Shape(q) /\ Known(q)
  BY DEF IInv
<1>1. /\ ~On(t, q) /\ lock'.waiting /\ lock'.ptr = t
      /\ \A u \in Threads : u # t => blk'[u] = blk[u]
      /\ blk'[t].prev = NULL
  BY PushEffect
<1>2. /\ r \in Seq(Threads) /\ Len(r) = Len(q) + 1 /\ Len(q) \in Nat
      /\ \A i \in 1 .. Len(q) : r[i] = q[i] /\ q[i] \in Threads /\ q[i] # t
      /\ r[Len(q) + 1] = t
      /\ Len(q) > 0 => r[1] = q[1]
  <2>1. q \in Seq(Threads)
    BY <1>0 DEF Shape
  <2> QED  BY <1>1, <2>1, PushedList
<1>k. \A i \in 1 .. Len(q) : blk'[r[i]] = blk[q[i]]
  BY <1>1, <1>2
<1>3. \A i, j \in 1 .. Len(r) : r[i] = r[j] => i = j
  <2>1. \A i, j \in 1 .. Len(q) : r[i] = r[j] => i = j
    BY <1>0, <1>2 DEF Shape
  <2> QED  BY <1>2, <2>1
<1>4. \A i \in 1 .. Len(r) - 1 : blk'[r[i]].prev \in {NULL, r[i + 1]}
  <2>1. ASSUME NEW i \in 1 .. Len(q) - 1 PROVE blk'[r[i]].prev \in {NULL, r[i + 1]}
    <3>1. i \in 1 .. Len(q) /\ i + 1 \in 1 .. Len(q)
      BY <1>2
    <3>2. blk[q[i]].prev \in {NULL, q[i + 1]}
      BY <1>0 DEF Shape
    <3> QED  BY <1>2, <1>k, <3>1, <3>2
  <2>2. Len(q) > 0 => blk'[r[Len(q)]].prev = NULL
    <3>1. Len(q) > 0 => blk[q[Len(q)]].prev = NULL
      BY <1>0 DEF Shape
    <3> QED  BY <1>2, <1>k, <3>1
  <2> QED  BY <1>2, <2>1, <2>2
<1>5. blk'[r[Len(r)]].prev = NULL
  BY <1>1, <1>2
<1>6. CASE ExclusiveFirstWaiter(t) \/ SharedFirstWaiter(t)
  <2>1. ~lock.waiting /\ blk'[t].last = t
    BY <1>0, <1>6, FirstWaiterEffect
  <2>2. Len(q) = 0
    BY <1>0, <1>2, <2>1 DEF Shape
  <2>3. Len(r) = 1 /\ r[1] = t
    BY <1>2, <2>2
  <2>4. Shape(r)'
    BY <1>1, <1>2, <1>3, <1>4, <1>5, <2>3 DEF Shape
  <2>5. Known(r)'
    <3>1. /\ blk'[r[1]].last = r[1]
          /\ \A i \in 1 + 1 .. Len(r) : blk'[r[i]].last = NULL
          /\ \A i \in 1 .. 1 - 1 : blk'[r[i]].prev = r[i + 1]
      BY <2>1, <2>3
    <3>2. 1 \in 1 .. Len(r)
      BY <2>3
    <3> QED  BY <3>1, <3>2 DEF Known
  <2> QED  BY <2>4, <2>5
<1>7. CASE ExclusiveNextWaiter(t) \/ SharedNextWaiter(t)
  <2>1. lock.waiting /\ blk'[t].next = lock.ptr /\ blk'[t].last = NULL
    BY <1>0, <1>7, NextWaiterEffect
  <2>2. Len(q) > 0 /\ lock.ptr = q[Len(q)]
    BY <1>0, <2>1 DEF Shape
  <2>3. \A i \in 2 .. Len(r) : blk'[r[i]].next = r[i - 1]
    <3>1. ASSUME NEW i \in 2 .. Len(q) PROVE blk'[r[i]].next = r[i - 1]
      <4>1. i \in 1 .. Len(q) /\ i - 1 \in 1 .. Len(q)
        BY <1>2
      <4>2. blk[q[i]].next = q[i - 1]
        BY <1>0 DEF Shape
      <4> QED  BY <1>2, <1>k, <4>1, <4>2
    <3>2. blk'[r[Len(r)]].next = r[Len(r) - 1]
      BY <1>2, <2>1, <2>2
    <3> QED  BY <1>2, <3>1, <3>2
  <2>4. Shape(r)'
    BY <1>1, <1>2, <1>3, <1>4, <1>5, <2>3 DEF Shape
  <2>5. Known(r)'
    <3>1. PICK k \in 1 .. Len(q) :
            /\ blk[q[k]].last = q[1]
            /\ \A i \in k + 1 .. Len(q) : blk[q[i]].last = NULL
            /\ \A i \in 1 .. k - 1 : blk[q[i]].prev = q[i + 1]
      BY <1>0, <2>2 DEF Known
    <3>2. blk'[r[k]].last = r[1]
      BY <1>2, <1>k, <2>2, <3>1
    <3>3. \A i \in k + 1 .. Len(r) : blk'[r[i]].last = NULL
      <4>1. ASSUME NEW i \in k + 1 .. Len(q) PROVE blk'[r[i]].last = NULL
        BY <1>2, <1>k, <3>1
      <4> QED  BY <1>2, <2>1, <4>1
    <3>4. ASSUME NEW i \in 1 .. k - 1 PROVE blk'[r[i]].prev = r[i + 1]
      <4>1. i \in 1 .. Len(q) /\ i + 1 \in 1 .. Len(q)
        BY <1>2
      <4> QED  BY <1>2, <1>k, <3>1, <4>1
    <3>5. k \in 1 .. Len(r)
      BY <1>2
    <3> QED  BY <3>2, <3>3, <3>4, <3>5 DEF Known
  <2> QED  BY <2>4, <2>5
<1> QED  BY <1>6, <1>7 DEF Push


\* The owner of the waking bit still sees what it saw behind the new waiter.
LEMMA PushOwners ==
    ASSUME NEW q, NEW b, IInv(q, b), NEW t \in Threads, Push(t),
           NEW r, r = Append(q, t)
    PROVE  Owners(r)'
<1>0. Types /\ Words /\ Shape(q) /\ Owners(q) /\ Waking /\ Shape(r)'
  BY PushShape DEF IInv
<1>1. /\ ~On(t, q) /\ lock'.waiting /\ lock'.ptr = t /\ Step(t)
      /\ \A u \in Threads : u # t => blk'[u] = blk[u]
      /\ blk'[t].prev = NULL /\ pc'[t] \in {"initGate", "optimize"}
  BY PushEffect
<1>2. /\ r \in Seq(Threads) /\ Len(r) = Len(q) + 1 /\ Len(q) \in Nat
      /\ \A i \in 1 .. Len(q) : r[i] = q[i] /\ q[i] \in Threads /\ q[i] # t
      /\ r[Len(q) + 1] = t
  <2>1. q \in Seq(Threads)
    BY <1>0 DEF Shape
  <2> QED  BY <1>1, <2>1, PushedList
<1>k. \A i \in 1 .. Len(q) : blk'[r[i]] = blk[q[i]]
  BY <1>1, <1>2
<1>3. CASE ExclusiveFirstWaiter(t) \/ SharedFirstWaiter(t)
  <2>1. ~lock.waiting /\ pc' = [pc EXCEPT ![t] = "initGate"]
    BY <1>0, <1>3, FirstWaiterEffect
  <2>2. \A u \in Threads : pc[u] \notin OwnerAt
    BY <1>0, <2>1 DEF Waking, Words, Word
  <2>3. \A u \in Threads : pc'[u] \notin OwnerAt
    BY <1>0, <2>1, <2>2 DEF Types, OwnerAt, OptimizerAt, WakerAt
  <2> QED  BY <2>3 DEF Owners, OwnerAt, WakerAt
<1>4. CASE ExclusiveNextWaiter(t) \/ SharedNextWaiter(t)
  <2>1. lock.waiting /\ blk'[t].last = NULL
    BY <1>0, <1>4, NextWaiterEffect
  <2>l. Len(q) > 0 /\ lock.ptr = q[Len(q)] /\ blk[q[Len(q)]].prev = NULL
    BY <1>0, <2>1 DEF Shape
  <2>2. ASSUME NEW u \in Threads, u # t
        PROVE  /\ pc'[u] \in OwnerAt \ {"wakeClear"} => OwnerView(u, r)'
               /\ pc'[u] = "wakeClear" => \E j \in 1 .. Len(r) : r[j] = cur'[u].ptr
    <3>1. pc'[u] = pc[u] /\ cur'[u] = cur[u] /\ wb'[u] = wb[u]
      BY <1>0, <1>1, <2>2, OthersKeep
    <3>2. ASSUME pc[u] = "wakeClear" PROVE \E j \in 1 .. Len(r) : r[j] = cur'[u].ptr
      <4>1. PICK j \in 1 .. Len(q) : q[j] = cur[u].ptr
        BY <1>0, <3>2 DEF Owners
      <4>2. j \in 1 .. Len(r) /\ r[j] = cur'[u].ptr
        BY <1>2, <3>1, <4>1
      <4> QED  BY <4>2
    <3>3. ASSUME pc[u] \in OwnerAt \ {"wakeClear"} PROVE OwnerView(u, r)'
      <4>1. OwnerView(u, q)
        BY <1>0, <3>3 DEF Owners
      <4>2. PICK j \in 1 .. Len(q) :
              /\ q[j] = cur[u].ptr
              /\ \A i \in j .. Len(q) : blk[q[i]].prev = NULL
              /\ \A i \in j + 1 .. Len(q) : blk[q[i]].last = NULL
              /\ pc[u] \in {"optWalk", "wakeWalk"} =>
                    \E m \in 1 .. j :
                        /\ wb[u] = q[m]
                        /\ \A i \in m .. j - 1 : blk[q[i]].prev = q[i + 1]
                        /\ \A i \in m + 1 .. j : blk[q[i]].last = NULL
              /\ pc[u] = "optDone" => blk[q[j]].last # NULL
              /\ pc[u] = "wakeTake" =>
                    /\ wb[u] = q[1]
                    /\ \A i \in 1 .. j - 1 : blk[q[i]].prev = q[i + 1]
        BY <4>1 DEF OwnerView
      <4>3. j \in 1 .. Len(r) /\ r[j] = cur'[u].ptr /\ blk'[r[j]] = blk[q[j]] /\ r[1] = q[1] /\ j \in Nat
        BY <1>2, <1>k, <2>l, <3>1, <4>2
      <4>4. \A i \in j .. Len(r) : blk'[r[i]].prev = NULL
        <5>1. ASSUME NEW i \in j .. Len(q) PROVE blk'[r[i]].prev = NULL
          BY <1>2, <1>k, <4>2
        <5>2. blk'[r[Len(q) + 1]].prev = NULL
          BY <1>1, <1>2
        <5>3. ASSUME NEW i \in j .. Len(r) PROVE blk'[r[i]].prev = NULL
          <6>1. i \in j .. Len(q) \/ i = Len(q) + 1
            BY <1>2, <4>3
          <6> QED  BY <5>1, <5>2, <6>1
        <5> QED  BY <5>3
      <4>5. \A i \in j + 1 .. Len(r) : blk'[r[i]].last = NULL
        <5>1. ASSUME NEW i \in j + 1 .. Len(q) PROVE blk'[r[i]].last = NULL
          BY <1>2, <1>k, <4>2
        <5> QED  BY <1>2, <2>1, <4>3, <5>1
      <4>6. ASSUME pc'[u] \in {"optWalk", "wakeWalk"}
            PROVE  \E m \in 1 .. j :
                      /\ wb'[u] = r[m]
                      /\ \A i \in m .. j - 1 : blk'[r[i]].prev = r[i + 1]
                      /\ \A i \in m + 1 .. j : blk'[r[i]].last = NULL
        <5>1. PICK m \in 1 .. j :
                      /\ wb[u] = q[m]
                      /\ \A i \in m .. j - 1 : blk[q[i]].prev = q[i + 1]
                      /\ \A i \in m + 1 .. j : blk[q[i]].last = NULL
          BY <3>1, <4>2, <4>6
        <5>2. ASSUME NEW i \in m .. j - 1 PROVE blk'[r[i]].prev = r[i + 1]
          <6>1. i \in 1 .. Len(q) /\ i + 1 \in 1 .. Len(q)
            BY <1>2
          <6> QED  BY <1>2, <1>k, <5>1, <6>1
        <5>3. ASSUME NEW i \in m + 1 .. j PROVE blk'[r[i]].last = NULL
          BY <1>2, <1>k, <5>1
        <5>4. wb'[u] = r[m]
          BY <1>2, <3>1, <5>1
        <5> QED  BY <5>2, <5>3, <5>4
      <4>7. pc'[u] = "optDone" => blk'[r[j]].last # NULL
        BY <3>1, <4>2, <4>3
      <4>8. ASSUME pc'[u] = "wakeTake"
            PROVE  wb'[u] = r[1] /\ \A i \in 1 .. j - 1 : blk'[r[i]].prev = r[i + 1]
        <5>1. wb[u] = q[1] /\ \A i \in 1 .. j - 1 : blk[q[i]].prev = q[i + 1]
          BY <3>1, <4>2, <4>8
        <5>2. ASSUME NEW i \in 1 .. j - 1 PROVE blk'[r[i]].prev = r[i + 1]
          <6>1. i \in 1 .. Len(q) /\ i + 1 \in 1 .. Len(q)
            BY <1>2
          <6> QED  BY <1>2, <1>k, <5>1, <6>1
        <5> QED  BY <3>1, <4>3, <5>1, <5>2
      <4> QED  BY <4>3, <4>4, <4>5, <4>6, <4>7, <4>8 DEF OwnerView
    <3> QED  BY <3>1, <3>2, <3>3
  <2>3. ASSUME pc'[t] = "optimize" PROVE OwnerView(t, r)'
    <3>1. PICK v \in {lock, lock'} : cur' = [cur EXCEPT ![t] = v]
      <4>1. pc' # [pc EXCEPT ![t] = "initGate"]
        BY <1>0, <2>3 DEF Types
      <4> QED  BY <1>0, <1>4, <4>1, NextWaiterEffect
    <3>2. cur'[t] = v
      BY <1>0, <3>1 DEF Types
    <3>3. CASE v = lock'
      BY <1>0, <1>1, <2>3, <3>2, <3>3, NewView
    <3>4. CASE v = lock
      <4>1. Len(q) \in 1 .. Len(r) /\ r[Len(q)] = cur'[t].ptr
        BY <1>2, <2>l, <3>2, <3>4
      <4>2. \A i \in Len(q) .. Len(r) : blk'[r[i]].prev = NULL
        <5>1. blk'[r[Len(q)]].prev = NULL
          BY <1>2, <1>k, <2>l
        <5>2. blk'[r[Len(r)]].prev = NULL
          BY <1>1, <1>2
        <5>3. ASSUME NEW i \in Len(q) .. Len(r) PROVE blk'[r[i]].prev = NULL
          <6>1. i = Len(q) \/ i = Len(r)
            BY <1>2
          <6> QED  BY <5>1, <5>2, <6>1
        <5> QED  BY <5>3
      <4>3. \A i \in Len(q) + 1 .. Len(r) : blk'[r[i]].last = NULL
        BY <1>2, <2>1
      <4> QED  BY <2>3, <4>1, <4>2, <4>3 DEF OwnerView
    <3> QED  BY <3>3, <3>4
  <2>4. pc'[t] \notin {"optWalk", "optDone", "wake", "wakeWalk", "wakeTake", "wakeClear"}
    BY <1>1
  <2> QED
    BY <2>2, <2>3, <2>4 DEF Owners, OwnerAt, OptimizerAt, WakerAt
<1> QED  BY <1>3, <1>4 DEF Push

\* The share count is in the oldest block: moved there by the first waiter.
LEMMA PushSeveral ==
    ASSUME NEW q, NEW b, IInv(q, b), NEW t \in Threads, Push(t),
           NEW r, r = Append(q, t)
    PROVE  Several(r)'
<1>0. Types /\ Words /\ Shape(q) /\ Several(q) /\ Controls
  BY DEF IInv
<1>1. /\ ~On(t, q) /\ lock'.waiting /\ Step(t)
      /\ \A u \in Threads : u # t => blk'[u] = blk[u]
      /\ pc'[t] \in {"initGate", "optimize"}
  BY PushEffect
<1>2. /\ r \in Seq(Threads) /\ Len(r) = Len(q) + 1 /\ Len(q) \in Nat
      /\ \A i \in 1 .. Len(q) : r[i] = q[i] /\ q[i] \in Threads /\ q[i] # t
      /\ r[Len(q) + 1] = t
  <2>1. q \in Seq(Threads)
    BY <1>0 DEF Shape
  <2> QED  BY <1>1, <2>1, PushedList
<1>p. ASSUME NEW u PROVE On(u, r) <=> On(u, q) \/ u = t
  <2>1. q \in Seq(Threads)
    BY <1>0 DEF Shape
  <2> QED  BY <1>1, <2>1, PushedOn
<1>o. \A u \in Threads : u # t =>
         pc'[u] = pc[u] /\ old'[u] = old[u] /\ wb'[u] = wb[u]
  BY <1>0, <1>1, OthersKeep
<1>3. CASE ExclusiveFirstWaiter(t) \/ SharedFirstWaiter(t)
  <2>1. /\ ~lock.waiting /\ (lock'.multi <=> lock.shared > 1)
        /\ blk'[t].last = t
        /\ blk'[t].shareCount = IF lock.shared > 1 THEN lock.shared ELSE 0
        /\ lock.shared > 1 => blk'[t].exclusive
    BY <1>0, <1>3, FirstWaiterEffect
  <2>2. Len(q) = 0
    BY <1>0, <1>2, <2>1 DEF Shape
  <2>3. Len(r) = 1 /\ r[1] = t
    BY <1>2, <2>2
  <2>n. lock.shared \in Nat /\ ~lock.multi
    BY <1>0, <2>1 DEF Types, Wide, Words, Word
  <2>4. \A u \in Threads : pc[u] \notin {"relWalk", "relCount", "relUnlock"}
    BY <1>0, <2>1 DEF Several, Controls, Control
  <2>5. \A u \in Threads : pc[u] = "relTry" => ~old[u].waiting /\ ~old[u].multi
    BY <1>0, <2>1 DEF Several, Words, Word
  <2>6. \A u \in Threads : /\ pc'[u] \notin {"relWalk", "relCount", "relUnlock"}
                           /\ pc'[u] = "relTry" => ~old'[u].waiting /\ ~old'[u].multi
    BY <1>1, <1>o, <2>4, <2>5
  <2>7. \A u \in Threads : blk'[u].shareCount # 0 => lock'.multi /\ u = r[1]
    <3>1. ASSUME NEW u \in Threads, u # t PROVE blk'[u].shareCount = 0
      BY <1>0, <1>1, <2>n, <3>1 DEF Several
    <3>2. blk'[t].shareCount # 0 => lock'.multi
      BY <2>1
    <3> QED  BY <2>3, <3>1, <3>2
  <2>8. lock'.multi => blk'[r[1]].shareCount # 0
    BY <2>1, <2>3, <2>n
  <2>9. lock'.multi => /\ blk'[r[1]].exclusive
                     /\ blk'[r[1]].last = r[1]
                     /\ \A i \in 1 .. Len(r) : blk'[r[i]].last \in {NULL, r[1]}
    BY <2>1, <2>3
  <2> QED  BY <2>6, <2>7, <2>8, <2>9 DEF Several
<1>4. CASE ExclusiveNextWaiter(t) \/ SharedNextWaiter(t)
  <2>1. /\ lock.waiting /\ blk'[t].last = NULL /\ lock'.multi = lock.multi
        /\ blk'[t].shareCount = 0
    BY <1>0, <1>4, NextWaiterEffect
  <2>2. Len(q) > 0
    BY <1>0, <2>1 DEF Shape
  <2>3. r[1] = q[1] /\ q[1] # t /\ q[1] \in Threads /\ blk'[q[1]] = blk[q[1]]
    BY <1>1, <1>2, <2>2
  <2>4. ASSUME lock'.multi
        PROVE  /\ blk'[r[1]].exclusive
               /\ blk'[r[1]].last = r[1]
               /\ \A i \in 1 .. Len(r) : blk'[r[i]].last \in {NULL, r[1]}
    <3>1. /\ blk[q[1]].exclusive /\ blk[q[1]].last = q[1]
          /\ \A i \in 1 .. Len(q) : blk[q[i]].last \in {NULL, q[1]}
      BY <1>0, <2>1, <2>4 DEF Several
    <3>2. \A i \in 1 .. Len(q) : blk'[r[i]].last \in {NULL, r[1]}
      BY <1>1, <1>2, <2>3, <3>1
    <3> QED  BY <1>2, <2>1, <2>3, <3>1, <3>2
  <2>5. ASSUME lock'.multi, blk'[r[1]].shareCount = 0 PROVE \E v \in Threads : pc'[v] = "relUnlock"
    <3>1. PICK v \in Threads : pc[v] = "relUnlock"
      BY <1>0, <2>1, <2>3, <2>5 DEF Several
    <3>2. v # t
      BY <3>1, PushEffect
    <3> QED  BY <1>o, <3>1, <3>2
  <2>6. \A u \in Threads : blk'[u].shareCount # 0 => lock'.multi /\ u = r[1]
    BY <1>0, <1>1, <2>1, <2>3 DEF Several
  <2>7. ASSUME NEW u \in Threads
        PROVE
        /\ pc'[u] \in {"relTry", "relWalk", "relCount", "relUnlock"} /\ old'[u].waiting =>
               lock'.waiting /\ lock'.multi = old'[u].multi
        /\ pc'[u] = "relTry" /\ old'[u].multi => On(old'[u].ptr, r)
        /\ pc'[u] = "relWalk" => On(wb'[u], r)
        /\ pc'[u] = "relCount" => wb'[u] = r[1]
        /\ pc'[u] = "relUnlock" /\ lock'.multi => blk'[r[1]].shareCount = 0
    <3>1. CASE u = t
      BY <1>1, <3>1
    <3>2. CASE u # t
      <4>1. pc'[u] = pc[u] /\ old'[u] = old[u] /\ wb'[u] = wb[u]
        BY <1>o, <3>2
      <4>2. /\ pc[u] \in {"relTry", "relWalk", "relCount", "relUnlock"} /\ old[u].waiting =>
               lock.waiting /\ lock.multi = old[u].multi
            /\ pc[u] = "relTry" /\ old[u].multi => On(old[u].ptr, q)
            /\ pc[u] = "relWalk" => On(wb[u], q)
            /\ pc[u] = "relCount" => wb[u] = q[1]
            /\ pc[u] = "relUnlock" /\ lock.multi => blk[q[1]].shareCount = 0
        BY <1>0 DEF Several
      <4>3. old[u].ptr \in Threads \/ ~old[u].multi
        BY <1>0 DEF Types, Wide, Words, Word
      <4>4. pc[u] = "relWalk" => wb[u] \in Threads
        BY Walkers DEF WalkerAt
      <4> QED  BY <1>1, <1>p, <2>1, <2>3, <4>1, <4>2, <4>3, <4>4
    <3> QED  BY <3>1, <3>2
  <2> QED  BY <2>4, <2>5, <2>6, <2>7 DEF Several
<1> QED  BY <1>3, <1>4 DEF Push

\* It is the same count.
LEMMA PushCounted ==
    ASSUME NEW q, NEW b, IInv(q, b), NEW t \in Threads, Push(t),
           NEW r, r = Append(q, t)
    PROVE  Counted(r)'
<1>0. Types /\ Words /\ Shape(q) /\ Counted(q)
  BY DEF IInv
<1>1. /\ ~On(t, q) /\ lock'.locked /\ lock.locked /\ Step(t)
      /\ \A u \in Threads : u # t => blk'[u] = blk[u]
      /\ pc[t] \in {"exTry", "shTry"}
      /\ pc'[t] \in {"initGate", "optimize"} /\ hold' = hold
  BY PushEffect
<1>2. /\ r \in Seq(Threads) /\ Len(r) = Len(q) + 1 /\ Len(q) \in Nat
      /\ \A i \in 1 .. Len(q) : r[i] = q[i] /\ q[i] \in Threads /\ q[i] # t
      /\ r[Len(q) + 1] = t
  <2>1. q \in Seq(Threads)
    BY <1>0 DEF Shape
  <2> QED  BY <1>1, <2>1, PushedList
<1>3. Holders' = Holders
  <2>1. \A u \in Threads : u # t => pc'[u] = pc[u]
    BY <1>0, <1>1, OthersKeep
  <2>2. ASSUME NEW u \in Threads
        PROVE  pc'[u] \in Releasing \cup {"rxTry"} <=> pc[u] \in Releasing \cup {"rxTry"}
    BY <1>1, <2>1 DEF Releasing
  <2> QED  BY <1>1, <2>2 DEF Holders
<1>4. Held(r)' = Held(q)
  <2>1. CASE ExclusiveFirstWaiter(t) \/ SharedFirstWaiter(t)
    <3>1. /\ ~lock.waiting /\ (lock'.multi <=> lock.shared > 1) /\ lock'.shared = 0
          /\ blk'[t].shareCount = IF lock.shared > 1 THEN lock.shared ELSE 0
      BY <1>0, <2>1, FirstWaiterEffect
    <3>2. Len(q) = 0
      BY <1>0, <1>2, <3>1 DEF Shape
    <3>3. r[1] = t
      BY <1>2, <3>2
    <3>4. lock.shared \in Nat /\ ~lock.multi
      BY <1>0, <3>1 DEF Types, Wide, Words, Word
    <3>5. Held(q) = AtLeastOne(lock.shared)
      BY <1>1, <3>4 DEF Held
    <3>6. CASE lock.shared > 1
      BY <1>1, <3>1, <3>3, <3>5, <3>6 DEF Held
    <3>7. CASE ~(lock.shared > 1)
      <4>1. Held(r)' = AtLeastOne(0)
        BY <1>1, <3>1, <3>7 DEF Held
      <4>2. AtLeastOne(lock.shared) = 1 /\ AtLeastOne(0) = 1
        BY <3>4, <3>7 DEF AtLeastOne
      <4> QED  BY <3>5, <4>1, <4>2
    <3> QED  BY <3>6, <3>7
  <2>2. CASE ExclusiveNextWaiter(t) \/ SharedNextWaiter(t)
    <3>1. lock.waiting /\ lock'.multi = lock.multi /\ lock'.shared = lock.shared
      BY <1>0, <2>2, NextWaiterEffect
    <3>2. Len(q) > 0
      BY <1>0, <3>1 DEF Shape
    <3>3. r[1] = q[1] /\ blk'[q[1]] = blk[q[1]]
      BY <1>1, <1>2, <3>2
    <3> QED  BY <1>1, <3>1, <3>3 DEF Held
  <2> QED  BY <2>1, <2>2 DEF Push
<1>5. \A u \in Threads : hold'[u] = "exclusive" \/ pc'[u] = "rxTry" =>
              ~lock'.multi /\ lock'.shared = 0
  BY <1>1, ExclusivesStep
<1>6. Cardinality(Holders') = Held(r)'
  BY <1>0, <1>3, <1>4 DEF Counted
<1> QED  BY <1>5, <1>6 DEF Counted

\* Batches that are off another list too.
LEMMA BatchesOther ==
    ASSUME NEW q, NEW r, NEW b, Batches(q, b)',
           \A u, v \in Threads : On(u, b[v]) => ~On(u, r)
    PROVE  Batches(r, b)'
  BY DEF Batches

\* A new waiter is on the list, in no batch, with its gate not signaled.
LEMMA PushRest ==
    ASSUME NEW q, NEW b, IInv(q, b), NEW t \in Threads, Push(t),
           NEW r, r = Append(q, t)
    PROVE  Batches(r, b)' /\ Members(r, b)' /\ Gates' /\ Served(b)'
<1>0. Types /\ Shape(q) /\ Batches(q, b) /\ Members(q, b) /\ Gates
  BY DEF IInv
<1>1. /\ Step(t) /\ ~Parked(t) /\ ~On(t, q) /\ Parked(t)'
      /\ pc[t] \in {"exTry", "shTry"}
      /\ pc'[t] \in {"initGate", "optimize"}
      /\ lock'.locked
      /\ \A u \in Threads : u # t => blk'[u] = blk[u]
      /\ blk'[t].wait /\ ~blk'[t].signaled
      /\ call' = call /\ hold' = hold /\ gate' = gate
      /\ wb' = wb /\ todo' = todo
  BY PushEffect
<1>2. ASSUME NEW u \in Threads PROVE On(u, r) <=> On(u, q) \/ u = t
  <2>1. q \in Seq(Threads)
    BY <1>0 DEF Shape
  <2> QED  BY <1>1, <2>1, PushedOn
<1>n. \A v \in Threads : ~On(t, b[v])
  BY <1>1, NotListed DEF On
<1>o. \A u \in Threads : u # t => pc'[u] = pc[u]
  BY <1>0, <1>1, OthersKeep
<1>3. Batches(r, b)'
  <2>1. \A v \in Threads : \A i \in 1 .. Len(b[v]) : blk'[b[v][i]].prev = blk[b[v][i]].prev
    <3>1. ASSUME NEW v \in Threads, NEW i \in 1 .. Len(b[v])
          PROVE  blk'[b[v][i]].prev = blk[b[v][i]].prev
      <4>1. b[v][i] \in Threads
        BY <1>0 DEF Batches
      <4>2. b[v][i] # t
        BY <1>n DEF On
      <4> QED  BY <1>1, <4>1, <4>2
    <3> QED  BY <3>1
  <2>2. ASSUME NEW v \in Threads
        PROVE
              /\ b[v] # << >> => pc'[v] \in {"wakeClear"} \cup SignalerAt
              /\ pc'[v] \in {"wakeClear", "signal"} => b[v] # << >> /\ wb'[v] = b[v][1]
              /\ pc'[v] = "wakeClear" => Len(b[v]) = 1
              /\ pc'[v] = "setGate" => wb'[v] # NULL /\ todo'[v] = IF b[v] = << >> THEN NULL ELSE b[v][1]
    <3>1. /\ b[v] # << >> => pc[v] \in {"wakeClear"} \cup SignalerAt
          /\ pc[v] \in {"wakeClear", "signal"} => b[v] # << >> /\ wb[v] = b[v][1]
          /\ pc[v] = "wakeClear" => Len(b[v]) = 1
          /\ pc[v] = "setGate" => wb[v] # NULL /\ todo[v] = IF b[v] = << >> THEN NULL ELSE b[v][1]
      BY <1>0 DEF Batches
    <3>2. CASE v = t
      BY <1>1, <3>1, <3>2 DEF SignalerAt
    <3>3. CASE v # t
      BY <1>1, <1>o, <3>1, <3>3
    <3> QED  BY <3>2, <3>3
  <2>3. Batches(q, b)'
    BY <1>0, <2>1, <2>2, BatchesKept
  <2>4. \A u, v \in Threads : On(u, b[v]) => ~On(u, r)
    <3>1. \A u, v \in Threads : On(u, b[v]) => ~On(u, q)
      BY <1>0 DEF Batches
    <3> QED  BY <1>2, <1>n, <3>1
  <2> QED  BY <2>3, <2>4, BatchesOther
<1>4. Members(r, b)'
  <2>1. ASSUME NEW u \in Threads
        PROVE  Parked(u)' /\ ~blk'[u].signaled <=> On(u, r) \/ \E v \in Threads : On(u, b[v])
    <3>1. CASE u = t
      BY <1>1, <1>2, <3>1
    <3>2. CASE u # t
      <4>1. Parked(u)' <=> Parked(u)
        BY <1>0, <1>1, <3>2, ParkedOthers
      <4>2. Parked(u) /\ ~blk[u].signaled <=> On(u, q) \/ \E v \in Threads : On(u, b[v])
        BY <1>0 DEF Members
      <4> QED  BY <1>1, <1>2, <3>2, <4>1, <4>2
    <3> QED  BY <3>1, <3>2
  <2> QED  BY <2>1 DEF Members
<1>5. Gates'
  <2>1. \A v, u \in Threads : pc'[v] = "setGate" /\ wb'[v] = u => pc[v] = "setGate" /\ wb[v] = u /\ u # t
    BY <1>0, <1>1, <1>o DEF Gates
  <2>2. ASSUME NEW u \in Threads
        PROVE
        /\ Parked(u)' /\ ~blk'[u].signaled => (blk'[u].wait <=> pc'[u] # "gateWait")
        /\ Parked(u)' /\ blk'[u].signaled => ~blk'[u].wait
        /\ pc'[u] = "testWait" => ~gate'[u]
        /\ pc'[u] = "gateWait" /\ ~blk'[u].signaled => ~gate'[u]
        /\ pc'[u] = "gateWait" /\ blk'[u].signaled =>
              gate'[u] \/ \E v \in Threads : pc'[v] = "setGate" /\ wb'[v] = u
        /\ \A v \in Threads : pc'[v] = "setGate" /\ wb'[v] = u =>
              pc'[u] = "gateWait" /\ blk'[u].signaled /\ ~gate'[u]
        /\ \A v, w \in Threads : pc'[v] = "setGate" /\ wb'[v] = u /\ pc'[w] = "setGate" /\ wb'[w] = u => v = w
    <3>1. CASE u = t
      BY <1>1, <2>1, <3>1
    <3>2. CASE u # t
      <4>1. (Parked(u)' <=> Parked(u)) /\ blk'[u] = blk[u] /\ pc'[u] = pc[u] /\ gate'[u] = gate[u]
        BY <1>0, <1>1, <1>o, <3>2, ParkedOthers
      <4>2. \A v \in Threads : pc[v] = "setGate" => pc'[v] = "setGate" /\ wb'[v] = wb[v]
        BY <1>1, <1>o
      <4>3. /\ Parked(u) /\ ~blk[u].signaled => (blk[u].wait <=> pc[u] # "gateWait")
            /\ Parked(u) /\ blk[u].signaled => ~blk[u].wait
            /\ pc[u] = "testWait" => ~gate[u]
            /\ pc[u] = "gateWait" /\ ~blk[u].signaled => ~gate[u]
            /\ pc[u] = "gateWait" /\ blk[u].signaled =>
                  gate[u] \/ \E v \in Threads : pc[v] = "setGate" /\ wb[v] = u
            /\ \A v \in Threads : pc[v] = "setGate" /\ wb[v] = u =>
                  pc[u] = "gateWait" /\ blk[u].signaled /\ ~gate[u]
            /\ \A v, w \in Threads : pc[v] = "setGate" /\ wb[v] = u /\ pc[w] = "setGate" /\ wb[w] = u => v = w
        BY <1>0 DEF Gates
      <4> QED  BY <2>1, <4>1, <4>2, <4>3
    <3> QED  BY <3>1, <3>2
  <2> QED  BY <2>2 DEF Gates
<1>6. Served(b)'
  BY <1>1 DEF Served
<1> QED  BY <1>3, <1>4, <1>5, <1>6

\* The step that adds a waiter keeps the invariant, with the longer list.
LEMMA PushStep ==
    ASSUME NEW q, NEW b, IInv(q, b), NEW t \in Threads, Push(t)
    PROVE  IInv(Append(q, t), b)'
<1>1. PICK r : r = Append(q, t)
  OBVIOUS
<1>2. Step(t)
  BY PushEffect
<1>3. Types' /\ Words' /\ Controls' /\ Waking'
  BY <1>2, TypesStep, WordsStep, ControlsStep, WakingStep
<1>4. Shape(r)' /\ Known(r)' /\ Owners(r)' /\ Several(r)' /\ Counted(r)'
  BY <1>1, PushShape, PushOwners, PushSeveral, PushCounted
<1>5. Bounded'
  BY <1>2, <1>4, BoundedStep
<1>6. Batches(r, b)' /\ Members(r, b)' /\ Gates' /\ Served(b)'
  BY <1>1, PushRest
<1>7. IInv(r, b)'
  BY <1>3, <1>4, <1>5, <1>6 DEF IInv
<1> QED  BY <1>1, <1>7


-----------------------------------------------------------------------------
(* The waker takes waiters off the list. *)

\* What the thread at WakeAll or WakeUnlink knows of the list.
LEMMA TakerView ==
    ASSUME NEW q, NEW b, IInv(q, b), NEW t \in Threads, pc[t] = "wakeTake"
    PROVE  /\ q \in Seq(Threads) /\ Len(q) \in Nat \ {0}
           /\ lock.waiting /\ lock.waking /\ ~lock.multi /\ ~cur[t].locked
           /\ \A i \in 1 .. Len(q) : q[i] \in Threads
           /\ \A i, j \in 1 .. Len(q) : q[i] = q[j] => i = j
           /\ wb[t] = q[1] /\ b[t] = << >>
           /\ \A v \in Threads : v # t => pc[v] \notin OwnerAt
           /\ \A u \in Threads : blk[u].shareCount = 0
           /\ \E j \in 1 .. Len(q) :
                 /\ q[j] = cur[t].ptr
                 /\ \A i \in j .. Len(q) : blk[q[i]].prev = NULL
                 /\ \A i \in j + 1 .. Len(q) : blk[q[i]].last = NULL
                 /\ \A i \in 1 .. j - 1 : blk[q[i]].prev = q[i + 1]
<1>0. Types /\ Words /\ Control(t) /\ Waking /\ Shape(q) /\ Owners(q) /\ Several(q) /\ Batches(q, b)
  BY DEF IInv, Controls
<1>1. pc[t] \in OwnerAt \ {"wakeClear"} /\ pc[t] \in WakerAt
  BY DEF OwnerAt, WakerAt
<1>2. lock.waking /\ lock.waiting /\ \A v \in Threads : v # t => pc[v] \notin OwnerAt
  <2>1. lock.waking /\ \A v \in Threads : v # t => pc[v] \notin OwnerAt
    BY <1>0, <1>1 DEF Waking
  <2> QED  BY <1>0, <2>1 DEF Words, Word
<1>3. ~lock.multi /\ ~cur[t].locked
  BY <1>0, <1>1 DEF Control
<1>4. q \in Seq(Threads) /\ Len(q) > 0 /\ \A i, j \in 1 .. Len(q) : q[i] = q[j] => i = j
  BY <1>0, <1>2 DEF Shape
<1>5. Len(q) \in Nat \ {0} /\ \A i \in 1 .. Len(q) : q[i] \in Threads
  BY <1>4
<1>6. b[t] = << >>
  BY <1>0 DEF Batches, SignalerAt
<1>7. \A u \in Threads : blk[u].shareCount = 0
  BY <1>0, <1>3 DEF Several
<1>8. OwnerView(t, q)
  BY <1>0, <1>1 DEF Owners
<1>9. /\ wb[t] = q[1]
      /\ \E j \in 1 .. Len(q) :
                 /\ q[j] = cur[t].ptr
                 /\ \A i \in j .. Len(q) : blk[q[i]].prev = NULL
                 /\ \A i \in j + 1 .. Len(q) : blk[q[i]].last = NULL
                 /\ \A i \in 1 .. j - 1 : blk[q[i]].prev = q[i + 1]
  BY <1>8 DEF OwnerView
<1> QED  BY <1>2, <1>3, <1>4, <1>5, <1>6, <1>7, <1>9

\* Who is parked, and at the gates, does not change when the waker goes on.
LEMMA TakerGates ==
    ASSUME NEW q, NEW b, IInv(q, b), NEW t \in Threads, WakeAll(t) \/ WakeUnlink(t)
    PROVE  /\ Step(t) /\ Gates'
           /\ \A u \in Threads : /\ (Parked(u)' <=> Parked(u))
                                 /\ (blk'[u].signaled <=> blk[u].signaled)
           /\ Holders' = Holders
<1>0. Types /\ Gates
  BY DEF IInv
<1>1. /\ Step(t) /\ pc[t] = "wakeTake" /\ call' = call /\ wb' = wb /\ hold' = hold
      /\ pc' = [pc EXCEPT ![t] = IF WakeAll(t) THEN "signal" ELSE "wakeClear"]
  BY DEF Step, InCall, InWake, WakeAll, WakeUnlink, Goto, locals
<1>2. pc'[t] \in {"signal", "wakeClear"}
  BY <1>0, <1>1 DEF Types
<1>o. \A u \in Threads : u # t => pc'[u] = pc[u]
  BY <1>0, <1>1, OthersKeep
<1>3. ASSUME NEW u \in Threads PROVE Parked(u)' <=> Parked(u)
  <2>1. CASE u # t
    BY <1>0, <1>1, <2>1, ParkedOthers
  <2>2. CASE u = t
    BY <1>1, <1>2, <2>2 DEF Parked, WaiterAt, OptimizerAt, WakerAt, SignalerAt, Acquiring
  <2> QED  BY <2>1, <2>2
<1>4. ASSUME NEW u \in Threads
      PROVE  (blk'[u].signaled <=> blk[u].signaled) /\ (blk'[u].wait <=> blk[u].wait)
  <2>1. CASE WakeAll(t)
    BY <2>1 DEF WakeAll
  <2>2. CASE WakeUnlink(t)
    BY <1>0, <2>2 DEF WakeUnlink, Types, WideBlock
  <2> QED  BY <2>1, <2>2
<1>5. gate' = gate
  BY DEF WakeAll, WakeUnlink
<1>6. ASSUME NEW u \in Threads
      PROVE  /\ (gate'[u] <=> gate[u])
             /\ pc'[u] \in {"testWait", "gateWait", "setGate"} \/ pc[u] \in {"testWait", "gateWait", "setGate"} =>
                    pc'[u] = pc[u]
             /\ pc'[u] = "setGate" => wb'[u] = wb[u]
             /\ Parked(u)' => Parked(u) /\ (blk'[u].wait <=> blk[u].wait) /\ (blk'[u].signaled <=> blk[u].signaled)
  BY <1>1, <1>2, <1>3, <1>4, <1>5, <1>o
<1>7. Gates'
  BY <1>0, <1>6, GatesKept
<1>8. Holders' = Holders
  <2>1. ASSUME NEW u \in Threads
        PROVE  pc'[u] \in Releasing \cup {"rxTry"} <=> pc[u] \in Releasing \cup {"rxTry"}
    BY <1>1, <1>2, <1>o DEF Releasing
  <2> QED  BY <1>1, <2>1 DEF Holders
<1> QED  BY <1>1, <1>3, <1>4, <1>7, <1>8

\* The one that takes all waiters keeps it: they become the taker's batch.
LEMMA WakeAllStep ==
    ASSUME NEW q, NEW b, IInv(q, b), NEW t \in Threads, WakeAll(t),
           NEW c, c = [b EXCEPT ![t] = q]
    PROVE  IInv(<< >>, c)'
<1>0. Types /\ Shape(q) /\ Several(q) /\ Counted(q) /\ Batches(q, b) /\ Members(q, b) /\ Controls /\ Words
  BY DEF IInv
<1>1. /\ pc[t] = "wakeTake" /\ lock = cur[t] /\ lock' = Free
      /\ blk' = blk /\ gate' = gate /\ call' = call /\ hold' = hold
      /\ old' = old /\ wb' = wb /\ todo' = todo
      /\ pc' = [pc EXCEPT ![t] = "signal"]
  BY DEF WakeAll, Goto, Exchange
<1>2. /\ q \in Seq(Threads) /\ Len(q) \in Nat \ {0}
      /\ lock.waiting /\ ~lock.locked /\ ~cur[t].locked
      /\ \A i \in 1 .. Len(q) : q[i] \in Threads
      /\ \A i, j \in 1 .. Len(q) : q[i] = q[j] => i = j
      /\ wb[t] = q[1] /\ b[t] = << >>
      /\ \A u \in Threads : blk[u].shareCount = 0
  BY <1>1, TakerView
<1>3. /\ Step(t) /\ Gates' /\ Holders' = Holders
      /\ \A u \in Threads : /\ (Parked(u)' <=> Parked(u))
                            /\ (blk'[u].signaled <=> blk[u].signaled)
  BY TakerGates
<1>4. Types' /\ Words' /\ Controls' /\ Waking'
  BY <1>3, TypesStep, WordsStep, ControlsStep, WakingStep
<1>5. /\ ~lock'.locked /\ ~lock'.waiting /\ ~lock'.waking /\ ~lock'.multi
      /\ lock'.shared = 0 /\ lock'.ptr = NULL
  BY <1>1 DEF Free
<1>6. Len(<< >>) = 0 /\ << >> \in Seq(Threads)
  OBVIOUS
<1>7. Shape(<< >>)' /\ Known(<< >>)'
  BY <1>5, <1>6 DEF Shape, Known
<1>8. Owners(<< >>)'
  <2>1. \A u \in Threads : pc'[u] \notin OwnerAt
    BY <1>4, <1>5 DEF Waking
  <2> QED  BY <2>1 DEF Owners, OwnerAt, WakerAt
<1>o. \A u \in Threads : u # t => pc'[u] = pc[u]
  BY <1>0, <1>3, OthersKeep
<1>t. pc'[t] = "signal"
  BY <1>0, <1>1 DEF Types
<1>9. Several(<< >>)'
  <2>1. \A u \in Threads : u \notin Holders
    BY <1>2, HoldersLock
  <2>2. \A u \in Threads : pc[u] \notin Releasing
    BY <2>1 DEF Holders
  <2>3. \A u \in Threads : pc'[u] \notin {"relTry", "relWalk", "relCount", "relUnlock"}
    BY <1>o, <1>t, <2>2 DEF Releasing
  <2> QED  BY <1>1, <1>2, <1>5, <2>3 DEF Several
<1>10. Counted(<< >>)'
  <2>1. Cardinality(Holders') = Held(<< >>)'
    BY <1>0, <1>2, <1>3, <1>5 DEF Counted, Held
  <2>2. \A u \in Threads : hold'[u] = "exclusive" \/ pc'[u] = "rxTry" =>
              ~lock'.multi /\ lock'.shared = 0
    BY <1>5
  <2> QED  BY <2>1, <2>2 DEF Counted
<1>11. Bounded'
  BY <1>3, <1>10, BoundedStep
<1>c. c \in [Threads -> Seq(Threads)] /\ c[t] = q /\ \A v \in Threads : v # t => c[v] = b[v]
  BY <1>0, <1>2 DEF Batches
<1>n. \A u : ~On(u, << >>)
  BY DEF On
<1>q. q # << >>
  BY <1>2
<1>12. Batches(<< >>, c)'
  <2>1. ASSUME NEW v \in Threads
        PROVE
        /\ c[v] # << >> => pc'[v] \in {"wakeClear"} \cup SignalerAt
        /\ pc'[v] \in {"wakeClear", "signal"} => c[v] # << >> /\ wb'[v] = c[v][1]
        /\ pc'[v] = "wakeClear" => Len(c[v]) = 1
        /\ pc'[v] = "setGate" => wb'[v] # NULL /\ todo'[v] = IF c[v] = << >> THEN NULL ELSE c[v][1]
        /\ \A i, j \in 1 .. Len(c[v]) : c[v][i] = c[v][j] => i = j
        /\ \A i \in 1 .. Len(c[v]) - 1 : blk'[c[v][i]].prev = c[v][i + 1]
        /\ c[v] # << >> => blk'[c[v][Len(c[v])]].prev = NULL
    <3>1. CASE v = t
      <4>1. PICK j \in 1 .. Len(q) :
                 /\ q[j] = cur[t].ptr
                 /\ \A i \in 1 .. j - 1 : blk[q[i]].prev = q[i + 1]
        BY <1>1, TakerView
      <4>2. lock.ptr = q[Len(q)] /\ blk[q[Len(q)]].prev = NULL
        BY <1>0, <1>2 DEF Shape
      <4>3. j = Len(q)
        <5>1. q[j] = q[Len(q)] /\ Len(q) \in 1 .. Len(q)
          BY <1>1, <1>2, <4>1, <4>2
        <5> QED  BY <1>2, <5>1
      <4>4. \A i \in 1 .. Len(q) - 1 : blk[q[i]].prev = q[i + 1]
        BY <4>1, <4>3
      <4> QED  BY <1>1, <1>2, <1>c, <1>q, <1>t, <3>1, <4>2, <4>4 DEF SignalerAt
    <3>2. CASE v # t
      <4>1. c[v] = b[v] /\ pc'[v] = pc[v]
        BY <1>c, <1>o, <3>2
      <4>2. /\ b[v] # << >> => pc[v] \in {"wakeClear"} \cup SignalerAt
            /\ pc[v] \in {"wakeClear", "signal"} => b[v] # << >> /\ wb[v] = b[v][1]
            /\ pc[v] = "wakeClear" => Len(b[v]) = 1
            /\ pc[v] = "setGate" => wb[v] # NULL /\ todo[v] = IF b[v] = << >> THEN NULL ELSE b[v][1]
            /\ \A i, j \in 1 .. Len(b[v]) : b[v][i] = b[v][j] => i = j
            /\ \A i \in 1 .. Len(b[v]) - 1 : blk[b[v][i]].prev = b[v][i + 1]
            /\ b[v] # << >> => blk[b[v][Len(b[v])]].prev = NULL
        BY <1>0 DEF Batches
      <4> QED  BY <1>1, <4>1, <4>2
    <3> QED  BY <3>1, <3>2
  <2>2. ASSUME NEW v \in Threads, NEW w \in Threads, NEW u \in Threads,
               On(u, c[v]), On(u, c[w])
        PROVE  v = w
    <3>1. \A x \in Threads : On(u, b[x]) => ~On(u, q)
      BY <1>0 DEF Batches
    <3>2. \A x, y \in Threads : On(u, b[x]) /\ On(u, b[y]) => x = y
      BY <1>0 DEF Batches
    <3> QED  BY <1>c, <2>2, <3>1, <3>2
  <2> QED  BY <1>c, <1>n, <2>1, <2>2 DEF Batches
<1>13. Members(<< >>, c)'
  <2>1. ASSUME NEW u \in Threads
        PROVE  Parked(u)' /\ ~blk'[u].signaled <=> On(u, << >>) \/ \E v \in Threads : On(u, c[v])
    <3>1. Parked(u) /\ ~blk[u].signaled <=> On(u, q) \/ \E v \in Threads : On(u, b[v])
      BY <1>0 DEF Members
    <3>2. (\E v \in Threads : On(u, c[v])) <=> On(u, q) \/ \E v \in Threads : On(u, b[v])
      <4>1. ~On(u, b[t])
        BY <1>2, <1>n
      <4> QED  BY <1>c, <4>1
    <3> QED  BY <1>3, <1>n, <3>1, <3>2
  <2> QED  BY <2>1 DEF Members
<1>14. Served(c)'
  BY <1>5 DEF Served
<1> QED
  BY <1>3, <1>4, <1>7, <1>8, <1>9, <1>10, <1>11, <1>12, <1>13, <1>14 DEF IInv


\* The list without its oldest waiter.
LEMMA UnlinkedList ==
    ASSUME NEW q \in Seq(Threads), Len(q) > 0, NEW r, r = Tail(q),
           \A i, j \in 1 .. Len(q) : q[i] = q[j] => i = j
    PROVE  /\ r \in Seq(Threads) /\ Len(q) \in Nat /\ Len(r) = Len(q) - 1
           /\ \A i \in 1 .. Len(r) : r[i] = q[i + 1] /\ r[i] # q[1] /\ r[i] \in Threads
<1>1. Len(q) \in Nat /\ q # << >>
  OBVIOUS
<1>2. r \in Seq(Threads) /\ Len(r) = Len(q) - 1 /\ \A i \in 1 .. Len(q) - 1 : r[i] = q[i + 1]
  BY <1>1, TailFacts
<1>3. ASSUME NEW i \in 1 .. Len(r) PROVE r[i] = q[i + 1] /\ r[i] # q[1] /\ r[i] \in Threads
  <2>1. r[i] = q[i + 1] /\ i + 1 \in 1 .. Len(q) /\ 1 \in 1 .. Len(q) /\ i + 1 # 1
    BY <1>1, <1>2
  <2> QED  BY <2>1
<1> QED  BY <1>1, <1>2, <1>3

\* It has the other waiters.
LEMMA UnlinkedOn ==
    ASSUME NEW q \in Seq(Threads), Len(q) > 0, NEW r, r = Tail(q),
           \A i, j \in 1 .. Len(q) : q[i] = q[j] => i = j, NEW u
    PROVE  /\ On(u, q) <=> u = q[1] \/ On(u, r)
           /\ ~(u = q[1] /\ On(u, r))
<1>1. /\ Len(q) \in Nat /\ Len(r) = Len(q) - 1
      /\ \A i \in 1 .. Len(r) : r[i] = q[i + 1] /\ r[i] # q[1]
  BY UnlinkedList
<1>2. ASSUME On(u, q), u # q[1] PROVE On(u, r)
  <2>1. PICK i \in 1 .. Len(q) : q[i] = u
    BY <1>2 DEF On
  <2>2. i # 1
    BY <1>2, <2>1
  <2>3. i - 1 \in 1 .. Len(r) /\ (i - 1) + 1 = i
    BY <1>1, <2>2
  <2>4. r[i - 1] = u
    BY <1>1, <2>1, <2>3
  <2> QED  BY <2>3, <2>4 DEF On
<1>3. ASSUME On(u, r) PROVE On(u, q) /\ u # q[1]
  <2>1. PICK i \in 1 .. Len(r) : r[i] = u
    BY <1>3 DEF On
  <2>2. i + 1 \in 1 .. Len(q) /\ q[i + 1] = u /\ u # q[1]
    BY <1>1, <2>1
  <2> QED  BY <2>2 DEF On
<1>4. On(q[1], q)
  BY <1>1 DEF On
<1> QED  BY <1>2, <1>3, <1>4

\* The oldest waiter goes, and the block the waker began at knows the next one.
LEMMA UnlinkEffect ==
    ASSUME NEW q, NEW b, IInv(q, b), NEW t \in Threads, WakeUnlink(t)
    PROVE  \E j \in 2 .. Len(q) :
              /\ q[j] = cur[t].ptr
              /\ \A i \in j .. Len(q) : blk[q[i]].prev = NULL
              /\ \A i \in j + 1 .. Len(q) : blk[q[i]].last = NULL
              /\ \A i \in 1 .. j - 1 : blk[q[i]].prev = q[i + 1]
              /\ blk'[q[j]].last = q[2]
              /\ blk'[q[1]].prev = NULL
              /\ \A u \in Threads :
                    /\ blk'[u].next = blk[u].next
                    /\ blk'[u].shareCount = blk[u].shareCount
                    /\ u # q[j] => blk'[u].last = blk[u].last
                    /\ u # q[1] => blk'[u].prev = blk[u].prev
<1>0. Types
  BY DEF IInv
<1>1. /\ pc[t] = "wakeTake" /\ blk[wb[t]].prev # NULL
      /\ blk' = [blk EXCEPT ![cur[t].ptr].last = blk[wb[t]].prev,
                            ![wb[t]].prev = NULL]
  BY DEF WakeUnlink, Goto, WakeOneOnly
<1>2. /\ q \in Seq(Threads) /\ Len(q) \in Nat \ {0}
      /\ \A i \in 1 .. Len(q) : q[i] \in Threads
      /\ \A i, j \in 1 .. Len(q) : q[i] = q[j] => i = j
      /\ wb[t] = q[1]
  BY <1>1, TakerView
<1>3. PICK j \in 1 .. Len(q) :
              /\ q[j] = cur[t].ptr
              /\ \A i \in j .. Len(q) : blk[q[i]].prev = NULL
              /\ \A i \in j + 1 .. Len(q) : blk[q[i]].last = NULL
              /\ \A i \in 1 .. j - 1 : blk[q[i]].prev = q[i + 1]
  BY <1>1, TakerView
<1>4. j # 1
  BY <1>1, <1>2, <1>3
<1>5. j \in 2 .. Len(q) /\ 1 \in 1 .. j - 1
  BY <1>2, <1>4
<1>6. blk[q[1]].prev = q[2]
  BY <1>3, <1>5
<1>7. q[j] \in Threads /\ q[1] \in Threads /\ q[j] # q[1]
  BY <1>2, <1>5
<1>8. blk' = [blk EXCEPT ![q[j]].last = q[2], ![q[1]].prev = NULL]
  BY <1>1, <1>2, <1>3, <1>6
<1>9. /\ blk'[q[j]].last = q[2] /\ blk'[q[1]].prev = NULL
      /\ \A u \in Threads :
                    /\ blk'[u].next = blk[u].next
                    /\ blk'[u].shareCount = blk[u].shareCount
                    /\ u # q[j] => blk'[u].last = blk[u].last
                    /\ u # q[1] => blk'[u].prev = blk[u].prev
  BY <1>0, <1>7, <1>8 DEF Types, WideBlock
<1> QED  BY <1>3, <1>5, <1>9

\* The list without its oldest waiter is a list; its new end is found.
LEMMA UnlinkShape ==
    ASSUME NEW q, NEW b, IInv(q, b), NEW t \in Threads, WakeUnlink(t),
           NEW r, r = Tail(q)
    PROVE  Shape(r)' /\ Known(r)' /\ Owners(r)'
<1>0. Types /\ Shape(q)
  BY DEF IInv
<1>1. /\ pc[t] = "wakeTake" /\ lock' = lock /\ cur' = cur
      /\ pc' = [pc EXCEPT ![t] = "wakeClear"]
  BY DEF WakeUnlink, Goto, locals
<1>2. /\ q \in Seq(Threads) /\ Len(q) \in Nat \ {0} /\ lock.waiting
      /\ \A i \in 1 .. Len(q) : q[i] \in Threads
      /\ \A i, j \in 1 .. Len(q) : q[i] = q[j] => i = j
      /\ \A v \in Threads : v # t => pc[v] \notin OwnerAt
  BY <1>1, TakerView
<1>3. /\ r \in Seq(Threads) /\ Len(r) = Len(q) - 1
      /\ \A i \in 1 .. Len(r) : r[i] = q[i + 1] /\ r[i] # q[1] /\ r[i] \in Threads
  BY <1>2, UnlinkedList
<1>4. PICK j \in 2 .. Len(q) :
              /\ q[j] = cur[t].ptr
              /\ \A i \in j .. Len(q) : blk[q[i]].prev = NULL
              /\ \A i \in j + 1 .. Len(q) : blk[q[i]].last = NULL
              /\ \A i \in 1 .. j - 1 : blk[q[i]].prev = q[i + 1]
              /\ blk'[q[j]].last = q[2]
              /\ blk'[q[1]].prev = NULL
              /\ \A u \in Threads :
                    /\ blk'[u].next = blk[u].next
                    /\ blk'[u].shareCount = blk[u].shareCount
                    /\ u # q[j] => blk'[u].last = blk[u].last
                    /\ u # q[1] => blk'[u].prev = blk[u].prev
  BY UnlinkEffect
<1>l. Len(r) \in Nat \ {0} /\ r[Len(r)] = q[Len(q)] /\ r[1] = q[2] /\ j \in Nat
  <2>1. Len(r) \in Nat \ {0} /\ Len(r) + 1 = Len(q) /\ Len(r) \in 1 .. Len(r) /\ 1 \in 1 .. Len(r)
    BY <1>2, <1>3, <1>4
  <2> QED  BY <1>3, <2>1
<1>5. Shape(r)'
  <2>1. ASSUME NEW i \in 1 .. Len(r), NEW k \in 1 .. Len(r), r[i] = r[k] PROVE i = k
    <3>1. q[i + 1] = q[k + 1] /\ i + 1 \in 1 .. Len(q) /\ k + 1 \in 1 .. Len(q)
      BY <1>2, <1>3, <2>1
    <3>2. i + 1 = k + 1
      BY <1>2, <3>1
    <3> QED  BY <3>2
  <2>2. ASSUME NEW i \in 2 .. Len(r) PROVE blk'[r[i]].next = r[i - 1]
    <3>1. i \in 1 .. Len(r) /\ i - 1 \in 1 .. Len(r) /\ i + 1 \in 2 .. Len(q) /\ (i - 1) + 1 = i /\ (i + 1) - 1 = i
      BY <1>2, <1>3
    <3>2. blk[q[i + 1]].next = q[(i + 1) - 1]
      BY <1>0, <3>1 DEF Shape
    <3>3. r[i] = q[i + 1] /\ r[i] \in Threads /\ r[i - 1] = q[(i - 1) + 1]
      BY <1>3, <3>1
    <3> QED  BY <1>4, <3>1, <3>2, <3>3
  <2>3. ASSUME NEW i \in 1 .. Len(r) - 1 PROVE blk'[r[i]].prev \in {NULL, r[i + 1]}
    <3>1. i \in 1 .. Len(r) /\ i + 1 \in 1 .. Len(r) /\ i + 1 \in 1 .. Len(q) - 1
      BY <1>2, <1>3
    <3>2. blk[q[i + 1]].prev \in {NULL, q[(i + 1) + 1]}
      BY <1>0, <3>1 DEF Shape
    <3>3. r[i] = q[i + 1] /\ r[i] \in Threads /\ r[i] # q[1] /\ r[i + 1] = q[(i + 1) + 1]
      BY <1>3, <3>1
    <3> QED  BY <1>4, <3>2, <3>3
  <2>4. blk'[r[Len(r)]].prev = NULL
    <3>1. blk[q[Len(q)]].prev = NULL
      BY <1>0, <1>2 DEF Shape
    <3>2. r[Len(r)] # q[1] /\ r[Len(r)] \in Threads
      BY <1>3, <1>l
    <3> QED  BY <1>4, <1>l, <3>1, <3>2
  <2>5. lock'.waiting /\ lock'.ptr = r[Len(r)]
    BY <1>0, <1>1, <1>2, <1>l DEF Shape
  <2> QED  BY <1>3, <1>l, <2>1, <2>2, <2>3, <2>4, <2>5 DEF Shape
<1>k. j - 1 \in 1 .. Len(r) /\ (j - 1) + 1 = j
  BY <1>2, <1>3
<1>j. r[j - 1] = q[j]
  BY <1>3, <1>k
<1>6. Known(r)'
  <2>1. blk'[r[j - 1]].last = r[1]
    BY <1>4, <1>j, <1>l
  <2>2. ASSUME NEW i \in (j - 1) + 1 .. Len(r) PROVE blk'[r[i]].last = NULL
    <3>1. i \in 1 .. Len(r) /\ i + 1 \in j + 1 .. Len(q) /\ i + 1 \in 1 .. Len(q) /\ j \in 1 .. Len(q) /\ i + 1 # j
      BY <1>2, <1>3
    <3>2. r[i] = q[i + 1] /\ r[i] \in Threads
      BY <1>3, <3>1
    <3>3. r[i] # q[j]
      BY <1>2, <3>1, <3>2
    <3> QED  BY <1>4, <3>1, <3>2, <3>3
  <2>3. ASSUME NEW i \in 1 .. (j - 1) - 1 PROVE blk'[r[i]].prev = r[i + 1]
    <3>1. i \in 1 .. Len(r) /\ i + 1 \in 1 .. Len(r) /\ i + 1 \in 1 .. j - 1
      BY <1>2, <1>3
    <3>2. r[i] = q[i + 1] /\ r[i] \in Threads /\ r[i] # q[1] /\ r[i + 1] = q[(i + 1) + 1]
      BY <1>3, <3>1
    <3> QED  BY <1>4, <3>1, <3>2
  <2> QED  BY <1>k, <2>1, <2>2, <2>3 DEF Known
<1>7. Owners(r)'
  <2>1. \A u \in Threads : u # t => pc'[u] \notin OwnerAt
    BY <1>0, <1>1, <1>2 DEF Types
  <2>2. pc'[t] = "wakeClear"
    BY <1>0, <1>1 DEF Types
  <2>3. r[j - 1] = cur'[t].ptr
    BY <1>1, <1>4, <1>j
  <2>4. ASSUME NEW u \in Threads
        PROVE /\ pc'[u] \in OwnerAt \ {"wakeClear"} => OwnerView(u, r)'
              /\ pc'[u] = "wakeClear" => \E k \in 1 .. Len(r) : r[k] = cur'[u].ptr
    <3>1. CASE u = t
      BY <1>k, <2>2, <2>3, <3>1
    <3>2. CASE u # t
      BY <2>1, <3>2 DEF OwnerAt, WakerAt
    <3> QED  BY <3>1, <3>2
  <2> QED  BY <2>4 DEF Owners
<1> QED  BY <1>5, <1>6, <1>7

\* The step that takes the oldest, exclusive waiter keeps the invariant.
LEMMA WakeUnlinkStep ==
    ASSUME NEW q, NEW b, IInv(q, b), NEW t \in Threads, WakeUnlink(t),
           NEW r, r = Tail(q), NEW c, c = [b EXCEPT ![t] = <<q[1]>>]
    PROVE  IInv(r, c)'
<1>0. Types /\ Several(q) /\ Counted(q) /\ Batches(q, b) /\ Members(q, b) /\ Controls
  BY DEF IInv
<1>1. /\ pc[t] = "wakeTake" /\ lock' = lock
      /\ hold' = hold /\ old' = old /\ wb' = wb /\ todo' = todo
      /\ pc' = [pc EXCEPT ![t] = "wakeClear"]
  BY DEF WakeUnlink, Goto, locals
<1>2. /\ q \in Seq(Threads) /\ Len(q) \in Nat \ {0}
      /\ lock.waiting /\ lock.waking /\ ~lock.multi
      /\ \A i \in 1 .. Len(q) : q[i] \in Threads
      /\ \A i, j \in 1 .. Len(q) : q[i] = q[j] => i = j
      /\ wb[t] = q[1] /\ b[t] = << >>
      /\ \A u \in Threads : blk[u].shareCount = 0
  BY <1>1, TakerView
<1>3. /\ Step(t) /\ Gates' /\ Holders' = Holders
      /\ \A u \in Threads : /\ (Parked(u)' <=> Parked(u))
                            /\ (blk'[u].signaled <=> blk[u].signaled)
  BY TakerGates
<1>4. Types' /\ Words' /\ Controls' /\ Waking'
  BY <1>3, TypesStep, WordsStep, ControlsStep, WakingStep
<1>5. Shape(r)' /\ Known(r)' /\ Owners(r)'
  BY UnlinkShape
<1>o. \A u \in Threads : u # t => pc'[u] = pc[u]
  BY <1>0, <1>3, OthersKeep
<1>t. pc'[t] = "wakeClear"
  BY <1>0, <1>1 DEF Types
<1>e. /\ blk'[q[1]].prev = NULL
      /\ \A u \in Threads : /\ blk'[u].shareCount = blk[u].shareCount
                            /\ u # q[1] => blk'[u].prev = blk[u].prev
  BY UnlinkEffect
<1>9. Several(r)'
  <2>1. \A u \in Threads : pc[u] \notin {"relWalk", "relCount"} /\ (pc[u] = "relTry" => ~(old[u].waiting /\ old[u].multi))
    BY <1>0, <1>2 DEF Several, Controls, Control
  <2>w. \A u \in Threads : old[u].multi => old[u].waiting
    BY DEF IInv, Words, Word
  <2>2. ASSUME NEW u \in Threads
        PROVE
        /\ pc'[u] \in {"relTry", "relWalk", "relCount", "relUnlock"} /\ old'[u].waiting =>
               lock'.waiting /\ lock'.multi = old'[u].multi
        /\ ~(pc'[u] = "relTry" /\ old'[u].multi)
        /\ pc'[u] \notin {"relWalk", "relCount"}
    <3>1. CASE u = t
      BY <1>t, <3>1
    <3>2. CASE u # t
      BY <1>0, <1>1, <1>o, <2>1, <2>w, <3>2 DEF Several
    <3> QED  BY <3>1, <3>2
  <2>3. ~lock'.multi /\ \A u \in Threads : blk'[u].shareCount = 0
    BY <1>1, <1>2, <1>e
  <2> QED  BY <2>2, <2>3 DEF Several
<1>10. Counted(r)'
  <2>1. Held(r)' = Held(q)
    BY <1>1, <1>2 DEF Held
  <2>2. Cardinality(Holders') = Held(r)'
    BY <1>0, <1>3, <2>1 DEF Counted
  <2>3. \A u \in Threads : hold'[u] = "exclusive" \/ pc'[u] = "rxTry" =>
              ~lock'.multi /\ lock'.shared = 0
    BY <1>3, ExclusivesStep
  <2> QED  BY <2>2, <2>3 DEF Counted
<1>11. Bounded'
  BY <1>3, <1>10, BoundedStep
<1>q. q[1] \in Threads
  BY <1>2
<1>c. c \in [Threads -> Seq(Threads)] /\ c[t] = <<q[1]>> /\ \A v \in Threads : v # t => c[v] = b[v]
  BY <1>0, <1>q DEF Batches
<1>s. /\ <<q[1]>> # << >> /\ Len(<<q[1]>>) = 1 /\ <<q[1]>>[1] = q[1]
      /\ \A u : On(u, <<q[1]>>) <=> u = q[1]
  BY DEF On
<1>r. ASSUME NEW u PROVE (On(u, q) <=> u = q[1] \/ On(u, r)) /\ ~(u = q[1] /\ On(u, r))
  <2>1. q \in Seq(Threads) /\ Len(q) > 0 /\ \A i, j \in 1 .. Len(q) : q[i] = q[j] => i = j
    BY <1>2
  <2>2. On(u, q) <=> u = q[1] \/ On(u, r)
    BY ONLY <2>1, r = Tail(q), UnlinkedOn
  <2>3. ~(u = q[1] /\ On(u, r))
    BY ONLY <2>1, r = Tail(q), UnlinkedOn
  <2> QED  BY <2>2, <2>3
<1>n. \A u : ~On(u, << >>)
  BY DEF On
<1>d. \A x, u \in Threads : On(u, b[x]) => ~On(u, q)
  BY <1>0 DEF Batches
<1>12. Batches(r, c)'
  <2>1. ASSUME NEW v \in Threads
        PROVE
        /\ c[v] # << >> => pc'[v] \in {"wakeClear"} \cup SignalerAt
        /\ pc'[v] \in {"wakeClear", "signal"} => c[v] # << >> /\ wb'[v] = c[v][1]
        /\ pc'[v] = "wakeClear" => Len(c[v]) = 1
        /\ pc'[v] = "setGate" => wb'[v] # NULL /\ todo'[v] = IF c[v] = << >> THEN NULL ELSE c[v][1]
        /\ \A i, j \in 1 .. Len(c[v]) : c[v][i] = c[v][j] => i = j
        /\ \A i \in 1 .. Len(c[v]) - 1 : blk'[c[v][i]].prev = c[v][i + 1]
        /\ c[v] # << >> => blk'[c[v][Len(c[v])]].prev = NULL
        /\ \A u \in Threads : On(u, c[v]) => ~On(u, r)
    <3>1. CASE v = t
      <4>1. Len(c[v]) = 1 /\ c[v] # << >> /\ c[v][1] = q[1] /\ pc'[v] = "wakeClear"
        BY <1>c, <1>s, <1>t, <3>1
      <4>2. wb'[v] = q[1]
        BY <1>1, <1>2, <3>1
      <4>3. \A u \in Threads : On(u, c[v]) => ~On(u, r)
        BY <1>c, <1>s, <1>r, <3>1
      <4> HIDE <1>c
      <4> QED  BY <1>e, <4>1, <4>2, <4>3
    <3>2. CASE v # t
      <4>1. c[v] = b[v] /\ pc'[v] = pc[v]
        BY <1>c, <1>o, <3>2
      <4>2. /\ b[v] # << >> => pc[v] \in {"wakeClear"} \cup SignalerAt
            /\ pc[v] \in {"wakeClear", "signal"} => b[v] # << >> /\ wb[v] = b[v][1]
            /\ pc[v] = "wakeClear" => Len(b[v]) = 1
            /\ pc[v] = "setGate" => wb[v] # NULL /\ todo[v] = IF b[v] = << >> THEN NULL ELSE b[v][1]
            /\ \A i, j \in 1 .. Len(b[v]) : b[v][i] = b[v][j] => i = j
            /\ \A i \in 1 .. Len(b[v]) - 1 : blk[b[v][i]].prev = b[v][i + 1]
            /\ b[v] # << >> => blk[b[v][Len(b[v])]].prev = NULL
            /\ b[v] \in Seq(Threads)
        BY <1>0 DEF Batches
      <4>3. ASSUME NEW i \in 1 .. Len(b[v]) PROVE blk'[b[v][i]].prev = blk[b[v][i]].prev
        <5>1. b[v][i] \in Threads /\ On(b[v][i], b[v])
          BY <4>2 DEF On
        <5>2. b[v][i] # q[1]
          BY <1>d, <1>r, <5>1
        <5> QED  BY <1>e, <5>1, <5>2
      <4>4. \A i \in 1 .. Len(b[v]) - 1 : blk'[b[v][i]].prev = b[v][i + 1]
        BY <4>2, <4>3
      <4>5. b[v] # << >> => blk'[b[v][Len(b[v])]].prev = NULL
        BY <4>2, <4>3
      <4>6. \A u \in Threads : On(u, b[v]) => ~On(u, r)
        BY <1>d, <1>r
      <4> QED  BY <1>1, <4>1, <4>2, <4>4, <4>5, <4>6
    <3> QED  BY <3>1, <3>2
  <2>2. ASSUME NEW v \in Threads, NEW w \in Threads, NEW u \in Threads,
               On(u, c[v]), On(u, c[w])
        PROVE  v = w
    <3>2. \A x, y \in Threads : On(u, b[x]) /\ On(u, b[y]) => x = y
      BY <1>0 DEF Batches
    <3> QED  BY <1>c, <1>d, <1>r, <1>s, <2>2, <3>2
  <2> QED  BY <1>c, <2>1, <2>2 DEF Batches
<1>13. Members(r, c)'
  <2>1. ASSUME NEW u \in Threads
        PROVE  Parked(u)' /\ ~blk'[u].signaled <=> On(u, r) \/ \E v \in Threads : On(u, c[v])
    <3>1. Parked(u) /\ ~blk[u].signaled <=> On(u, q) \/ \E v \in Threads : On(u, b[v])
      BY <1>0 DEF Members
    <3>2. (\E v \in Threads : On(u, c[v])) <=> u = q[1] \/ \E v \in Threads : On(u, b[v])
      <4>1. ~On(u, b[t])
        BY <1>2, <1>n
      <4> QED  BY <1>c, <1>s, <4>1
    <3> QED  BY <1>3, <1>r, <3>1, <3>2
  <2> QED  BY <2>1 DEF Members
<1>14. Served(c)'
  BY <1>1, <1>2 DEF Served
<1> QED
  BY <1>3, <1>4, <1>5, <1>9, <1>10, <1>11, <1>12, <1>13, <1>14 DEF IInv


-----------------------------------------------------------------------------
(* The invariant. *)

\* A steady step keeps the invariant; the signaler's batch gets shorter.
LEMMA SteadyStep ==
    ASSUME NEW q, NEW b, IInv(q, b), NEW t \in Threads, Steady(t)
    PROVE  \E c : IInv(q, c)'
<1>1. Step(t)
  BY DEF Steady
<1>2. /\ Types' /\ Words' /\ Controls' /\ Waking' /\ Shape(q)' /\ Known(q)'
      /\ Owners(q)' /\ Several(q)' /\ Counted(q)' /\ Gates'
  BY <1>1, TypesStep, WordsStep, ControlsStep, WakingStep, ShapeStep, KnownStep,
     OwnersStep, SeveralStep, CountedStep, GatesStep
<1>3. Bounded'
  BY <1>1, <1>2, BoundedStep
<1>4. CASE SignalSpinner(t) \/ SignalWaiter(t)
  <2>1. PICK c : c = [b EXCEPT ![t] = Tail(b[t])]
    OBVIOUS
  <2>2. Batches(q, c)' /\ Members(q, c)'
    BY <1>4, <2>1, SignalStep
  <2>3. Served(c)'
    BY <1>4, ServedSignal
  <2> QED  BY <1>2, <1>3, <2>2, <2>3 DEF IInv
<1>5. CASE ~SignalSpinner(t) /\ ~SignalWaiter(t)
  <2>1. Batches(q, b)' /\ Members(q, b)' /\ Served(b)'
    BY <1>5, BatchesStep, MembersStep, ServedStep
  <2> QED  BY <1>2, <1>3, <2>1 DEF IInv
<1> QED  BY <1>4, <1>5

\* There is a list of waiters, and there are lists of those about to be
\* signaled, that explain the state.
Inductive == \E q, b : IInv(q, b)

\* A new push lock has no list and no batches.
LEMMA InductiveInit == Init => Inductive
<1> SUFFICES ASSUME Init PROVE Inductive
  OBVIOUS
<1>i. /\ lock = Free
      /\ blk = [t \in Threads |-> NewBlock]
      /\ gate = [t \in Threads |-> FALSE]
      /\ pc = [t \in Threads |-> "idle"]
      /\ call = [t \in Threads |-> "none"]
      /\ hold = [t \in Threads |-> "none"]
      /\ old = [t \in Threads |-> Free]
      /\ cur = [t \in Threads |-> Free]
      /\ wb = [t \in Threads |-> NULL]
      /\ todo = [t \in Threads |-> NULL]
  BY DEF Init
<1>p. \A t \in Threads : pc[t] = "idle"
  BY <1>i
<1>q. Len(<< >>) = 0 /\ << >> \in Seq(Threads)
  OBVIOUS
<1>b. PICK b : b = [t \in Threads |-> << >>]
  OBVIOUS
<1>1. Types
  <2>1. NewBlock \in WideBlock
    BY DEF NewBlock, WideBlock
  <2>2. "idle" \in Places
    BY DEF Places
  <2>3. Free \in Wide
    BY FreeWide
  <2> QED  BY <1>i, <2>1, <2>2, <2>3 DEF Types
<1>2. Words
  BY <1>i, FreeWord DEF Words
<1>3. Controls
  BY <1>i DEF Controls, Control, WaiterAt, OptimizerAt, Releasing, Acquiring, OwnerAt, WakerAt
<1>4. Waking
  BY <1>i DEF Waking, OwnerAt, OptimizerAt, WakerAt, Free
<1>f. /\ ~lock.locked /\ ~lock.waiting /\ ~lock.waking /\ ~lock.multi /\ lock.shared = 0
  BY <1>i DEF Free
<1>5. Shape(<< >>) /\ Known(<< >>)
  BY <1>f, <1>q DEF Shape, Known
<1>6. Owners(<< >>)
  BY <1>p DEF Owners, OwnerAt, OptimizerAt, WakerAt
<1>7. Several(<< >>)
  <2>1. \A u \in Threads : blk[u].shareCount = 0
    BY <1>i DEF NewBlock
  <2> QED  BY <1>f, <1>p, <2>1 DEF Several
<1>8. Counted(<< >>)
  <2>1. Holders = {}
    BY <1>i DEF Holders, Releasing
  <2>2. Cardinality(Holders) = 0
    BY <2>1, FS_EmptySet
  <2> QED  BY <1>f, <2>2 DEF Counted, Held
<1>9. Bounded
  <2>1. Cardinality(Threads) \in Nat
    BY ThreadSets
  <2>2. 0 <= Cardinality(Threads)
    BY <2>1
  <2> QED  BY <1>i, <2>2 DEF Bounded, Free, NewBlock
<1>n. \A u : ~On(u, << >>)
  BY DEF On
<1>10. Batches(<< >>, b)
  <2>1. b \in [Threads -> Seq(Threads)] /\ \A v \in Threads : b[v] = << >>
    BY <1>b
  <2> QED  BY <1>n, <1>p, <1>q, <2>1 DEF Batches
<1>11. Members(<< >>, b)
  BY <1>b, <1>n, <1>p DEF Members, Parked, WaiterAt, OptimizerAt, WakerAt, SignalerAt
<1>12. Gates
  BY <1>p DEF Gates, Parked, WaiterAt, OptimizerAt, WakerAt, SignalerAt
<1>13. Served(b)
  BY <1>f DEF Served
<1>14. IInv(<< >>, b)
  BY <1>1, <1>2, <1>3, <1>4, <1>5, <1>6, <1>7, <1>8, <1>9, <1>10, <1>11, <1>12, <1>13 DEF IInv
<1> QED  BY <1>14 DEF Inductive

\* Every step keeps the invariant.
LEMMA InductiveStep == Inductive /\ [Next]_vars => Inductive'
<1> SUFFICES ASSUME Inductive, [Next]_vars PROVE Inductive'
  OBVIOUS
<1>1. PICK q, b : IInv(q, b)
  BY DEF Inductive
<1>2. CASE UNCHANGED vars
  <2>1. IInv(q, b)'
    BY <1>1, <1>2 DEF vars, IInv, Types, Words, Controls, Control, Acquiring, Waking,
       Shape, Known, Owners, OwnerView, Several, Counted, Holders, Held, Bounded,
       Batches, Members, Parked, Gates, Served, Coming
  <2> QED  BY <2>1 DEF Inductive
<1>3. ASSUME NEW t \in Threads, Step(t) PROVE Inductive'
  <2>1. CASE Push(t)
    BY <1>1, <2>1, PushStep DEF Inductive
  <2>2. CASE WakeAll(t)
    <3>1. PICK c : c = [b EXCEPT ![t] = q]
      OBVIOUS
    <3>2. IInv(<< >>, c)'
      BY <1>1, <2>2, <3>1, WakeAllStep
    <3> QED  BY <3>2 DEF Inductive
  <2>3. CASE WakeUnlink(t)
    <3>1. PICK c : c = [b EXCEPT ![t] = <<q[1]>>]
      OBVIOUS
    <3>2. PICK r : r = Tail(q)
      OBVIOUS
    <3>3. IInv(r, c)'
      BY <1>1, <2>3, <3>1, <3>2, WakeUnlinkStep
    <3> QED  BY <3>3 DEF Inductive
  <2>4. CASE ~Push(t) /\ ~WakeAll(t) /\ ~WakeUnlink(t)
    <3>1. Steady(t)
      BY <1>3, <2>4 DEF Steady, Push
    <3> QED  BY <1>1, <3>1, SteadyStep DEF Inductive
  <2> QED  BY <2>1, <2>2, <2>3, <2>4
<1>4. CASE Next
  <2>1. PICK t \in Threads : Step(t)
    BY <1>4 DEF Next, Step
  <2> QED  BY <1>3, <2>1
<1> QED  BY <1>2, <1>4

\* At any time a list of waiters and batches of waiters about to be signaled
\* explain the lock word and every link of the wait blocks of pushlock.c.
THEOREM InductiveHolds == Spec => []Inductive
<1>1. Init => Inductive
  BY InductiveInit
<1>2. Inductive /\ [Next]_vars => Inductive'
  BY InductiveStep
<1> QED  BY <1>1, <1>2, PTL DEF Spec


-----------------------------------------------------------------------------
(* The walks down and up the list. *)

\* A nonempty set of numbers has a least element.
LEMMA LeastOf ==
    ASSUME NEW T \in SUBSET Nat, T # {}
    PROVE  \E m \in T : \A k \in T : m <= k
<1> DEFINE R == {ss \in Nat \X Nat : ss[1] < ss[2]}
<1>1. IsWellFoundedOn(R, Nat)
  BY NatLessThanWellFounded, Zenon DEF OpToRel
<1>2. PICK m \in T : \A k \in T : ~(<<k, m>> \in R)
  <2> HIDE DEF R
  <2> QED  BY <1>1, WFMin
<1>3. ASSUME NEW k \in T, k < m PROVE FALSE
  <2>1. <<k, m>> \in Nat \X Nat /\ <<k, m>>[1] < <<k, m>>[2]
    BY <1>3
  <2> QED  BY <1>2, <2>1, Zenon
<1>4. ASSUME NEW k \in T PROVE m <= k
  <2>1. k \in Nat /\ m \in Nat
    OBVIOUS
  <2> QED  BY <1>3, <2>1
<1> QED  BY <1>4

\* f follows the links g from x, and stops at NULL.
Follows(f, g, x, N) ==
    f = [n \in 0 .. N |-> IF n = 0 THEN x
                          ELSE IF f[n - 1] = NULL THEN NULL ELSE g[f[n - 1]]]

\* Every walk of N links exists: it is the union of the walks up to n.
LEMMA WalkExists ==
    ASSUME NEW g \in [Threads -> Threads \cup {NULL}], NEW x \in Threads \cup {NULL},
           NEW N \in Nat
    PROVE  \E f \in [0 .. N -> Threads \cup {NULL}] : Follows(f, g, x, N)
<1> DEFINE T == {k \in Nat : ~\E f \in [0 .. k -> Threads \cup {NULL}] : Follows(f, g, x, k)}
<1>1. SUFFICES T = {}
  BY <1>1
<1>2. SUFFICES ASSUME T # {} PROVE FALSE
  OBVIOUS
<1>3. PICK m \in T : \A k \in T : m <= k
  <2>1. T \in SUBSET Nat
    OBVIOUS
  <2> HIDE DEF T
  <2> QED  BY <1>2, <2>1, LeastOf
<1>4. m \in Nat /\ ~\E f \in [0 .. m -> Threads \cup {NULL}] : Follows(f, g, x, m)
  BY <1>3
<1>5. CASE m = 0
  <2> DEFINE f == [n \in 0 .. 0 |-> x]
  <2>1. f \in [0 .. 0 -> Threads \cup {NULL}]
    OBVIOUS
  <2>2. \A n \in 0 .. 0 : n = 0
    OBVIOUS
  <2>3. Follows(f, g, x, 0)
    BY <2>2 DEF Follows
  <2> QED  BY <1>4, <1>5, <2>1, <2>3
<1>6. CASE m # 0
  <2>1. m - 1 \in Nat /\ ~(m <= m - 1)
    BY <1>4, <1>6
  <2>2. PICK f \in [0 .. m - 1 -> Threads \cup {NULL}] : Follows(f, g, x, m - 1)
    BY <1>3, <2>1
  <2> DEFINE h == [n \in 0 .. m |-> IF n \in 0 .. m - 1 THEN f[n]
                                    ELSE IF f[m - 1] = NULL THEN NULL ELSE g[f[m - 1]]]
  <2>3. f[m - 1] \in Threads \cup {NULL}
    BY <2>1
  <2>4. h \in [0 .. m -> Threads \cup {NULL}]
    BY <2>3
  <2>5. \A n \in 0 .. m - 1 : h[n] = f[n]
    BY <1>4
  <2>6. h[m] = IF f[m - 1] = NULL THEN NULL ELSE g[f[m - 1]]
    BY <1>4
  <2>d. DOMAIN h = 0 .. m
    OBVIOUS
  <2> HIDE DEF h
  <2>7. ASSUME NEW n \in 0 .. m
        PROVE  h[n] = IF n = 0 THEN x ELSE IF h[n - 1] = NULL THEN NULL ELSE g[h[n - 1]]
    <3>1. CASE n = m
      <4>1. h[m - 1] = f[m - 1]
        BY <2>1, <2>5
      <4> QED  BY <1>6, <2>6, <3>1, <4>1
    <3>2. CASE n # m
      <4>1. n \in 0 .. m - 1 /\ (n # 0 => n - 1 \in 0 .. m - 1)
        BY <1>4, <3>2
      <4>2. f[n] = IF n = 0 THEN x ELSE IF f[n - 1] = NULL THEN NULL ELSE g[f[n - 1]]
        BY <2>2, <4>1 DEF Follows
      <4> QED  BY <2>5, <4>1, <4>2
    <3> QED  BY <3>1, <3>2
  <2>8. Follows(h, g, x, m)
    BY <2>4, <2>7 DEF Follows
  <2> QED  BY <1>4, <2>4, <2>8
<1> QED  BY <1>4, <1>5, <1>6

\* f follows the links g from x as long as it meets threads.
Walks(f, g, x, N) ==
    /\ DOMAIN f = 0 .. N
    /\ f[0] = x
    /\ \A n \in 1 .. N : f[n - 1] \in Threads => f[n] = g[f[n - 1]]
    /\ \A n \in 1 .. N : f[n - 1] = NULL => f[n] = NULL

\* Along a sequence that the links agree with, the walk visits its elements.
LEMMA WalkAlong ==
    ASSUME NEW g, NEW N \in Nat, NEW f, NEW s \in Seq(Threads), Len(s) > 0,
           Walks(f, g, s[1], N),
           \A i \in 1 .. Len(s) - 1 : g[s[i]] = s[i + 1]
    PROVE  \A n \in 0 .. N : n < Len(s) => f[n] = s[n + 1]
<1> DEFINE T == {k \in 0 .. N : k < Len(s) /\ f[k] # s[k + 1]}
<1>1. SUFFICES ASSUME T # {} PROVE FALSE
  OBVIOUS
<1>2. PICK m \in T : \A k \in T : m <= k
  <2>1. T \in SUBSET Nat
    OBVIOUS
  <2> HIDE DEF T
  <2> QED  BY <1>1, <2>1, LeastOf
<1>3. m \in 0 .. N /\ m < Len(s) /\ f[m] # s[m + 1] /\ m \in Nat /\ Len(s) \in Nat
  BY <1>2
<1>5. m # 0
  BY <1>3 DEF Walks
<1>6. m - 1 \in 0 .. N /\ m - 1 < Len(s) /\ ~(m <= m - 1) /\ m \in 1 .. Len(s) - 1 /\ (m - 1) + 1 = m /\ m \in 1 .. N
  BY <1>3, <1>5
<1>7. f[m - 1] = s[m]
  BY <1>2, <1>6
<1>8. s[m] \in Threads
  BY <1>6
<1>9. f[m] = g[s[m]]
  BY <1>6, <1>7, <1>8 DEF Walks
<1> QED  BY <1>3, <1>6, <1>9

\* After NULL the walk stays there.
LEMMA WalkEnds ==
    ASSUME NEW g, NEW N \in Nat, NEW f, NEW x, Walks(f, g, x, N), NEW k \in 0 .. N,
           f[k] = NULL
    PROVE  \A n \in k .. N : f[n] = NULL
<1> DEFINE T == {n \in k .. N : f[n] # NULL}
<1>1. SUFFICES ASSUME T # {} PROVE FALSE
  OBVIOUS
<1>2. PICK m \in T : \A n \in T : m <= n
  <2>1. T \in SUBSET Nat
    OBVIOUS
  <2> HIDE DEF T
  <2> QED  BY <1>1, <2>1, LeastOf
<1>3. m \in k .. N /\ m # k /\ f[m] # NULL
  BY <1>2
<1>4. m - 1 \in k .. N /\ ~(m <= m - 1) /\ m \in 1 .. N
  BY <1>3
<1>5. f[m - 1] = NULL
  BY <1>2, <1>4
<1> QED  BY <1>3, <1>4, <1>5 DEF Walks

\* A sequence without repetitions is no longer than there are threads.
LEMMA ShortList ==
    ASSUME NEW s \in Seq(Threads), \A i, j \in 1 .. Len(s) : s[i] = s[j] => i = j
    PROVE  Len(s) <= Cardinality(Threads) /\ Cardinality(Threads) \in Nat
<1>1. IsFiniteSet(Threads) /\ Cardinality(Threads) \in Nat
  BY ThreadsFinite, FS_CardinalityType
<1>2. IsFiniteSet(1 .. Len(s)) /\ Cardinality(1 .. Len(s)) = Len(s) /\ Len(s) \in Nat
  <2>1. Len(s) \in Nat
    OBVIOUS
  <2>2. Len(s) \in Int /\ 1 \in Int
    BY <2>1
  <2>3. /\ IsFiniteSet(1 .. Len(s))
        /\ Cardinality(1 .. Len(s)) = IF 1 > Len(s) THEN 0 ELSE Len(s) - 1 + 1
    BY <2>2, FS_Interval
  <2> QED  BY <2>1, <2>3
<1>3. SUFFICES ASSUME Cardinality(Threads) < Cardinality(1 .. Len(s)) PROVE FALSE
  BY <1>1, <1>2
<1>4. s \in [1 .. Len(s) -> Threads]
  OBVIOUS
<1>5. \E i, j \in 1 .. Len(s) : i # j /\ s[i] = s[j]
  BY <1>1, <1>2, <1>3, <1>4, FS_PigeonHole
<1> QED  BY <1>5


\* The links of the blocks, as functions.
Nexts == [u \in Threads |-> blk[u].next]
Prevs == [u \in Threads |-> blk[u].prev]

\* The links of the blocks, as functions.
LEMMA LinkTypes ==
    ASSUME Types
    PROVE  /\ Nexts \in [Threads -> Threads \cup {NULL}]
           /\ Prevs \in [Threads -> Threads \cup {NULL}]
           /\ Cardinality(Threads) \in Nat
<1>1. \A u \in Threads : blk[u].next \in Threads \cup {NULL} /\ blk[u].prev \in Threads \cup {NULL}
  BY DEF Types, WideBlock
<1> QED  BY <1>1, ThreadSets DEF Nexts, Prevs

\* Down(x) follows Next from x,
LEMMA DownWalks ==
    ASSUME Types, NEW x \in Threads \cup {NULL}
    PROVE  Walks(Down(x), Nexts, x, Cardinality(Threads))
<1> DEFINE N == Cardinality(Threads)
           Eq(f) == f = [n \in 0 .. N |-> IF n = 0 THEN x
                              ELSE IF f[n - 1] = NULL THEN NULL ELSE blk[f[n - 1]].next]
<1>1. PICK f \in [0 .. N -> Threads \cup {NULL}] : Follows(f, Nexts, x, N)
  BY LinkTypes, WalkExists
<1>n. N \in Nat
  BY LinkTypes
<1>2. Eq(f)
  <2>1. ASSUME NEW n \in 0 .. N
        PROVE  f[n] = IF n = 0 THEN x
                      ELSE IF f[n - 1] = NULL THEN NULL ELSE blk[f[n - 1]].next
    <3>1. f[n] = IF n = 0 THEN x ELSE IF f[n - 1] = NULL THEN NULL ELSE Nexts[f[n - 1]]
      BY <1>1 DEF Follows
    <3>2. n # 0 => f[n - 1] \in Threads \cup {NULL}
      <4>1. n # 0 => n - 1 \in 0 .. N
        BY <1>n
      <4> QED  BY <4>1
    <3> QED  BY <3>1, <3>2 DEF Nexts
  <2> QED  BY <2>1
<1>3. Down(x) = CHOOSE g : Eq(g)
  BY DEF Down
<1>4. Eq(Down(x))
  BY <1>2, <1>3
<1> DEFINE at == Down(x)
<1>5. DOMAIN at = 0 .. N /\ at[0] = x
  BY <1>4, <1>n
<1>6. ASSUME NEW n \in 1 .. N
      PROVE  /\ at[n - 1] \in Threads => at[n] = Nexts[at[n - 1]]
             /\ at[n - 1] = NULL => at[n] = NULL
  <2>1. n \in 0 .. N /\ n # 0
    BY <1>n
  <2>2. at[n] = IF at[n - 1] = NULL THEN NULL ELSE blk[at[n - 1]].next
    BY <1>4, <2>1
  <2> HIDE DEF at
  <2> QED  BY <2>2, NullAssumption DEF Nexts
<1> QED  BY <1>5, <1>6 DEF Walks

\* and Up(x) follows Previous.
LEMMA UpWalks ==
    ASSUME Types, NEW x \in Threads \cup {NULL}
    PROVE  Walks(Up(x), Prevs, x, Cardinality(Threads))
<1> DEFINE N == Cardinality(Threads)
           Eq(f) == f = [n \in 0 .. N |-> IF n = 0 THEN x
                              ELSE IF f[n - 1] = NULL THEN NULL ELSE blk[f[n - 1]].prev]
<1>1. PICK f \in [0 .. N -> Threads \cup {NULL}] : Follows(f, Prevs, x, N)
  BY LinkTypes, WalkExists
<1>n. N \in Nat
  BY LinkTypes
<1>2. Eq(f)
  <2>1. ASSUME NEW n \in 0 .. N
        PROVE  f[n] = IF n = 0 THEN x
                      ELSE IF f[n - 1] = NULL THEN NULL ELSE blk[f[n - 1]].prev
    <3>1. f[n] = IF n = 0 THEN x ELSE IF f[n - 1] = NULL THEN NULL ELSE Prevs[f[n - 1]]
      BY <1>1 DEF Follows
    <3>2. n # 0 => f[n - 1] \in Threads \cup {NULL}
      <4>1. n # 0 => n - 1 \in 0 .. N
        BY <1>n
      <4> QED  BY <4>1
    <3> QED  BY <3>1, <3>2 DEF Prevs
  <2> QED  BY <2>1
<1>3. Up(x) = CHOOSE g : Eq(g)
  BY DEF Up
<1>4. Eq(Up(x))
  BY <1>2, <1>3
<1> DEFINE at == Up(x)
<1>5. DOMAIN at = 0 .. N /\ at[0] = x
  BY <1>4, <1>n
<1>6. ASSUME NEW n \in 1 .. N
      PROVE  /\ at[n - 1] \in Threads => at[n] = Prevs[at[n - 1]]
             /\ at[n - 1] = NULL => at[n] = NULL
  <2>1. n \in 0 .. N /\ n # 0
    BY <1>n
  <2>2. at[n] = IF at[n - 1] = NULL THEN NULL ELSE blk[at[n - 1]].prev
    BY <1>4, <2>1
  <2> HIDE DEF at
  <2> QED  BY <2>2, NullAssumption DEF Prevs
<1> QED  BY <1>5, <1>6 DEF Walks

\* The blocks that a thread is going to signal are its batch.
LEMMA ToSignalIs ==
    ASSUME NEW q, NEW b, IInv(q, b), NEW t \in Threads, NEW u
    PROVE  u \in ToSignal(t) <=> On(u, b[t])
<1>0. Types /\ Batches(q, b) /\ Control(t)
  BY DEF IInv, Controls
<1> DEFINE N == Cardinality(Threads)
           from == CASE pc[t] = "signal"  -> wb[t]
                     [] pc[t] = "setGate" -> todo[t]
                     [] pc[t] = "wakeClear" -> wb[t]
                     [] OTHER -> NULL
<1>1. ToSignal(t) = {Up(from)[n] : n \in 0 .. N} \ {NULL}
  BY DEF ToSignal
<1>2. from = IF b[t] = << >> THEN NULL ELSE b[t][1]
  BY <1>0 DEF Batches, SignalerAt
<1>3. b[t] \in Seq(Threads) /\ Len(b[t]) \in Nat /\ \A i \in 1 .. Len(b[t]) : b[t][i] \in Threads
  BY <1>0 DEF Batches
<1>n. N \in Nat
  BY <1>0, LinkTypes
<1> HIDE DEF from, N
<1>4. CASE b[t] = << >>
  <2>1. from = NULL
    BY <1>2, <1>4
  <2>2. Walks(Up(NULL), Prevs, NULL, N)
    BY <1>0, UpWalks DEF N
  <2>3. 0 \in 0 .. N /\ Up(NULL)[0] = NULL
    BY <1>n, <2>2 DEF Walks
  <2>4. \A n \in 0 .. N : Up(NULL)[n] = NULL
    BY <1>n, <2>2, <2>3, WalkEnds
  <2>5. u \notin ToSignal(t)
    BY <1>1, <2>1, <2>4
  <2> QED  BY <1>4, <2>5 DEF On
<1>5. CASE b[t] # << >>
  <2> DEFINE at == Up(from)
             s == b[t]
  <2>1. from = s[1] /\ Len(s) > 0
    BY <1>2, <1>3, <1>5
  <2>2. Walks(at, Prevs, s[1], N)
    <3>1. s[1] \in Threads
      BY <1>3, <2>1
    <3> QED  BY <1>0, <2>1, <3>1, UpWalks DEF N
  <2>3. /\ \A i, j \in 1 .. Len(s) : s[i] = s[j] => i = j
        /\ \A i \in 1 .. Len(s) - 1 : blk[s[i]].prev = s[i + 1]
        /\ blk[s[Len(s)]].prev = NULL
    BY <1>0, <1>5 DEF Batches
  <2>4. \A i \in 1 .. Len(s) - 1 : Prevs[s[i]] = s[i + 1]
    BY <1>3, <2>3 DEF Prevs
  <2>5. Len(s) <= N
    BY <1>3, <2>3, ShortList DEF N
  <2>6. \A n \in 0 .. N : n < Len(s) => at[n] = s[n + 1]
    <3>1. s \in Seq(Threads) /\ Len(s) > 0
      BY <1>3, <2>1
    <3> HIDE DEF at, s
    <3> QED  BY <1>n, <2>2, <2>4, <3>1, WalkAlong
  <2>7. at[Len(s)] = NULL
    <3>1. Len(s) \in 1 .. N /\ Len(s) - 1 \in 0 .. N /\ (Len(s) - 1) + 1 = Len(s) /\ Len(s) - 1 < Len(s)
      BY <1>3, <1>n, <2>1, <2>5
    <3>2. at[Len(s) - 1] = s[Len(s)]
      BY <2>6, <3>1
    <3>3. s[Len(s)] \in Threads
      BY <1>3, <3>1
    <3>4. at[Len(s)] = Prevs[s[Len(s)]]
      BY <2>2, <3>1, <3>2, <3>3 DEF Walks
    <3> QED  BY <2>3, <3>3, <3>4 DEF Prevs
  <2>8. \A n \in Len(s) .. N : at[n] = NULL
    <3>1. Len(s) \in 0 .. N
      BY <1>3, <1>n, <2>5
    <3> HIDE DEF at, s
    <3> QED  BY <1>n, <2>2, <2>7, <3>1, WalkEnds
  <2>9. ASSUME u \in ToSignal(t) PROVE On(u, s)
    <3>1. PICK n \in 0 .. N : u = at[n] /\ u # NULL
      BY <1>1, <2>9
    <3>2. ~(n \in Len(s) .. N)
      BY <2>8, <3>1
    <3>3. n < Len(s) /\ n + 1 \in 1 .. Len(s)
      BY <1>3, <1>n, <3>2
    <3>4. u = s[n + 1]
      BY <2>6, <3>1, <3>3
    <3> QED  BY <3>3, <3>4 DEF On
  <2>10. ASSUME On(u, s) PROVE u \in ToSignal(t)
    <3>1. PICK i \in 1 .. Len(s) : s[i] = u
      BY <2>10 DEF On
    <3>2. i - 1 \in 0 .. N /\ i - 1 < Len(s) /\ (i - 1) + 1 = i
      BY <1>3, <1>n, <2>5
    <3>3. at[i - 1] = u
      BY <2>6, <3>1, <3>2
    <3>4. u # NULL
      BY <1>3, <3>1, NullAssumption
    <3> QED  BY <1>1, <3>2, <3>3, <3>4
  <2> QED  BY <2>9, <2>10
<1> QED  BY <1>4, <1>5

\* The blocks that the lock word leads to are the list.
LEMMA QueuedIs ==
    ASSUME NEW q, NEW b, IInv(q, b), NEW u
    PROVE  u \in Queued <=> On(u, q)
<1>0. Types /\ Shape(q) /\ Known(q)
  BY DEF IInv
<1>q. q \in Seq(Threads) /\ Len(q) \in Nat /\ \A i \in 1 .. Len(q) : q[i] \in Threads /\ q[i] # NULL
  BY <1>0, NullAssumption DEF Shape
<1>1. CASE ~lock.waiting
  <2>1. Len(q) = 0
    BY <1>0, <1>1, <1>q DEF Shape
  <2> QED  BY <1>1, <2>1 DEF Queued, On
<1>2. CASE lock.waiting
  <2> DEFINE N     == Cardinality(Threads)
             at    == Down(lock.ptr)
             knows == {n \in DOMAIN at : at[n] # NULL /\ blk[at[n]].last # NULL}
             first == CHOOSE n \in knows : \A m \in knows : n <= m
             last  == blk[at[first]].last
             ends  == {n \in DOMAIN at : at[n] = last}
             end   == CHOOSE n \in ends : \A m \in ends : n <= m
             L     == Len(q)
  <2>1. Queued = {at[n] : n \in 0 .. end}
    BY <1>2 DEF Queued
  <2>2. L \in Nat \ {0} /\ lock.ptr = q[L] /\ q[L] \in Threads
    BY <1>0, <1>2, <1>q DEF Shape
  <2>n. N \in Nat /\ L <= N
    <3>1. \A i, j \in 1 .. Len(q) : q[i] = q[j] => i = j
      BY <1>0 DEF Shape
    <3> QED  BY <1>q, <3>1, ShortList
  <2>3. Walks(at, Nexts, q[L], N)
    BY <1>0, <2>2, DownWalks
  <2>4. \A n \in 0 .. L - 1 : at[n] = q[L - n] /\ L - n \in 1 .. L
    <3> DEFINE s == [i \in 1 .. L |-> q[L - i + 1]]
    <3>1. s \in Seq(Threads) /\ Len(s) = L
      <4>1. \A i \in 1 .. L : q[L - i + 1] \in Threads
        BY <1>q
      <4>2. s \in [1 .. L -> Threads]
        BY <4>1
      <4> QED  BY <2>2, <4>2
    <3>2. s[1] = q[L]
      BY <2>2
    <3>3. \A i \in 1 .. L - 1 : Nexts[s[i]] = s[i + 1]
      <4>1. ASSUME NEW i \in 1 .. L - 1 PROVE Nexts[s[i]] = s[i + 1]
        <5>1. /\ i \in 1 .. L /\ i + 1 \in 1 .. L /\ L - i + 1 \in 2 .. L
              /\ L - (i + 1) + 1 = L - i /\ (L - i + 1) - 1 = L - i /\ L - i + 1 \in 1 .. L
          BY <2>2
        <5>2. s[i] = q[L - i + 1] /\ s[i + 1] = q[L - i]
          BY <5>1
        <5>3. blk[q[L - i + 1]].next = q[(L - i + 1) - 1]
          BY <1>0, <5>1 DEF Shape
        <5>4. q[L - i + 1] \in Threads
          BY <1>q, <5>1
        <5> QED  BY <5>1, <5>2, <5>3, <5>4 DEF Nexts
      <4> QED  BY <4>1
    <3>i. \A n \in 0 .. L - 1 : s[n + 1] = q[L - n] /\ n \in 0 .. N /\ n < L /\ L - n \in 1 .. L
      <4>1. ASSUME NEW n \in 0 .. L - 1
            PROVE s[n + 1] = q[L - n] /\ n \in 0 .. N /\ n < L /\ L - n \in 1 .. L
        <5>1. n + 1 \in 1 .. L /\ L - (n + 1) + 1 = L - n /\ n \in 0 .. N /\ n < L /\ L - n \in 1 .. L
          BY <2>2, <2>n
        <5> QED  BY <5>1
      <4> QED  BY <4>1
    <3> HIDE DEF s, at, N
    <3>4. \A n \in 0 .. N : n < Len(s) => at[n] = s[n + 1]
      <4>1. Walks(at, Nexts, s[1], N)
        BY <2>3, <3>2
      <4>2. Len(s) > 0 /\ \A i \in 1 .. Len(s) - 1 : Nexts[s[i]] = s[i + 1]
        BY <2>2, <3>1, <3>3
      <4> QED  BY <2>n, <3>1, <4>1, <4>2, WalkAlong
    <3> QED  BY <3>1, <3>4, <3>i
  <2>d. DOMAIN at = 0 .. N
    BY <2>3 DEF Walks
  <2>5. PICK k \in 1 .. L :
          /\ blk[q[k]].last = q[1]
          /\ \A i \in k + 1 .. L : blk[q[i]].last = NULL
    BY <1>0, <2>2 DEF Known
  <2> HIDE DEF at, N
  <2>6. L - k \in knows /\ \A m \in knows : L - k <= m
    <3>1. L - k \in 0 .. L - 1 /\ L - (L - k) = k /\ L - k \in 0 .. N
      BY <2>2, <2>n
    <3>2. at[L - k] = q[k]
      BY <2>4, <3>1
    <3>3. q[k] # NULL /\ blk[q[k]].last # NULL
      <4>1. 1 \in 1 .. L
        BY <2>2
      <4> QED  BY <1>q, <2>5, <4>1
    <3>4. ASSUME NEW m \in knows, ~(L - k <= m) PROVE FALSE
      <4>1. m \in 0 .. N /\ blk[at[m]].last # NULL
        BY <2>d
      <4>2. m \in 0 .. L - 1 /\ L - m \in k + 1 .. L
        BY <2>2, <3>4, <4>1
      <4>3. at[m] = q[L - m]
        BY <2>4, <4>2
      <4> QED  BY <2>5, <4>1, <4>2, <4>3
    <3> QED  BY <2>d, <3>1, <3>2, <3>3, <3>4
  <2>k. \A m \in knows : m \in Nat
    BY <2>d, <2>n
  <2>7. first = L - k
    <3>1. first \in knows /\ \A m \in knows : first <= m
      <4> HIDE DEF knows
      <4> QED  BY <2>6
    <3>2. first <= L - k /\ L - k <= first /\ first \in Nat /\ L - k \in Nat
      <4> HIDE DEF knows, first
      <4> QED  BY <2>6, <2>k, <3>1
    <3> HIDE DEF first
    <3> QED  BY <3>2
  <2>8. last = q[1]
    <3>1. L - k \in 0 .. L - 1 /\ L - (L - k) = k
      BY <2>2
    <3>2. at[L - k] = q[k]
      BY <2>4, <3>1
    <3> HIDE DEF first
    <3> QED  BY <2>5, <2>7, <3>2
  <2> HIDE DEF knows, first, last
  <2>9. L - 1 \in ends /\ \A m \in ends : L - 1 <= m
    <3>1. L - 1 \in 0 .. L - 1 /\ L - (L - 1) = 1 /\ L - 1 \in 0 .. N
      BY <2>2, <2>n
    <3>2. at[L - 1] = q[1]
      BY <2>4, <3>1
    <3>3. ASSUME NEW m \in ends, ~(L - 1 <= m) PROVE FALSE
      <4>1. m \in 0 .. N /\ at[m] = q[1]
        BY <2>8, <2>d
      <4>2. m \in 0 .. L - 1 /\ L - m \in 1 .. L /\ L - m # 1 /\ 1 \in 1 .. L
        BY <2>2, <3>3, <4>1
      <4>3. q[L - m] = q[1]
        BY <2>4, <4>1, <4>2
      <4> QED  BY <1>0, <4>2, <4>3 DEF Shape
    <3> QED  BY <2>8, <2>d, <3>1, <3>2, <3>3
  <2>e. \A m \in ends : m \in Nat
    BY <2>d, <2>n
  <2>10. end = L - 1
    <3>1. end \in ends /\ \A m \in ends : end <= m
      <4> HIDE DEF ends
      <4> QED  BY <2>9
    <3>2. end <= L - 1 /\ L - 1 <= end /\ end \in Nat /\ L - 1 \in Nat
      <4> HIDE DEF ends, end
      <4> QED  BY <2>9, <2>e, <3>1
    <3> HIDE DEF end
    <3> QED  BY <3>2
  <2> HIDE DEF ends, end
  <2>11. Queued = {at[n] : n \in 0 .. L - 1}
    BY <2>1, <2>10
  <2>12. ASSUME u \in Queued PROVE On(u, q)
    <3>1. PICK n \in 0 .. L - 1 : u = at[n]
      BY <2>11, <2>12
    <3>2. u = q[L - n] /\ L - n \in 1 .. L
      BY <2>4, <3>1
    <3> QED  BY <3>2 DEF On
  <2>13. ASSUME On(u, q) PROVE u \in Queued
    <3>1. PICK i \in 1 .. L : q[i] = u
      BY <2>13 DEF On
    <3>2. L - i \in 0 .. L - 1 /\ L - (L - i) = i
      BY <2>2
    <3>3. at[L - i] = u
      BY <2>4, <3>1, <3>2
    <3> QED  BY <2>11, <3>2, <3>3
  <2> QED  BY <2>12, <2>13
<1> QED  BY <1>1, <1>2


-----------------------------------------------------------------------------
(* What the invariant gives. *)

\* Who is on a list or in a batch is parked and not signaled.
LEMMA ParkedOn ==
    ASSUME NEW q, NEW b, IInv(q, b), NEW u, On(u, q) \/ \E t \in Threads : On(u, b[t])
    PROVE  u \in Threads /\ Parked(u) /\ ~blk[u].signaled
<1>0. q \in Seq(Threads) /\ b \in [Threads -> Seq(Threads)] /\ Members(q, b)
  BY DEF IInv, Shape, Batches
<1>1. u \in Threads
  <2>1. CASE On(u, q)
    BY <1>0, <2>1 DEF On
  <2>2. ASSUME NEW t \in Threads, On(u, b[t]) PROVE u \in Threads
    <3>1. b[t] \in Seq(Threads)
      BY <1>0
    <3> QED  BY <2>2, <3>1 DEF On
  <2> QED  BY <2>1, <2>2
<1> QED  BY <1>0, <1>1 DEF Members

\* The invariant implies that wakeups are owned,
LEMMA WakeupsFromInv ==
    ASSUME NEW q, NEW b, IInv(q, b)
    PROVE  WakeupsOwned
<1>1. WakingBitOwned
  BY DEF IInv, Waking, WakingBitOwned, OwnerAt
<1>2. NoStrandedWaiters
  <2>1. ASSUME lock.waiting, ~lock.locked, ~lock.waking
        PROVE \E t \in Threads :
             \/ pc[t] = "tryRead"
             \/ pc[t] = "tryWake" /\ old[t] = lock
             \/ pc[t] \in {"exRead", "exTry", "shRead", "shTry"}
             \/ Parked(t) /\ blk[t].signaled
             \/ ToSignal(t) # {}
    <3>1. PICK t \in Threads : Coming(t, b)
      BY <2>1 DEF IInv, Served
    <3>2. ASSUME b[t] # << >> PROVE ToSignal(t) # {}
      <4>1. b[t] \in Seq(Threads)
        BY DEF IInv, Batches
      <4>2. 1 \in 1 .. Len(b[t])
        BY <3>2, <4>1
      <4>3. On(b[t][1], b[t])
        BY <4>2 DEF On
      <4>4. b[t][1] \in ToSignal(t)
        BY <4>3, ToSignalIs
      <4> QED  BY <4>4
    <3> QED  BY <3>1, <3>2 DEF Coming
  <2> QED  BY <2>1 DEF NoStrandedWaiters
<1>3. SignalReachesGate
  <2>0. Gates
    BY DEF IInv
  <2>1. ASSUME NEW t \in Threads
        PROVE  LET setters == {u \in Threads : pc[u] = "setGate" /\ wb[u] = t} IN
               /\ pc[t] = "gateWait" =>
                     (blk[t].signaled <=> gate[t] \/ setters # {})
               /\ setters # {} => pc[t] = "gateWait" /\ ~gate[t]
               /\ \A u, v \in setters : u = v
    <3> DEFINE setters == {u \in Threads : pc[u] = "setGate" /\ wb[u] = t}
    <3>1. setters # {} <=> \E v \in Threads : pc[v] = "setGate" /\ wb[v] = t
      OBVIOUS
    <3>2. \A u, v \in setters : u = v
      BY <2>0 DEF Gates
    <3> HIDE DEF setters
    <3>3. setters # {} => pc[t] = "gateWait" /\ ~gate[t] /\ blk[t].signaled
      BY <2>0, <3>1 DEF Gates
    <3>4. pc[t] = "gateWait" => (blk[t].signaled <=> gate[t] \/ setters # {})
      BY <2>0, <3>1, <3>3 DEF Gates
    <3> QED  BY <3>2, <3>3, <3>4 DEF setters
  <2> QED  BY <2>1 DEF SignalReachesGate
<1> QED  BY <1>1, <1>2, <1>3 DEF WakeupsOwned

\* that no dead block is followed,
LEMMA AliveFromInv ==
    ASSUME NEW q, NEW b, IInv(q, b)
    PROVE  BlocksAlive
<1>0. Types /\ Shape(q) /\ Owners(q) /\ Several(q) /\ Batches(q, b) /\ Gates /\ Controls
  BY DEF IInv
<1>q. q \in Seq(Threads) /\ Len(q) \in Nat
  BY <1>0 DEF Shape
<1>1. lock.waiting => Parked(lock.ptr)
  <2>1. lock.waiting => lock.ptr = q[Len(q)] /\ Len(q) > 0
    BY <1>0 DEF Shape
  <2>2. lock.waiting => On(lock.ptr, q)
    BY <1>q, <2>1 DEF On
  <2> QED  BY <2>2, ParkedOn
<1>2. ASSUME NEW t \in Threads, pc[t] \in WalkerAt PROVE Parked(wb[t])
  <2>1. CASE pc[t] \in {"optWalk", "wakeWalk", "wakeTake"}
    <3>1. OwnerView(t, q)
      BY <1>0, <2>1 DEF Owners, OwnerAt, OptimizerAt, WakerAt
    <3>2. \E m \in 1 .. Len(q) : wb[t] = q[m]
      BY <1>q, <2>1, <3>1 DEF OwnerView
    <3>3. On(wb[t], q)
      BY <3>2 DEF On
    <3> QED  BY <3>3, ParkedOn
  <2>2. CASE pc[t] \in {"wakeClear", "signal"}
    <3>1. b[t] # << >> /\ wb[t] = b[t][1] /\ b[t] \in Seq(Threads)
      BY <1>0, <2>2 DEF Batches
    <3>2. On(wb[t], b[t])
      BY <3>1 DEF On
    <3> QED  BY <3>2, ParkedOn
  <2>3. CASE pc[t] = "setGate"
    <3>1. wb[t] # NULL /\ wb[t] \in Threads
      BY <1>0, <2>3 DEF Batches, Types
    <3>2. pc[wb[t]] = "gateWait"
      BY <1>0, <2>3, <3>1 DEF Gates
    <3> QED  BY <3>2 DEF Parked, WaiterAt
  <2>4. CASE pc[t] \in {"relWalk", "relCount"}
    <3>1. On(wb[t], q)
      <4>1. pc[t] = "relCount" => wb[t] = q[1] /\ Len(q) > 0
        BY <1>0, Walkers DEF Several
      <4>2. pc[t] = "relWalk" => On(wb[t], q)
        BY <1>0 DEF Several
      <4> QED  BY <1>q, <2>4, <4>1, <4>2 DEF On
    <3> QED  BY <3>1, ParkedOn
  <2> QED  BY <1>2, <2>1, <2>2, <2>3, <2>4 DEF WalkerAt, SignalerAt
<1>3. ASSUME NEW t \in Threads, pc[t] \in OptimizerAt \cup WakerAt PROVE Parked(cur[t].ptr)
  <2>1. \E j \in 1 .. Len(q) : q[j] = cur[t].ptr
    <3>1. CASE pc[t] = "wakeClear"
      BY <1>0, <3>1 DEF Owners
    <3>2. CASE pc[t] # "wakeClear"
      BY <1>0, <1>3, <3>2 DEF Owners, OwnerView, OwnerAt
    <3> QED  BY <3>1, <3>2
  <2>2. On(cur[t].ptr, q)
    BY <2>1 DEF On
  <2> QED  BY <2>2, ParkedOn
<1>4. ASSUME NEW t \in Threads, todo[t] # NULL PROVE Parked(todo[t])
  <2>1. pc[t] = "setGate"
    BY <1>0, <1>4 DEF Controls, Control
  <2>2. todo[t] = b[t][1] /\ b[t] # << >> /\ b[t] \in Seq(Threads)
    BY <1>0, <1>4, <2>1 DEF Batches
  <2>3. On(todo[t], b[t])
    BY <2>2 DEF On
  <2> QED  BY <2>3, ParkedOn
<1> QED  BY <1>1, <1>2, <1>3, <1>4 DEF BlocksAlive

\* that the wait blocks form a sound list,
LEMMA SoundFromInv ==
    ASSUME NEW q, NEW b, IInv(q, b)
    PROVE  WaitBlocksSound
<1>1. ASSUME NEW u \in Threads
      PROVE  LET signalers == {t \in Threads : u \in ToSignal(t)} IN
             /\ Parked(u) /\ ~blk[u].signaled => (u \in Queued) # (signalers # {})
             /\ u \in Queued \/ signalers # {} => Parked(u) /\ ~blk[u].signaled
             /\ \A t1, t2 \in signalers : t1 = t2
  <2> DEFINE signalers == {t \in Threads : u \in ToSignal(t)}
  <2>1. signalers = {t \in Threads : On(u, b[t])}
    BY ToSignalIs
  <2>2. u \in Queued <=> On(u, q)
    BY QueuedIs
  <2>3. signalers # {} <=> \E t \in Threads : On(u, b[t])
    BY <2>1
  <2>4. \A t1, t2 \in signalers : t1 = t2
    BY <2>1 DEF IInv, Batches
  <2>5. ~(u \in Queued /\ signalers # {})
    BY <2>2, <2>3 DEF IInv, Batches
  <2>6. Parked(u) /\ ~blk[u].signaled <=> u \in Queued \/ signalers # {}
    BY <2>2, <2>3 DEF IInv, Members
  <2> HIDE DEF signalers
  <2>7. Parked(u) /\ ~blk[u].signaled => (u \in Queued) # (signalers # {})
    BY <2>5, <2>6
  <2> QED  BY <2>4, <2>6, <2>7 DEF signalers
<1>2. NoWaiterLost
  BY <1>1 DEF NoWaiterLost
<1> QED  BY <1>2, AliveFromInv DEF WaitBlocksSound

\* that the types are those of the model,
LEMMA TypeOKFromInv ==
    ASSUME NEW q, NEW b, IInv(q, b)
    PROVE  TypeOK
<1>0. Types /\ Bounded
  BY DEF IInv
<1>n. Cardinality(Threads) \in Nat
  BY ThreadSets
<1>1. ASSUME NEW v \in Wide, v.shared <= Cardinality(Threads) PROVE v \in Value
  <2>1. v.shared \in 0 .. Cardinality(Threads)
    BY <1>1, <1>n DEF Wide
  <2> QED  BY <2>1 DEF Wide, Value
<1>2. ASSUME NEW v \in WideBlock, v.shareCount <= Cardinality(Threads) PROVE v \in Block
  <2>1. v.shareCount \in 0 .. Cardinality(Threads)
    BY <1>2, <1>n DEF WideBlock
  <2> QED  BY <2>1 DEF WideBlock, Block
<1>3. lock \in Value
  BY <1>0, <1>1 DEF Types, Bounded
<1>4. blk \in [Threads -> Block]
  BY <1>0, <1>2 DEF Types, Bounded
<1>5. old \in [Threads -> Value] /\ cur \in [Threads -> Value]
  BY <1>0, <1>1 DEF Types, Bounded
<1> QED  BY <1>0, <1>3, <1>4, <1>5 DEF TypeOK, Types, Places

\* and that no ASSERT of pushlock.c fails.
LEMMA AssertsFromInv ==
    ASSUME NEW q, NEW b, IInv(q, b)
    PROVE  Asserts
<1>0. Types /\ Words /\ Waking /\ Shape(q) /\ Owners(q) /\ Several(q) /\ Batches(q, b) /\ Gates /\ Controls
  BY DEF IInv
<1>1. ASSUME NEW t \in Threads
      PROVE  /\ pc[t] = "wake" => ~cur[t].multi
             /\ pc[t] = "wake" /\ cur[t].locked => cur[t].waiting
             /\ pc[t] = "relTry" => old[t].locked
             /\ pc[t] = "rxTry" => old[t].locked /\ old[t].shared = 0
  BY <1>0 DEF Controls, Control, OwnerAt, WakerAt
<1>2. ASSUME NEW t \in Threads, pc[t] = "wakeClear" PROVE wb[t] # cur[t].ptr /\ lock.waiting
  <2>1. lock.waking /\ lock.waiting
    BY <1>0, <1>2 DEF Waking, OwnerAt, WakerAt, Words, Word
  <2>2. On(cur[t].ptr, q)
    BY <1>0, <1>2 DEF Owners, On
  <2>3. b[t] # << >> /\ wb[t] = b[t][1] /\ b[t] \in Seq(Threads)
    BY <1>0, <1>2 DEF Batches
  <2>4. On(wb[t], b[t]) /\ wb[t] \in Threads
    BY <2>3 DEF On
  <2>5. ~On(wb[t], q)
    BY <1>0, <2>4 DEF Batches
  <2> QED  BY <2>1, <2>2, <2>5
<1>3. ASSUME NEW t \in Threads, pc[t] = "signal" PROVE ~blk[wb[t]].signaled
  <2>1. b[t] # << >> /\ wb[t] = b[t][1] /\ b[t] \in Seq(Threads)
    BY <1>0, <1>3 DEF Batches
  <2>2. On(wb[t], b[t])
    BY <2>1 DEF On
  <2> QED  BY <2>2, ParkedOn
<1>4. ASSUME NEW t \in Threads, pc[t] = "gateWait", gate[t] PROVE blk[t].signaled
  BY <1>0, <1>4 DEF Gates
<1>5. ASSUME NEW t \in Threads, pc[t] \in {"exTry", "shTry"} PROVE blk[t].shareCount = 0
  <2>1. SUFFICES ASSUME blk[t].shareCount # 0 PROVE FALSE
    OBVIOUS
  <2>2. lock.multi /\ t = q[1]
    BY <1>0, <2>1 DEF Several
  <2>3. Len(q) > 0 /\ Len(q) \in Nat
    BY <1>0, <2>2 DEF Words, Word, Shape
  <2>4. On(t, q)
    BY <2>2, <2>3 DEF On
  <2>5. Parked(t)
    BY <2>4, ParkedOn
  <2> QED  BY <1>5, <2>5 DEF Parked, WaiterAt, OptimizerAt, WakerAt, SignalerAt
<1>6. ASSUME NEW t \in Threads, pc[t] = "relCount"
      PROVE  blk[wb[t]].shareCount > 0 /\ blk[wb[t]].exclusive
  <2>1. wb[t] = q[1] /\ lock.multi /\ lock.waiting
    BY <1>0, <1>6 DEF Several, Controls, Control
  <2>2. blk[q[1]].exclusive
    BY <1>0, <2>1 DEF Several
  <2>3. blk[q[1]].shareCount # 0
    <3>1. SUFFICES ASSUME blk[q[1]].shareCount = 0 PROVE FALSE
      OBVIOUS
    <3>2. PICK s \in Threads : pc[s] = "relUnlock"
      BY <1>0, <2>1, <3>1 DEF Several
    <3>3. Holders = {s}
      BY <2>1, <3>2, UnlocksAlone
    <3>4. t \in Holders
      BY <1>6 DEF Holders, Releasing
    <3> QED  BY <1>6, <3>2, <3>3, <3>4
  <2>4. blk[q[1]].shareCount \in Nat
    <3>1. wb[t] \in Threads
      BY <1>6, Walkers DEF WalkerAt
    <3> QED  BY <1>0, <2>1, <3>1 DEF Types, WideBlock
  <2> QED  BY <2>1, <2>2, <2>3, <2>4
<1>7. ASSUME NEW t \in Threads, hold[t] # "none" PROVE lock.locked
  BY <1>7, HoldersLock DEF Holders
<1>8. ASSUME NEW t \in Threads, hold[t] = "exclusive" PROVE lock.shared = 0
  BY <1>8, ExclusiveWord
<1> QED
  BY <1>1, <1>2, <1>3, <1>4, <1>5, <1>6, <1>7, <1>8, TypeOKFromInv DEF Asserts

\* Nobody holds the lock beside an exclusive holder.
LEMMA AloneFromInv ==
    ASSUME NEW q, NEW b, IInv(q, b), NEW t \in Threads, NEW u \in Threads, t # u,
           hold[t] # "none", ~lock.multi, lock.shared <= 1
    PROVE  hold[u] = "none"
<1>1. t \in Holders
  BY DEF Holders
<1>2. Held(q) = 1
  <2>1. lock.locked
    BY <1>1, HoldersLock
  <2>2. lock.shared \in Nat
    BY DEF IInv, Types, Wide
  <2>3. AtLeastOne(lock.shared) = 1
    BY <2>2 DEF AtLeastOne
  <2> QED  BY <2>1, <2>3 DEF Held
<1>3. Cardinality(Holders) = 1
  BY <1>2 DEF IInv, Counted
<1>4. \A v, w \in Holders : v # w => Cardinality(Holders) >= 2
  BY HoldersCounted DEF IInv
<1>5. u \notin Holders
  BY <1>1, <1>3, <1>4
<1> QED  BY <1>5 DEF Holders

\* ExfWakePushLock and the gates: one thread has the waking bit, no waiter is
\* left behind a free lock that nobody looks at, and none is woken by two.
THEOREM PushLockWakes == Spec => []WakeupsOwned
<1>1. Inductive => WakeupsOwned
  BY WakeupsFromInv DEF Inductive
<1> QED  BY <1>1, InductiveHolds, PTL

\* The list ExpOptimizePushLockList and ExfWakePushLock follow: no block of a
\* frame that is gone is on it, and every waiter is on it once.
THEOREM PushLockList == Spec => []WaitBlocksSound
<1>1. Inductive => WaitBlocksSound
  BY SoundFromInv DEF Inductive
<1> QED  BY <1>1, InductiveHolds, PTL

\* The ASSERTs of pushlock.c hold, and no value exceeds the width it has.
THEOREM PushLockAsserts == Spec => []Asserts
<1>1. Inductive => Asserts
  BY AssertsFromInv DEF Inductive
<1> QED  BY <1>1, InductiveHolds, PTL

\* A step acquires, shares, converts or releases the abstract lock, or stutters.
LEMMA HoldStep ==
    ASSUME NEW q, NEW b, IInv(q, b), NEW t \in Threads, Step(t)
    PROVE  \/ hold' = hold
           \/ Abstract!Acquire(t) \/ Abstract!Share(t)
           \/ Abstract!Convert(t) \/ Abstract!Release(t)
<1>0. Types /\ Control(t)
  BY DEF IInv, Controls
<1>f. ~lock.locked => \A u \in Threads : hold[u] = "none"
  BY HoldersLock DEF Holders
<1>x. \A u \in Threads : hold[u] = "exclusive" => lock.shared = 0 /\ lock.locked
  BY ExclusiveWord, HoldersLock DEF Holders
<1>n. pc[t] \notin {"idle", "rxRead"} => hold[t] = "none"
  BY <1>0 DEF Control, Types
<1>1. ASSUME (\E c \in Calls : AcquireExclusiveSlow(t, c)) \/ ExclusiveRead(t)
          \/ ExclusiveRetry(t) \/ ExclusiveFirstWaiter(t)
          \/ ExclusiveNextWaiter(t) \/ AcquireSharedSlow(t) \/ SharedRead(t)
          \/ SharedRetry(t) \/ SharedFirstWaiter(t) \/ SharedNextWaiter(t)
          \/ InitGate(t) \/ TestWait(t) \/ GateWait(t) \/ OptimizeUnlocked(t)
          \/ OptimizeStart(t) \/ WalkOn(t, "optWalk") \/ WalkOn(t, "wakeWalk")
          \/ OptimizeFound(t) \/ OptimizeDone(t) \/ OptimizeRetry(t)
          \/ WakeNotNow(t) \/ WakeReload(t) \/ WakeStart(t) \/ WakeFound(t)
          \/ WakeAll(t) \/ WakeAllRetry(t) \/ WakeUnlink(t) \/ WakeClear(t)
          \/ SignalSpinner(t) \/ SignalWaiter(t) \/ SetGate(t)
          \/ ReleaseNoWaiter(t, "relFast") \/ ReleaseNoWaiter(t, "relTry")
          \/ ReleaseFastFails(t) \/ ReleaseRead(t) \/ ReleaseReload(t)
          \/ ReleaseFindCount(t) \/ ReleaseNoCount(t) \/ ReleaseWalkOn(t)
          \/ ReleaseFound(t) \/ ReleaseCounted(t) \/ ReleaseCountedLast(t)
          \/ ReleaseUnlock(t) \/ ReleaseUnlockFails(t) \/ TryWakeRead(t)
          \/ TryWake(t) \/ TryWakeNot(t) \/ ReleaseExclusiveSlow(t)
          \/ ReleaseExclusiveWake(t) \/ ReleaseExclusiveSimple(t)
          \/ ReleaseExclusiveReload(t)
      PROVE  hold' = hold
  BY <1>1 DEF AcquireExclusiveSlow, Enter, Goto, locals, ExclusiveRead,
      ReadLock, ExclusiveRetry, FrameGone, ExclusiveFirstWaiter, Exchange,
      Locked, ExclusiveNextWaiter, Subroutine, Acquiring, AcquireSharedSlow,
      SharedRead, SharedRetry, SharedFirstWaiter, MayShare, SharedNextWaiter,
      InitGate, TestWait, Again, GateWait, OptimizeUnlocked, OptimizeStart,
      WalkOn, OptimizeFound, OptimizeDone, SubroutineReturns, Return,
      OptimizeRetry, WakeNotNow, WakeReload, WakeStart, WakeFound, WakeAll,
      WakeAllRetry, WakeUnlink, WakeOneOnly, WakeClear, SignalSpinner,
      SignalNext, SignalWaiter, SetGate, ReleaseNoWaiter, Dropped,
      ReleaseFastFails, ReleaseRead, ReleaseReload, ReleaseFindCount,
      ReleaseNoCount, ReleaseWalkOn, ReleaseFound, ReleaseCounted,
      ReleaseCountedLast, ReleaseUnlock, ReleaseUnlockFails, vars, TryWakeRead,
      TryWake, Wakeable, TryWakeNot, ReleaseExclusiveSlow,
      ReleaseExclusiveWake, ReleaseExclusiveSimple, ReleaseExclusiveReload
<1>2. CASE AcquireExclusiveFast(t)
  BY <1>2, <1>f DEF AcquireExclusiveFast, Holds, Abstract!Acquire
<1>3. CASE ExclusiveTake(t)
  BY <1>3, <1>f DEF ExclusiveTake, Exchange, Holds, Abstract!Acquire
<1>4. CASE AcquireSharedFast(t)
  <2>1. lock = Free /\ hold[t] = "none" /\ hold' = [hold EXCEPT ![t] = "shared"]
    BY <1>4 DEF AcquireSharedFast, Exchange, Holds
  <2>2. ~lock.locked
    BY <2>1 DEF Free
  <2> QED  BY <1>f, <2>1, <2>2 DEF Abstract!Share
<1>5. CASE SharedTake(t)
  <2>1. hold' = [hold EXCEPT ![t] = "shared"] /\ pc[t] = "shTry"
    BY <1>5, <1>0, SharedTakeEffect DEF SharedTake, Holds
  <2>2. ~lock.locked \/ lock.shared > 0
    BY <1>5, <1>0, SharedTakeEffect
  <2>3. hold[t] = "none"
    BY <1>n, <2>1
  <2>4. lock.shared > 0 => lock.shared # 0
    BY <1>0 DEF Types, Wide
  <2>5. \A u \in Threads : hold[u] # "exclusive"
    BY <1>f, <1>x, <2>2, <2>4
  <2> QED  BY <2>1, <2>3, <2>5 DEF Abstract!Share
<1>6. CASE Convert(t)
  <2>1. lock = Locked(1) /\ hold[t] = "shared" /\ hold' = [hold EXCEPT ![t] = "exclusive"]
    BY <1>6 DEF Convert, Exchange, Holds
  <2>2. ~lock.multi /\ lock.shared <= 1
    BY <2>1 DEF Locked, Free
  <2>3. \A u \in Threads \ {t} : hold[u] = "none"
    BY <2>1, <2>2, AloneFromInv
  <2> QED  BY <2>1, <2>3 DEF Abstract!Convert
<1>7. CASE ReleaseSharedFast(t)
  BY <1>7 DEF ReleaseSharedFast, Holds, Abstract!Release
<1>8. CASE ReleaseSharedSlow(t)
  BY <1>8 DEF ReleaseSharedSlow, Holds, Abstract!Release
<1>9. CASE ReleaseEnter(t)
  BY <1>9 DEF ReleaseEnter, Holds, Abstract!Release
<1>10. CASE ReleaseExclusiveFast(t)
  BY <1>10 DEF ReleaseExclusiveFast, Holds, Abstract!Release
<1>11. CASE ReleaseExclusiveRead(t)
  <2>1. pc[t] = "rxRead" /\ hold' = [hold EXCEPT ![t] = "none"]
    BY <1>11 DEF ReleaseExclusiveRead, Goto, Holds
  <2>2. hold[t] # "none"
    BY <1>0, <2>1 DEF Control
  <2> QED  BY <2>1, <2>2 DEF Abstract!Release
<1> QED
  BY <1>1, <1>2, <1>3, <1>4, <1>5, <1>6, <1>7, <1>8, <1>9, <1>10,
      <1>11 DEF Step, BeginAcquire, BeginRelease, InCall, InAcquire,
      InOptimize, InWake, InRelease

\* ExAcquire/ReleasePushLockShared and Exclusive implement a lock that many
\* share or one has.
THEOREM PushLockImplements == Spec => Refinement
<1>1. Init => Abstract!Init
  BY DEF Init, Abstract!Init
<1>2. Inductive /\ [Next]_vars => [Abstract!Next]_hold
  <2> SUFFICES ASSUME Inductive, [Next]_vars PROVE [Abstract!Next]_hold
    OBVIOUS
  <2>1. CASE UNCHANGED vars
    BY <2>1 DEF vars
  <2>2. CASE Next
    <3>1. PICK q, b : IInv(q, b)
      BY DEF Inductive
    <3>2. PICK t \in Threads : Step(t)
      BY <2>2 DEF Next, Step
    <3> QED  BY <3>1, <3>2, HoldStep DEF Abstract!Next
  <2> QED  BY <2>1, <2>2
<1> QED  BY <1>1, <1>2, InductiveHolds, PTL DEF Spec, Refinement, Abstract!Spec

====
