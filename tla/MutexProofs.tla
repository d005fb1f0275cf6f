---------------------------- MODULE MutexProofs -----------------------------
(***************************************************************************)
(* Proofs about FastMutex and GuardedMutex, for any finite set of threads. *)
(*                                                                         *)
(* Mutual exclusion of the fast mutex is not inductive: that nobody has it *)
(* when Count is 1 rests on Count being exact, and that a signaled event   *)
(* admits one thread rests on the baton, ownership on its way from the     *)
(* releasing thread to a waiting one, being in one place only (HandOver).  *)
(*                                                                         *)
(* For the guarded mutex (the instance G) exclusion needs no more than the *)
(* lock bit, but that no wakeup is lost needs all parts of Count together: *)
(* a thread that waits again adds the woken bit, which makes it a waiter   *)
(* only because the bit is still set (WokenOnce); the release that wakes a *)
(* waiter subtracts from a number of waiters that must not be zero         *)
(* (LocalsCorrect, GuardedCounted); and the release that does not relies   *)
(* on the thread that is on its way.                                       *)
(***************************************************************************)
EXTENDS MCMutexes, FiniteSetTheorems, SequenceTheorems, TLAPS

Inside == {t \in Threads : HasMutex(t) \/ IsWaiting(t)}

\* TypeOK but for the bound on the count, which follows from CountCorrect.
Types ==
    /\ count \in Int
    /\ owner \in Threads \cup {NULL}
    /\ oldIrql \in {PASSIVE_LEVEL, APC_LEVEL}
    /\ event \in BOOLEAN
    /\ queue \in Seq(Threads)
    /\ pc \in [Threads -> {"idle", "slow", "queued", "take", "held",
                           "increment", "signal", "lower"}]
    /\ unsafe \in [Threads -> BOOLEAN]
    /\ irql \in [Threads -> {PASSIVE_LEVEL, APC_LEVEL}]
    /\ local \in [Threads -> {PASSIVE_LEVEL, APC_LEVEL}]
    /\ entry \in [Threads -> {PASSIVE_LEVEL, APC_LEVEL}]

Counted == count = 1 - Cardinality(Inside)

\* Only waiting threads are on the wait list, once each.
QueueCorrect ==
    /\ \A i \in 1 .. Len(queue) : pc[queue[i]] = "queued"
    /\ \A i, j \in 1 .. Len(queue) : queue[i] = queue[j] => i = j

\* Where the IRQL to return to is kept.
IrqlKept ==
    \A t \in Threads :
        /\ pc[t] = "idle" \/ unsafe[t] => irql[t] = entry[t]
        /\ ~unsafe[t] /\ pc[t] \notin {"idle", "held"} => local[t] = entry[t]
        /\ ~unsafe[t] /\ pc[t] = "held" => oldIrql = entry[t]

IInv == /\ Types
        /\ Counted
        /\ HandOver
        /\ QueueCorrect
        /\ OwnerCorrect
        /\ IrqlKept

-----------------------------------------------------------------------------
\* The threads inside are finitely many.
LEMMA InsideFinite == IsFiniteSet(Inside) /\ Cardinality(Inside) \in Nat
  BY ThreadsFinite, FS_Subset, FS_CardinalityType DEF Inside

\* The count is 1 exactly when nobody is inside.
LEMMA CountOne == ASSUME Types, Counted
                  PROVE  /\ count <= 1
                         /\ count = 1 <=> Inside = {}
  BY InsideFinite, FS_EmptySet DEF Types, Counted

\* A thread comes in,
LEMMA Enters ==
  ASSUME count \in Int, Counted, NEW t \in Threads, t \notin Inside,
         Inside' = Inside \cup {t}, count' = count - 1
  PROVE  Counted'
  <1>1. Cardinality(Inside \cup {t}) = Cardinality(Inside) + 1
    BY InsideFinite, FS_AddElement
  <1> QED
    BY <1>1, InsideFinite DEF Counted

\* or leaves; the count it leaves tells whether another one is inside.
LEMMA Leaves ==
  ASSUME count \in Int, Counted, NEW t \in Inside,
         Inside' = Inside \ {t}, count' = count + 1
  PROVE  /\ Counted'
         /\ count + 1 > 0 <=> Inside \ {t} = {}
  <1>1. /\ IsFiniteSet(Inside \ {t})
        /\ Cardinality(Inside \ {t}) = Cardinality(Inside) - 1
    BY InsideFinite, FS_RemoveElement
  <1>2. /\ Cardinality(Inside \ {t}) \in Nat
        /\ Cardinality(Inside \ {t}) = 0 <=> Inside \ {t} = {}
    BY <1>1, FS_CardinalityType, FS_EmptySet
  <1> QED
    BY <1>1, <1>2, InsideFinite DEF Counted

-----------------------------------------------------------------------------
\* A free mutex that no thread uses satisfies the invariant.
THEOREM InitIInv == Init => IInv
  <1> SUFFICES ASSUME Init PROVE IInv
    OBVIOUS
  <1>1. Types
    <2>1. queue \in Seq(Threads)
      BY DEF Init
    <2>2. event \in BOOLEAN /\ unsafe \in [Threads -> BOOLEAN]
      BY Zenon DEF Init
    <2>3. count \in Int /\ owner \in Threads \cup {NULL}
      BY DEF Init
    <2>4. pc \in [Threads -> {"idle", "slow", "queued", "take", "held",
                             "increment", "signal", "lower"}]
      BY DEF Init
    <2>5. /\ oldIrql \in {PASSIVE_LEVEL, APC_LEVEL}
          /\ irql \in [Threads -> {PASSIVE_LEVEL, APC_LEVEL}]
          /\ local \in [Threads -> {PASSIVE_LEVEL, APC_LEVEL}]
          /\ entry \in [Threads -> {PASSIVE_LEVEL, APC_LEVEL}]
      BY DEF Init
    <2> QED
      BY <2>1, <2>2, <2>3, <2>4, <2>5 DEF Types
  <1>2. Inside = {}
    BY DEF Init, Inside, HasMutex, IsWaiting
  <1>3. Counted
    BY <1>2, FS_EmptySet DEF Init, Counted
  <1>4. HandOver
    BY DEF Init, HandOver, Baton, HasMutex, IsWaiting
  <1>5. QueueCorrect
    BY DEF Init, QueueCorrect
  <1>6. OwnerCorrect
    BY NullAssumption DEF Init, OwnerCorrect
  <1>7. IrqlKept
    BY DEF Init, IrqlKept
  <1> QED
    BY <1>1, <1>3, <1>4, <1>5, <1>6, <1>7 DEF IInv

\* Acquiring, in either of the two ways in.
LEMMA AcquireStep ==
  ASSUME IInv, NEW t \in Threads, NEW u \in BOOLEAN, Acquire(t, u)
  PROVE  IInv'
  <1> USE DEF IInv
  <1>1. Types'
    BY DEF Acquire, Goto, Raise, Types, PASSIVE_LEVEL, APC_LEVEL
  <1>2. t \notin Inside /\ Inside' = Inside \cup {t}
    BY DEF Acquire, Goto, Types, Inside, HasMutex, IsWaiting
  <1>3. Counted'
    BY <1>2, Enters DEF Acquire, Types
  <1>4. HandOver'
    <2>1. count = 1 => /\ \A v \in Threads : ~Baton(v) /\ ~IsWaiting(v)
                       /\ ~event
      BY CountOne DEF Inside, HandOver, Baton
    <2>2. CASE count = 1
      <3>1. pc' = [pc EXCEPT ![t] = "take"] /\ UNCHANGED <<event, queue>>
        BY <2>2 DEF Acquire, Goto, Types
      <3> QED
        BY <2>1, <2>2, <3>1
        DEF HandOver, Baton, HasMutex, IsWaiting, Types
    <2>3. CASE count # 1
      <3>1. pc[t] = "idle" /\ pc' = [pc EXCEPT ![t] = "slow"] /\ UNCHANGED <<event, queue>>
        BY <2>3 DEF Acquire, Goto, Types
      <3>2. PICK v \in Threads : HasMutex(v) \/ IsWaiting(v)
        BY <2>3, CountOne DEF Inside
      <3>3. event \/ \E w \in Threads : Baton(w)
        BY <3>2 DEF HandOver, Baton
      <3> QED
        BY <3>1, <3>3 DEF HandOver, Baton, HasMutex, IsWaiting, Types
    <2> QED
      BY <2>2, <2>3
  <1>5. QueueCorrect'
    BY DEF Acquire, Goto, QueueCorrect, Types
  <1>6. OwnerCorrect'
    BY DEF Acquire, Goto, OwnerCorrect, Types
  <1>7. IrqlKept'
    BY DEF Acquire, Goto, Raise, IrqlKept, Types
  <1> QED
    BY <1>1, <1>3, <1>4, <1>5, <1>6, <1>7

\* TryToAcquire succeeds the way Acquire does.
LEMMA TryToAcquireStep ==
  ASSUME IInv, NEW t \in Threads, TryToAcquire(t)
  PROVE  IInv'
  <1>1. Acquire(t, FALSE)
    BY DEF TryToAcquire, Acquire, Goto, Raise
  <1> QED
    BY <1>1, AcquireStep

\* A waiter takes the signal, and with it the mutex.
LEMMA WaitNotStep ==
  ASSUME IInv, NEW t \in Threads, WaitNot(t)
  PROVE  IInv'
  <1> USE DEF IInv, WaitNot, Goto
  <1>1. Types'
    BY DEF Types
  <1>2. Inside' = Inside
    BY DEF Types, Inside, HasMutex, IsWaiting
  <1>3. Counted'
    BY <1>2 DEF Counted
  <1>4. HandOver'
    BY DEF HandOver, Baton, HasMutex, IsWaiting, Types
  <1>5. QueueCorrect'
    BY DEF QueueCorrect, Types
  <1>6. OwnerCorrect'
    BY DEF OwnerCorrect, Types
  <1>7. IrqlKept'
    BY DEF IrqlKept, Types
  <1> QED
    BY <1>1, <1>3, <1>4, <1>5, <1>6, <1>7

\* A waiter joins the wait list.
LEMMA WaitStep ==
  ASSUME IInv, NEW t \in Threads, Wait(t)
  PROVE  IInv'
  <1> USE DEF IInv, Wait, Goto
  <1>1. Types'
    BY DEF Types
  <1>2. Inside' = Inside
    BY DEF Types, Inside, HasMutex, IsWaiting
  <1>3. Counted'
    BY <1>2 DEF Counted
  <1>4. HandOver'
    BY DEF HandOver, Baton, HasMutex, IsWaiting, Types
  <1>5. QueueCorrect'
    <2>1. /\ Len(queue') = Len(queue) + 1 /\ Len(queue) \in Nat
          /\ \A i \in 1 .. Len(queue) : queue'[i] = queue[i]
          /\ queue'[Len(queue) + 1] = t
      BY DEF Types
    <2>2. \A i \in 1 .. Len(queue) : queue[i] \in Threads /\ queue[i] # t
      BY DEF QueueCorrect, Types
    <2> QED
      BY <2>1, <2>2 DEF QueueCorrect, Types
  <1>6. OwnerCorrect'
    BY DEF OwnerCorrect, Types
  <1>7. IrqlKept'
    BY DEF IrqlKept, Types
  <1> QED
    BY <1>1, <1>3, <1>4, <1>5, <1>6, <1>7

\* An APC takes a waiter off the list; the others stay on it.
LEMMA InterruptStep ==
  ASSUME IInv, NEW t \in Threads, Interrupt(t)
  PROVE  IInv'
  <1> USE DEF IInv, Interrupt, Goto
  <1>0. PICK k \in 1 .. Len(queue) : queue[k] = t /\ queue' = Without(queue, k)
    OBVIOUS
  <1>q. /\ queue' \in Seq(Threads) /\ queue # <<>>
        /\ Len(queue) \in Nat /\ Len(queue') = Len(queue) - 1
        /\ \A j \in 1 .. Len(queue') :
              queue'[j] = IF j < k THEN queue[j] ELSE queue[j + 1]
    <2>1. /\ Len(queue) \in Nat \ {0}
          /\ \A j \in 1 .. Len(queue) : queue[j] \in Threads
      BY <1>0 DEF Types
    <2>2. \A j \in 1 .. Len(queue) - 1 :
             /\ j \in 1 .. Len(queue) /\ j + 1 \in 1 .. Len(queue)
      BY <2>1
    <2>3. queue' \in [1 .. Len(queue) - 1 -> Threads]
      BY <1>0, <2>1, <2>2 DEF Without
    <2>4. queue' \in Seq(Threads) /\ Len(queue') = Len(queue) - 1
      <3>1. Len(queue) - 1 \in Nat
        BY <2>1
      <3> QED
        BY <2>3, <3>1, SeqDef, LenProperties
    <2>5. \A j \in 1 .. Len(queue') :
             queue'[j] = IF j < k THEN queue[j] ELSE queue[j + 1]
      BY <1>0, <2>1, <2>4 DEF Without
    <2> QED
      BY <2>1, <2>4, <2>5
  <1>1. Types'
    BY <1>q DEF Types
  <1>2. Inside' = Inside
    BY DEF Types, Inside, HasMutex, IsWaiting
  <1>3. Counted'
    BY <1>2 DEF Counted
  <1>4. HandOver'
    BY <1>q DEF HandOver, Baton, HasMutex, IsWaiting, Types
  <1>5. QueueCorrect'
    <2> DEFINE at(j) == IF j < k THEN j ELSE j + 1
    <2>1. \A j \in 1 .. Len(queue') :
             /\ at(j) \in 1 .. Len(queue) /\ at(j) # k
             /\ queue'[j] = queue[at(j)]
      BY <1>0, <1>q
    <2>2. \A i, j \in 1 .. Len(queue') : at(i) = at(j) => i = j
      BY <1>q
    <2>3. \A j \in 1 .. Len(queue) : queue[j] \in Threads
      BY DEF Types
    <2> HIDE DEF at
    <2>4. ASSUME NEW j \in 1 .. Len(queue')
          PROVE  pc'[queue'[j]] = "queued"
      <3>1. queue[at(j)] # t
        BY <1>0, <2>1 DEF QueueCorrect
      <3> QED
        BY <3>1, <2>1, <2>3 DEF QueueCorrect, Types
    <2>5. ASSUME NEW i \in 1 .. Len(queue'), NEW j \in 1 .. Len(queue'),
                 queue'[i] = queue'[j]
          PROVE  i = j
      <3>1. at(i) = at(j)
        BY <2>1, <2>5 DEF QueueCorrect
      <3> QED
        BY <3>1, <2>2
    <2> QED
      BY <2>4, <2>5 DEF QueueCorrect
  <1>6. OwnerCorrect'
    BY DEF OwnerCorrect, Types
  <1>7. IrqlKept'
    BY DEF IrqlKept, Types
  <1> QED
    BY <1>1, <1>3, <1>4, <1>5, <1>6, <1>7

\* The thread with the mutex becomes its owner.
LEMMA SetOwnerStep ==
  ASSUME IInv, NEW t \in Threads, SetOwner(t)
  PROVE  IInv'
  <1> USE DEF IInv, SetOwner, Goto
  <1>1. Types'
    BY DEF Types
  <1>2. Inside' = Inside
    BY DEF Types, Inside, HasMutex, IsWaiting
  <1>3. Counted'
    BY <1>2 DEF Counted
  <1>4. HandOver'
    BY DEF HandOver, Baton, HasMutex, IsWaiting, Types
  <1>5. QueueCorrect'
    BY DEF QueueCorrect, Types
  <1>6. OwnerCorrect'
    BY NullAssumption DEF OwnerCorrect, Types, HandOver, Baton, HasMutex
  <1>7. IrqlKept'
    BY DEF IrqlKept, Types, HandOver, Baton, HasMutex
  <1> QED
    BY <1>1, <1>3, <1>4, <1>5, <1>6, <1>7

\* The owner gives itself up.
LEMMA ReleaseStep ==
  ASSUME IInv, NEW t \in Threads, Release(t)
  PROVE  IInv'
  <1> USE DEF IInv, Release, Goto
  <1>1. Types'
    BY DEF Types
  <1>2. Inside' = Inside
    BY DEF Types, Inside, HasMutex, IsWaiting
  <1>3. Counted'
    BY <1>2 DEF Counted
  <1>4. HandOver'
    BY DEF HandOver, Baton, HasMutex, IsWaiting, Types
  <1>5. QueueCorrect'
    BY DEF QueueCorrect, Types
  <1>6. OwnerCorrect'
    BY NullAssumption DEF OwnerCorrect, Types
  <1>7. IrqlKept'
    BY DEF IrqlKept, Types
  <1> QED
    BY <1>1, <1>3, <1>4, <1>5, <1>6, <1>7

\* The last thread inside frees the mutex.
LEMMA IncrementStep ==
  ASSUME IInv, NEW t \in Threads, Increment(t)
  PROVE  IInv'
  <1> USE DEF IInv, Increment, Goto
  <1>1. Types'
    BY DEF Types
  <1>2. t \in Inside /\ Inside' = Inside \ {t}
    BY DEF Types, Inside, HasMutex, IsWaiting
  <1>3. Counted' /\ (count + 1 > 0 <=> Inside \ {t} = {})
    BY <1>2, Leaves DEF Types
  <1>4. HandOver'
    <2>1. \A u \in Threads \ {t} : ~HasMutex(u) /\ ~IsWaiting(u)
      BY <1>3 DEF Inside, Types
    <2> QED
      BY <2>1 DEF HandOver, Baton, HasMutex, IsWaiting, Types
  <1>5. QueueCorrect'
    BY DEF QueueCorrect, Types
  <1>6. OwnerCorrect'
    BY DEF OwnerCorrect, Types
  <1>7. IrqlKept'
    BY DEF IrqlKept, Types
  <1> QED
    BY <1>1, <1>3, <1>4, <1>5, <1>6, <1>7

\* A thread that leaves others waiting keeps the baton.
LEMMA IncrementWaitersStep ==
  ASSUME IInv, NEW t \in Threads, IncrementWaiters(t)
  PROVE  IInv'
  <1> USE DEF IInv, IncrementWaiters, Goto
  <1>1. Types'
    BY DEF Types
  <1>2. t \in Inside /\ Inside' = Inside \ {t}
    BY DEF Types, Inside, HasMutex, IsWaiting
  <1>3. Counted' /\ (count + 1 > 0 <=> Inside \ {t} = {})
    BY <1>2, Leaves DEF Types
  <1>4. HandOver'
    <2>1. PICK u \in Threads \ {t} : HasMutex(u) \/ IsWaiting(u)
      BY <1>3 DEF Inside, Types
    <2>2. IsWaiting(u)
      BY <2>1 DEF HandOver, Baton, HasMutex
    <2> QED
      BY <2>1, <2>2 DEF HandOver, Baton, HasMutex, IsWaiting, Types
  <1>5. QueueCorrect'
    BY DEF QueueCorrect, Types
  <1>6. OwnerCorrect'
    BY DEF OwnerCorrect, Types
  <1>7. IrqlKept'
    BY DEF IrqlKept, Types
  <1> QED
    BY <1>1, <1>3, <1>4, <1>5, <1>6, <1>7

\* The baton goes into the event.
LEMMA SetEventStep ==
  ASSUME IInv, NEW t \in Threads, SetEvent(t)
  PROVE  IInv'
  <1> USE DEF IInv, SetEvent, Goto
  <1>1. Types'
    BY DEF Types
  <1>2. Inside' = Inside
    BY DEF Types, Inside, HasMutex, IsWaiting
  <1>3. Counted'
    BY <1>2 DEF Counted
  <1>4. HandOver'
    BY DEF HandOver, Baton, HasMutex, IsWaiting, Types
  <1>5. QueueCorrect'
    BY DEF QueueCorrect, Types
  <1>6. OwnerCorrect'
    BY DEF OwnerCorrect, Types
  <1>7. IrqlKept'
    BY DEF IrqlKept, Types
  <1> QED
    BY <1>1, <1>3, <1>4, <1>5, <1>6, <1>7

\* The baton goes to the thread that has waited longest.
LEMMA WakeHeadStep ==
  ASSUME IInv, NEW t \in Threads, WakeHead(t)
  PROVE  IInv'
  <1> USE DEF IInv, WakeHead, Goto
  <1>q. /\ Head(queue) \in Threads /\ pc[Head(queue)] = "queued" /\ Head(queue) # t
        /\ Tail(queue) \in Seq(Threads)
        /\ Len(queue) \in Nat /\ Len(Tail(queue)) = Len(queue) - 1
        /\ \A i \in 1 .. Len(queue) - 1 : Tail(queue)[i] = queue[i + 1]
        /\ Head(queue) = queue[1]
    BY DEF Types, QueueCorrect
  <1>1. Types'
    BY <1>q DEF Types
  <1>2. Inside' = Inside
    BY <1>q DEF Types, Inside, HasMutex, IsWaiting
  <1>3. Counted'
    BY <1>2 DEF Counted
  <1>4. HandOver'
    BY <1>q DEF HandOver, Baton, HasMutex, IsWaiting, Types
  <1>5. QueueCorrect'
    BY <1>q DEF QueueCorrect, Types
  <1>6. OwnerCorrect'
    BY <1>q DEF OwnerCorrect, Types
  <1>7. IrqlKept'
    BY <1>q DEF IrqlKept, Types
  <1> QED
    BY <1>1, <1>3, <1>4, <1>5, <1>6, <1>7

\* A thread that leaves gets its IRQL back.
LEMMA LowerStep ==
  ASSUME IInv, NEW t \in Threads, Lower(t)
  PROVE  IInv'
  <1> USE DEF IInv, Lower, Goto, mutex
  <1>1. Types'
    BY DEF Types
  <1>2. Inside' = Inside
    BY DEF Types, Inside, HasMutex, IsWaiting
  <1>3. Counted'
    BY <1>2 DEF Counted
  <1>4. HandOver'
    BY DEF HandOver, Baton, HasMutex, IsWaiting, Types
  <1>5. QueueCorrect'
    BY DEF QueueCorrect, Types
  <1>6. OwnerCorrect'
    BY DEF OwnerCorrect, Types
  <1>7. IrqlKept'
    BY DEF IrqlKept, Types
  <1> QED
    BY <1>1, <1>3, <1>4, <1>5, <1>6, <1>7

-----------------------------------------------------------------------------
\* Every step keeps the invariant.
THEOREM NextIInv == IInv /\ [Next]_vars => IInv'
  <1> SUFFICES ASSUME IInv, [Next]_vars PROVE IInv'
    OBVIOUS
  <1>1. CASE UNCHANGED vars
    <2>1. Inside' = Inside
      BY <1>1 DEF vars, Inside, HasMutex, IsWaiting
    <2> QED
      BY <1>1, <2>1
      DEF vars, mutex, IInv, Types, Counted, HandOver, Baton, HasMutex,
          IsWaiting, QueueCorrect, OwnerCorrect, IrqlKept
  <1>2. ASSUME NEW t \in Threads, Begin(t) PROVE IInv'
    BY <1>2, AcquireStep, TryToAcquireStep DEF Begin
  <1>3. ASSUME NEW t \in Threads, Continue(t) PROVE IInv'
    BY <1>3, WaitNotStep, WaitStep, SetOwnerStep, IncrementStep,
       IncrementWaitersStep, SetEventStep, WakeHeadStep, LowerStep
    DEF Continue
  <1>4. ASSUME NEW t \in Threads, Release(t) \/ Interrupt(t) PROVE IInv'
    BY <1>4, ReleaseStep, InterruptStep
  <1> QED
    BY <1>1, <1>2, <1>3, <1>4 DEF Next

\* The invariant holds in every state the mutex gets into.
THEOREM Invariance == Spec => []IInv
  BY InitIInv, NextIInv, PTL DEF Spec

\* The fields of the mutex and the IRQLs have their types, and Count, which
\* the interlocked decrements and increments move, never exceeds 1.
THEOREM TypeCorrect == Spec => []TypeOK
  <1>1. IInv => TypeOK
    BY CountOne DEF IInv, Types, TypeOK
  <1> QED
    BY <1>1, Invariance, PTL

\* At most one thread is between a successful acquisition and the increment of
\* the count in the release.
THEOREM Exclusion == Spec => []MutualExclusion
  <1>1. IInv => MutualExclusion
    BY DEF IInv, HandOver, Baton, MutualExclusion
  <1> QED
    BY <1>1, Invariance, PTL

\* The ASSERTs on Owner in ExAcquireFastMutex and ExReleaseFastMutex hold.
THEOREM OwnerTheorem == Spec => []OwnerCorrect
  <1>1. IInv => OwnerCorrect
    BY DEF IInv
  <1> QED
    BY <1>1, Invariance, PTL

\* Count is 1 minus the threads inside, through every interleaving.
THEOREM CountTheorem == Spec => []CountCorrect
  <1>1. IInv => CountCorrect
    BY DEF IInv, Counted, Inside, CountCorrect
  <1> QED
    BY <1>1, Invariance, PTL

\* No wakeup is lost or doubled between the count and the event.
THEOREM HandOverTheorem == Spec => []HandOver
  <1>1. IInv => HandOver
    BY DEF IInv
  <1> QED
    BY <1>1, Invariance, PTL

\* ExReleaseFastMutex returns at the IRQL ExAcquireFastMutex was called at.
THEOREM IrqlTheorem == Spec => []IrqlRestored
  <1>1. IInv => IrqlRestored
    BY DEF IInv, IrqlKept, IrqlRestored
  <1> QED
    BY <1>1, Invariance, PTL

-----------------------------------------------------------------------------
\* A step that gives t the mutex, when nobody else has it.
LEMMA AbstractAcquire ==
  ASSUME IInv, NEW t \in Threads, \A u \in Threads : ~HasMutex(u),
         HasMutex(t)', \A u \in Threads \ {t} : ~HasMutex(u)'
  PROVE  Abstract!Next
  <1>1. \A u \in Threads : hold[u] = "none"
    BY DEF hold
  <1>2. hold' = [hold EXCEPT ![t] = "exclusive"]
    BY DEF hold
  <1>3. Abstract!Acquire(t)
    BY <1>1, <1>2 DEF Abstract!Acquire
  <1> QED
    BY <1>3 DEF Abstract!Next

\* A step that takes it from t.
LEMMA AbstractRelease ==
  ASSUME IInv, NEW t \in Threads, HasMutex(t), ~HasMutex(t)',
         \A u \in Threads \ {t} : HasMutex(u)' = HasMutex(u)
  PROVE  Abstract!Next
  <1>1. hold[t] = "exclusive"
    BY DEF hold
  <1>2. hold' = [hold EXCEPT ![t] = "none"]
    BY DEF hold
  <1>3. Abstract!Release(t)
    BY <1>1, <1>2 DEF Abstract!Release
  <1> QED
    BY <1>3 DEF Abstract!Next

\* Any other step.
LEMMA AbstractStutter ==
  ASSUME \A u \in Threads : HasMutex(u)' = HasMutex(u)
  PROVE  UNCHANGED hold
  BY DEF hold

\* A fast mutex implements a lock: it is taken when free and given up by the
\* one thread that has it, whichever way ownership travels in between.
THEOREM RefinementTheorem == Spec => Refinement
  <1>1. Init => Abstract!Init
    BY DEF Init, Abstract!Init, hold, HasMutex
  <1>2. IInv /\ [Next]_vars => [Abstract!Next]_hold
    <2> SUFFICES ASSUME IInv, [Next]_vars PROVE [Abstract!Next]_hold
      OBVIOUS
    <2> USE DEF IInv
    <2>1. CASE UNCHANGED vars
      BY <2>1, AbstractStutter DEF vars, HasMutex
    <2>2. ASSUME NEW t \in Threads, NEW u \in BOOLEAN, Acquire(t, u)
          PROVE  [Abstract!Next]_hold
      <3>1. CASE count = 1
        <4>1. \A v \in Threads : ~HasMutex(v)
          BY <3>1, CountOne DEF Inside
        <4>2. pc' = [pc EXCEPT ![t] = "take"]
          BY <2>2, <3>1 DEF Acquire, Goto
        <4> QED
          BY <4>1, <4>2, AbstractAcquire DEF HasMutex, Types
      <3>2. CASE count # 1
        <4>1. pc[t] = "idle" /\ pc' = [pc EXCEPT ![t] = "slow"]
          BY <2>2, <3>2 DEF Acquire, Goto, Types
        <4> QED
          BY <4>1, AbstractStutter DEF HasMutex, Types
      <3> QED
        BY <3>1, <3>2
    <2>3. ASSUME NEW t \in Threads, TryToAcquire(t)
          PROVE  [Abstract!Next]_hold
      <3>1. Acquire(t, FALSE)
        BY <2>3 DEF TryToAcquire, Acquire, Goto, Raise
      <3> QED
        BY <3>1, <2>2, Zenon
    <2>4. ASSUME NEW t \in Threads, WaitNot(t)
          PROVE  [Abstract!Next]_hold
      BY <2>4, AbstractAcquire
      DEF WaitNot, Goto, HandOver, Baton, HasMutex, Types
    <2>5. ASSUME NEW t \in Threads, WakeHead(t)
          PROVE  [Abstract!Next]_hold
      <3>1. PICK h \in Threads : h = Head(queue) /\ h # t
        BY <2>5 DEF WakeHead, Types, QueueCorrect
      <3>2. \A u \in Threads : ~HasMutex(u)
        BY <2>5 DEF WakeHead, HandOver, Baton, HasMutex
      <3>3. pc' = [pc EXCEPT ![t] = "lower", ![h] = "take"]
        BY <2>5, <3>1 DEF WakeHead
      <3>4. HasMutex(h)' /\ \A u \in Threads \ {h} : ~HasMutex(u)'
        BY <3>1, <3>2, <3>3 DEF HasMutex, Types
      <3> QED
        BY <3>2, <3>4, AbstractAcquire
    <2>6. ASSUME NEW t \in Threads, Increment(t) \/ IncrementWaiters(t)
          PROVE  [Abstract!Next]_hold
      BY <2>6, AbstractRelease
      DEF Increment, IncrementWaiters, Goto, HasMutex, Types
    <2>7. ASSUME NEW t \in Threads,
                 \/ Wait(t) \/ Interrupt(t) \/ SetOwner(t)
                 \/ Release(t) \/ SetEvent(t) \/ Lower(t)
          PROVE  [Abstract!Next]_hold
      BY <2>7, AbstractStutter
      DEF Wait, Interrupt, SetOwner, Release, SetEvent, Lower, Goto, HasMutex, Types
    <2> QED
      BY <2>1, <2>2, <2>3, <2>4, <2>5, <2>6, <2>7 DEF Next, Begin, Continue
  <1> QED
    BY <1>1, <1>2, Invariance, PTL DEF Spec, Refinement, Abstract!Spec

\* Count, the event and the threads always agree on who has the mutex and who
\* gets it next, for any number of threads.
THEOREM OwnershipTheorem == Spec => []OwnershipHandedOver
  BY CountTheorem, HandOverTheorem, PTL DEF OwnershipHandedOver

-----------------------------------------------------------------------------
-----------------------------------------------------------------------------
(* What the arithmetic on Count does to its three parts. *)

\* Releasing sets the lock bit,
LEMMA AddLock ==
  ASSUME NEW c \in Nat, ~G!LockBit(c)
  PROVE  /\ c + G!GM_LOCK_BIT \in Nat /\ G!LockBit(c + G!GM_LOCK_BIT)
         /\ G!WokenBit(c + G!GM_LOCK_BIT) <=> G!WokenBit(c)
         /\ G!Waiters(c + G!GM_LOCK_BIT) = G!Waiters(c)
  BY DEF G!LockBit, G!WokenBit, G!Waiters, G!GM_LOCK_BIT

\* acquiring resets it,
LEMMA RemoveLock ==
  ASSUME NEW c \in Nat, G!LockBit(c)
  PROVE  /\ c - G!GM_LOCK_BIT \in Nat /\ ~G!LockBit(c - G!GM_LOCK_BIT)
         /\ G!WokenBit(c - G!GM_LOCK_BIT) <=> G!WokenBit(c)
         /\ G!Waiters(c - G!GM_LOCK_BIT) = G!Waiters(c)
  BY DEF G!LockBit, G!WokenBit, G!Waiters, G!GM_LOCK_BIT

\* a woken thread resets the woken bit too,
LEMMA RemoveBoth ==
  ASSUME NEW c \in Nat, G!LockBit(c), G!WokenBit(c)
  PROVE  LET d == G!RemoveBits(c, TRUE)
         IN  d \in Nat /\ ~G!LockBit(d) /\ ~G!WokenBit(d) /\ G!Waiters(d) = G!Waiters(c)
  BY DEF G!RemoveBits, G!LockBit, G!WokenBit, G!Waiters, G!GM_LOCK_BIT, G!GM_LOCK_WAITER_WOKEN

\* a thread that begins to wait is counted,
LEMMA AddWaiter ==
  ASSUME NEW c \in Nat
  PROVE  LET d == c + G!GM_LOCK_WAITER_INC
         IN  /\ d \in Nat /\ G!Waiters(d) = G!Waiters(c) + 1
             /\ G!LockBit(d) <=> G!LockBit(c)
             /\ G!WokenBit(d) <=> G!WokenBit(c)
  BY DEF G!LockBit, G!WokenBit, G!Waiters, G!GM_LOCK_WAITER_INC

\* as is one that waits again, by the carry,
LEMMA AddWoken ==
  ASSUME NEW c \in Nat, G!WokenBit(c)
  PROVE  LET d == c + G!GM_LOCK_WAITER_WOKEN
         IN  /\ d \in Nat /\ G!Waiters(d) = G!Waiters(c) + 1
             /\ G!LockBit(d) <=> G!LockBit(c)
             /\ ~G!WokenBit(d)
  BY DEF G!LockBit, G!WokenBit, G!Waiters, G!GM_LOCK_WAITER_WOKEN

\* and a waiter becomes the woken thread.
LEMMA MakeWoken ==
  ASSUME NEW c \in Nat, ~G!WokenBit(c), G!Waiters(c) > 0
  PROVE  LET d == c + G!GM_LOCK_WAITER_WOKEN - G!GM_LOCK_WAITER_INC
         IN  /\ d \in Nat /\ G!Waiters(d) = G!Waiters(c) - 1
             /\ G!LockBit(d) <=> G!LockBit(c)
             /\ G!WokenBit(d)
  BY DEF G!LockBit, G!WokenBit, G!Waiters, G!GM_LOCK_WAITER_WOKEN, G!GM_LOCK_WAITER_INC

\* "OldValue && !(OldValue & GM_LOCK_WAITER_WOKEN)" says that there are waiters.
LEMMA SomeWaiters ==
  ASSUME NEW c \in Nat, ~G!LockBit(c), ~G!WokenBit(c)
  PROVE  G!Waiters(c) \in Nat /\ (c # 0 <=> G!Waiters(c) > 0)
  BY DEF G!LockBit, G!WokenBit, G!Waiters

\* The number of waiters is a natural number.
LEMMA WaitersType == \A c \in Nat : G!Waiters(c) \in Nat
  BY DEF G!Waiters

\* The instance has a Cardinality of its own, which is the same.
LEMMA SameCardinality == \A S : G!Cardinality(S) = Cardinality(S)
  BY DEF Cardinality, G!Cardinality

-----------------------------------------------------------------------------
AtGate == {t \in Threads : gpc[t] \in {"gate", "queued"}}

\* A wakeup has not reached the gate, or nobody has taken it there.
Pending == signal \/ \E t \in Threads : gpc[t] = "signal"

GuardedCounted == Cardinality(AtGate) = G!Waiters(gcount) + IF Pending THEN 1 ELSE 0

\* Only waiting threads are on the wait list, once each.
GuardedQueueCorrect ==
    /\ \A i \in 1 .. Len(gqueue) : gpc[gqueue[i]] = "queued"
    /\ \A i, j \in 1 .. Len(gqueue) : gqueue[i] = gqueue[j] => i = j

\* What the local variables of a thread hold.
LocalsCorrect ==
    \A t \in Threads :
        /\ woken[t] => gpc[t] \in {"read", "change"}
        /\ gpc[t] = "wake" => /\ G!LockBit(old[t]) /\ ~G!WokenBit(old[t])
                            /\ G!Waiters(old[t]) > 0

\* A thread inside is in a guarded region.
Regions ==
    \A t \in Threads :
        /\ gpc[t] = "idle" => disable[t] \in {0, -1} /\ ~gunsafe[t]
        /\ gpc[t] # "idle" => disable[t] \in {-1, IF gunsafe[t] THEN -1 ELSE -2}

GuardedIInv == /\ G!TypeOK
        /\ G!MutualExclusion
        /\ G!WokenOnce
        /\ GuardedCounted
        /\ GuardedQueueCorrect
        /\ LocalsCorrect
        /\ G!NobodyStranded
        /\ G!OwnerCorrect
        /\ Regions

-----------------------------------------------------------------------------
\* The threads at the gate are finitely many.
LEMMA AtGateFinite == IsFiniteSet(AtGate) /\ Cardinality(AtGate) \in Nat
  BY ThreadsFinite, FS_Subset, FS_CardinalityType DEF AtGate

\* A thread comes to the gate
LEMMA GateEnter ==
  ASSUME NEW t \in Threads, t \notin AtGate, AtGate' = AtGate \cup {t}
  PROVE  Cardinality(AtGate') = Cardinality(AtGate) + 1
  BY AtGateFinite, FS_AddElement

\* or leaves it.
LEMMA GateLeave ==
  ASSUME NEW t \in AtGate, AtGate' = AtGate \ {t}
  PROVE  Cardinality(AtGate') = Cardinality(AtGate) - 1
  BY AtGateFinite, FS_RemoveElement

\* A free mutex that no thread uses satisfies the invariant.
LEMMA GuardedInitIInv == G!Init => GuardedIInv
  <1> SUFFICES ASSUME G!Init PROVE GuardedIInv
    OBVIOUS
  <1>1. G!TypeOK
    <2>1. /\ signal \in BOOLEAN
          /\ gunsafe \in [Threads -> BOOLEAN] /\ woken \in [Threads -> BOOLEAN]
      BY Zenon DEF G!Init
    <2>2. gcount \in Nat /\ gowner \in Threads \cup {NULL} /\ gqueue \in Seq(Threads)
      BY DEF G!Init, G!GM_LOCK_BIT
    <2>3. gpc \in [Threads -> {"idle", "read", "change", "gate", "queued", "own",
                             "held", "add", "wake", "signal", "leave"}]
      BY DEF G!Init
    <2>4. /\ apcDisable \in {0, -1, -2} /\ old \in [Threads -> Nat]
          /\ disable \in [Threads -> {0, -1, -2}]
      BY DEF G!Init
    <2> QED
      BY <2>1, <2>2, <2>3, <2>4 DEF G!TypeOK
  <1>2. G!LockBit(gcount) /\ ~G!WokenBit(gcount) /\ G!Waiters(gcount) = 0
    BY DEF G!Init, G!GM_LOCK_BIT, G!LockBit, G!WokenBit, G!Waiters
  <1>3. G!MutualExclusion
    BY <1>2 DEF G!Init, G!MutualExclusion, G!HasMutex
  <1>4. G!WokenOnce
    BY <1>2 DEF G!Init, G!WokenOnce, G!IsWaking
  <1>5. GuardedCounted
    <2>1. AtGate = {} /\ ~Pending
      BY DEF G!Init, AtGate, Pending
    <2> QED
      BY <1>2, <2>1, FS_EmptySet DEF GuardedCounted
  <1>6. GuardedQueueCorrect
    BY DEF G!Init, GuardedQueueCorrect
  <1>7. LocalsCorrect
    BY DEF G!Init, LocalsCorrect
  <1>8. G!NobodyStranded
    BY <1>2 DEF G!NobodyStranded
  <1>9. G!OwnerCorrect
    BY NullAssumption DEF G!Init, G!OwnerCorrect
  <1>10. Regions
    BY DEF G!Init, Regions
  <1> QED
    BY <1>1, <1>3, <1>4, <1>5, <1>6, <1>7, <1>8, <1>9, <1>10 DEF GuardedIInv

\* The mutex is free and taken.
LEMMA AcquireFreeStep ==
  ASSUME GuardedIInv, NEW t \in Threads, NEW u \in BOOLEAN, G!AcquireFree(t, u)
  PROVE  GuardedIInv'
  <1> USE DEF GuardedIInv, G!AcquireFree, G!Goto, G!EnterGuardedRegion, G!gate
  <1>b. /\ G!LockBit(gcount) /\ gcount' \in Nat /\ ~G!LockBit(gcount')
        /\ G!WokenBit(gcount') <=> G!WokenBit(gcount)
        /\ G!Waiters(gcount') = G!Waiters(gcount)
    BY RemoveLock DEF G!TypeOK
  <1>1. G!TypeOK'
    BY <1>b DEF G!TypeOK, Regions
  <1>3. G!MutualExclusion'
    BY <1>b DEF G!MutualExclusion, G!HasMutex, G!TypeOK
  <1>4. G!WokenOnce'
    BY <1>b DEF G!WokenOnce, G!IsWaking, G!TypeOK, LocalsCorrect
  <1>5. GuardedCounted'
    <2>1. AtGate' = AtGate /\ (Pending' <=> Pending)
      BY DEF AtGate, Pending, G!TypeOK
    <2> QED
      BY <1>b, <2>1 DEF GuardedCounted
  <1>6. GuardedQueueCorrect'
    BY DEF GuardedQueueCorrect, G!TypeOK
  <1>7. LocalsCorrect'
    BY DEF LocalsCorrect, G!TypeOK
  <1>8. G!NobodyStranded'
    BY <1>b DEF G!NobodyStranded, G!TypeOK
  <1>9. G!OwnerCorrect'
    BY DEF G!OwnerCorrect, G!TypeOK
  <1>10. Regions'
    BY DEF Regions, G!TypeOK
  <1> QED
    BY <1>1, <1>3, <1>4, <1>5, <1>6, <1>7, <1>8, <1>9, <1>10

\* The mutex is taken: the thread gets ready to wait.
LEMMA AcquireContendedStep ==
  ASSUME GuardedIInv, NEW t \in Threads, NEW u \in BOOLEAN, G!AcquireContended(t, u)
  PROVE  GuardedIInv'
  <1> USE DEF GuardedIInv, G!AcquireContended, G!Goto, G!EnterGuardedRegion, G!mutex, G!gate
  <1>1. G!TypeOK'
    BY DEF G!TypeOK, Regions
  <1>3. G!MutualExclusion'
    BY DEF G!MutualExclusion, G!HasMutex, G!TypeOK
  <1>4. G!WokenOnce'
    BY DEF G!WokenOnce, G!IsWaking, G!TypeOK, LocalsCorrect
  <1>5. GuardedCounted'
    <2>1. AtGate' = AtGate /\ (Pending' <=> Pending)
      BY DEF AtGate, Pending, G!TypeOK
    <2> QED
      BY <2>1 DEF GuardedCounted
  <1>6. GuardedQueueCorrect'
    BY DEF GuardedQueueCorrect, G!TypeOK
  <1>7. LocalsCorrect'
    BY DEF LocalsCorrect, G!TypeOK
  <1>8. G!NobodyStranded'
    BY DEF G!NobodyStranded, G!TypeOK
  <1>9. G!OwnerCorrect'
    BY DEF G!OwnerCorrect, G!TypeOK
  <1>10. Regions'
    BY DEF Regions, G!TypeOK
  <1> QED
    BY <1>1, <1>3, <1>4, <1>5, <1>6, <1>7, <1>8, <1>9, <1>10

\* The count is read.
LEMMA ReadStep ==
  ASSUME GuardedIInv, NEW t \in Threads, G!Read(t)
  PROVE  GuardedIInv'
  <1> USE DEF GuardedIInv, G!Read, G!Goto, G!mutex, G!gate
  <1>1. G!TypeOK'
    BY DEF G!TypeOK
  <1>3. G!MutualExclusion'
    BY DEF G!MutualExclusion, G!HasMutex, G!TypeOK
  <1>4. G!WokenOnce'
    BY DEF G!WokenOnce, G!IsWaking, G!TypeOK, LocalsCorrect
  <1>5. GuardedCounted'
    <2>1. AtGate' = AtGate /\ (Pending' <=> Pending)
      BY DEF AtGate, Pending, G!TypeOK
    <2> QED
      BY <2>1 DEF GuardedCounted
  <1>6. GuardedQueueCorrect'
    BY DEF GuardedQueueCorrect, G!TypeOK
  <1>7. LocalsCorrect'
    BY DEF LocalsCorrect, G!TypeOK
  <1>8. G!NobodyStranded'
    BY DEF G!NobodyStranded, G!TypeOK
  <1>9. G!OwnerCorrect'
    BY DEF G!OwnerCorrect, G!TypeOK
  <1>10. Regions'
    BY DEF Regions, G!TypeOK
  <1> QED
    BY <1>1, <1>3, <1>4, <1>5, <1>6, <1>7, <1>8, <1>9, <1>10

\* A thread in the slow path takes the free mutex.
LEMMA TakeFreeStep ==
  ASSUME GuardedIInv, NEW t \in Threads, G!TakeFree(t)
  PROVE  GuardedIInv'
  <1> USE DEF GuardedIInv, G!TakeFree, G!Goto, G!Forget, G!gate
  <1>b. /\ gcount \in Nat /\ G!LockBit(gcount) /\ gcount' \in Nat /\ ~G!LockBit(gcount')
        /\ G!WokenBit(gcount') <=> G!WokenBit(gcount) /\ ~woken[t]
        /\ G!Waiters(gcount') = G!Waiters(gcount)
    <2>1. CASE woken[t]
      <3>1. G!WokenBit(gcount) /\ gcount' = G!RemoveBits(gcount, TRUE)
        BY <2>1 DEF G!WokenOnce, G!IsWaking, G!TypeOK
      <3> QED
        BY <2>1, <3>1, RemoveBoth DEF G!TypeOK
    <2>2. CASE ~woken[t]
      BY <2>2, RemoveLock DEF G!RemoveBits, G!TypeOK
    <2> QED
      BY <2>1, <2>2
  <1>1. G!TypeOK'
    BY <1>b DEF G!TypeOK
  <1>3. G!MutualExclusion'
    BY <1>b DEF G!MutualExclusion, G!HasMutex, G!TypeOK
  <1>4. G!WokenOnce'
    BY <1>b DEF G!WokenOnce, G!IsWaking, G!TypeOK, LocalsCorrect
  <1>5. GuardedCounted'
    <2>1. AtGate' = AtGate /\ (Pending' <=> Pending)
      BY DEF AtGate, Pending, G!TypeOK
    <2> QED
      BY <1>b, <2>1 DEF GuardedCounted
  <1>6. GuardedQueueCorrect'
    BY DEF GuardedQueueCorrect, G!TypeOK
  <1>7. LocalsCorrect'
    BY <1>b DEF LocalsCorrect, G!TypeOK
  <1>8. G!NobodyStranded'
    BY <1>b DEF G!NobodyStranded, G!TypeOK
  <1>9. G!OwnerCorrect'
    BY DEF G!OwnerCorrect, G!TypeOK
  <1>10. Regions'
    BY DEF Regions, G!TypeOK
  <1> QED
    BY <1>1, <1>3, <1>4, <1>5, <1>6, <1>7, <1>8, <1>9, <1>10

\* A thread in the slow path is counted as a waiter, anew or again.
LEMMA AddBitsStep ==
  ASSUME GuardedIInv, NEW t \in Threads, G!AddBits(t)
  PROVE  GuardedIInv'
  <1> USE DEF GuardedIInv, G!AddBits, G!Goto, G!Forget, G!gate
  <1>b. /\ gcount \in Nat /\ ~G!LockBit(gcount) /\ gcount' \in Nat /\ ~G!LockBit(gcount')
        /\ G!WokenBit(gcount') <=> G!WokenBit(gcount) /\ ~woken[t]
        /\ G!Waiters(gcount') = G!Waiters(gcount) + 1
    <2>1. CASE woken[t]
      <3>1. G!WokenBit(gcount) /\ gcount' = gcount + G!GM_LOCK_WAITER_WOKEN
        BY <2>1 DEF G!WokenOnce, G!IsWaking, G!TypeOK
      <3> QED
        BY <2>1, <3>1, AddWoken DEF G!TypeOK
    <2>2. CASE ~woken[t]
      BY <2>2, AddWaiter DEF G!TypeOK
    <2> QED
      BY <2>1, <2>2
  <1>1. G!TypeOK'
    BY <1>b DEF G!TypeOK
  <1>3. G!MutualExclusion'
    BY <1>b DEF G!MutualExclusion, G!HasMutex, G!TypeOK
  <1>4. G!WokenOnce'
    BY <1>b DEF G!WokenOnce, G!IsWaking, G!TypeOK, LocalsCorrect
  <1>5. GuardedCounted'
    <2>1. t \notin AtGate /\ AtGate' = AtGate \cup {t} /\ (Pending' <=> Pending)
      BY DEF AtGate, Pending, G!TypeOK
    <2>2. Cardinality(AtGate') = Cardinality(AtGate) + 1
      BY <2>1, GateEnter
    <2> QED
      BY <1>b, <2>1, <2>2, AtGateFinite, WaitersType DEF GuardedCounted
  <1>6. GuardedQueueCorrect'
    BY DEF GuardedQueueCorrect, G!TypeOK
  <1>7. LocalsCorrect'
    BY <1>b DEF LocalsCorrect, G!TypeOK
  <1>8. G!NobodyStranded'
    BY <1>b DEF G!NobodyStranded, G!TypeOK
  <1>9. G!OwnerCorrect'
    BY DEF G!OwnerCorrect, G!TypeOK
  <1>10. Regions'
    BY DEF Regions, G!TypeOK
  <1> QED
    BY <1>1, <1>3, <1>4, <1>5, <1>6, <1>7, <1>8, <1>9, <1>10

\* The count is read again.
LEMMA ReloadStep ==
  ASSUME GuardedIInv, NEW t \in Threads, G!Reload(t)
  PROVE  GuardedIInv'
  <1> USE DEF GuardedIInv, G!Reload, G!Goto, G!mutex, G!gate
  <1>1. G!TypeOK'
    BY DEF G!TypeOK
  <1>3. G!MutualExclusion'
    BY DEF G!MutualExclusion, G!HasMutex, G!TypeOK
  <1>4. G!WokenOnce'
    BY DEF G!WokenOnce, G!IsWaking, G!TypeOK, LocalsCorrect
  <1>5. GuardedCounted'
    <2>1. AtGate' = AtGate /\ (Pending' <=> Pending)
      BY DEF AtGate, Pending, G!TypeOK
    <2> QED
      BY <2>1 DEF GuardedCounted
  <1>6. GuardedQueueCorrect'
    BY DEF GuardedQueueCorrect, G!TypeOK
  <1>7. LocalsCorrect'
    BY DEF LocalsCorrect, G!TypeOK
  <1>8. G!NobodyStranded'
    BY DEF G!NobodyStranded, G!TypeOK
  <1>9. G!OwnerCorrect'
    BY DEF G!OwnerCorrect, G!TypeOK
  <1>10. Regions'
    BY DEF Regions, G!TypeOK
  <1> QED
    BY <1>1, <1>3, <1>4, <1>5, <1>6, <1>7, <1>8, <1>9, <1>10

\* A waiter takes the signal: it is the woken thread.
LEMMA GuardedWaitNotStep ==
  ASSUME GuardedIInv, NEW t \in Threads, G!WaitNot(t)
  PROVE  GuardedIInv'
  <1> USE DEF GuardedIInv, G!WaitNot, G!Goto
  <1>1. G!TypeOK'
    BY DEF G!TypeOK
  <1>3. G!MutualExclusion'
    BY DEF G!MutualExclusion, G!HasMutex, G!TypeOK
  <1>4. G!WokenOnce'
    BY DEF G!WokenOnce, G!IsWaking, G!TypeOK, LocalsCorrect
  <1>5. GuardedCounted'
    <2>1. t \in AtGate /\ AtGate' = AtGate \ {t} /\ Pending /\ ~Pending'
      BY DEF AtGate, Pending, G!WokenOnce, G!IsWaking, G!TypeOK
    <2>2. Cardinality(AtGate') = Cardinality(AtGate) - 1
      BY <2>1, GateLeave
    <2> QED
      BY <2>1, <2>2, AtGateFinite, WaitersType DEF GuardedCounted, G!TypeOK
  <1>6. GuardedQueueCorrect'
    BY DEF GuardedQueueCorrect, G!TypeOK
  <1>7. LocalsCorrect'
    BY DEF LocalsCorrect, G!TypeOK
  <1>8. G!NobodyStranded'
    BY DEF G!NobodyStranded, G!TypeOK
  <1>9. G!OwnerCorrect'
    BY DEF G!OwnerCorrect, G!TypeOK
  <1>10. Regions'
    BY DEF Regions, G!TypeOK
  <1> QED
    BY <1>1, <1>3, <1>4, <1>5, <1>6, <1>7, <1>8, <1>9, <1>10

\* A waiter joins the wait list.
LEMMA GuardedWaitStep ==
  ASSUME GuardedIInv, NEW t \in Threads, G!Wait(t)
  PROVE  GuardedIInv'
  <1> USE DEF GuardedIInv, G!Wait, G!Goto
  <1>1. G!TypeOK'
    BY DEF G!TypeOK
  <1>3. G!MutualExclusion'
    BY DEF G!MutualExclusion, G!HasMutex, G!TypeOK
  <1>4. G!WokenOnce'
    BY DEF G!WokenOnce, G!IsWaking, G!TypeOK, LocalsCorrect
  <1>5. GuardedCounted'
    <2>1. AtGate' = AtGate /\ (Pending' <=> Pending)
      BY DEF AtGate, Pending, G!TypeOK
    <2> QED
      BY <2>1 DEF GuardedCounted
  <1>6. GuardedQueueCorrect'
    <2>1. /\ Len(gqueue') = Len(gqueue) + 1 /\ Len(gqueue) \in Nat
          /\ \A i \in 1 .. Len(gqueue) : gqueue'[i] = gqueue[i]
          /\ gqueue'[Len(gqueue) + 1] = t
      BY DEF G!TypeOK
    <2>2. \A i \in 1 .. Len(gqueue) : gqueue[i] \in Threads /\ gqueue[i] # t
      BY DEF GuardedQueueCorrect, G!TypeOK
    <2> QED
      BY <2>1, <2>2 DEF GuardedQueueCorrect, G!TypeOK
  <1>7. LocalsCorrect'
    BY DEF LocalsCorrect, G!TypeOK
  <1>8. G!NobodyStranded'
    BY DEF G!NobodyStranded, G!TypeOK
  <1>9. G!OwnerCorrect'
    BY DEF G!OwnerCorrect, G!TypeOK
  <1>10. Regions'
    BY DEF Regions, G!TypeOK
  <1> QED
    BY <1>1, <1>3, <1>4, <1>5, <1>6, <1>7, <1>8, <1>9, <1>10

\* The thread with the mutex becomes its owner.
LEMMA GuardedSetOwnerStep ==
  ASSUME GuardedIInv, NEW t \in Threads, G!SetOwner(t)
  PROVE  GuardedIInv'
  <1> USE DEF GuardedIInv, G!SetOwner, G!Goto, G!gate
  <1>1. G!TypeOK'
    BY DEF G!TypeOK
  <1>3. G!MutualExclusion'
    BY DEF G!MutualExclusion, G!HasMutex, G!TypeOK
  <1>4. G!WokenOnce'
    BY DEF G!WokenOnce, G!IsWaking, G!TypeOK, LocalsCorrect
  <1>5. GuardedCounted'
    <2>1. AtGate' = AtGate /\ (Pending' <=> Pending)
      BY DEF AtGate, Pending, G!TypeOK
    <2> QED
      BY <2>1 DEF GuardedCounted
  <1>6. GuardedQueueCorrect'
    BY DEF GuardedQueueCorrect, G!TypeOK
  <1>7. LocalsCorrect'
    BY DEF LocalsCorrect, G!TypeOK
  <1>8. G!NobodyStranded'
    BY DEF G!NobodyStranded, G!TypeOK
  <1>9. G!OwnerCorrect'
    BY NullAssumption DEF G!OwnerCorrect, G!TypeOK, G!MutualExclusion, G!HasMutex
  <1>10. Regions'
    BY DEF Regions, G!TypeOK
  <1> QED
    BY <1>1, <1>3, <1>4, <1>5, <1>6, <1>7, <1>8, <1>9, <1>10

\* The owner gives itself up.
LEMMA GuardedReleaseStep ==
  ASSUME GuardedIInv, NEW t \in Threads, G!Release(t)
  PROVE  GuardedIInv'
  <1> USE DEF GuardedIInv, G!Release, G!Goto, G!gate
  <1>1. G!TypeOK'
    BY DEF G!TypeOK
  <1>3. G!MutualExclusion'
    BY DEF G!MutualExclusion, G!HasMutex, G!TypeOK
  <1>4. G!WokenOnce'
    BY DEF G!WokenOnce, G!IsWaking, G!TypeOK, LocalsCorrect
  <1>5. GuardedCounted'
    <2>1. AtGate' = AtGate /\ (Pending' <=> Pending)
      BY DEF AtGate, Pending, G!TypeOK
    <2> QED
      BY <2>1 DEF GuardedCounted
  <1>6. GuardedQueueCorrect'
    BY DEF GuardedQueueCorrect, G!TypeOK
  <1>7. LocalsCorrect'
    BY DEF LocalsCorrect, G!TypeOK
  <1>8. G!NobodyStranded'
    BY DEF G!NobodyStranded, G!TypeOK
  <1>9. G!OwnerCorrect'
    BY NullAssumption DEF G!OwnerCorrect, G!TypeOK
  <1>10. Regions'
    BY DEF Regions, G!TypeOK
  <1> QED
    BY <1>1, <1>3, <1>4, <1>5, <1>6, <1>7, <1>8, <1>9, <1>10

\* The mutex becomes free; who is to wake a waiter remembers the count.
LEMMA AddLockBitStep ==
  ASSUME GuardedIInv, NEW t \in Threads, G!AddLockBit(t)
  PROVE  GuardedIInv'
  <1> USE DEF GuardedIInv, G!AddLockBit, G!Goto, G!gate
  <1>b. /\ gcount \in Nat /\ ~G!LockBit(gcount) /\ gcount' \in Nat /\ G!LockBit(gcount')
        /\ G!WokenBit(gcount') <=> G!WokenBit(gcount)
        /\ G!Waiters(gcount') = G!Waiters(gcount)
    BY AddLock DEF G!MutualExclusion, G!HasMutex, G!TypeOK
  <1>w. /\ G!Waiters(gcount) \in Nat
        /\ gcount # 0 /\ ~G!WokenBit(gcount) <=> ~G!WokenBit(gcount) /\ G!Waiters(gcount) > 0
    BY <1>b, SomeWaiters, WaitersType
  <1>1. G!TypeOK'
    BY <1>b DEF G!TypeOK
  <1>3. G!MutualExclusion'
    BY <1>b DEF G!MutualExclusion, G!HasMutex, G!TypeOK
  <1>4. G!WokenOnce'
    BY <1>b DEF G!WokenOnce, G!IsWaking, G!TypeOK, LocalsCorrect
  <1>5. GuardedCounted'
    <2>1. AtGate' = AtGate /\ (Pending' <=> Pending)
      BY DEF AtGate, Pending, G!TypeOK
    <2> QED
      BY <1>b, <2>1 DEF GuardedCounted
  <1>6. GuardedQueueCorrect'
    BY DEF GuardedQueueCorrect, G!TypeOK
  <1>7. LocalsCorrect'
    BY <1>b, <1>w DEF LocalsCorrect, G!TypeOK
  <1>8. G!NobodyStranded'
    BY <1>b, <1>w DEF G!NobodyStranded, G!TypeOK
  <1>9. G!OwnerCorrect'
    BY DEF G!OwnerCorrect, G!TypeOK
  <1>10. Regions'
    BY DEF Regions, G!TypeOK
  <1> QED
    BY <1>1, <1>3, <1>4, <1>5, <1>6, <1>7, <1>8, <1>9, <1>10

\* One waiter becomes the woken thread.
LEMMA WakeStep ==
  ASSUME GuardedIInv, NEW t \in Threads, G!Wake(t)
  PROVE  GuardedIInv'
  <1> USE DEF GuardedIInv, G!Wake, G!Goto, G!Forget, G!gate
  <1>b. /\ gcount \in Nat /\ G!LockBit(gcount) /\ gcount' \in Nat /\ G!LockBit(gcount')
        /\ ~G!WokenBit(gcount) /\ G!WokenBit(gcount')
        /\ G!Waiters(gcount') = G!Waiters(gcount) - 1
    <2>1. G!LockBit(gcount) /\ ~G!WokenBit(gcount) /\ G!Waiters(gcount) > 0
      BY DEF LocalsCorrect
    <2> QED
      BY <2>1, MakeWoken DEF G!TypeOK
  <1>1. G!TypeOK'
    BY <1>b DEF G!TypeOK
  <1>3. G!MutualExclusion'
    BY <1>b DEF G!MutualExclusion, G!HasMutex, G!TypeOK
  <1>4. G!WokenOnce'
    BY <1>b DEF G!WokenOnce, G!IsWaking, G!TypeOK, LocalsCorrect
  <1>5. GuardedCounted'
    <2>1. AtGate' = AtGate /\ ~Pending /\ Pending'
      BY <1>b DEF AtGate, Pending, G!WokenOnce, G!IsWaking, G!TypeOK
    <2> QED
      BY <1>b, <2>1, AtGateFinite, WaitersType DEF GuardedCounted
  <1>6. GuardedQueueCorrect'
    BY DEF GuardedQueueCorrect, G!TypeOK
  <1>7. LocalsCorrect'
    BY <1>b DEF LocalsCorrect, G!TypeOK
  <1>8. G!NobodyStranded'
    BY <1>b DEF G!NobodyStranded, G!TypeOK
  <1>9. G!OwnerCorrect'
    BY DEF G!OwnerCorrect, G!TypeOK
  <1>10. Regions'
    BY DEF Regions, G!TypeOK
  <1> QED
    BY <1>1, <1>3, <1>4, <1>5, <1>6, <1>7, <1>8, <1>9, <1>10

\* The mutex has been taken meanwhile.
LEMMA WakeNotStep ==
  ASSUME GuardedIInv, NEW t \in Threads, G!WakeNot(t)
  PROVE  GuardedIInv'
  <1> USE DEF GuardedIInv, G!WakeNot, G!Goto, G!Forget, G!mutex, G!gate
  <1>1. G!TypeOK'
    BY DEF G!TypeOK
  <1>3. G!MutualExclusion'
    BY DEF G!MutualExclusion, G!HasMutex, G!TypeOK
  <1>4. G!WokenOnce'
    BY DEF G!WokenOnce, G!IsWaking, G!TypeOK, LocalsCorrect
  <1>5. GuardedCounted'
    <2>1. AtGate' = AtGate /\ (Pending' <=> Pending)
      BY DEF AtGate, Pending, G!TypeOK
    <2> QED
      BY <2>1 DEF GuardedCounted
  <1>6. GuardedQueueCorrect'
    BY DEF GuardedQueueCorrect, G!TypeOK
  <1>7. LocalsCorrect'
    BY DEF LocalsCorrect, G!TypeOK
  <1>8. G!NobodyStranded'
    BY DEF G!NobodyStranded, G!TypeOK
  <1>9. G!OwnerCorrect'
    BY DEF G!OwnerCorrect, G!TypeOK
  <1>10. Regions'
    BY DEF Regions, G!TypeOK
  <1> QED
    BY <1>1, <1>3, <1>4, <1>5, <1>6, <1>7, <1>8, <1>9, <1>10

\* The wakeup is left in the gate.
LEMMA SignalGateStep ==
  ASSUME GuardedIInv, NEW t \in Threads, G!SignalGate(t)
  PROVE  GuardedIInv'
  <1> USE DEF GuardedIInv, G!SignalGate, G!Goto
  <1>1. G!TypeOK'
    BY DEF G!TypeOK
  <1>3. G!MutualExclusion'
    BY DEF G!MutualExclusion, G!HasMutex, G!TypeOK
  <1>4. G!WokenOnce'
    BY DEF G!WokenOnce, G!IsWaking, G!TypeOK, LocalsCorrect
  <1>5. GuardedCounted'
    <2>1. AtGate' = AtGate /\ (Pending' <=> Pending)
      BY DEF AtGate, Pending, G!TypeOK
    <2> QED
      BY <2>1 DEF GuardedCounted
  <1>6. GuardedQueueCorrect'
    BY DEF GuardedQueueCorrect, G!TypeOK
  <1>7. LocalsCorrect'
    BY DEF LocalsCorrect, G!TypeOK
  <1>8. G!NobodyStranded'
    BY DEF G!NobodyStranded, G!TypeOK
  <1>9. G!OwnerCorrect'
    BY DEF G!OwnerCorrect, G!TypeOK
  <1>10. Regions'
    BY DEF Regions, G!TypeOK
  <1> QED
    BY <1>1, <1>3, <1>4, <1>5, <1>6, <1>7, <1>8, <1>9, <1>10

\* The wakeup reaches the thread that has waited longest.
LEMMA GuardedWakeHeadStep ==
  ASSUME GuardedIInv, NEW t \in Threads, G!WakeHead(t)
  PROVE  GuardedIInv'
  <1> USE DEF GuardedIInv, G!WakeHead, G!Goto
  <1>h. PICK h \in Threads : h = Head(gqueue) /\ h # t /\ gpc[h] = "queued"
    BY DEF G!TypeOK, GuardedQueueCorrect
  <1>q. /\ Tail(gqueue) \in Seq(Threads)
        /\ Len(gqueue) \in Nat /\ Len(Tail(gqueue)) = Len(gqueue) - 1
        /\ \A i \in 1 .. Len(gqueue) - 1 : Tail(gqueue)[i] = gqueue[i + 1]
        /\ h = gqueue[1]
    BY <1>h DEF G!TypeOK
  <1>s. /\ gpc' = [gpc EXCEPT ![t] = "leave", ![h] = "read"]
        /\ woken' = [woken EXCEPT ![h] = TRUE]
    BY <1>h
  <1>1. G!TypeOK'
    BY <1>h, <1>s, <1>q DEF G!TypeOK
  <1>3. G!MutualExclusion'
    <2>1. \A u \in Threads : G!HasMutex(u)' <=> G!HasMutex(u)
      BY <1>h, <1>s DEF G!HasMutex, G!TypeOK
    <2>2. gcount' = gcount
      OBVIOUS
    <2> HIDE DEF GuardedIInv, G!WakeHead, G!Goto, G!HasMutex
    <2>3. G!MutualExclusion
      BY DEF GuardedIInv
    <2> QED
      BY <2>1, <2>2, <2>3 DEF G!MutualExclusion
  <1>4. G!WokenOnce'
    <2>1. gcount' = gcount /\ signal' = signal /\ old' = old /\ ~signal
      OBVIOUS
    <2>a. \A u \in Threads \ {t} : ~G!IsWaking(u)
      BY DEF G!WokenOnce, G!IsWaking
    <2>b. /\ gpc'[h] = "read" /\ woken'[h] /\ gpc'[t] = "leave"
          /\ \A u \in Threads \ {t, h} : gpc'[u] = gpc[u] /\ woken'[u] = woken[u]
      BY <1>h, <1>s DEF G!TypeOK
    <2>2. \A u \in Threads : G!IsWaking(u)' <=> u = h
      <3> HIDE DEF GuardedIInv, G!WakeHead, G!Goto
      <3> QED BY <1>h, <2>a, <2>b DEF G!IsWaking
    <2>3. \A u \in Threads : ~(woken'[u] /\ gpc'[u] = "change")
      <3> HIDE DEF GuardedIInv, G!WakeHead, G!Goto
      <3> QED BY <1>h, <2>a, <2>b DEF G!IsWaking
    <2>4. G!WokenBit(gcount)
      BY DEF G!WokenOnce, G!IsWaking
    <2> QED
      <3> HIDE DEF GuardedIInv, G!WakeHead, G!Goto, G!IsWaking, G!WokenBit
      <3> QED BY <2>1, <2>2, <2>3, <2>4, <1>h DEF G!WokenOnce, G!WokenBit
  <1>5. GuardedCounted'
    <2>1. h \in AtGate /\ AtGate' = AtGate \ {h} /\ Pending /\ ~Pending'
      <3>1. h \in AtGate /\ AtGate' = AtGate \ {h}
        BY <1>h, <1>s DEF AtGate, G!TypeOK
      <3>2. \A u \in Threads : gpc[u] = "signal" => u = t
        BY DEF G!WokenOnce, G!IsWaking
      <3>3. Pending
        BY DEF Pending
      <3>4. \A u \in Threads : gpc'[u] # "signal"
        <4>1. \A u \in Threads :
                 gpc'[u] = IF u = h THEN "read" ELSE IF u = t THEN "leave" ELSE gpc[u]
          BY <1>h, <1>s DEF G!TypeOK
        <4> HIDE DEF GuardedIInv, G!WakeHead, G!Goto
        <4> QED
          BY <3>2, <4>1
      <3>5. ~Pending'
        BY <3>4 DEF Pending, G!WokenOnce
      <3> QED
        BY <3>1, <3>3, <3>5
    <2>2. Cardinality(AtGate') = Cardinality(AtGate) - 1
      BY <2>1, GateLeave
    <2> QED
      BY <2>1, <2>2, AtGateFinite, WaitersType DEF GuardedCounted, G!TypeOK
  <1>6. GuardedQueueCorrect'
    BY <1>h, <1>s, <1>q DEF GuardedQueueCorrect, G!TypeOK
  <1>7. LocalsCorrect'
    BY <1>h, <1>s DEF LocalsCorrect, G!TypeOK
  <1>8. G!NobodyStranded'
    BY <1>h, <1>s DEF G!NobodyStranded, G!TypeOK
  <1>9. G!OwnerCorrect'
    BY <1>h, <1>s DEF G!OwnerCorrect, G!TypeOK
  <1>10. Regions'
    BY <1>h, <1>s DEF Regions, G!TypeOK
  <1> QED
    BY <1>1, <1>3, <1>4, <1>5, <1>6, <1>7, <1>8, <1>9, <1>10

\* A thread that leaves gives its guarded region up.
LEMMA LeaveStep ==
  ASSUME GuardedIInv, NEW t \in Threads, G!Leave(t)
  PROVE  GuardedIInv'
  <1> USE DEF GuardedIInv, G!Leave, G!Goto, G!mutex, G!gate
  <1>1. G!TypeOK'
    BY DEF G!TypeOK, Regions
  <1>3. G!MutualExclusion'
    BY DEF G!MutualExclusion, G!HasMutex, G!TypeOK
  <1>4. G!WokenOnce'
    BY DEF G!WokenOnce, G!IsWaking, G!TypeOK, LocalsCorrect
  <1>5. GuardedCounted'
    <2>1. AtGate' = AtGate /\ (Pending' <=> Pending)
      BY DEF AtGate, Pending, G!TypeOK
    <2> QED
      BY <2>1 DEF GuardedCounted
  <1>6. GuardedQueueCorrect'
    BY DEF GuardedQueueCorrect, G!TypeOK
  <1>7. LocalsCorrect'
    BY DEF LocalsCorrect, G!TypeOK
  <1>8. G!NobodyStranded'
    BY DEF G!NobodyStranded, G!TypeOK
  <1>9. G!OwnerCorrect'
    BY DEF G!OwnerCorrect, G!TypeOK
  <1>10. Regions'
    BY DEF Regions, G!TypeOK
  <1> QED
    BY <1>1, <1>3, <1>4, <1>5, <1>6, <1>7, <1>8, <1>9, <1>10

-----------------------------------------------------------------------------
\* Every step keeps the invariant.
LEMMA GuardedNextIInv == GuardedIInv /\ [G!Next]_(G!vars) => GuardedIInv'
  <1> SUFFICES ASSUME GuardedIInv, [G!Next]_(G!vars) PROVE GuardedIInv'
    OBVIOUS
  <1>1. CASE UNCHANGED G!vars
    <2>1. AtGate' = AtGate /\ (Pending' <=> Pending)
      BY <1>1 DEF G!vars, G!mutex, G!gate, AtGate, Pending
    <2> QED
      BY <1>1, <2>1
      DEF G!vars, G!mutex, G!gate, GuardedIInv, G!TypeOK, G!MutualExclusion, G!HasMutex, G!WokenOnce,
          G!IsWaking, GuardedCounted, GuardedQueueCorrect, LocalsCorrect, G!NobodyStranded,
          G!OwnerCorrect, Regions
  <1>2. ASSUME NEW t \in Threads, G!Begin(t) PROVE GuardedIInv'
    BY <1>2, AcquireFreeStep, AcquireContendedStep DEF G!Begin
  <1>3. ASSUME NEW t \in Threads, G!Continue(t) PROVE GuardedIInv'
    BY <1>3, ReadStep, TakeFreeStep, AddBitsStep, ReloadStep, GuardedWaitNotStep,
       GuardedWaitStep, GuardedSetOwnerStep, AddLockBitStep, WakeStep, WakeNotStep,
       SignalGateStep, GuardedWakeHeadStep, LeaveStep
    DEF G!Continue
  <1>4. ASSUME NEW t \in Threads, G!Release(t) PROVE GuardedIInv'
    BY <1>4, GuardedReleaseStep
  <1> QED
    BY <1>1, <1>2, <1>3, <1>4 DEF G!Next

\* The invariant holds in every state the mutex gets into.
THEOREM GuardedInvariance == G!Spec => []GuardedIInv
  BY GuardedInitIInv, GuardedNextIInv, PTL DEF G!Spec

\* The fields of the mutex, the threads' locals and their SpecialApcDisable
\* have their types; Count, a signed LONG, never becomes negative.
THEOREM GuardedTypeCorrect == G!Spec => []G!TypeOK
  <1>1. GuardedIInv => G!TypeOK
    BY DEF GuardedIInv
  <1> QED
    BY <1>1, GuardedInvariance, PTL

\* One thread has the mutex at a time, whether it took it on the fast path,
\* on the slow path or after it waited.
THEOREM GuardedExclusion == G!Spec => []G!MutualExclusion
  <1>1. GuardedIInv => G!MutualExclusion
    BY DEF GuardedIInv
  <1> QED
    BY <1>1, GuardedInvariance, PTL

\* The ASSERTs on Owner and SpecialApcDisable hold.
THEOREM GuardedOwnerTheorem == G!Spec => []G!OwnerCorrect
  <1>1. GuardedIInv => G!OwnerCorrect
    BY DEF GuardedIInv
  <1> QED
    BY <1>1, GuardedInvariance, PTL

\* The woken bit stands for exactly one wakeup on its way.
THEOREM WokenTheorem == G!Spec => []G!WokenOnce
  <1>1. GuardedIInv => G!WokenOnce
    BY DEF GuardedIInv
  <1> QED
    BY <1>1, GuardedInvariance, PTL

\* The waiters in Count are the threads at the gate.
THEOREM WaitersTheorem == G!Spec => []G!WaitersCounted
  <1>1. GuardedIInv => G!WaitersCounted
    BY SameCardinality DEF GuardedIInv, GuardedCounted, AtGate, Pending, G!WaitersCounted
  <1> QED
    BY <1>1, GuardedInvariance, PTL

\* Waiters of a free mutex are never left to nobody.
THEOREM StrandedTheorem == G!Spec => []G!NobodyStranded
  <1>1. GuardedIInv => G!NobodyStranded
    BY DEF GuardedIInv
  <1> QED
    BY <1>1, GuardedInvariance, PTL

-----------------------------------------------------------------------------
\* A step that gives t the mutex, when nobody has it.
LEMMA GuardedAbstractAcquire ==
  ASSUME NEW t \in Threads, \A u \in Threads : ~G!HasMutex(u),
         G!HasMutex(t)', \A u \in Threads \ {t} : ~G!HasMutex(u)'
  PROVE  G!Abstract!Next
  <1>1. \A u \in Threads : G!hold[u] = "none"
    BY DEF G!hold
  <1>2. G!hold' = [G!hold EXCEPT ![t] = "exclusive"]
    BY DEF G!hold
  <1>3. G!Abstract!Acquire(t)
    BY <1>1, <1>2 DEF G!Abstract!Acquire
  <1> QED
    BY <1>3 DEF G!Abstract!Next

\* A step that takes it from t.
LEMMA GuardedAbstractRelease ==
  ASSUME NEW t \in Threads, G!HasMutex(t), ~G!HasMutex(t)',
         \A u \in Threads \ {t} : G!HasMutex(u)' = G!HasMutex(u)
  PROVE  G!Abstract!Next
  <1>1. G!hold[t] = "exclusive"
    BY DEF G!hold
  <1>2. G!hold' = [G!hold EXCEPT ![t] = "none"]
    BY DEF G!hold
  <1>3. G!Abstract!Release(t)
    BY <1>1, <1>2 DEF G!Abstract!Release
  <1> QED
    BY <1>3 DEF G!Abstract!Next

\* Any other step.
LEMMA GuardedAbstractStutter ==
  ASSUME \A u \in Threads : G!HasMutex(u)' = G!HasMutex(u)
  PROVE  UNCHANGED G!hold
  BY DEF G!hold

\* A guarded mutex implements a lock.
THEOREM GuardedRefinementTheorem == G!Spec => ImplementsLock
  <1>1. G!Init => G!Abstract!Init
    BY DEF G!Init, G!Abstract!Init, G!hold, G!HasMutex
  <1>2. GuardedIInv /\ [G!Next]_(G!vars) => [G!Abstract!Next]_(G!hold)
    <2> SUFFICES ASSUME GuardedIInv, [G!Next]_(G!vars) PROVE [G!Abstract!Next]_(G!hold)
      OBVIOUS
    <2> USE DEF GuardedIInv
    <2>1. CASE UNCHANGED G!vars
      BY <2>1, GuardedAbstractStutter DEF G!vars, G!HasMutex
    <2>2. ASSUME NEW t \in Threads, NEW u \in BOOLEAN, G!AcquireFree(t, u)
          PROVE  [G!Abstract!Next]_(G!hold)
      BY <2>2, GuardedAbstractAcquire DEF G!AcquireFree, G!Goto, G!MutualExclusion, G!HasMutex, G!TypeOK
    <2>3. ASSUME NEW t \in Threads, G!TakeFree(t)
          PROVE  [G!Abstract!Next]_(G!hold)
      BY <2>3, GuardedAbstractAcquire DEF G!TakeFree, G!Goto, G!MutualExclusion, G!HasMutex, G!TypeOK
    <2>4. ASSUME NEW t \in Threads, G!AddLockBit(t)
          PROVE  [G!Abstract!Next]_(G!hold)
      BY <2>4, GuardedAbstractRelease DEF G!AddLockBit, G!Goto, G!HasMutex, G!TypeOK
    <2>5. ASSUME NEW t \in Threads, G!WakeHead(t)
          PROVE  [G!Abstract!Next]_(G!hold)
      <3>1. PICK h \in Threads : h = Head(gqueue) /\ h # t /\ gpc[h] = "queued"
        BY <2>5 DEF G!WakeHead, G!TypeOK, GuardedQueueCorrect
      <3>2. gpc' = [gpc EXCEPT ![t] = "leave", ![h] = "read"] /\ gpc[t] = "signal"
        BY <2>5, <3>1 DEF G!WakeHead
      <3> QED
        BY <3>1, <3>2, GuardedAbstractStutter DEF G!HasMutex, G!TypeOK
    <2>6. ASSUME NEW t \in Threads,
                 \/ \E u \in BOOLEAN : G!AcquireContended(t, u)
                 \/ G!Read(t) \/ G!AddBits(t) \/ G!Reload(t) \/ G!WaitNot(t) \/ G!Wait(t)
                 \/ G!SetOwner(t) \/ G!Release(t) \/ G!Wake(t) \/ G!WakeNot(t)
                 \/ G!SignalGate(t) \/ G!Leave(t)
          PROVE  [G!Abstract!Next]_(G!hold)
      BY <2>6, GuardedAbstractStutter
      DEF G!AcquireContended, G!Read, G!AddBits, G!Reload, G!WaitNot, G!Wait, G!SetOwner,
          G!Release, G!Wake, G!WakeNot, G!SignalGate, G!Leave, G!Goto, G!HasMutex, G!TypeOK
    <2> QED
      BY <2>1, <2>2, <2>3, <2>4, <2>5, <2>6 DEF G!Next, G!Begin, G!Continue
  <1> QED
    BY <1>1, <1>2, GuardedInvariance, PTL DEF G!Spec, ImplementsLock, G!ImplementsLock, G!Abstract!Spec

\* Count is exact about wakeups and waiters, for any number of threads.
THEOREM WakeupsTheorem == G!Spec => []WakeupsCounted
  BY WokenTheorem, WaitersTheorem, PTL DEF WakeupsCounted, G!WakeupsCounted

=============================================================================
