-------------------------- MODULE WorkQueueProofs --------------------------
(***************************************************************************)
(* Proofs about WorkQueue, for any finite set of workers, any items and    *)
(* whatever these queue and wait for, any number of processors and any     *)
(* limit of dynamic threads.                                               *)
(*                                                                         *)
(* IInv says who is where: the list of waiters has the workers that wait,  *)
(* each once (WaitersListed); an item is queued as long as it is on the    *)
(* list or with a worker, and only with one (Placed); who works or waits   *)
(* has joined the queue (Calling).  With these, each way a worker has of   *)
(* becoming active or stopping to be changes ActiveWorkers by exactly the  *)
(* one that CurrentCount changes by (OneMore, OneLess, OneForOne), but for *)
(* the end of an item, which lets all go on that wait for it.              *)
(***************************************************************************)
EXTENDS WorkQueue, SequenceTheorems, FiniteSetTheorems, TLAPS

\* The members of a list, and that each is on it once.
On(s) == {s[n] : n \in DOMAIN s}
Once(s) == \A m, n \in DOMAIN s : s[m] = s[n] => m = n

\* Where a worker can be, and where it has an item.
AllPlaces == {"none", "remove", "waiting", "timedout", "exit",
              "got", "run", "blocked", "finish"}
Having == {"got", "run", "blocked", "finish"}
ManagerPlaces == {"wait", "detect", "check", "update", "countdetected", "countchecked",
                  "missdetected", "misschecked", "fault"}

Types ==
    /\ EntryListHead \in Seq(Items) /\ WaitListHead \in Seq(Workers)
    /\ CurrentCount \in Int /\ DynamicThreadCount \in Int /\ lost \in Nat
    /\ pc \in [Workers -> AllPlaces]
    /\ item \in [Workers -> Items \cup {NULL}]
    /\ joined \subseteq Workers /\ WrQueue \subseteq Workers
    /\ queued \subseteq Items /\ checking \subseteq Workers \cup Clients
    /\ MakeThreads \in BOOLEAN /\ event \in BOOLEAN
    /\ processed \in BOOLEAN /\ depth \in BOOLEAN
    /\ manager \in ManagerPlaces

\* A worker has an item while it works on it, and is on the queue from its
\* first call to its end; only dynamic threads end.
Calling ==
    \A w \in Workers :
       /\ item[w] # NULL <=> pc[w] \in Having
       /\ pc[w] \in {"timedout", "exit"} => w \in Dynamic
       /\ pc[w] \notin {"none", "remove"} => w \in joined
       /\ pc[w] = "none" => w \notin joined

\* The list of waiters has those who wait, each once.
WaitersListed == On(WaitListHead) = {w \in Workers : pc[w] = "waiting"} /\ Once(WaitListHead)

\* A queued item is on the list once or one worker has it.
Placed ==
    /\ Once(EntryListHead)
    /\ \A v, w \in Workers : item[v] = item[w] /\ item[v] # NULL => v = w
    /\ \A w \in Workers : item[w] \notin On(EntryListHead)
    /\ \A i \in Items :
          i \in queued <=> i \in On(EntryListHead) \/ \E w \in Workers : item[w] = i

ActiveWorkers == {w \in Workers : Active(w)}

\* ActiveCountExact, the second part of NoLostItem, and DynamicBounded with
\* what the manager found out before it made the thread it has to count.
Counted == CurrentCount = Cardinality(ActiveWorkers)

SomebodyActive ==
    EntryListHead # << >> /\ WaitListHead # << >> => ActiveWorkers # {}

Made == {w \in Dynamic : pc[w] \notin {"none", "exit"}}
Counting == manager \in {"countdetected", "countchecked"}
Missing == manager \in {"missdetected", "misschecked"}

Limited ==
    /\ DynamicThreadCount = Cardinality(Made) + lost - (IF Counting THEN 1 ELSE 0)
    /\ DynamicThreadCount <= MaxDynamic
    /\ Counting \/ Missing => DynamicThreadCount < MaxDynamic

IInv == /\ Types /\ Calling /\ WaitersListed /\ Placed
        /\ Counted /\ SomebodyActive /\ Limited

-----------------------------------------------------------------------------
(* Sequences without repetition *)

LEMMA NotEmpty ==
  ASSUME NEW S, NEW s \in Seq(S)
  PROVE  /\ s # << >> <=> On(s) # {}
         /\ s # << >> => s[Len(s)] \in On(s)
         /\ On(s) \subseteq S
  <1>1. DOMAIN s = 1 .. Len(s) /\ Len(s) \in Nat
    BY LenProperties
  <1>2. s # << >> <=> Len(s) # 0
    BY EmptySeq
  <1> QED
    BY <1>1, <1>2, ElementOfSeq DEF On

LEMMA Appended ==
  ASSUME NEW S, NEW s \in Seq(S), NEW x \in S
  PROVE  /\ Append(s, x) \in Seq(S) /\ Append(s, x) # << >>
         /\ On(Append(s, x)) = On(s) \cup {x}
         /\ Once(s) /\ x \notin On(s) => Once(Append(s, x))
  <1> DEFINE a == Append(s, x)
  <1>1. /\ a \in Seq(S) /\ a # << >> /\ Len(a) = Len(s) + 1
        /\ \A n \in 1 .. Len(s) : a[n] = s[n]
        /\ a[Len(s) + 1] = x
    BY AppendProperties
  <1>2. DOMAIN s = 1 .. Len(s) /\ DOMAIN a = 1 .. Len(s) + 1 /\ Len(s) \in Nat
    BY <1>1, LenProperties
  <1> HIDE DEF a
  <1>3. \A n \in DOMAIN a : n \in DOMAIN s \/ n = Len(s) + 1
    BY <1>2
  <1>4. On(a) = On(s) \cup {x}
    BY <1>1, <1>2, <1>3 DEF On
  <1>5. ASSUME Once(s), x \notin On(s) PROVE Once(a)
    <2> SUFFICES ASSUME NEW m \in DOMAIN a, NEW n \in DOMAIN a, a[m] = a[n]
                 PROVE  m = n
      BY DEF Once
    <2>1. CASE m \in DOMAIN s /\ n \in DOMAIN s
      BY <1>1, <1>2, <1>5, <2>1 DEF Once
    <2>2. CASE m \in DOMAIN s /\ n = Len(s) + 1
      BY <1>1, <1>2, <1>5, <2>2 DEF On
    <2>3. CASE n \in DOMAIN s /\ m = Len(s) + 1
      BY <1>1, <1>2, <1>5, <2>3 DEF On
    <2> QED
      BY <1>3, <2>1, <2>2, <2>3
  <1> QED
    BY <1>1, <1>4, <1>5 DEF a

LEMMA HeadTaken ==
  ASSUME NEW S, NEW s \in Seq(S), s # << >>, Once(s)
  PROVE  /\ Head(s) \in On(s) /\ Head(s) \in S
         /\ Tail(s) \in Seq(S) /\ Once(Tail(s))
         /\ On(Tail(s)) = On(s) \ {Head(s)}
  <1> DEFINE a == Tail(s)
  <1>1. /\ a \in Seq(S) /\ Len(a) = Len(s) - 1 /\ Head(s) \in S
        /\ \A n \in 1 .. Len(a) : a[n] = s[n + 1]
    BY HeadTailProperties
  <1>2. /\ DOMAIN s = 1 .. Len(s) /\ DOMAIN a = 1 .. Len(s) - 1 /\ Len(s) \in Nat
        /\ Len(s) # 0
    BY <1>1, LenProperties, EmptySeq
  <1>3. Head(s) = s[1] /\ 1 \in DOMAIN s
    BY <1>2
  <1> HIDE DEF a
  <1>4. \A n \in DOMAIN a : n + 1 \in DOMAIN s /\ n + 1 # 1 /\ a[n] = s[n + 1]
    BY <1>1, <1>2
  <1>5. \A m \in DOMAIN s : m # 1 => m - 1 \in DOMAIN a /\ s[m] = a[m - 1]
    BY <1>1, <1>2
  <1>6. On(a) = On(s) \ {Head(s)}
    <2>1. ASSUME NEW x \in On(a) PROVE x \in On(s) /\ x # Head(s)
      BY <1>3, <1>4 DEF On, Once
    <2>2. ASSUME NEW x \in On(s), x # Head(s) PROVE x \in On(a)
      BY <1>3, <1>5, <2>2 DEF On
    <2> QED
      BY <2>1, <2>2
  <1>7. Once(a)
    <2> SUFFICES ASSUME NEW m \in DOMAIN a, NEW n \in DOMAIN a, a[m] = a[n]
                 PROVE  m = n
      BY DEF Once
    <2>1. m + 1 = n + 1
      BY <1>4 DEF Once
    <2> QED
      BY <1>2, <2>1
  <1> QED
    BY <1>1, <1>3, <1>6, <1>7 DEF On, a

LEMMA Removed ==
  ASSUME NEW S, NEW s \in Seq(S), Once(s), NEW w \in On(s)
  PROVE  /\ Without(s, w) \in Seq(S) /\ Once(Without(s, w))
         /\ On(Without(s, w)) = On(s) \ {w}
  <1> DEFINE k == CHOOSE n \in DOMAIN s : s[n] = w
             e(n) == IF n < k THEN s[n] ELSE s[n + 1]
             a == [n \in 1 .. Len(s) - 1 |-> e(n)]
  <1>1. k \in DOMAIN s /\ s[k] = w
    BY DEF On
  <1>2. DOMAIN s = 1 .. Len(s) /\ Len(s) \in Nat /\ \A n \in 1 .. Len(s) : s[n] \in S
    BY LenProperties, ElementOfSeq
  <1>3. Without(s, w) = a
    BY DEF Without
  <1> HIDE DEF k
  <1>4. Len(s) - 1 \in Nat
    BY <1>1, <1>2
  <1>5. \A n \in 1 .. Len(s) - 1 : e(n) \in S
    BY <1>1, <1>2
  <1>6. a \in Seq(S)
    BY <1>4, <1>5, IsASeq
  <1> DEFINE g(n) == IF n < k THEN n ELSE n + 1
  <1>7. \A n \in DOMAIN a : g(n) \in DOMAIN s /\ g(n) # k /\ a[n] = s[g(n)]
    BY <1>1, <1>2
  <1>8. \A m \in DOMAIN s : m # k => \E n \in DOMAIN a : g(n) = m
    <2> SUFFICES ASSUME NEW m \in DOMAIN s, m # k
                 PROVE  \E n \in DOMAIN a : g(n) = m
      OBVIOUS
    <2>1. CASE m < k
      BY <1>1, <1>2, <2>1
    <2>2. CASE m > k
      <3>1. m - 1 \in DOMAIN a /\ g(m - 1) = m
        BY <1>1, <1>2, <2>2
      <3> QED
        BY <3>1
    <2> QED
      BY <1>1, <1>2, <2>1, <2>2
  <1>9. \A m, n \in DOMAIN a : g(m) = g(n) => m = n
    BY <1>1, <1>2
  <1> HIDE DEF a, g
  <1>10. On(a) = On(s) \ {w}
    <2>1. ASSUME NEW x \in On(a) PROVE x \in On(s) /\ x # w
      BY <1>1, <1>7 DEF On, Once
    <2>2. ASSUME NEW x \in On(s), x # w PROVE x \in On(a)
      BY <1>1, <1>7, <1>8, <2>2 DEF On
    <2> QED
      BY <2>1, <2>2
  <1>11. Once(a)
    BY <1>7, <1>9 DEF Once
  <1> QED
    BY <1>3, <1>6, <1>10, <1>11

-----------------------------------------------------------------------------
(* Numbers of workers *)

LEMMA ActiveFinite ==
  /\ IsFiniteSet(ActiveWorkers) /\ Cardinality(ActiveWorkers) \in Nat
  /\ ActiveWorkers \subseteq Workers
  BY WorkQueueAssumption, FS_Subset, FS_CardinalityType DEF ActiveWorkers

LEMMA MadeFinite ==
  IsFiniteSet(Made) /\ Cardinality(Made) \in Nat
  <1>1. Made \subseteq Workers
    BY DEF Made, Workers
  <1> QED
    BY <1>1, WorkQueueAssumption, FS_Subset, FS_CardinalityType

\* A worker that becomes active, or stops being active, is counted.
LEMMA OneMore ==
  ASSUME Counted, NEW w, w \notin ActiveWorkers, ActiveWorkers' = ActiveWorkers \cup {w},
         CurrentCount' = CurrentCount + 1
  PROVE  Counted'
  <1>1. Cardinality(ActiveWorkers \cup {w}) = Cardinality(ActiveWorkers) + 1
    BY ActiveFinite, FS_AddElement
  <1> QED
    BY <1>1 DEF Counted

LEMMA OneLess ==
  ASSUME Counted, NEW w \in ActiveWorkers, ActiveWorkers' = ActiveWorkers \ {w},
         CurrentCount' = CurrentCount - 1
  PROVE  Counted'
  <1>1. Cardinality(ActiveWorkers \ {w}) = Cardinality(ActiveWorkers) - 1
    BY ActiveFinite, FS_RemoveElement
  <1> QED
    BY <1>1 DEF Counted

LEMMA OneForOne ==
  ASSUME Counted, NEW v, v \notin ActiveWorkers, NEW w \in ActiveWorkers,
         ActiveWorkers' = (ActiveWorkers \cup {v}) \ {w}, CurrentCount' = CurrentCount
  PROVE  Counted'
  <1>1. /\ IsFiniteSet(ActiveWorkers \cup {v})
        /\ Cardinality(ActiveWorkers \cup {v}) = Cardinality(ActiveWorkers) + 1
    BY ActiveFinite, FS_AddElement
  <1>2. Cardinality((ActiveWorkers \cup {v}) \ {w}) = Cardinality(ActiveWorkers \cup {v}) - 1
    BY <1>1, FS_RemoveElement
  <1> QED
    BY <1>1, <1>2, ActiveFinite DEF Counted

\* CurrentCount is positive when, and only when, somebody is active.
LEMMA CountTells ==
  ASSUME Counted
  PROVE  /\ CurrentCount \in Nat
         /\ CurrentCount > 0 <=> ActiveWorkers # {}
  <1>1. Cardinality(ActiveWorkers) = 0 <=> ActiveWorkers = {}
    BY ActiveFinite, FS_EmptySet
  <1> QED
    BY <1>1, ActiveFinite DEF Counted

-----------------------------------------------------------------------------
(* The steps *)

\* A worker that waits, works or leaves is known to the queue.
LEMMA Known ==
  ASSUME IInv, NEW w \in Workers
  PROVE  /\ pc[w] \notin {"none", "remove", "waiting", "blocked"} => w \in ActiveWorkers
         /\ pc[w] \in {"waiting", "blocked"} => w \in joined /\ w \notin ActiveWorkers
         /\ pc[w] = "remove" => (w \in ActiveWorkers <=> w \in joined)
         /\ pc[w] = "none" => w \notin ActiveWorkers
  BY DEF IInv, Calling, ActiveWorkers, Active

\* What does not change as long as the variables it is about do not.
LEMMA PlacedKept ==
  ASSUME Placed, UNCHANGED <<EntryListHead, item, queued>>
  PROVE  Placed'
  BY DEF Placed, Once, On

LEMMA WaitersKept ==
  ASSUME WaitersListed, UNCHANGED WaitListHead,
         \A w \in Workers : pc'[w] = "waiting" <=> pc[w] = "waiting"
  PROVE  WaitersListed'
  BY DEF WaitersListed, Once, On

LEMMA ActiveKept ==
  ASSUME Counted, SomebodyActive, UNCHANGED <<EntryListHead, WaitListHead, CurrentCount>>,
         ActiveWorkers' = ActiveWorkers
  PROVE  Counted' /\ SomebodyActive'
  BY DEF Counted, SomebodyActive

LEMMA LimitKept ==
  ASSUME Limited, Made' = Made, UNCHANGED <<DynamicThreadCount, lost, manager>>
  PROVE  Limited'
  BY DEF Limited, Counting, Missing

\* A worker goes on without the queue.
LEMMA PlaceStep ==
  ASSUME IInv, NEW w \in Workers, NEW p \in AllPlaces, pc' = [pc EXCEPT ![w] = p],
         pc[w] \notin {"none", "waiting", "blocked"}, p \notin {"none", "waiting", "blocked"},
         w \in joined, pc[w] \in Having <=> p \in Having,
         p \in {"timedout", "exit"} => w \in Dynamic,
         UNCHANGED <<queue, item, joined, queued>>,
         Types'
  PROVE  /\ Types' /\ Calling' /\ WaitersListed' /\ Placed' /\ Counted' /\ SomebodyActive'
         /\ pc[w] # "exit" /\ p # "exit" => Made' = Made
  <1>1. pc'[w] = p /\ \A v \in Workers \ {w} : pc'[v] = pc[v]
    BY DEF IInv, Types
  <1>2. UNCHANGED <<EntryListHead, WaitListHead, CurrentCount>>
    BY DEF queue
  <1>3. Calling'
    BY <1>1 DEF IInv, Calling
  <1>4. WaitersListed'
    BY <1>1, <1>2, WaitersKept DEF IInv
  <1>5. Placed'
    BY <1>2, PlacedKept DEF IInv
  <1>6. ActiveWorkers' = ActiveWorkers
    BY <1>1 DEF ActiveWorkers, Active
  <1>7. Counted' /\ SomebodyActive'
    BY <1>2, <1>6, ActiveKept DEF IInv
  <1>8. pc[w] # "exit" /\ p # "exit" => Made' = Made
    BY <1>1 DEF Made, Workers
  <1> QED
    BY <1>3, <1>4, <1>5, <1>7, <1>8

\* The balance manager, and a look at the queue, change nothing of it.
LEMMA QuietStep ==
  ASSUME IInv, UNCHANGED <<queue, pc, item, joined, WrQueue, queued, MakeThreads>>,
         checking' \subseteq Workers \cup Clients,
         event' \in BOOLEAN, processed' \in BOOLEAN, depth' \in BOOLEAN,
         manager' \in ManagerPlaces,
         DynamicThreadCount' \in Int, lost' \in Nat, Limited'
  PROVE  IInv'
  <1>1. UNCHANGED <<EntryListHead, WaitListHead, CurrentCount>>
    BY DEF queue
  <1>2. Types'
    BY <1>1 DEF IInv, Types
  <1>3. Calling'
    BY DEF IInv, Calling
  <1>4. WaitersListed'
    BY <1>1, WaitersKept DEF IInv
  <1>5. Placed'
    BY <1>1, PlacedKept DEF IInv
  <1>6. ActiveWorkers' = ActiveWorkers
    BY DEF ActiveWorkers, Active
  <1>7. Counted' /\ SomebodyActive'
    BY <1>1, <1>6, ActiveKept DEF IInv
  <1> QED
    BY <1>2, <1>3, <1>4, <1>5, <1>7 DEF IInv

LEMMA CheckThreadsStep ==
  ASSUME IInv, NEW c, CheckThreads(c)
  PROVE  IInv'
  <1>1. /\ checking' \subseteq Workers \cup Clients /\ event' \in BOOLEAN
        /\ UNCHANGED <<queue, pc, item, joined, WrQueue, queued, MakeThreads, lost,
                       DynamicThreadCount, processed, depth, manager>>
    BY DEF CheckThreads, IInv, Types
  <1>2. Limited'
    <2>1. Made' = Made
      BY <1>1 DEF Made
    <2> QED
      BY <1>1, <2>1, LimitKept DEF IInv
  <1> QED
    BY <1>1, <1>2, QuietStep DEF IInv, Types

LEMMA ManagerStep ==
  ASSUME IInv, ManagerTimer \/ ManagerEvent \/ NoThreadWanted \/ CountThread \/ UpdatePass
  PROVE  IInv'
  <1>1. /\ checking' \subseteq Workers \cup Clients /\ event' \in BOOLEAN
        /\ processed' \in BOOLEAN /\ depth' \in BOOLEAN
        /\ UNCHANGED <<queue, pc, item, joined, WrQueue, queued, MakeThreads, lost>>
    BY DEF ManagerTimer, ManagerEvent, NoThreadWanted, CountThread, UpdatePass, IInv, Types
  <1>2. manager' \in {"wait", "detect", "check", "update"}
    BY DEF ManagerTimer, ManagerEvent, NoThreadWanted, CountThread, UpdatePass, After
  <1>3. Made' = Made
    BY <1>1 DEF Made
  <1>4. CASE CountThread
    <2>1. /\ Counting /\ ~Counting' /\ ~Missing'
          /\ DynamicThreadCount' = DynamicThreadCount + 1
      BY <1>2, <1>4 DEF CountThread, Counting, Missing
    <2>2. /\ DynamicThreadCount = Cardinality(Made) + lost - 1 /\ DynamicThreadCount \in Int
          /\ DynamicThreadCount < MaxDynamic /\ MaxDynamic \in Nat /\ Cardinality(Made) \in Nat
          /\ lost \in Nat
      BY <2>1, MadeFinite, WorkQueueAssumption DEF IInv, Limited, Types
    <2>3. Limited' /\ DynamicThreadCount' \in Int /\ lost' \in Nat
      BY <1>1, <1>3, <2>1, <2>2 DEF Limited
    <2> QED
      BY <1>1, <1>2, <2>3, QuietStep DEF ManagerPlaces
  <1>5. CASE ManagerTimer \/ ManagerEvent \/ NoThreadWanted \/ UpdatePass
    <2>1. /\ ~Counting /\ ~Counting' /\ ~Missing'
          /\ DynamicThreadCount' = DynamicThreadCount
      BY <1>2, <1>5 DEF ManagerTimer, ManagerEvent, NoThreadWanted, UpdatePass, Counting,
                        Missing
    <2>2. Limited' /\ DynamicThreadCount' \in Int /\ lost' \in Nat
      BY <1>1, <1>3, <2>1 DEF IInv, Limited, Types
    <2> QED
      BY <1>1, <1>2, <2>2, QuietStep DEF ManagerPlaces
  <1> QED
    BY <1>4, <1>5

\* What could not be made is counted like what was, and under the same limit.
LEMMA MissingStep ==
  ASSUME IInv, CreateThreadFails \/ CountMissing
  PROVE  IInv'
  <1>1. /\ checking' \subseteq Workers \cup Clients /\ event' \in BOOLEAN
        /\ processed' \in BOOLEAN /\ depth' \in BOOLEAN
        /\ UNCHANGED <<queue, pc, item, joined, WrQueue, queued, MakeThreads>>
    BY DEF CreateThreadFails, CountMissing, IInv, Types
  <1>2. manager' \in ManagerPlaces
    BY DEF CreateThreadFails, CountMissing, ManagerPlaces
  <1>3. Made' = Made
    BY <1>1 DEF Made
  <1>4. /\ DynamicThreadCount \in Int /\ MaxDynamic \in Nat /\ Cardinality(Made) \in Nat
        /\ lost \in Nat
    BY MadeFinite, WorkQueueAssumption DEF IInv, Types
  <1>5. CASE CreateThreadFails
    <2>1. /\ ~Counting /\ ~Counting' /\ DynamicThreadCount < MaxDynamic
          /\ UNCHANGED <<DynamicThreadCount, lost>>
      BY <1>5 DEF CreateThreadFails, Wanted, ThreadNeeded, Counting
    <2>2. Limited'
      BY <1>3, <1>4, <2>1 DEF IInv, Limited
    <2> QED
      BY <1>1, <1>2, <1>4, <2>1, <2>2, QuietStep
  <1>6. CASE CountMissing
    <2>1. /\ Missing /\ ~Missing' /\ ~Counting /\ ~Counting'
          /\ DynamicThreadCount' = DynamicThreadCount + 1 /\ lost' = lost + 1
      BY <1>6 DEF CountMissing, Counting, Missing
    <2>2. /\ DynamicThreadCount = Cardinality(Made) + lost
          /\ DynamicThreadCount < MaxDynamic
      BY <1>4, <2>1 DEF IInv, Limited
    <2>3. Limited' /\ DynamicThreadCount' \in Int /\ lost' \in Nat
      BY <1>3, <1>4, <2>1, <2>2 DEF Limited
    <2> QED
      BY <1>1, <1>2, <2>3, QuietStep
  <1> QED
    BY <1>5, <1>6

\* A thread is made under the limit, and counted by the manager later.
LEMMA CreateThreadStep ==
  ASSUME IInv, NEW w \in Dynamic, CreateThread(w)
  PROVE  IInv'
  <1>1. /\ pc[w] = "none" /\ pc' = [pc EXCEPT ![w] = "remove"] /\ w \in Workers
        /\ DynamicThreadCount < MaxDynamic /\ ~Counting /\ Counting'
        /\ manager' \in {"countdetected", "countchecked"}
        /\ UNCHANGED <<queue, item, joined, WrQueue, queued, checking, MakeThreads, lost,
                       DynamicThreadCount, event, processed, depth>>
    BY DEF CreateThread, Wanted, ThreadNeeded, Counting, Workers
  <1>2. UNCHANGED <<EntryListHead, WaitListHead, CurrentCount>>
    BY <1>1 DEF queue
  <1>3. pc'[w] = "remove" /\ \A v \in Workers \ {w} : pc'[v] = pc[v]
    BY <1>1 DEF IInv, Types
  <1>4. w \notin joined
    BY <1>1 DEF IInv, Calling
  <1>5. Types'
    BY <1>1, <1>2 DEF IInv, Types, AllPlaces, ManagerPlaces
  <1>6. Calling'
    BY <1>1, <1>3, <1>4 DEF IInv, Calling, Having
  <1>7. WaitersListed' /\ Placed'
    BY <1>1, <1>2, <1>3, WaitersKept, PlacedKept DEF IInv
  <1>8. ActiveWorkers' = ActiveWorkers
    BY <1>1, <1>3, <1>4 DEF ActiveWorkers, Active
  <1>9. Counted' /\ SomebodyActive'
    BY <1>2, <1>8, ActiveKept DEF IInv
  <1>10. Limited'
    <2>1. w \notin Made /\ Made' = Made \cup {w}
      BY <1>1, <1>3 DEF Made, Workers
    <2>2. Cardinality(Made') = Cardinality(Made) + 1
      BY <2>1, MadeFinite, FS_AddElement
    <2>3. DynamicThreadCount = Cardinality(Made) + lost /\ lost \in Nat
      BY <1>1, MadeFinite DEF IInv, Limited, Types
    <2>4. /\ DynamicThreadCount' = Cardinality(Made') + lost' - 1
          /\ DynamicThreadCount' < MaxDynamic
      BY <1>1, <2>2, <2>3, MadeFinite
    <2> QED
      BY <1>1, <2>4, WorkQueueAssumption DEF Limited, IInv, Types
  <1> QED
    BY <1>5, <1>6, <1>7, <1>9, <1>10 DEF IInv

LEMMA StartItemStep ==
  ASSUME IInv, NEW w \in Workers, StartItem(w) \/ StayForIrps(w)
  PROVE  IInv'
  <1>1. PICK p \in {"run", "remove"} :
           /\ pc[w] = (IF p = "run" THEN "got" ELSE "timedout")
           /\ pc' = [pc EXCEPT ![w] = p]
    BY DEF StartItem, StayForIrps
  <1>2. /\ UNCHANGED <<queue, item, joined, WrQueue, queued, checking, MakeThreads, lost,
                       DynamicThreadCount, event, depth, manager>>
        /\ processed' \in BOOLEAN
    BY DEF StartItem, StayForIrps, balance, IInv, Types
  <1>3. w \in joined
    BY <1>1 DEF IInv, Calling
  <1>4. Types'
    BY <1>1, <1>2 DEF IInv, Types, AllPlaces, queue
  <1>5. /\ p \in AllPlaces /\ (pc[w] \in Having <=> p \in Having)
        /\ pc[w] \notin {"none", "waiting", "blocked", "exit"}
        /\ p \notin {"none", "waiting", "blocked", "exit"}
    BY <1>1 DEF AllPlaces, Having
  <1>6. /\ Calling' /\ WaitersListed' /\ Placed' /\ Counted' /\ SomebodyActive'
        /\ Made' = Made
    BY <1>1, <1>2, <1>3, <1>4, <1>5, PlaceStep
  <1>7. Limited'
    BY <1>2, <1>6, LimitKept DEF IInv
  <1> QED
    BY <1>4, <1>6, <1>7 DEF IInv

\* A thread leaves: it is no longer counted as dynamic, but still as active.
LEMMA LeaveQueueStep ==
  ASSUME IInv, NEW w \in Workers, LeaveQueue(w)
  PROVE  IInv'
  <1>1. /\ pc[w] = "timedout" /\ pc' = [pc EXCEPT ![w] = "exit"]
        /\ DynamicThreadCount' = DynamicThreadCount - 1
        /\ UNCHANGED <<queue, item, joined, WrQueue, queued, checking, MakeThreads, lost,
                       event, processed, depth, manager>>
    BY DEF LeaveQueue
  <1>2. w \in joined /\ w \in Dynamic
    BY <1>1 DEF IInv, Calling
  <1>3. Types'
    BY <1>1 DEF IInv, Types, AllPlaces, queue
  <1>4. Calling' /\ WaitersListed' /\ Placed' /\ Counted' /\ SomebodyActive'
    <2>1. "exit" \in AllPlaces /\ "exit" \notin Having /\ "timedout" \notin Having
      BY DEF AllPlaces, Having
    <2> QED
      BY <1>1, <1>2, <1>3, <2>1, PlaceStep
  <1>5. Limited'
    <2>2. w \in Made /\ Made' = Made \ {w}
      BY <1>1, <1>2 DEF Made, IInv, Types, Workers
    <2>3. Cardinality(Made') = Cardinality(Made) - 1
      BY <2>2, MadeFinite, FS_RemoveElement
    <2>4. /\ DynamicThreadCount' = Cardinality(Made') + lost - (IF Counting THEN 1 ELSE 0)
          /\ DynamicThreadCount' < DynamicThreadCount /\ DynamicThreadCount \in Int
      BY <1>1, <2>3, MadeFinite DEF IInv, Limited, Types
    <2> QED
      BY <1>1, <2>4, WorkQueueAssumption DEF IInv, Limited, Counting, Missing
  <1> QED
    BY <1>3, <1>4, <1>5 DEF IInv

\* A worker calls KeRemoveQueue: what all four ways on have in common.
LEMMA CallsStep ==
  ASSUME IInv, NEW w \in Workers, Calls(w), NEW p \in AllPlaces, pc' = [pc EXCEPT ![w] = p],
         p \notin {"none", "exit", "blocked"}, p = "timedout" => w \in Dynamic,
         item'[w] # NULL <=> p \in Having, \A v \in Workers \ {w} : item'[v] = item[v],
         p # "waiting" => CurrentCount' = OthersCount(w) + 1,
         p = "waiting" => CurrentCount' = OthersCount(w)
  PROVE  /\ Calling' /\ Counted' /\ Limited'
         /\ pc[w] = "remove" /\ pc'[w] = p /\ \A v \in Workers \ {w} : pc'[v] = pc[v]
         /\ ActiveWorkers' = (IF p = "waiting" THEN ActiveWorkers \ {w}
                                               ELSE ActiveWorkers \cup {w})
         /\ CurrentCount \in Nat /\ CurrentCount' \in Int
         /\ joined' \subseteq Workers /\ WrQueue' \subseteq Workers
         /\ UNCHANGED <<queued, checking, MakeThreads, lost, DynamicThreadCount, event,
                        processed, depth, manager>>
  <1>1. /\ pc[w] = "remove" /\ joined' = joined \cup {w} /\ WrQueue' = WrQueue \cup {w}
        /\ UNCHANGED <<queued, checking, MakeThreads, lost, DynamicThreadCount, event,
                       processed, depth, manager>>
    BY DEF Calls, balance
  <1>2. pc'[w] = p /\ \A v \in Workers \ {w} : pc'[v] = pc[v]
    BY DEF IInv, Types
  <1>3. Calling'
    BY <1>1, <1>2 DEF IInv, Calling
  <1>4. Limited'
    <2>1. Made' = Made
      BY <1>1, <1>2 DEF Made, Workers
    <2> QED
      BY <1>1, <2>1, LimitKept DEF IInv
  <1>5. ActiveWorkers' = (IF p = "waiting" THEN ActiveWorkers \ {w} ELSE ActiveWorkers \cup {w})
    BY <1>1, <1>2 DEF ActiveWorkers, Active
  <1>6. /\ w \in ActiveWorkers <=> w \in joined
        /\ CurrentCount \in Nat
    BY <1>1, Known, CountTells DEF IInv
  <1>7. Counted'
    <2>1. CASE w \in joined /\ p = "waiting"
      BY <1>5, <1>6, <2>1, OneLess DEF OthersCount, IInv
    <2>2. CASE w \notin joined /\ p = "waiting"
      <3>1. ActiveWorkers' = ActiveWorkers /\ CurrentCount' = CurrentCount
        BY <1>5, <1>6, <2>2 DEF OthersCount
      <3> QED
        BY <3>1 DEF IInv, Counted
    <2>3. CASE w \in joined /\ p # "waiting"
      <3>1. ActiveWorkers' = ActiveWorkers /\ CurrentCount' = CurrentCount
        BY <1>5, <1>6, <2>3 DEF OthersCount
      <3> QED
        BY <3>1 DEF IInv, Counted
    <2>4. CASE w \notin joined /\ p # "waiting"
      BY <1>5, <1>6, <2>4, OneMore DEF OthersCount, IInv
    <2> QED
      BY <2>1, <2>2, <2>3, <2>4
  <1>8. CurrentCount' \in Int
    BY <1>6 DEF OthersCount
  <1> QED
    BY <1>1, <1>2, <1>3, <1>4, <1>5, <1>6, <1>7, <1>8 DEF IInv, Types

\* An entry goes from the list to a worker that has none.
LEMMA HandedOut ==
  ASSUME Placed, NEW w \in Workers, NEW i \in On(EntryListHead), i # NULL, item[w] = NULL,
         item'[w] = i, \A v \in Workers \ {w} : item'[v] = item[v], queued' = queued,
         Once(EntryListHead'), On(EntryListHead') = On(EntryListHead) \ {i}
  PROVE  Placed'
  <1>1. \A v \in Workers : item[v] # i
    BY DEF Placed
  <1>2. \A u, v \in Workers : item'[u] = item'[v] /\ item'[u] # NULL => u = v
    <2> SUFFICES ASSUME NEW u \in Workers, NEW v \in Workers, item'[u] = item'[v],
                        item'[u] # NULL
                 PROVE  u = v
      OBVIOUS
    <2>1. CASE u = w \/ v = w
      BY <1>1, <2>1
    <2>2. CASE u # w /\ v # w
      BY <2>2 DEF Placed
    <2> QED
      BY <2>1, <2>2
  <1>3. \A v \in Workers : item'[v] \notin On(EntryListHead')
    <2> SUFFICES ASSUME NEW v \in Workers PROVE item'[v] \notin On(EntryListHead) \ {i}
      OBVIOUS
    <2> QED
      BY DEF Placed
  <1>4. \A j \in Items :
           j \in queued' <=> j \in On(EntryListHead') \/ \E v \in Workers : item'[v] = j
    <2> SUFFICES ASSUME NEW j \in Items
                 PROVE  j \in queued <=> \/ j \in On(EntryListHead) \ {i}
                                        \/ \E v \in Workers : item'[v] = j
      OBVIOUS
    <2>1. j \in queued <=> j \in On(EntryListHead) \/ \E v \in Workers : item[v] = j
      BY DEF Placed
    <2>2. CASE j = i
      BY <2>1, <2>2
    <2>3. CASE j # i
      <3>1. j = NULL => j \in On(EntryListHead) \/ \E v \in Workers \ {w} : item'[v] = j
        BY <2>3, WorkQueueAssumption
      <3> QED
        BY <2>1, <2>3, <3>1
    <2> QED
      BY <2>2, <2>3
  <1> QED
    BY <1>2, <1>3, <1>4 DEF Placed

LEMMA RemoveEntryStep ==
  ASSUME IInv, NEW w \in Workers, RemoveEntry(w)
  PROVE  IInv'
  <1> DEFINE i == Head(EntryListHead)
  <1>1. /\ Calls(w) /\ EntryListHead # << >> /\ EntryListHead' = Tail(EntryListHead)
        /\ CurrentCount' = OthersCount(w) + 1 /\ pc' = [pc EXCEPT ![w] = "got"]
        /\ item' = [item EXCEPT ![w] = i] /\ WaitListHead' = WaitListHead
    BY DEF RemoveEntry, EntryFree
  <1>2. /\ EntryListHead \in Seq(Items) /\ Once(EntryListHead)
        /\ item \in [Workers -> Items \cup {NULL}]
    BY DEF IInv, Types, Placed
  <1>3. /\ i \in On(EntryListHead) /\ i \in Items
        /\ EntryListHead' \in Seq(Items) /\ Once(EntryListHead')
        /\ On(EntryListHead') = On(EntryListHead) \ {i}
    BY <1>1, <1>2, HeadTaken
  <1> HIDE DEF i
  <1>4. item'[w] = i /\ i # NULL /\ \A v \in Workers \ {w} : item'[v] = item[v]
    BY <1>1, <1>2, <1>3, WorkQueueAssumption
  <1>5. "got" \in AllPlaces /\ "got" \in Having
    BY DEF AllPlaces, Having
  <1>6. /\ Calling' /\ Counted' /\ Limited'
        /\ pc[w] = "remove" /\ pc'[w] = "got" /\ \A v \in Workers \ {w} : pc'[v] = pc[v]
        /\ ActiveWorkers' = ActiveWorkers \cup {w}
        /\ CurrentCount' \in Int
        /\ joined' \subseteq Workers /\ WrQueue' \subseteq Workers
        /\ UNCHANGED <<queued, checking, MakeThreads, lost, DynamicThreadCount, event,
                       processed, depth, manager>>
    BY <1>1, <1>4, <1>5, CallsStep
  <1>7. Types'
    BY <1>1, <1>3, <1>5, <1>6 DEF IInv, Types
  <1>8. WaitersListed'
    BY <1>1, <1>6, WaitersKept DEF IInv
  <1>9. item[w] = NULL
    BY <1>6 DEF IInv, Calling, Having
  <1>10. Placed'
    BY <1>3, <1>4, <1>6, <1>9, HandedOut DEF IInv
  <1>11. SomebodyActive'
    BY <1>6 DEF SomebodyActive
  <1> QED
    BY <1>6, <1>7, <1>8, <1>10, <1>11 DEF IInv

\* A worker waits only if there is no entry or enough others are active.
LEMMA WaitForEntryStep ==
  ASSUME IInv, NEW w \in Workers, WaitForEntry(w)
  PROVE  IInv'
  <1>1. /\ Calls(w) /\ ~EntryFree(w) /\ WaitListHead' = Append(WaitListHead, w)
        /\ CurrentCount' = OthersCount(w) /\ pc' = [pc EXCEPT ![w] = "waiting"]
        /\ UNCHANGED <<EntryListHead, item>>
    BY DEF WaitForEntry
  <1>2. "waiting" \in AllPlaces /\ "waiting" \notin Having /\ "remove" \notin Having
    BY DEF AllPlaces, Having
  <1>3. item[w] = NULL
    BY <1>1, <1>2 DEF Calls, IInv, Calling
  <1>4. /\ Calling' /\ Counted' /\ Limited'
        /\ pc[w] = "remove" /\ pc'[w] = "waiting" /\ \A v \in Workers \ {w} : pc'[v] = pc[v]
        /\ CurrentCount' \in Int
        /\ joined' \subseteq Workers /\ WrQueue' \subseteq Workers
        /\ UNCHANGED <<queued, checking, MakeThreads, lost, DynamicThreadCount, event,
                       processed, depth, manager>>
    BY <1>1, <1>2, <1>3, CallsStep
  <1>5. /\ WaitListHead \in Seq(Workers) /\ w \notin On(WaitListHead)
        /\ Once(WaitListHead)
    BY <1>4 DEF IInv, Types, WaitersListed
  <1>6. /\ WaitListHead' \in Seq(Workers) /\ Once(WaitListHead')
        /\ On(WaitListHead') = On(WaitListHead) \cup {w}
    BY <1>1, <1>5, Appended
  <1>7. Types'
    BY <1>1, <1>2, <1>4, <1>6 DEF IInv, Types
  <1>8. WaitersListed'
    BY <1>4, <1>6 DEF IInv, WaitersListed
  <1>9. Placed'
    BY <1>1, <1>4, PlacedKept DEF IInv
  <1>10. SomebodyActive'
    <2>1. EntryListHead # << >> => CurrentCount' >= MaximumCount
      BY <1>1, <1>4, WorkQueueAssumption DEF EntryFree
    <2>2. CurrentCount' = Cardinality(ActiveWorkers')
      BY <1>4 DEF Counted
    <2>3. ActiveWorkers' = {} => CurrentCount' = 0
      BY <2>2, FS_EmptySet
    <2> QED
      BY <1>1, <2>1, <2>3, WorkQueueAssumption DEF SomebodyActive
  <1> QED
    BY <1>4, <1>7, <1>8, <1>9, <1>10 DEF IInv

\* An APC, or the timeout of a dynamic thread, comes before the wait.
LEMMA BeforeWaitStep ==
  ASSUME IInv, NEW w \in Workers, ApcBeforeWait(w) \/ TimeoutBeforeWait(w)
  PROVE  IInv'
  <1>1. /\ Calls(w) /\ CurrentCount' = OthersCount(w) + 1
        /\ UNCHANGED <<EntryListHead, WaitListHead, item>>
    BY DEF ApcBeforeWait, TimeoutBeforeWait
  <1>2. pc[w] = "remove" /\ pc = [pc EXCEPT ![w] = pc[w]]
    BY <1>1 DEF Calls, IInv, Types
  <1>3. PICK p \in {"remove", "timedout"} :
           pc' = [pc EXCEPT ![w] = p] /\ (p = "timedout" => w \in Dynamic)
    BY <1>2 DEF ApcBeforeWait, TimeoutBeforeWait
  <1>4. p \in AllPlaces /\ p \notin Having /\ item[w] = NULL
    BY <1>2 DEF AllPlaces, Having, IInv, Calling
  <1>5. /\ Calling' /\ Counted' /\ Limited'
        /\ pc'[w] = p /\ \A v \in Workers \ {w} : pc'[v] = pc[v]
        /\ ActiveWorkers' = ActiveWorkers \cup {w}
        /\ CurrentCount' \in Int
        /\ joined' \subseteq Workers /\ WrQueue' \subseteq Workers
        /\ UNCHANGED <<queued, checking, MakeThreads, lost, DynamicThreadCount, event,
                       processed, depth, manager>>
    BY <1>1, <1>3, <1>4, CallsStep
  <1>6. Types'
    BY <1>1, <1>3, <1>4, <1>5 DEF IInv, Types
  <1>7. WaitersListed' /\ Placed'
    BY <1>1, <1>2, <1>5, WaitersKept, PlacedKept DEF IInv
  <1>8. SomebodyActive'
    BY <1>5 DEF SomebodyActive
  <1> QED
    BY <1>5, <1>6, <1>7, <1>8 DEF IInv

\* or ends it.
LEMMA WaitEndsStep ==
  ASSUME IInv, NEW w \in Workers, NEW p \in {"remove", "timedout"}, WaitEnds(w, p),
         p = "timedout" => w \in Dynamic
  PROVE  IInv'
  <1>1. /\ pc[w] = "waiting" /\ WaitListHead' = Without(WaitListHead, w)
        /\ CurrentCount' = CurrentCount + 1 /\ pc' = [pc EXCEPT ![w] = p]
        /\ WrQueue' = WrQueue \ {w}
        /\ UNCHANGED <<EntryListHead, item, joined, queued, checking, MakeThreads, lost,
                       DynamicThreadCount, event, processed, depth, manager>>
    BY DEF WaitEnds, balance
  <1>2. pc'[w] = p /\ \A v \in Workers \ {w} : pc'[v] = pc[v]
    BY <1>1 DEF IInv, Types
  <1>3. /\ WaitListHead' \in Seq(Workers) /\ Once(WaitListHead')
        /\ On(WaitListHead') = On(WaitListHead) \ {w}
    <2>1. w \in On(WaitListHead) /\ Once(WaitListHead) /\ WaitListHead \in Seq(Workers)
      BY <1>1 DEF IInv, WaitersListed, Types
    <2> QED
      BY <1>1, <2>1, Removed
  <1>4. Types'
    BY <1>1, <1>3 DEF IInv, Types, AllPlaces
  <1>5. Calling'
    BY <1>1, <1>2 DEF IInv, Calling, Having
  <1>6. WaitersListed'
    BY <1>1, <1>2, <1>3 DEF IInv, WaitersListed
  <1>7. Placed'
    BY <1>1, PlacedKept DEF IInv
  <1>8. w \notin ActiveWorkers /\ ActiveWorkers' = ActiveWorkers \cup {w}
    BY <1>1, <1>2, Known DEF ActiveWorkers, Active
  <1>9. Counted' /\ SomebodyActive'
    BY <1>1, <1>8, OneMore DEF IInv, SomebodyActive
  <1>10. Limited'
    <2>1. Made' = Made
      BY <1>1, <1>2 DEF Made, Workers
    <2> QED
      BY <1>1, <2>1, LimitKept DEF IInv
  <1> QED
    BY <1>4, <1>5, <1>6, <1>7, <1>9, <1>10 DEF IInv

-----------------------------------------------------------------------------
\* The newest waiter is the last on the list, and has no item.
LEMMA Newest ==
  ASSUME IInv, WaitListHead # << >>
  PROVE  LET w == WaitListHead[Len(WaitListHead)] IN
         /\ w \in Workers /\ pc[w] = "waiting" /\ w \in joined /\ item[w] = NULL
         /\ w \notin ActiveWorkers
         /\ Without(WaitListHead, w) \in Seq(Workers)
         /\ Once(Without(WaitListHead, w))
         /\ On(Without(WaitListHead, w)) = On(WaitListHead) \ {w}
  <1> DEFINE w == WaitListHead[Len(WaitListHead)]
  <1>1. WaitListHead \in Seq(Workers) /\ Once(WaitListHead)
    BY DEF IInv, Types, WaitersListed
  <1>2. w \in On(WaitListHead)
    BY <1>1, NotEmpty
  <1> HIDE DEF w
  <1>3. w \in Workers /\ pc[w] = "waiting"
    BY <1>2 DEF IInv, WaitersListed
  <1>4. w \in joined /\ item[w] = NULL /\ w \notin ActiveWorkers
    BY <1>3, Known DEF IInv, Calling, Having
  <1>5. /\ Without(WaitListHead, w) \in Seq(Workers)
        /\ Once(Without(WaitListHead, w))
        /\ On(Without(WaitListHead, w)) = On(WaitListHead) \ {w}
    BY <1>1, <1>2, Removed
  <1> QED
    BY <1>3, <1>4, <1>5 DEF w

\* KiInsertQueue, by a client or by the routine of an item.
LEMMA InsertStep ==
  ASSUME IInv, NEW t, NEW i \in Items, i \notin queued, queued' = queued \cup {i},
         KiInsertQueue(t, i), t \in joined => t \in ActiveWorkers,
         checking' \subseteq Workers \cup Clients,
         UNCHANGED <<joined, MakeThreads, balance>>
  PROVE  IInv'
  <1> DEFINE w == WaitListHead[Len(WaitListHead)]
  <1>1. UNCHANGED <<joined, MakeThreads, lost, DynamicThreadCount, event, processed, depth, manager>>
    BY DEF balance
  <1>2. /\ i # NULL /\ i \notin On(EntryListHead) /\ \A v \in Workers : item[v] # i
        /\ EntryListHead \in Seq(Items)
    BY WorkQueueAssumption DEF IInv, Placed, Types
  <1>3. CASE /\ CurrentCount < MaximumCount /\ WaitListHead # << >> /\ HandOver(w, i)
             /\ CurrentCount' = CurrentCount + 1 /\ EntryListHead' = EntryListHead
    <2>1. /\ w \in Workers /\ pc[w] = "waiting" /\ w \in joined /\ item[w] = NULL
          /\ w \notin ActiveWorkers
          /\ Without(WaitListHead, w) \in Seq(Workers)
          /\ Once(Without(WaitListHead, w))
          /\ On(Without(WaitListHead, w)) = On(WaitListHead) \ {w}
      BY <1>3, Newest
    <2>2. /\ WaitListHead' = Without(WaitListHead, w) /\ pc' = [pc EXCEPT ![w] = "got"]
          /\ item' = [item EXCEPT ![w] = i] /\ WrQueue' = WrQueue \ {w}
      BY <1>3 DEF HandOver
    <2> HIDE DEF w
    <2>3. /\ pc'[w] = "got" /\ \A v \in Workers \ {w} : pc'[v] = pc[v]
          /\ item'[w] = i /\ \A v \in Workers \ {w} : item'[v] = item[v]
      BY <2>1, <2>2 DEF IInv, Types
    <2>4. Types'
      BY <1>1, <1>3, <2>1, <2>2 DEF IInv, Types, AllPlaces
    <2>5. Calling'
      BY <1>1, <1>2, <2>1, <2>3 DEF IInv, Calling, Having
    <2>6. WaitersListed'
      BY <2>1, <2>2, <2>3 DEF IInv, WaitersListed
    <2>7. Placed'
      <3>1. Once(EntryListHead') /\ On(EntryListHead') = On(EntryListHead)
        BY <1>3 DEF IInv, Placed
      <3>2. \A u, v \in Workers : item'[u] = item'[v] /\ item'[u] # NULL => u = v
        <4> SUFFICES ASSUME NEW u \in Workers, NEW v \in Workers, item'[u] = item'[v],
                            item'[u] # NULL
                     PROVE  u = v
          OBVIOUS
        <4>1. CASE u = w \/ v = w
          BY <1>2, <2>3, <4>1
        <4>2. CASE u # w /\ v # w
          BY <2>3, <4>2 DEF IInv, Placed
        <4> QED
          BY <4>1, <4>2
      <3>3. \A v \in Workers : item'[v] \notin On(EntryListHead)
        BY <1>2, <2>3 DEF IInv, Placed
      <3>4. \A j \in Items :
               j \in queued' <=> j \in On(EntryListHead) \/ \E v \in Workers : item'[v] = j
        <4> SUFFICES ASSUME NEW j \in Items
                     PROVE  j \in queued \cup {i}
                              <=> j \in On(EntryListHead) \/ \E v \in Workers : item'[v] = j
          OBVIOUS
        <4>1. j \in queued <=> j \in On(EntryListHead) \/ \E v \in Workers : item[v] = j
          BY DEF IInv, Placed
        <4>2. j # NULL
          BY WorkQueueAssumption
        <4> QED
          BY <2>1, <2>3, <4>1, <4>2
      <3> QED
        BY <3>1, <3>2, <3>3, <3>4 DEF Placed
    <2>8. ActiveWorkers' = ActiveWorkers \cup {w}
      BY <1>1, <2>1, <2>3 DEF ActiveWorkers, Active
    <2>9. Counted' /\ SomebodyActive'
      BY <1>3, <2>1, <2>8, OneMore DEF IInv, SomebodyActive
    <2>10. Limited'
      <3>1. Made' = Made
        BY <2>1, <2>3 DEF Made, Workers
      <3> QED
        BY <1>1, <3>1, LimitKept DEF IInv
    <2> QED
      BY <2>4, <2>5, <2>6, <2>7, <2>9, <2>10 DEF IInv
  <1>4. CASE /\ \/ CurrentCount >= MaximumCount
                \/ WaitListHead = << >>
                \/ t \in joined
             /\ EntryListHead' = Append(EntryListHead, i)
             /\ UNCHANGED <<WaitListHead, CurrentCount, pc, item, WrQueue>>
    <2>1. /\ EntryListHead' \in Seq(Items) /\ Once(EntryListHead')
          /\ On(EntryListHead') = On(EntryListHead) \cup {i}
      BY <1>2, <1>4, Appended DEF IInv, Placed
    <2>2. Types'
      BY <1>1, <1>4, <2>1 DEF IInv, Types
    <2>3. Calling'
      BY <1>1, <1>4 DEF IInv, Calling
    <2>4. WaitersListed'
      BY <1>4, WaitersKept DEF IInv
    <2>5. Placed'
      BY <1>2, <1>4, <2>1 DEF IInv, Placed
    <2>6. ActiveWorkers' = ActiveWorkers /\ Made' = Made
      BY <1>1, <1>4 DEF ActiveWorkers, Active, Made
    <2>7. Counted'
      BY <1>4, <2>6 DEF IInv, Counted
    <2>8. SomebodyActive'
      <3>1. CurrentCount >= MaximumCount => ActiveWorkers # {}
        BY CountTells, WorkQueueAssumption DEF IInv
      <3> QED
        BY <1>4, <2>6, <3>1 DEF SomebodyActive
    <2>9. Limited'
      BY <1>1, <2>6, LimitKept DEF IInv
    <2> QED
      BY <2>2, <2>3, <2>4, <2>5, <2>7, <2>8, <2>9 DEF IInv
  <1>5. CurrentCount \in Int /\ MaximumCount \in Nat
    BY WorkQueueAssumption DEF IInv, Types
  <1> QED
    BY <1>3, <1>4, <1>5 DEF KiInsertQueue

LEMMA QueueItemStep ==
  ASSUME IInv, NEW c \in Clients, NEW i \in Items, QueueItem(c, i)
  PROVE  IInv'
  <1>1. c \notin joined
    BY WorkQueueAssumption DEF IInv, Types
  <1>2. checking' \subseteq Workers \cup Clients
    BY DEF QueueItem, IInv, Types
  <1> QED
    BY <1>1, <1>2, InsertStep DEF QueueItem

LEMMA SpawnItemStep ==
  ASSUME IInv, NEW w \in Workers, SpawnItem(w)
  PROVE  IInv'
  <1> DEFINE i == Spawns[item[w]]
  <1>1. /\ pc[w] = "run" /\ i # NULL /\ i \notin queued /\ queued' = queued \cup {i}
        /\ KiInsertQueue(w, i) /\ checking' = checking \cup {w}
        /\ UNCHANGED <<joined, MakeThreads, balance>>
    BY DEF SpawnItem
  <1>2. item[w] \in Items
    BY <1>1 DEF IInv, Types, Calling, Having
  <1>3. i \in Items
    BY <1>1, <1>2, WorkQueueAssumption
  <1>4. w \in ActiveWorkers /\ checking' \subseteq Workers \cup Clients
    BY <1>1, Known DEF IInv, Types
  <1> HIDE DEF i
  <1> QED
    BY <1>1, <1>3, <1>4, InsertStep

\* KiActivateWaiterQueue, by a worker that waits in an item or ends.
LEMMA ActivateStep ==
  ASSUME IInv, NEW t \in Workers, NEW p, KiActivateWaiterQueue(t, p),
         \/ pc[t] = "run" /\ p = "blocked" /\ joined' = joined
         \/ pc[t] = "exit" /\ p = "none" /\ joined' = joined \ {t},
         UNCHANGED <<queued, checking, MakeThreads, balance>>
  PROVE  IInv'
  <1> DEFINE w == WaitListHead[Len(WaitListHead)]
             i == Head(EntryListHead)
  <1>1. UNCHANGED <<queued, checking, MakeThreads, lost, DynamicThreadCount, event, processed,
                    depth, manager>>
    BY DEF balance
  <1>2. t \in ActiveWorkers /\ t \in joined
    BY Known DEF IInv, Calling
  <1>3. CASE /\ WaitListHead # << >> /\ EntryListHead # << >>
             /\ WaitListHead' = Without(WaitListHead, w)
             /\ EntryListHead' = Tail(EntryListHead)
             /\ pc' = [pc EXCEPT ![w] = "got", ![t] = p]
             /\ item' = [item EXCEPT ![w] = i]
             /\ WrQueue' = WrQueue \ {w, t}
             /\ UNCHANGED CurrentCount
    <2>1. /\ w \in Workers /\ pc[w] = "waiting" /\ w \in joined /\ item[w] = NULL
          /\ w \notin ActiveWorkers
          /\ Without(WaitListHead, w) \in Seq(Workers)
          /\ Once(Without(WaitListHead, w))
          /\ On(Without(WaitListHead, w)) = On(WaitListHead) \ {w}
      BY <1>3, Newest
    <2>2. /\ i \in On(EntryListHead) /\ i \in Items
          /\ EntryListHead' \in Seq(Items) /\ Once(EntryListHead')
          /\ On(EntryListHead') = On(EntryListHead) \ {i}
      BY <1>3, HeadTaken DEF IInv, Types, Placed
    <2> HIDE DEF w, i
    <2>3. t # w /\ i # NULL
      BY <2>1, <2>2, WorkQueueAssumption
    <2>4. /\ pc'[w] = "got" /\ pc'[t] = p /\ \A v \in Workers \ {w, t} : pc'[v] = pc[v]
          /\ item'[w] = i /\ \A v \in Workers \ {w} : item'[v] = item[v]
      BY <1>3, <2>1, <2>3 DEF IInv, Types
    <2>5. Types'
      BY <1>1, <1>3, <2>1, <2>2 DEF IInv, Types, AllPlaces
    <2>6. Calling'
      BY <1>2, <2>1, <2>3, <2>4 DEF IInv, Calling, Having
    <2>7. WaitersListed'
      BY <1>3, <2>1, <2>4 DEF IInv, WaitersListed
    <2>8. Placed'
      BY <1>1, <2>1, <2>2, <2>3, <2>4, HandedOut DEF IInv
    <2>9. ActiveWorkers' = (ActiveWorkers \cup {w}) \ {t}
      BY <1>2, <2>1, <2>3, <2>4 DEF ActiveWorkers, Active
    <2>10. Counted'
      BY <1>2, <1>3, <2>1, <2>9, OneForOne DEF IInv
    <2>11. SomebodyActive'
      BY <2>3, <2>9 DEF SomebodyActive
    <2>12. Limited'
      <3>1. Made' = Made
        BY <2>1, <2>4 DEF Made, Workers
      <3> QED
        BY <1>1, <3>1, LimitKept DEF IInv
    <2> QED
      BY <2>5, <2>6, <2>7, <2>8, <2>10, <2>11, <2>12 DEF IInv
  <1>4. CASE /\ \/ CurrentCount - 1 >= MaximumCount
                \/ WaitListHead = << >>
                \/ EntryListHead = << >>
             /\ CurrentCount' = CurrentCount - 1
             /\ pc' = [pc EXCEPT ![t] = p]
             /\ WrQueue' = WrQueue \ {t}
             /\ UNCHANGED <<EntryListHead, WaitListHead, item>>
    <2>1. pc'[t] = p /\ \A v \in Workers \ {t} : pc'[v] = pc[v]
      BY <1>4 DEF IInv, Types
    <2>2. Types'
      BY <1>1, <1>4 DEF IInv, Types, AllPlaces
    <2>3. Calling'
      BY <1>2, <1>4, <2>1 DEF IInv, Calling, Having
    <2>4. WaitersListed' /\ Placed'
      BY <1>1, <1>4, <2>1, WaitersKept, PlacedKept DEF IInv
    <2>5. ActiveWorkers' = ActiveWorkers \ {t}
      BY <1>2, <2>1 DEF ActiveWorkers, Active
    <2>6. Counted'
      BY <1>2, <1>4, <2>5, OneLess DEF IInv
    <2>7. SomebodyActive'
      <3>1. CurrentCount' = Cardinality(ActiveWorkers')
        BY <2>6 DEF Counted
      <3>2. ActiveWorkers' = {} => CurrentCount' = 0
        BY <3>1, FS_EmptySet
      <3>3. MaximumCount \in Nat /\ MaximumCount > 0
        BY WorkQueueAssumption
      <3> QED
        BY <1>4, <3>2, <3>3 DEF SomebodyActive
    <2>8. Limited'
      <3>1. Made' = Made
        BY <2>1 DEF Made, Workers
      <3> QED
        BY <1>1, <3>1, LimitKept DEF IInv
    <2> QED
      BY <2>2, <2>3, <2>4, <2>6, <2>7, <2>8 DEF IInv
  <1>5. CurrentCount \in Int /\ MaximumCount \in Nat
    BY WorkQueueAssumption DEF IInv, Types
  <1> QED
    BY <1>3, <1>4, <1>5 DEF KiActivateWaiterQueue

\* The end of an item wakes those that wait for it.
LEMMA FinishItemStep ==
  ASSUME IInv, NEW w \in Workers, FinishItem(w)
  PROVE  IInv'
  <1> DEFINE A == Awaiting(item[w])
  <1>1. /\ pc[w] \in {"run", "finish"} /\ queued' = queued \ {item[w]}
        /\ item' = [item EXCEPT ![w] = NULL]
        /\ CurrentCount' = CurrentCount + Cardinality(A)
        /\ pc' = [v \in Workers |-> IF v = w THEN "remove"
                                    ELSE IF v \in A THEN "finish" ELSE pc[v]]
        /\ UNCHANGED <<EntryListHead, WaitListHead, joined, WrQueue, checking, MakeThreads, lost,
                       DynamicThreadCount, event, processed, depth, manager>>
    BY DEF FinishItem, balance
  <1>2. /\ A \subseteq Workers /\ IsFiniteSet(A) /\ Cardinality(A) \in Nat
        /\ \A v \in A : pc[v] = "blocked"
    BY WorkQueueAssumption, FS_Subset, FS_CardinalityType DEF Awaiting
  <1> HIDE DEF A
  <1>3. w \notin A /\ item[w] # NULL
    BY <1>1, <1>2 DEF IInv, Calling, Having
  <1>4. /\ pc'[w] = "remove" /\ \A v \in A : pc'[v] = "finish"
        /\ \A v \in Workers \ (A \cup {w}) : pc'[v] = pc[v]
        /\ item'[w] = NULL /\ \A v \in Workers \ {w} : item'[v] = item[v]
    BY <1>1, <1>2, <1>3 DEF IInv, Types
  <1>5. w \in ActiveWorkers
    BY <1>1, Known
  <1>6. Types'
    <2>1. pc' \in [Workers -> AllPlaces]
      BY <1>1 DEF IInv, Types, AllPlaces
    <2>2. CurrentCount' \in Int
      BY <1>1, <1>2 DEF IInv, Types
    <2> QED
      BY <1>1, <2>1, <2>2 DEF IInv, Types
  <1>7. Calling'
    BY <1>1, <1>2, <1>4 DEF IInv, Calling, Having
  <1>8. WaitersListed'
    BY <1>1, <1>2, <1>4, WaitersKept DEF IInv
  <1>9. Placed'
    <2>1. Once(EntryListHead') /\ On(EntryListHead') = On(EntryListHead)
      BY <1>1 DEF IInv, Placed
    <2>2. \A u, v \in Workers : item'[u] = item'[v] /\ item'[u] # NULL => u = v
      BY <1>4 DEF IInv, Placed
    <2>3. \A v \in Workers : item'[v] \notin On(EntryListHead)
      <3>1. NULL \notin On(EntryListHead)
        BY NotEmpty, WorkQueueAssumption DEF IInv, Types
      <3> QED
        BY <1>4, <3>1 DEF IInv, Placed
    <2>4. \A j \in Items :
             j \in queued' <=> j \in On(EntryListHead) \/ \E v \in Workers : item'[v] = j
      <3> SUFFICES ASSUME NEW j \in Items
                   PROVE  j \in queued \ {item[w]}
                            <=> j \in On(EntryListHead) \/ \E v \in Workers : item'[v] = j
        BY <1>1
      <3>1. j \in queued <=> j \in On(EntryListHead) \/ \E v \in Workers : item[v] = j
        BY DEF IInv, Placed
      <3>2. j # NULL
        BY WorkQueueAssumption
      <3>3. CASE j = item[w]
        BY <1>4, <3>2, <3>3 DEF IInv, Placed
      <3>4. CASE j # item[w]
        BY <1>4, <3>1, <3>2, <3>4
      <3> QED
        BY <3>3, <3>4
    <2> QED
      BY <2>1, <2>2, <2>3, <2>4 DEF Placed
  <1>10. ActiveWorkers' = ActiveWorkers \cup A /\ ActiveWorkers \cap A = {}
    <2>1. \A v \in A : v \in joined /\ v \notin ActiveWorkers
      BY <1>2, Known
    <2>2. \A v \in Workers : v \in ActiveWorkers' <=> v \in ActiveWorkers \/ v \in A
      BY <1>1, <1>2, <1>4, <1>5, <2>1 DEF ActiveWorkers, Active
    <2> QED
      BY <1>2, <2>1, <2>2, ActiveFinite DEF ActiveWorkers
  <1>11. Counted'
    <2>1. Cardinality(ActiveWorkers \cup A)
            = Cardinality(ActiveWorkers) + Cardinality(A) - Cardinality(ActiveWorkers \cap A)
      BY <1>2, ActiveFinite, FS_Union
    <2>2. Cardinality(ActiveWorkers \cap A) = 0
      BY <1>10, FS_EmptySet
    <2> QED
      BY <1>1, <1>2, <1>10, <2>1, <2>2, ActiveFinite DEF IInv, Counted
  <1>12. SomebodyActive'
    BY <1>5, <1>10 DEF SomebodyActive
  <1>13. Limited'
    <2>1. Made' = Made
      BY <1>1, <1>2, <1>4 DEF Made, Workers
    <2> QED
      BY <1>1, <2>1, LimitKept DEF IInv
  <1> QED
    BY <1>6, <1>7, <1>8, <1>9, <1>11, <1>12, <1>13 DEF IInv

LEMMA InitIInv ==
  Init => IInv
  <1> SUFFICES ASSUME Init PROVE IInv
    OBVIOUS
  <1>1. << >> \in Seq(Items) /\ << >> \in Seq(Workers)
    BY EmptySeq
  <1>2. On(<< >>) = {} /\ Once(<< >>)
    BY DEF On, Once
  <1>3. Types
    <2>1. pc \in [Workers -> AllPlaces] /\ item \in [Workers -> Items \cup {NULL}]
      BY DEF Init, AllPlaces
    <2>2. /\ EntryListHead \in Seq(Items) /\ WaitListHead \in Seq(Workers)
      BY <1>1 DEF Init
    <2>3. /\ CurrentCount \in Int /\ DynamicThreadCount \in Int
          /\ joined \subseteq Workers /\ WrQueue \subseteq Workers
          /\ queued \subseteq Items /\ checking \subseteq Workers \cup Clients
      BY DEF Init
    <2>4. /\ MakeThreads \in BOOLEAN /\ event \in BOOLEAN
          /\ processed \in BOOLEAN /\ depth \in BOOLEAN
          /\ manager \in ManagerPlaces
      BY DEF Init, ManagerPlaces
    <2> QED
      BY <2>1, <2>2, <2>3, <2>4 DEF Types, Init
  <1>4. Calling
    BY WorkQueueAssumption DEF Init, Calling, Having, Workers
  <1>5. WaitersListed
    BY <1>2 DEF Init, WaitersListed
  <1>6. Placed
    BY <1>2, WorkQueueAssumption DEF Init, Placed
  <1>7. Cardinality({}) = 0
    BY FS_EmptySet
  <1>8. Counted
    <2>1. ActiveWorkers = {}
      BY DEF Init, ActiveWorkers, Active
    <2> QED
      BY <1>7, <2>1 DEF Init, Counted
  <1>9. SomebodyActive
    BY DEF Init, SomebodyActive
  <1>10. Limited
    <2>1. Made = {} /\ ~Counting /\ ~Missing
      BY WorkQueueAssumption DEF Init, Made, Workers, Counting, Missing
    <2> QED
      BY <1>7, <2>1, WorkQueueAssumption DEF Init, Limited
  <1> QED
    BY <1>3, <1>4, <1>5, <1>6, <1>8, <1>9, <1>10 DEF IInv

LEMMA WorkerStep ==
  ASSUME IInv, NEW w \in Workers, Works(w) \/ Interrupted(w)
  PROVE  IInv'
  <1>1. CASE RemoveEntry(w) \/ WaitForEntry(w) \/ ApcBeforeWait(w) \/ TimeoutBeforeWait(w)
    BY <1>1, RemoveEntryStep, WaitForEntryStep, BeforeWaitStep
  <1>2. CASE ApcInWait(w)
    BY <1>2, WaitEndsStep DEF ApcInWait
  <1>3. CASE TimeoutInWait(w)
    BY <1>3, WaitEndsStep DEF TimeoutInWait
  <1>4. CASE StartItem(w) \/ StayForIrps(w) \/ LeaveQueue(w)
    BY <1>4, StartItemStep, LeaveQueueStep
  <1>5. CASE SpawnItem(w) \/ CheckThreads(w) \/ FinishItem(w)
    BY <1>5, SpawnItemStep, CheckThreadsStep, FinishItemStep
  <1>6. CASE WaitForItem(w)
    BY <1>6, ActivateStep DEF WaitForItem
  <1>7. CASE Terminate(w)
    BY <1>7, ActivateStep DEF Terminate
  <1> QED
    BY <1>1, <1>2, <1>3, <1>4, <1>5, <1>6, <1>7 DEF Works, Interrupted

LEMMA NextIInv ==
  IInv /\ [Next]_vars => IInv'
  <1> SUFFICES ASSUME IInv, [Next]_vars PROVE IInv'
    OBVIOUS
  <1>1. ASSUME NEW w \in Workers, Works(w) \/ Interrupted(w) PROVE IInv'
    BY <1>1, WorkerStep
  <1>2. ASSUME NEW c \in Clients, CheckThreads(c) PROVE IInv'
    BY <1>2, CheckThreadsStep
  <1>3. ASSUME NEW c \in Clients, NEW i \in Items, QueueItem(c, i) PROVE IInv'
    BY <1>3, QueueItemStep
  <1>4. CASE Manager
    BY <1>4, ManagerStep, CreateThreadStep, MissingStep DEF Manager
  <1>6. CASE CreateThreadFails
    BY <1>6, MissingStep
  <1>5. CASE UNCHANGED vars
    <2>1. UNCHANGED <<queue, pc, item, joined, WrQueue, queued, checking, MakeThreads, lost,
                      DynamicThreadCount, event, processed, depth, manager>>
      BY <1>5 DEF vars, balance
    <2>2. Made' = Made
      BY <2>1 DEF Made
    <2>3. Limited'
      BY <2>1, <2>2, LimitKept DEF IInv
    <2> QED
      BY <2>1, <2>3, QuietStep DEF IInv, Types
  <1> QED
    BY <1>1, <1>2, <1>3, <1>4, <1>5, <1>6 DEF Next, Halted

\* The inductive invariant holds in every state.
THEOREM Invariance == Spec => []IInv
  BY InitIInv, NextIInv, PTL DEF Spec

\* CurrentCount (queue.c, wait.c, thrdobj.c) is exact on each of the paths by
\* which a worker stops being active or becomes active again.
THEOREM CountTheorem == Spec => []ActiveCountExact
  <1>1. IInv => ActiveCountExact
    BY DEF IInv, Counted, ActiveWorkers, ActiveCountExact
  <1> QED
    BY <1>1, Invariance, PTL

\* An item is in one place from ExQueueWorkItem to the end of its routine, and
\* some worker is active while others wait and there is an entry.
THEOREM ItemsKept == Spec => []NoLostItem
  <1>1. IInv => NoLostItem
    <2> SUFFICES ASSUME IInv PROVE NoLostItem
      OBVIOUS
    <2>1. ASSUME NEW i \in Items
          PROVE  Places(i) = IF i \in queued THEN 1 ELSE 0
      <3> DEFINE K == {k \in 1 .. Len(EntryListHead) : EntryListHead[k] = i}
                 H == {w \in Workers : item[w] = i}
      <3>1. DOMAIN EntryListHead = 1 .. Len(EntryListHead)
        BY LenProperties DEF IInv, Types
      <3>2. i # NULL
        BY WorkQueueAssumption
      <3>3. Cardinality({}) = 0
        BY FS_EmptySet
      <3>4. Places(i) = Cardinality(K) + Cardinality(H)
        BY DEF Places
      <3> HIDE DEF K, H
      <3>5. CASE i \in On(EntryListHead)
        <4>1. PICK k \in DOMAIN EntryListHead : EntryListHead[k] = i
          BY <3>5 DEF On
        <4>2. K = {k}
          BY <3>1, <4>1 DEF IInv, Placed, Once, K
        <4>3. H = {} /\ i \in queued
          BY <3>5 DEF IInv, Placed, H
        <4>4. Cardinality(K) = 1
          BY <4>2, FS_Singleton
        <4> QED
          BY <3>3, <3>4, <4>3, <4>4
      <3>6. CASE i \notin On(EntryListHead)
        <4>1. K = {}
          BY <3>1, <3>6 DEF On, K
        <4>2. CASE i \in queued
          <5>1. PICK w \in Workers : item[w] = i
            BY <3>6, <4>2 DEF IInv, Placed
          <5>2. H = {w}
            BY <3>2, <5>1 DEF IInv, Placed, H
          <5>3. Cardinality(H) = 1
            BY <5>2, FS_Singleton
          <5> QED
            BY <3>3, <3>4, <4>1, <4>2, <5>3
        <4>3. CASE i \notin queued
          <5>1. H = {}
            BY <3>6, <4>3 DEF IInv, Placed, H
          <5> QED
            BY <3>3, <3>4, <4>1, <4>3, <5>1
        <4> QED
          BY <4>2, <4>3
      <3> QED
        BY <3>5, <3>6
    <2>2. EntryListHead # << >> /\ WaitListHead # << >> => \E w \in Workers : Active(w)
      BY DEF IInv, SomebodyActive, ActiveWorkers
    <2> QED
      BY <2>1, <2>2 DEF NoLostItem
  <1> QED
    BY <1>1, Invariance, PTL

\* The assertion of work.c 344 holds, although the limit is tested without a
\* lock, a thread is counted only after it was made, and one that could not be
\* made is counted as well; the count is off by exactly those.
THEOREM DynamicTheorem == Spec => []DynamicBounded
  <1>1. IInv => DynamicBounded
    BY DEF IInv, Limited, Made, Counting, DynamicBounded
  <1> QED
    BY <1>1, Invariance, PTL

====
