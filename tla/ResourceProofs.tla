--------------------------- MODULE ResourceProofs ---------------------------
(***************************************************************************)
(* Proofs about Resource, for any finite sets of threads and owner         *)
(* pointers, any sizes of the owner table and any number of acquires.      *)
(*                                                                         *)
(* The sums of OwnersAddUp are not inductive by themselves.  IInv adds     *)
(* what the code relies on when it takes the spin lock again: a thread     *)
(* inside an acquire owns nothing (Callers); every owner, and every thread *)
(* that waits to share and was noted before its wait, has one entry, which *)
(* says how often (HasEntry, EntryCorrect, OneEntry); and OwnerEntry is    *)
(* the exclusive owner's, or is kept for the one exclusive grant that is   *)
(* on its way (OwnerEntryCorrect).  At most one such grant exists, as it   *)
(* is one of the ActiveEntries and an exclusive resource has one of these: *)
(* this is why nobody is granted the resource while a claim is on its way. *)
(***************************************************************************)
EXTENDS Resource, WellFoundedInduction, FiniteSetTheorems, TLAPS

Entry == [thread : Agents \cup {NULL, One}, count : Nat]

AllPlaces == {"idle", "try", "expand", "allocate", "sharedWait", "exclusiveWait",
              "claim", "releaseSemaphore", "setEvent", "left"}
AllCalls == [kind : SharedKinds \cup ExclusiveKinds \cup {"none", "register"}, wait : BOOLEAN]
AllHolds == [mode : {"none", "shared", "exclusive"}, count : Nat]

Types ==
    /\ \E n \in Nat : entries \in [0 .. n -> Entry]
    /\ exclusive \in BOOLEAN
    /\ activeEntries \in Nat /\ activeCount \in {0, 1}
    /\ sharedWaiters \in Nat /\ exclusiveWaiters \in Nat
    /\ allocated \subseteq {"event", "semaphore"}
    /\ semaphore \in Nat /\ event \in BOOLEAN
    /\ pc \in [Threads -> AllPlaces]
    /\ call \in [Threads -> AllCalls]
    /\ local \in [Threads -> Nat]
    /\ hold \in [Agents -> AllHolds]

\* The numbers of OwnersAddUp.
Sums ==
    /\ activeEntries = Cardinality(Owners) + Cardinality(Registering)
                         + SharedGrants + ExclusiveGrants
    /\ activeCount = (IF activeEntries > 0 THEN 1 ELSE 0)
    /\ sharedWaiters + SharedGrants = Cardinality(At("sharedWait"))
    /\ exclusiveWaiters + ExclusiveGrants
         = Cardinality(At("exclusiveWait")) + Cardinality(At("claim"))
    /\ exclusive => activeEntries = 1
    /\ sharedWaiters + exclusiveWaiters > 0 => activeEntries > 0
    /\ sharedWaiters > 0 => exclusive \/ exclusiveWaiters > 0

\* The resource is exclusive when an owner has it so, or will.
Modes ==
    exclusive <=> (ExclusiveGrants > 0
                     \/ \E a \in Owners : hold[a].mode = "exclusive")

\* A thread that waits to share the resource, and has an entry already.
Waiting(a) == a \in Threads /\ pc[a] = "sharedWait" /\ call[a].kind # "register"

Noted(a) == a \in Owners \/ Waiting(a)

\* Threads inside an acquire own nothing.
Callers ==
    /\ \A t \in Threads :
          /\ hold[t] # Free => pc[t] \in {"idle", "releaseSemaphore"}
          /\ pc[t] = "allocate" => call[t].kind # "register"
    /\ \A a \in Agents : hold[a] # Free => hold[a].mode # "none" /\ hold[a].count > 0

\* Who has an entry, and where,
HasEntry == \A a \in Agents : Noted(a) => \E e \in DOMAIN entries : entries[e].thread = a

\* whose an entry is, and what it says,
EntryCorrect ==
    \A e \in DOMAIN entries :
       /\ entries[e].thread \in Agents =>
             \/ Noted(entries[e].thread)
             \/ e = 0 /\ entries[e].thread \in At("claim")
       /\ entries[e].thread = NULL => entries[e].count = 0
       /\ entries[e].thread = One => e = 0
       /\ entries[e].thread \in Owners => entries[e].count = hold[entries[e].thread].count
       /\ Waiting(entries[e].thread) => e # 0 /\ entries[e].count = 1

OneEntry ==
    \A d, e \in DOMAIN entries :
       entries[d].thread = entries[e].thread /\ d # e => entries[d].thread = NULL

\* and who has OwnerEntry.
OwnerEntryCorrect ==
    /\ \A a \in Agents : hold[a].mode = "exclusive" => entries[0].thread = a
    /\ ExclusiveGrants > 0 => /\ entries[0].count = 1
                              /\ entries[0].thread \in {One} \cup At("claim")

IInv == /\ Types /\ Sums /\ Modes /\ Callers
        /\ HasEntry /\ EntryCorrect /\ OneEntry /\ OwnerEntryCorrect

-----------------------------------------------------------------------------
\* A set of numbers that is not empty has a least one.
LEMMA MinNat ==
  ASSUME NEW S, S \subseteq Nat, S # {}
  PROVE  Min(S) \in S /\ \A y \in S : Min(S) <= y
  <1> DEFINE R == {ss \in Nat \X Nat : ss[1] < ss[2]}
  <1>1. IsWellFoundedOn(R, Nat)
    BY NatLessThanWellFounded, Zenon DEF OpToRel
  <1>2. PICK x \in S : \A y \in S : ~(<<y, x>> \in R)
    <2> HIDE DEF R
    <2> QED
      BY <1>1, WFMin
  <1>3. \A y \in S : x <= y
    <2> SUFFICES ASSUME NEW y \in S, y < x
                 PROVE  FALSE
      OBVIOUS
    <2>1. <<y, x>> \in Nat \X Nat /\ <<y, x>>[1] < <<y, x>>[2]
      OBVIOUS
    <2> QED
      BY <1>2, <2>1, Zenon
  <1> QED
    BY <1>3 DEF Min

\* The threads at a place are finitely many.
LEMMA AtFinite ==
  ASSUME NEW place
  PROVE  /\ At(place) \subseteq Threads /\ IsFiniteSet(At(place))
         /\ Cardinality(At(place)) \in Nat
  BY ResourceAssumption, FS_Subset, FS_CardinalityType DEF At

\* Owners are finitely many, and so are the wakeups that threads have to make.
LEMMA OwnersFinite ==
  /\ Owners \subseteq Agents /\ IsFiniteSet(Owners) /\ Cardinality(Owners) \in Nat
  <1>1. IsFiniteSet(Agents)
    BY ResourceAssumption, FS_Union DEF Agents
  <1> QED
    BY <1>1, FS_Subset, FS_CardinalityType DEF Owners

LEMMA RegisteringFinite ==
  /\ Registering \subseteq Threads /\ IsFiniteSet(Registering)
  /\ Cardinality(Registering) \in Nat
  BY ResourceAssumption, FS_Subset, FS_CardinalityType DEF Registering

LEMMA Units ==
  ASSUME NEW t, NEW n \in Nat
  PROVE  IsFiniteSet({t} \X (1 .. n)) /\ Cardinality({t} \X (1 .. n)) = n
  <1>1. IsFiniteSet({t}) /\ Cardinality({t}) = 1
    BY FS_Singleton
  <1>2. IsFiniteSet(1 .. n) /\ Cardinality(1 .. n) = n
    BY FS_Interval
  <1>3. /\ IsFiniteSet({t} \X (1 .. n))
        /\ Cardinality({t} \X (1 .. n)) = Cardinality({t}) * Cardinality(1 .. n)
    BY <1>1, <1>2, FS_Product, Zenon
  <1>4. Cardinality({t}) * Cardinality(1 .. n) = n
    BY <1>1, <1>2
  <1> QED
    BY <1>3, <1>4, Zenon

LEMMA InWakeups ==
  \A x : x \in Wakeups <=>
          \E t \in At("releaseSemaphore") : x \in {t} \X (1 .. local[t])
  BY Zenon DEF Wakeups

LEMMA WakeupsFinite ==
  ASSUME local \in [Threads -> Nat]
  PROVE  IsFiniteSet(Wakeups) /\ Cardinality(Wakeups) \in Nat
  <1> DEFINE W == {{t} \X (1 .. local[t]) : t \in At("releaseSemaphore")}
             f == [t \in At("releaseSemaphore") |-> {t} \X (1 .. local[t])]
  <1>1. \A t \in Threads : IsFiniteSet({t} \X (1 .. local[t]))
    BY Units
  <1>2. f \in Surjection(At("releaseSemaphore"), W)
    <2>1. f \in [At("releaseSemaphore") -> W]
      BY Zenon
    <2>2. \A T \in W : \E t \in At("releaseSemaphore") : f[t] = T
      BY Zenon
    <2> QED
      BY <2>1, <2>2, Zenon DEF Surjection
  <1>3. IsFiniteSet(W)
    BY <1>2, AtFinite, FS_Surjection
  <1>4. IsFiniteSet(UNION W)
    <2>1. \A T \in W : IsFiniteSet(T)
      BY <1>1, AtFinite
    <2> QED
      <3> HIDE DEF W
      <3> QED BY <1>3, <2>1, FS_UNION
  <1> QED
    BY <1>4, FS_CardinalityType DEF Wakeups

LEMMA WakeupsSame ==
  ASSUME At("releaseSemaphore")' = At("releaseSemaphore"),
         \A t \in At("releaseSemaphore") : local'[t] = local[t]
  PROVE  Wakeups' = Wakeups
  BY DEF Wakeups

\* A release that has to wake n threads is the only one that has any to wake.
LEMMA WakeupsAdded ==
  ASSUME local \in [Threads -> Nat], Cardinality(Wakeups) = 0,
         NEW t \in Threads, NEW n \in Nat, local' = [local EXCEPT ![t] = n],
         At("releaseSemaphore")' = At("releaseSemaphore") \cup {t}
  PROVE  Cardinality(Wakeups') = n
  <1>1. Wakeups = {}
    BY WakeupsFinite, FS_EmptySet
  <1>2. \A u \in At("releaseSemaphore") : {u} \X (1 .. local[u]) = {}
    BY <1>1 DEF Wakeups
  <1>3. \A u \in At("releaseSemaphore") \ {t} : {u} \X (1 .. local'[u]) = {}
    BY <1>2, AtFinite
  <1>4. local'[t] = n
    OBVIOUS
  <1>5. Wakeups' = {t} \X (1 .. n)
    BY <1>3, <1>4 DEF Wakeups
  <1> QED
    BY <1>5, Units, Zenon

LEMMA WakeupsRemoved ==
  ASSUME local \in [Threads -> Nat],
         NEW t \in At("releaseSemaphore"), local' = [local EXCEPT ![t] = 0],
         At("releaseSemaphore")' = At("releaseSemaphore") \ {t}
  PROVE  Cardinality(Wakeups') = Cardinality(Wakeups) - local[t]
  <1> DEFINE D == {t} \X (1 .. local[t])
  <1>1. t \in Threads /\ local[t] \in Nat
    BY AtFinite
  <1>4. IsFiniteSet(D) /\ Cardinality(D) = local[t]
    BY <1>1, Units, Zenon
  <1>5. D \subseteq Wakeups
    BY InWakeups
  <1>6. \A u \in At("releaseSemaphore") \ {t} : local'[u] = local[u]
    BY AtFinite
  <1>7. Wakeups' = Wakeups \ D
    <2>1. \A x : x \in Wakeups' <=>
              \E u \in At("releaseSemaphore") \ {t} : x \in {u} \X (1 .. local'[u])
      BY Zenon DEF Wakeups
    <2>2. \A x : x \in Wakeups' <=>
              \E u \in At("releaseSemaphore") \ {t} : x \in {u} \X (1 .. local[u])
      BY <1>6, <2>1, Zenon
    <2>3. \A u \in At("releaseSemaphore") \ {t} : \A x \in {u} \X (1 .. local[u]) : x \notin D
      BY Zenon
    <2>4. \A x : x \in Wakeups' <=> x \in Wakeups /\ x \notin D
      <3> HIDE DEF D
      <3> QED BY <2>2, <2>3, <1>5, InWakeups, Zenon DEF D
    <2> QED
      <3> HIDE DEF D
      <3> QED BY <2>4, Zenon
  <1>8. Wakeups \cap D = D
    BY <1>5
  <1> QED
    <2> HIDE DEF D
    <2>1. Cardinality(Wakeups \ D) = Cardinality(Wakeups) - Cardinality(Wakeups \cap D)
      BY WakeupsFinite, FS_Difference, Zenon
    <2> QED
      BY <1>4, <1>7, <1>8, <2>1, Zenon

-----------------------------------------------------------------------------
\* The numbers the sums are about.
LEMMA Numbers ==
  ASSUME Types
  PROVE  /\ Cardinality(Owners) \in Nat /\ Cardinality(Registering) \in Nat
         /\ Cardinality(Wakeups) \in Nat /\ semaphore \in Nat /\ SharedGrants \in Nat
         /\ SharedGrants = semaphore + Cardinality(Wakeups)
         /\ Cardinality(At("setEvent")) \in Nat /\ Cardinality(At("claim")) \in Nat
         /\ ExclusiveGrants \in Nat
         /\ ExclusiveGrants = Cardinality(At("setEvent")) + Cardinality(At("claim"))
                                + (IF event THEN 1 ELSE 0)
         /\ Cardinality(At("sharedWait")) \in Nat /\ Cardinality(At("exclusiveWait")) \in Nat
         /\ Cardinality(At("claim")) \in Nat
  <1>1. Cardinality(Wakeups) \in Nat
    BY WakeupsFinite DEF Types
  <1>2. Cardinality(Owners) \in Nat /\ Cardinality(Registering) \in Nat
    BY OwnersFinite, RegisteringFinite
  <1>3. \A q : Cardinality(At(q)) \in Nat
    BY AtFinite
  <1> QED
    BY <1>1, <1>2, <1>3 DEF Types, SharedGrants, ExclusiveGrants

\* Members of the sets are counted.
LEMMA Counted ==
  /\ \A a \in Owners : Cardinality(Owners) >= 1
  /\ \A a, b \in Owners : a # b => Cardinality(Owners) >= 2
  /\ \A t \in Registering : Cardinality(Registering) >= 1
  /\ \A q : \A t \in At(q) : Cardinality(At(q)) >= 1
  <1>1. \A a \in Owners : Cardinality(Owners) >= 1
    BY OwnersFinite, FS_EmptySet
  <1>2. ASSUME NEW a \in Owners, NEW b \in Owners, a # b
        PROVE  Cardinality(Owners) >= 2
    <2>1. /\ IsFiniteSet(Owners \ {a})
          /\ Cardinality(Owners \ {a}) = Cardinality(Owners) - 1
      BY OwnersFinite, FS_RemoveElement
    <2>2. Cardinality(Owners \ {a}) # 0 /\ Cardinality(Owners \ {a}) \in Nat
      BY <1>2, <2>1, FS_EmptySet, FS_CardinalityType
    <2> QED
      BY <2>1, <2>2, OwnersFinite
  <1>3. \A t \in Registering : Cardinality(Registering) >= 1
    BY RegisteringFinite, FS_EmptySet
  <1>4. \A q : \A t \in At(q) : Cardinality(At(q)) >= 1
    BY AtFinite, FS_EmptySet
  <1> QED
    BY <1>1, <1>2, <1>3, <1>4

\* An owner of an exclusive resource is alone, and has it exclusively.
LEMMA Alone ==
  ASSUME IInv, exclusive, NEW a \in Owners
  PROVE  /\ Owners = {a} /\ Cardinality(Owners) = 1 /\ hold[a].mode = "exclusive"
         /\ Registering = {} /\ Cardinality(Registering) = 0
         /\ SharedGrants = 0 /\ semaphore = 0 /\ Cardinality(Wakeups) = 0
         /\ ExclusiveGrants = 0 /\ activeEntries = 1
  <1>1. /\ Cardinality(Owners) = 1 /\ Cardinality(Registering) = 0
        /\ SharedGrants = 0 /\ semaphore = 0 /\ Cardinality(Wakeups) = 0
        /\ ExclusiveGrants = 0 /\ activeEntries = 1
    <2>1. activeEntries = 1 /\ Cardinality(Owners) >= 1
      BY Counted DEF IInv, Sums
    <2>2. activeEntries = Cardinality(Owners) + Cardinality(Registering)
                            + SharedGrants + ExclusiveGrants
      BY DEF IInv, Sums
    <2>3. /\ Cardinality(Owners) \in Nat /\ Cardinality(Registering) \in Nat
          /\ Cardinality(Wakeups) \in Nat /\ semaphore \in Nat
          /\ SharedGrants \in Nat /\ ExclusiveGrants \in Nat
          /\ SharedGrants = semaphore + Cardinality(Wakeups)
      BY Numbers DEF IInv
    <2> QED
      BY <2>1, <2>2, <2>3
  <1>2. Owners = {a}
    BY <1>1, Counted
  <1>3. Registering = {}
    BY <1>1, Counted
  <1>4. hold[a].mode = "exclusive"
    BY <1>1, <1>2 DEF IInv, Modes
  <1> QED
    BY <1>1, <1>2, <1>3, <1>4

\* Nobody shares an exclusive resource, or is about to.
LEMMA NotExclusive ==
  ASSUME IInv, Cardinality(Registering) + SharedGrants > 0
  PROVE  ~exclusive /\ ExclusiveGrants = 0 /\ \A a \in Owners : hold[a].mode # "exclusive"
  <1>1. ASSUME exclusive PROVE FALSE
    <2>1. activeEntries = 1 /\ Cardinality(Owners) = 0 /\ ExclusiveGrants = 0
      BY <1>1, Numbers DEF IInv, Sums
    <2>2. Owners = {}
      BY <2>1, Counted
    <2> QED
      BY <1>1, <2>1, <2>2 DEF IInv, Modes
  <1> QED
    BY <1>1, Numbers DEF IInv, Modes

\* A grant of exclusive access is the only one.
LEMMA Granted ==
  ASSUME IInv, ExclusiveGrants > 0
  PROVE  /\ exclusive /\ ExclusiveGrants = 1 /\ Owners = {} /\ Cardinality(Owners) = 0
         /\ Registering = {} /\ Cardinality(Registering) = 0
         /\ SharedGrants = 0 /\ activeEntries = 1
         /\ \A a \in Agents : hold[a] = Free
  <1>1. exclusive /\ activeEntries = 1
    BY DEF IInv, Modes, Sums
  <1>2. /\ ExclusiveGrants = 1 /\ Cardinality(Owners) = 0 /\ Cardinality(Registering) = 0
        /\ SharedGrants = 0
    BY <1>1, Numbers DEF IInv, Sums
  <1>3. Owners = {} /\ Registering = {}
    BY <1>2, Counted
  <1>4. \A a \in Agents : hold[a] = Free
    BY <1>3 DEF Owners
  <1> QED
    BY <1>1, <1>2, <1>3, <1>4

LEMMA ZeroSum ==
  \A i, j, k, l \in Nat : i + j + k + l = 0 => i = 0 /\ j = 0 /\ k = 0 /\ l = 0
  OBVIOUS

\* Nobody has a free resource, or waits for it.
LEMMA Nobody ==
  ASSUME IInv, activeEntries = 0
  PROVE  /\ Owners = {} /\ Cardinality(Owners) = 0 /\ \A a \in Agents : hold[a] = Free
         /\ Registering = {} /\ Cardinality(Registering) = 0
         /\ SharedGrants = 0 /\ ExclusiveGrants = 0
         /\ sharedWaiters = 0 /\ exclusiveWaiters = 0 /\ activeCount = 0 /\ ~exclusive
         /\ At("sharedWait") = {} /\ At("exclusiveWait") = {} /\ At("claim") = {}
  <1>1. /\ Cardinality(Owners) = 0 /\ Cardinality(Registering) = 0
        /\ SharedGrants = 0 /\ ExclusiveGrants = 0 /\ sharedWaiters = 0
        /\ exclusiveWaiters = 0 /\ activeCount = 0 /\ ~exclusive
    <2>1. sharedWaiters \in Nat /\ exclusiveWaiters \in Nat /\ Types
      BY DEF IInv, Types
    <2>2. sharedWaiters = 0 /\ exclusiveWaiters = 0 /\ activeCount = 0 /\ ~exclusive
      BY <2>1 DEF IInv, Sums
    <2>3. 0 = Cardinality(Owners) + Cardinality(Registering) + SharedGrants + ExclusiveGrants
      BY DEF IInv, Sums
    <2>4. /\ Cardinality(Owners) \in Nat /\ Cardinality(Registering) \in Nat
          /\ SharedGrants \in Nat /\ ExclusiveGrants \in Nat
      BY <2>1, Numbers
    <2> QED
      BY <2>2, <2>3, <2>4, ZeroSum
  <1>2. /\ Cardinality(At("sharedWait")) = 0 /\ Cardinality(At("exclusiveWait")) = 0
        /\ Cardinality(At("claim")) = 0
    BY <1>1, Numbers DEF IInv, Sums
  <1>3. Owners = {} /\ Registering = {}
    BY <1>1, Counted
  <1>4. At("sharedWait") = {} /\ At("exclusiveWait") = {} /\ At("claim") = {}
    BY <1>2, Counted
  <1>5. \A a \in Agents : hold[a] = Free
    BY <1>3 DEF Owners
  <1> QED
    BY <1>1, <1>3, <1>4, <1>5

-----------------------------------------------------------------------------
LEMMA TableFacts ==
  ASSUME Types
  PROVE  /\ 0 \in DOMAIN entries /\ DOMAIN entries \subseteq Nat
         /\ entries \in [DOMAIN entries -> Entry]
  BY DEF Types

LEMMA TableSize ==
  ASSUME Types
  PROVE  /\ Cardinality(DOMAIN entries) - 1 \in Nat
         /\ entries \in [0 .. Cardinality(DOMAIN entries) - 1 -> Entry]
  <1>1. PICK n \in Nat : entries \in [0 .. n -> Entry]
    BY DEF Types
  <1>2. Cardinality(0 .. n) = n + 1
    BY FS_Interval
  <1>3. DOMAIN entries = 0 .. n
    BY <1>1
  <1> QED
    BY <1>1, <1>2, <1>3

\* A thread that is not waiting or about to be an owner has an entry only if it
\* is an owner;
LEMMA NoEntry ==
  ASSUME IInv, NEW a \in Agents, a \notin Owners,
         a \in Threads => pc[a] \notin {"sharedWait", "claim"}
  PROVE  (\A e \in DOMAIN entries : entries[e].thread # a) /\ EntryOf(a) = {}
  BY DEF IInv, EntryCorrect, Noted, Waiting, At, EntryOf

\* an owner has one, which says how often.
LEMMA OwnEntry ==
  ASSUME IInv, NEW a \in Owners
  PROVE  \E e \in DOMAIN entries :
            /\ EntryOf(a) = {e} /\ entries[e] = [thread |-> a, count |-> hold[a].count]
            /\ \A d \in DOMAIN entries : entries[d].thread = a => d = e
            /\ exclusive => e = 0
  <1>1. a \in Agents /\ a # NULL
    BY OwnersFinite, ResourceAssumption
  <1>2. PICK e \in DOMAIN entries : entries[e].thread = a
    BY <1>1 DEF IInv, HasEntry, Noted
  <1>3. \A d \in DOMAIN entries : entries[d].thread = a => d = e
    BY <1>1, <1>2 DEF IInv, OneEntry
  <1>4. entries[e] \in Entry
    BY TableFacts DEF IInv
  <1>5. entries[e] = [thread |-> a, count |-> hold[a].count]
    BY <1>2, <1>4 DEF IInv, EntryCorrect, Entry
  <1>6. exclusive => e = 0
    <2> SUFFICES ASSUME exclusive PROVE e = 0
      OBVIOUS
    <2>1. hold[a].mode = "exclusive"
      BY Alone
    <2> QED
      BY <1>1, <1>3, <2>1, TableFacts DEF IInv, OwnerEntryCorrect
  <1>7. EntryOf(a) = {e}
    BY <1>2, <1>3, <1>6 DEF EntryOf
  <1> QED
    BY <1>3, <1>5, <1>6, <1>7

\* What MayCall and the search for an entry tell: whoever goes on to wait, or to
\* let the table grow, owns nothing.
LEMMA OutsideOwnsNothing ==
  ASSUME IInv, NEW t \in Threads, pc[t] \in {"idle", "try"}, EntryOf(t) = {}
  PROVE  hold[t] = Free
  BY OwnEntry DEF Owners, Agents

LEMMA BlockedOwnsNothing ==
  ASSUME IInv, NEW t \in Threads, NEW k \in SharedKinds \cup ExclusiveKinds,
         Trying(t, k, TRUE), Blocked(t, k)
  PROVE  hold[t] = Free
  <1> SUFFICES ASSUME t \in Owners PROVE FALSE
    BY DEF Owners, Agents
  <1>1. pc[t] = "idle"
    BY DEF IInv, Callers, Owners, Trying
  <1>2. EntryOf(t) # {}
    BY OwnEntry
  <1>3. CASE exclusive
    <2>1. hold[t].mode = "exclusive" /\ entries[0].thread = t
      BY <1>3, Alone, OwnersFinite DEF IInv, OwnerEntryCorrect
    <2> QED
      BY <1>2, <1>3, <2>1 DEF Blocked, WaitsFirst
  <1>4. CASE ~exclusive
    <2>1. hold[t].mode = "shared"
      BY <1>4 DEF IInv, Modes, Callers, Types, Owners, Agents, AllHolds
    <2>2. k \in {"exclusive", "waitForExclusive"} \/ k = "tryExclusive"
      BY <1>2, <1>4 DEF Blocked, WaitsFirst, SharedKinds, ExclusiveKinds
    <2> QED
      BY <1>1, <2>1, <2>2 DEF Trying, MayCall
  <1> QED
    BY <1>3, <1>4

-----------------------------------------------------------------------------
Places == {"sharedWait", "exclusiveWait", "claim", "setEvent", "releaseSemaphore"}

\* A thread that comes to none of the places that count and leaves none changes
\* no number.
LEMMA Quiet ==
  ASSUME NEW t \in Threads, pc[t] \notin Places, pc'[t] \notin Places,
         \A u \in Threads \ {t} : pc'[u] = pc[u] /\ call'[u] = call[u] /\ local'[u] = local[u],
         t \in Registering <=> t \in Registering',
         semaphore' = semaphore, event' = event
  PROVE  /\ \A q \in Places : At(q)' = At(q)
         /\ Registering' = Registering /\ Wakeups' = Wakeups
         /\ SharedGrants' = SharedGrants /\ ExclusiveGrants' = ExclusiveGrants
         /\ \A a : Waiting(a)' <=> Waiting(a)
  <1>1. \A q \in Places : At(q)' = At(q)
    BY DEF At, Places
  <1>2. Registering' = Registering
    BY DEF Registering
  <1>3. \A u \in At("releaseSemaphore") : local'[u] = local[u]
    BY DEF At, Places
  <1>4. At("releaseSemaphore")' = At("releaseSemaphore")
    BY <1>1 DEF Places
  <1>5. Wakeups' = Wakeups
    BY <1>3, <1>4, WakeupsSame
  <1>6. SharedGrants' = SharedGrants
    BY <1>5 DEF SharedGrants
  <1>7. ExclusiveGrants' = ExclusiveGrants
    BY <1>1 DEF ExclusiveGrants, Places
  <1>8. \A a : Waiting(a)' <=> Waiting(a)
    BY DEF Waiting, Places
  <1> QED
    BY <1>1, <1>2, <1>5, <1>6, <1>7, <1>8

\* If it leaves the resource alone, too, nothing changes.
LEMMA QuietStep ==
  ASSUME IInv, NEW t \in Threads, pc[t] \notin Places, pc'[t] \notin Places,
         \A u \in Threads \ {t} : pc'[u] = pc[u] /\ call'[u] = call[u] /\ local'[u] = local[u],
         t \in Registering <=> t \in Registering',
         UNCHANGED <<entries, exclusive, activeEntries, activeCount, sharedWaiters,
                     exclusiveWaiters, semaphore, event, hold>>,
         Types', Callers'
  PROVE  IInv'
  <1>1. /\ \A q \in Places : At(q)' = At(q)
        /\ Registering' = Registering /\ Wakeups' = Wakeups
        /\ SharedGrants' = SharedGrants /\ ExclusiveGrants' = ExclusiveGrants
        /\ \A a : Waiting(a)' <=> Waiting(a)
    BY Quiet
  <1>2. Owners' = Owners
    BY DEF Owners
  <1>3. Sums'
    BY <1>1, <1>2 DEF IInv, Sums, Places
  <1>4. Modes'
    BY <1>1, <1>2 DEF IInv, Modes
  <1>5. \A a : Noted(a)' <=> Noted(a)
    BY <1>1, <1>2 DEF Noted
  <1>6. HasEntry'
    BY <1>5 DEF IInv, HasEntry
  <1>7. EntryCorrect'
    BY <1>1, <1>2, <1>5 DEF IInv, EntryCorrect, Places
  <1>8. OneEntry'
    BY DEF IInv, OneEntry
  <1>9. OwnerEntryCorrect'
    BY <1>1 DEF IInv, OwnerEntryCorrect, Places
  <1> QED
    BY <1>3, <1>4, <1>6, <1>7, <1>8, <1>9 DEF IInv

\* Where an acquire is when it looks at the resource.
LEMMA TryingFacts ==
  ASSUME Types, NEW t \in Threads, NEW k \in SharedKinds \cup ExclusiveKinds, NEW w,
         Trying(t, k, w)
  PROVE  pc[t] \in {"idle", "try"} /\ pc[t] \notin Places /\ t \notin Registering
  BY DEF Trying, Registering, Places, SharedKinds, ExclusiveKinds

\* Steps that touch nothing but the thread's own state.
LEMMA ExpandStep ==
  ASSUME IInv, NEW t \in Threads, NEW k \in SharedKinds, NEW w \in BOOLEAN, Expand(t, k, w)
  PROVE  IInv'
  <1>1. pc[t] \in {"idle", "try"} /\ pc[t] \notin Places /\ t \notin Registering
    BY TryingFacts DEF IInv, Expand
  <1>2. hold[t] = Free
    BY <1>1, OutsideOwnsNothing DEF Expand
  <1>3. /\ pc' = [pc EXCEPT ![t] = "expand"]
        /\ call' = [call EXCEPT ![t] = [kind |-> k, wait |-> w]]
        /\ local' = [local EXCEPT ![t] = Cardinality(DOMAIN entries) - 1]
        /\ UNCHANGED <<entries, exclusive, activeEntries, activeCount, sharedWaiters,
                       exclusiveWaiters, allocated, semaphore, event, hold>>
    BY DEF Expand, Go, resource
  <1>4. Cardinality(DOMAIN entries) - 1 \in Nat
    BY TableSize DEF IInv
  <1>5. Types'
    BY <1>3, <1>4 DEF IInv, Types, AllPlaces, AllCalls
  <1>6. Callers'
    BY <1>2, <1>3 DEF IInv, Callers, Types
  <1>7. t \notin Registering' /\ pc'[t] \notin Places
    BY <1>3 DEF IInv, Types, Registering, Places, SharedKinds
  <1>8. \A u \in Threads \ {t} : pc'[u] = pc[u] /\ call'[u] = call[u] /\ local'[u] = local[u]
    BY <1>3 DEF IInv, Types
  <1> QED
    BY <1>1, <1>3, <1>5, <1>6, <1>7, <1>8, QuietStep

LEMMA RefuseStep ==
  ASSUME IInv, NEW t \in Threads, NEW k \in SharedKinds \cup ExclusiveKinds, Refuse(t, k)
  PROVE  IInv'
  <1>1. pc[t] \in {"idle", "try"} /\ pc[t] \notin Places /\ t \notin Registering
    BY TryingFacts DEF IInv, Refuse
  <1>2. /\ pc' = [pc EXCEPT ![t] = "idle"] /\ call' = [call EXCEPT ![t] = NoCall]
        /\ UNCHANGED <<entries, exclusive, activeEntries, activeCount, sharedWaiters,
                       exclusiveWaiters, allocated, semaphore, event, local, hold>>
    BY DEF Refuse, Return, resource
  <1>3. Types'
    BY <1>2 DEF IInv, Types, NoCall, AllPlaces, AllCalls
  <1>4. Callers'
    BY <1>2 DEF IInv, Callers, Types, NoCall
  <1>5. t \notin Registering' /\ pc'[t] \notin Places
    BY <1>2 DEF IInv, Types, Registering, Places
  <1>6. \A u \in Threads \ {t} : pc'[u] = pc[u] /\ call'[u] = call[u] /\ local'[u] = local[u]
    BY <1>2 DEF IInv, Types
  <1> QED
    BY <1>1, <1>2, <1>3, <1>4, <1>5, <1>6, QuietStep

LEMMA AllocateStep ==
  ASSUME IInv, NEW t \in Threads, NEW k \in SharedKinds \cup ExclusiveKinds, Allocate(t, k)
  PROVE  IInv'
  <1>1. pc[t] \in {"idle", "try"} /\ pc[t] \notin Places /\ t \notin Registering
    BY TryingFacts DEF IInv, Allocate
  <1>2. hold[t] = Free
    BY BlockedOwnsNothing DEF Allocate
  <1>3. /\ pc' = [pc EXCEPT ![t] = "allocate"]
        /\ call' = [call EXCEPT ![t] = [kind |-> k, wait |-> TRUE]]
        /\ UNCHANGED <<entries, exclusive, activeEntries, activeCount, sharedWaiters,
                       exclusiveWaiters, allocated, semaphore, event, local, hold>>
    BY DEF Allocate, Go, resource
  <1>4. Types'
    BY <1>3 DEF IInv, Types, AllPlaces, AllCalls
  <1>5. Callers'
    BY <1>2, <1>3 DEF IInv, Callers, Types, SharedKinds, ExclusiveKinds
  <1>6. t \notin Registering' /\ pc'[t] \notin Places
    BY <1>3 DEF IInv, Types, Registering, Places
  <1>7. \A u \in Threads \ {t} : pc'[u] = pc[u] /\ call'[u] = call[u] /\ local'[u] = local[u]
    BY <1>3 DEF IInv, Types
  <1> QED
    BY <1>1, <1>3, <1>4, <1>5, <1>6, <1>7, QuietStep

LEMMA SetObjectStep ==
  ASSUME IInv, NEW t \in Threads, SetObject(t)
  PROVE  IInv'
  <1>1. pc[t] = "allocate" /\ call[t].kind # "register" /\ hold[t] = Free
    BY DEF IInv, Callers, SetObject
  <1>2. /\ pc' = [pc EXCEPT ![t] = "try"]
        /\ UNCHANGED <<entries, exclusive, activeEntries, activeCount, sharedWaiters,
                       exclusiveWaiters, semaphore, event, call, local, hold>>
    BY DEF SetObject
  <1>3. allocated' \subseteq {"event", "semaphore"}
    BY DEF IInv, Types, SetObject, Object
  <1>4. Types'
    BY <1>2, <1>3 DEF IInv, Types, AllPlaces, AllCalls
  <1>5. Callers'
    BY <1>1, <1>2 DEF IInv, Callers, Types
  <1>6. /\ t \notin Registering /\ t \notin Registering'
        /\ pc[t] \notin Places /\ pc'[t] \notin Places
    BY <1>1, <1>2 DEF IInv, Types, Registering, Places
  <1>7. \A u \in Threads \ {t} : pc'[u] = pc[u] /\ call'[u] = call[u] /\ local'[u] = local[u]
    BY <1>2 DEF IInv, Types
  <1> QED
    BY <1>2, <1>4, <1>5, <1>6, <1>7, QuietStep

LEMMA RegisterExpandStep ==
  ASSUME IInv, NEW t \in Threads, RegisterExpand(t)
  PROVE  IInv'
  <1>1. pc[t] = "try" /\ call[t].kind = "register" /\ hold[t] = Free
    BY DEF IInv, Callers, RegisterExpand
  <1>2. /\ pc' = [pc EXCEPT ![t] = "expand"]
        /\ local' = [local EXCEPT ![t] = Cardinality(DOMAIN entries) - 1]
        /\ UNCHANGED <<entries, exclusive, activeEntries, activeCount, sharedWaiters,
                       exclusiveWaiters, allocated, semaphore, event, call, hold>>
    BY DEF RegisterExpand, resource
  <1>3. Cardinality(DOMAIN entries) - 1 \in Nat
    BY TableSize DEF IInv
  <1>4. Types'
    BY <1>2, <1>3 DEF IInv, Types, AllPlaces, AllCalls
  <1>5. Callers'
    BY <1>1, <1>2 DEF IInv, Callers, Types
  <1>6. /\ t \in Registering /\ t \in Registering'
        /\ pc[t] \notin Places /\ pc'[t] \notin Places
    BY <1>1, <1>2 DEF IInv, Types, Registering, Places
  <1>7. \A u \in Threads \ {t} : pc'[u] = pc[u] /\ call'[u] = call[u] /\ local'[u] = local[u]
    BY <1>2 DEF IInv, Types
  <1> QED
    BY <1>2, <1>4, <1>5, <1>6, <1>7, QuietStep

LEMMA ComeBackStep ==
  ASSUME IInv, NEW t \in Threads, ComeBack(t)
  PROVE  IInv'
  <1>1. pc[t] = "left" /\ hold[t] = Free
    BY DEF IInv, Callers, ComeBack
  <1>2. /\ pc' = [pc EXCEPT ![t] = "idle"]
        /\ UNCHANGED <<entries, exclusive, activeEntries, activeCount, sharedWaiters,
                       exclusiveWaiters, allocated, semaphore, event, call, local, hold>>
    BY DEF ComeBack, resource
  <1>3. Types'
    BY <1>2 DEF IInv, Types, AllPlaces, AllCalls
  <1>4. Callers'
    BY <1>1, <1>2 DEF IInv, Callers, Types
  <1>5. /\ t \notin Registering /\ t \notin Registering'
        /\ pc[t] \notin Places /\ pc'[t] \notin Places
    BY <1>1, <1>2 DEF IInv, Types, Registering, Places
  <1>6. \A u \in Threads \ {t} : pc'[u] = pc[u] /\ call'[u] = call[u] /\ local'[u] = local[u]
    BY <1>2 DEF IInv, Types
  <1> QED
    BY <1>2, <1>3, <1>4, <1>5, <1>6, QuietStep

\* A larger table has the entries of the smaller one, and free ones.
LEMMA ExpandTableStep ==
  ASSUME IInv, NEW t \in Threads, ExpandTable(t)
  PROVE  IInv'
  <1>1. pc[t] = "expand" /\ hold[t] = Free
    BY DEF IInv, Callers, ExpandTable
  <1>2. /\ pc' = [pc EXCEPT ![t] = "try"] /\ local' = [local EXCEPT ![t] = 0]
        /\ UNCHANGED <<exclusive, activeEntries, activeCount, sharedWaiters,
                       exclusiveWaiters, allocated, semaphore, event, call, hold>>
    BY DEF ExpandTable
  <1>3. PICK m \in Nat : /\ entries' \in [0 .. m -> Entry]
                         /\ DOMAIN entries \subseteq 0 .. m
                         /\ \A e \in DOMAIN entries : entries'[e] = entries[e]
                         /\ \A e \in (0 .. m) \ DOMAIN entries : entries'[e] = Empty
    <2> DEFINE old == Cardinality(DOMAIN entries) - 1
               new == IF old = 0 THEN FirstSize ELSE old + Growth
    <2>1. old \in Nat /\ entries \in [0 .. old -> Entry]
      BY TableSize DEF IInv
    <2>2. new \in Nat /\ old < new
      BY <2>1, ResourceAssumption
    <2>3. Empty \in Entry
      BY DEF Empty, Entry
    <2>4. CASE entries' = entries
      BY <2>1, <2>4
    <2>5. CASE entries' = [e \in 0 .. new |-> IF e <= old THEN entries[e] ELSE Empty]
      <3> HIDE DEF old, new
      <3>1. entries' \in [0 .. new -> Entry]
        BY <2>1, <2>2, <2>3, <2>5
      <3>2. DOMAIN entries = 0 .. old
        BY <2>1
      <3> QED
        BY <2>1, <2>2, <2>5, <3>1, <3>2
    <2> QED
      BY <2>4, <2>5 DEF ExpandTable
  <1>4. Types'
    BY <1>2, <1>3 DEF IInv, Types, AllPlaces, AllCalls
  <1>5. Callers'
    BY <1>1, <1>2 DEF IInv, Callers, Types
  <1>6. /\ t \in Registering <=> t \in Registering'
        /\ pc[t] \notin Places /\ pc'[t] \notin Places
    BY <1>1, <1>2 DEF IInv, Types, Registering, Places
  <1>7. \A u \in Threads \ {t} : pc'[u] = pc[u] /\ call'[u] = call[u] /\ local'[u] = local[u]
    BY <1>2 DEF IInv, Types
  <1>8. /\ \A q \in Places : At(q)' = At(q)
        /\ Registering' = Registering /\ Wakeups' = Wakeups
        /\ SharedGrants' = SharedGrants /\ ExclusiveGrants' = ExclusiveGrants
        /\ \A a : Waiting(a)' <=> Waiting(a)
    BY <1>2, <1>6, <1>7, Quiet
  <1>9. Owners' = Owners
    BY <1>2 DEF Owners
  <1>10. Sums' /\ Modes'
    BY <1>2, <1>8, <1>9 DEF IInv, Sums, Modes, Places
  <1>11. \A a : Noted(a)' <=> Noted(a)
    BY <1>8, <1>9 DEF Noted
  <1>12. DOMAIN entries' = 0 .. m /\ 0 \in DOMAIN entries
    BY <1>3, TableFacts DEF IInv
  <1>13. HasEntry'
    BY <1>3, <1>11, <1>12 DEF IInv, HasEntry
  <1>14. EntryCorrect'
    <2> SUFFICES ASSUME NEW e \in 0 .. m
                 PROVE  /\ entries'[e].thread \in Agents =>
                             \/ Noted(entries'[e].thread)
                             \/ e = 0 /\ entries'[e].thread \in At("claim")
                        /\ entries'[e].thread = NULL => entries'[e].count = 0
                        /\ entries'[e].thread = One => e = 0
                        /\ entries'[e].thread \in Owners =>
                             entries'[e].count = hold[entries'[e].thread].count
                        /\ Waiting(entries'[e].thread) => e # 0 /\ entries'[e].count = 1
      BY <1>2, <1>8, <1>9, <1>11, <1>12 DEF EntryCorrect, Places
    <2>1. CASE e \in DOMAIN entries
      BY <1>3, <2>1 DEF IInv, EntryCorrect
    <2>2. CASE e \notin DOMAIN entries
      BY <1>3, <2>2, ResourceAssumption, OwnersFinite DEF Empty, Agents, Waiting
    <2> QED
      BY <2>1, <2>2
  <1>15. OneEntry'
    BY <1>3, <1>12 DEF IInv, OneEntry, Empty
  <1>16. OwnerEntryCorrect'
    BY <1>2, <1>3, <1>8, <1>12 DEF IInv, OwnerEntryCorrect, Places
  <1> QED
    BY <1>4, <1>5, <1>10, <1>13, <1>14, <1>15, <1>16 DEF IInv

-----------------------------------------------------------------------------
\* A thread that gets the resource is one more owner.
LEMMA NewOwner ==
  ASSUME Types, NEW a \in Agents, hold[a] = Free, NEW m, m # "none",
         hold' = [hold EXCEPT ![a] = [mode |-> m, count |-> 1]]
  PROVE  /\ a \notin Owners /\ Owners' = Owners \cup {a}
         /\ Cardinality(Owners') = Cardinality(Owners) + 1
         /\ hold'[a] = [mode |-> m, count |-> 1]
         /\ \A b \in Agents \ {a} : hold'[b] = hold[b]
  <1>1. a \notin Owners
    BY DEF Owners
  <1>2. /\ hold'[a] = [mode |-> m, count |-> 1]
        /\ \A b \in Agents \ {a} : hold'[b] = hold[b]
    BY DEF Types
  <1>3. [mode |-> m, count |-> 1] # Free
    BY DEF Free
  <1>4. Owners' = Owners \cup {a}
    BY <1>2, <1>3 DEF Owners
  <1>5. Cardinality(Owners \cup {a}) = Cardinality(Owners) + 1
    BY <1>1, OwnersFinite, FS_AddElement
  <1> QED
    BY <1>1, <1>2, <1>4, <1>5

LEMMA ReturnTypes ==
  ASSUME IInv, NEW t \in Threads, Return(t)
  PROVE  pc' \in [Threads -> AllPlaces] /\ call' \in [Threads -> AllCalls]
  BY DEF IInv, Types, Return, NoCall, AllPlaces, AllCalls

\* The acquire of a thread that returns from it is quiet.
LEMMA ReturnQuiet ==
  ASSUME IInv, NEW t \in Threads, NEW k \in SharedKinds \cup ExclusiveKinds, NEW w,
         Trying(t, k, w), Return(t), local' = local, semaphore' = semaphore, event' = event
  PROVE  /\ \A q \in Places : At(q)' = At(q)
         /\ Registering' = Registering /\ Wakeups' = Wakeups
         /\ SharedGrants' = SharedGrants /\ ExclusiveGrants' = ExclusiveGrants
         /\ \A a : Waiting(a)' <=> Waiting(a)
         /\ pc[t] \in {"idle", "try"} /\ ~Waiting(t) /\ t \notin At("claim")
         /\ t \in Agents
  <1>1. pc[t] \in {"idle", "try"} /\ pc[t] \notin Places /\ t \notin Registering
    BY TryingFacts DEF IInv
  <1>2. /\ t \notin Registering' /\ pc'[t] \notin Places
        /\ \A u \in Threads \ {t} : pc'[u] = pc[u] /\ call'[u] = call[u] /\ local'[u] = local[u]
    BY DEF IInv, Types, Return, Registering, Places
  <1> QED
    BY <1>1, <1>2, Quiet DEF Waiting, At, Agents

LEMMA AcquireFreeStep ==
  ASSUME IInv, NEW t \in Threads, NEW k \in SharedKinds \cup ExclusiveKinds,
         NEW w \in BOOLEAN, AcquireFree(t, k, w)
  PROVE  IInv'
  <1> DEFINE m == IF k \in ExclusiveKinds THEN "exclusive" ELSE "shared"
  <1>1. activeEntries = 0
    BY DEF AcquireFree, IInv, Sums, Types
  <1>2. /\ \A q \in Places : At(q)' = At(q)
        /\ Registering' = Registering /\ Wakeups' = Wakeups
        /\ SharedGrants' = SharedGrants /\ ExclusiveGrants' = ExclusiveGrants
        /\ \A a : Waiting(a)' <=> Waiting(a)
        /\ pc[t] \in {"idle", "try"} /\ ~Waiting(t) /\ t \notin At("claim")
        /\ t \in Agents
    BY ReturnQuiet DEF AcquireFree
  <1>3. /\ Owners = {} /\ Cardinality(Owners) = 0 /\ \A a \in Agents : hold[a] = Free
        /\ Cardinality(Registering) = 0 /\ SharedGrants = 0 /\ ExclusiveGrants = 0
        /\ sharedWaiters = 0 /\ exclusiveWaiters = 0
        /\ At("sharedWait") = {} /\ At("exclusiveWait") = {} /\ At("claim") = {}
    BY <1>1, Nobody
  <1>4. /\ Owners' = {t} /\ Cardinality(Owners') = 1
        /\ hold'[t] = [mode |-> m, count |-> 1]
        /\ \A b \in Agents \ {t} : hold'[b] = Free
    <2>1. Owners' = Owners \cup {t} /\ Cardinality(Owners') = Cardinality(Owners) + 1
          /\ hold'[t] = [mode |-> m, count |-> 1]
          /\ \A b \in Agents \ {t} : hold'[b] = hold[b]
      BY <1>2, <1>3, NewOwner DEF AcquireFree, Gets, IInv
    <2> QED
      BY <1>3, <2>1
  <1>5. Types'
    <2>1. \E n \in Nat : entries' \in [0 .. n -> Entry]
      BY <1>2 DEF IInv, Types, AcquireFree, Entry
    <2>2. hold' \in [Agents -> AllHolds]
      BY <1>2 DEF IInv, Types, AcquireFree, Gets, AllHolds
    <2> QED
      BY <2>1, <2>2, ReturnTypes DEF IInv, Types, AcquireFree
  <1>6. Sums'
    BY <1>2, <1>3, <1>4 DEF Sums, Places, AcquireFree, IInv, ExclusiveKinds
  <1>7. Modes'
    <2>1. hold'[t].mode = "exclusive" <=> k \in ExclusiveKinds
      BY <1>4
    <2>2. exclusive' <=> k \in ExclusiveKinds
      BY DEF AcquireFree
    <2> QED
      BY <1>2, <1>3, <1>4, <2>1, <2>2 DEF Modes
  <1>8. Callers'
    BY <1>2, <1>4 DEF IInv, Callers, AcquireFree, Return, Types, NoCall, Free, Agents
  <1>9. \A a \in Agents : Noted(a)' <=> a = t
    BY <1>2, <1>3, <1>4 DEF Noted, Waiting, At
  <1>10. /\ DOMAIN entries' = DOMAIN entries /\ 0 \in DOMAIN entries
         /\ entries'[0] = [thread |-> t, count |-> 1]
         /\ \A e \in DOMAIN entries \ {0} : entries'[e] = entries[e]
    BY TableFacts DEF IInv, AcquireFree
  <1>11. \A e \in DOMAIN entries \ {0} :
            entries[e].thread = NULL /\ entries[e].count = 0
    <2>1. \A a \in Agents : ~Noted(a)
      BY <1>3 DEF Noted, Waiting, At
    <2> QED
      BY <2>1, TableFacts DEF IInv, EntryCorrect, Entry
  <1>12. HasEntry'
    BY <1>9, <1>10 DEF HasEntry
  <1>13. EntryCorrect'
    BY <1>2, <1>4, <1>9, <1>10, <1>11, ResourceAssumption DEF EntryCorrect, Agents, Waiting
  <1>14. OneEntry'
    BY <1>10, <1>11 DEF OneEntry
  <1>15. OwnerEntryCorrect'
    BY <1>2, <1>3, <1>4, <1>10 DEF OwnerEntryCorrect, Free
  <1> QED
    BY <1>5, <1>6, <1>7, <1>8, <1>12, <1>13, <1>14, <1>15 DEF IInv

\* An owner that acquires again has only its count changed.
LEMMA AcquireAgainStep ==
  ASSUME IInv, NEW t \in Threads, NEW k \in SharedKinds \cup ExclusiveKinds,
         NEW w \in BOOLEAN, AcquireAgain(t, k, w)
  PROVE  IInv'
  <1>1. /\ \A q \in Places : At(q)' = At(q)
        /\ Registering' = Registering /\ Wakeups' = Wakeups
        /\ SharedGrants' = SharedGrants /\ ExclusiveGrants' = ExclusiveGrants
        /\ \A a : Waiting(a)' <=> Waiting(a)
        /\ pc[t] \in {"idle", "try"} /\ ~Waiting(t) /\ t \notin At("claim")
        /\ t \in Agents
    BY ReturnQuiet DEF AcquireAgain
  <1>2. t \in Owners
    BY <1>1, NoEntry DEF AcquireAgain
  <1>3. PICK e \in DOMAIN entries :
           /\ EntryOf(t) = {e} /\ entries[e] = [thread |-> t, count |-> hold[t].count]
           /\ \A d \in DOMAIN entries : entries[d].thread = t => d = e
    BY <1>2, OwnEntry
  <1>4. entries' = [entries EXCEPT ![e].count = @ + 1]
    BY <1>3 DEF AcquireAgain
  <1>5. /\ entries'[e] = [thread |-> t, count |-> hold[t].count + 1]
        /\ DOMAIN entries' = DOMAIN entries
        /\ \A d \in DOMAIN entries \ {e} : entries'[d] = entries[d]
    BY <1>3, <1>4, TableFacts DEF IInv
  <1>6. /\ hold'[t] = [mode |-> hold[t].mode, count |-> hold[t].count + 1]
        /\ \A a \in Agents \ {t} : hold'[a] = hold[a]
    BY <1>1 DEF IInv, Types, AcquireAgain, AllHolds
  <1>7. hold[t].mode # "none" /\ hold[t].count \in Nat /\ hold[t].count > 0
    BY <1>1, <1>2 DEF IInv, Types, Callers, Owners, AllHolds
  <1>8. Owners' = Owners
    BY <1>1, <1>2, <1>6, <1>7 DEF Owners, Free
  <1>9. Types'
    <2>1. entries' \in [DOMAIN entries -> Entry]
      BY <1>1, <1>5, <1>4, <1>7, TableFacts DEF IInv, Entry
    <2>2. \E n \in Nat : entries' \in [0 .. n -> Entry]
      BY <2>1 DEF IInv, Types
    <2>3. hold' \in [Agents -> AllHolds]
      BY <1>1, <1>7 DEF IInv, Types, AcquireAgain, AllHolds
    <2> QED
      BY <2>2, <2>3, ReturnTypes DEF IInv, Types, AcquireAgain
  <1>10. Sums'
    BY <1>1, <1>8 DEF Sums, Places, AcquireAgain, IInv
  <1>11. Modes'
    BY <1>1, <1>6, <1>8, OwnersFinite DEF Modes, AcquireAgain, IInv
  <1>12. Callers'
    BY <1>1, <1>6, <1>7 DEF IInv, Callers, AcquireAgain, Return, Types, NoCall, Free, Agents
  <1>13. \A a : Noted(a)' <=> Noted(a)
    BY <1>1, <1>8 DEF Noted
  <1>14. HasEntry'
    BY <1>3, <1>5, <1>13 DEF HasEntry, IInv
  <1>15. EntryCorrect'
    <2> SUFFICES ASSUME NEW d \in DOMAIN entries
                 PROVE  /\ entries'[d].thread \in Agents =>
                             \/ Noted(entries'[d].thread)
                             \/ d = 0 /\ entries'[d].thread \in At("claim")
                        /\ entries'[d].thread = NULL => entries'[d].count = 0
                        /\ entries'[d].thread = One => d = 0
                        /\ entries'[d].thread \in Owners =>
                             entries'[d].count = hold'[entries'[d].thread].count
                        /\ Waiting(entries'[d].thread) => d # 0 /\ entries'[d].count = 1
      BY <1>1, <1>5, <1>8, <1>13 DEF EntryCorrect, Places
    <2>1. CASE d = e
      BY <1>1, <1>2, <1>5, <1>6, <2>1, ResourceAssumption DEF Noted
    <2>2. CASE d # e
      BY <1>3, <1>5, <1>6, <2>2, OwnersFinite DEF IInv, EntryCorrect
    <2> QED
      BY <2>1, <2>2
  <1>16. OneEntry'
    BY <1>3, <1>5 DEF OneEntry, IInv
  <1>17. OwnerEntryCorrect'
    <2>1. ExclusiveGrants = 0 \/ e # 0
      BY <1>2, Granted, Numbers DEF IInv
    <2>2. 0 \in DOMAIN entries
      BY TableFacts DEF IInv
    <2>3. entries'[0].thread = entries[0].thread
      BY <1>3, <1>5, <2>2
    <2>4. \A a \in Agents : hold'[a].mode = hold[a].mode
      BY <1>6
    <2>5. e # 0 => entries'[0] = entries[0]
      BY <1>5, <2>2
    <2> QED
      BY <1>1, <2>1, <2>3, <2>4, <2>5 DEF OwnerEntryCorrect, IInv, Places
  <1> QED
    BY <1>9, <1>10, <1>11, <1>12, <1>14, <1>15, <1>16, <1>17 DEF IInv

\* A free entry is found for a thread that has none.
LEMMA FreeEntryFound ==
  ASSUME IInv, NEW waits \in BOOLEAN, FreeEntries(waits) # {}
  PROVE  /\ Min(FreeEntries(waits)) \in DOMAIN entries
         /\ entries[Min(FreeEntries(waits))].thread = NULL
         /\ waits => Min(FreeEntries(waits)) # 0
  <1>1. FreeEntries(waits) \subseteq Nat
    BY TableFacts DEF IInv, FreeEntries
  <1>2. Min(FreeEntries(waits)) \in FreeEntries(waits)
    BY <1>1, MinNat
  <1> QED
    BY <1>2 DEF FreeEntries

\* A thread is noted in a free entry, and it alone is newly noted.
LEMMA NotedInFree ==
  ASSUME IInv, NEW t \in Threads, NEW e \in DOMAIN entries, entries[e].thread = NULL,
         entries' = [entries EXCEPT ![e] = [thread |-> t, count |-> 1]],
         \A d \in DOMAIN entries : entries[d].thread # t
  PROVE  /\ DOMAIN entries' = DOMAIN entries
         /\ entries'[e] = [thread |-> t, count |-> 1]
         /\ \A d \in DOMAIN entries \ {e} : entries'[d] = entries[d] /\ entries'[d].thread # t
         /\ \E n \in Nat : entries' \in [0 .. n -> Entry]
         /\ OneEntry'
  <1>1. /\ DOMAIN entries' = DOMAIN entries
        /\ entries'[e] = [thread |-> t, count |-> 1]
        /\ \A d \in DOMAIN entries \ {e} : entries'[d] = entries[d] /\ entries'[d].thread # t
    BY TableFacts DEF IInv
  <1>2. [thread |-> t, count |-> 1] \in Entry
    BY DEF Entry, Agents
  <1>3. \E n \in Nat : entries' \in [0 .. n -> Entry]
    BY <1>2 DEF IInv, Types
  <1>4. OneEntry'
    BY <1>1 DEF IInv, OneEntry
  <1> QED
    BY <1>1, <1>3, <1>4

LEMMA JoinStep ==
  ASSUME IInv, NEW t \in Threads, NEW k \in SharedKinds \cup ExclusiveKinds,
         NEW w \in BOOLEAN, Join(t, k, w)
  PROVE  IInv'
  <1>1. /\ \A q \in Places : At(q)' = At(q)
        /\ Registering' = Registering /\ Wakeups' = Wakeups
        /\ SharedGrants' = SharedGrants /\ ExclusiveGrants' = ExclusiveGrants
        /\ \A a : Waiting(a)' <=> Waiting(a)
        /\ pc[t] \in {"idle", "try"} /\ ~Waiting(t) /\ t \notin At("claim")
        /\ t \in Agents
    BY ReturnQuiet DEF Join
  <1>2. hold[t] = Free /\ ~exclusive
    BY <1>1, OutsideOwnsNothing DEF Join, MustWait
  <1>3. /\ t \notin Owners /\ Owners' = Owners \cup {t}
        /\ Cardinality(Owners') = Cardinality(Owners) + 1
        /\ hold'[t] = [mode |-> "shared", count |-> 1]
        /\ \A b \in Agents \ {t} : hold'[b] = hold[b]
    BY <1>1, <1>2, NewOwner DEF Join, Gets, IInv
  <1>4. PICK e \in DOMAIN entries :
           /\ entries[e].thread = NULL
           /\ entries' = [entries EXCEPT ![e] = [thread |-> t, count |-> 1]]
    BY FreeEntryFound DEF Join
  <1>5. \A d \in DOMAIN entries : entries[d].thread # t
    BY <1>1, <1>3, NoEntry
  <1>6. /\ DOMAIN entries' = DOMAIN entries
        /\ entries'[e] = [thread |-> t, count |-> 1]
        /\ \A d \in DOMAIN entries \ {e} : entries'[d] = entries[d] /\ entries'[d].thread # t
        /\ \E n \in Nat : entries' \in [0 .. n -> Entry]
        /\ OneEntry'
    BY <1>4, <1>5, NotedInFree
  <1>7. Types'
    <2>1. hold' \in [Agents -> AllHolds]
      BY <1>1 DEF IInv, Types, Join, Gets, AllHolds
    <2>2. pc' \in [Threads -> AllPlaces] /\ call' \in [Threads -> AllCalls]
      BY ReturnTypes DEF Join
    <2>3. /\ activeEntries' = activeEntries + 1
          /\ UNCHANGED <<exclusive, activeCount, sharedWaiters, exclusiveWaiters,
                         allocated, semaphore, event, local>>
      BY DEF Join
    <2>4. \E n \in Nat : entries' \in [0 .. n -> Entry]
      BY <1>6
    <2>5. activeEntries' \in Nat
      BY <2>3 DEF IInv, Types
    <2> QED
      BY <2>1, <2>2, <2>3, <2>4, <2>5 DEF IInv, Types
  <1>8. Sums'
    <2>1. /\ Cardinality(Owners) \in Nat /\ Cardinality(Registering) \in Nat
          /\ SharedGrants \in Nat /\ ExclusiveGrants \in Nat /\ activeEntries \in Nat
          /\ activeEntries # 0 /\ activeEntries' = activeEntries + 1 /\ ~exclusive'
      BY <1>2, Numbers DEF IInv, Types, Join
    <2>2. activeEntries' = Cardinality(Owners') + Cardinality(Registering)
                             + SharedGrants + ExclusiveGrants
      BY <1>3, <2>1 DEF IInv, Sums
    <2> QED
      BY <1>1, <2>1, <2>2 DEF Sums, Places, Join, IInv
  <1>9. Modes'
    <2>1. \A a \in Owners' : hold'[a].mode = "exclusive" => a \in Owners /\ hold[a].mode = "exclusive"
      BY <1>3, OwnersFinite
    <2> QED
      BY <1>1, <1>2, <2>1 DEF Modes, Join, IInv
  <1>10. Callers'
    <2>1. pc'[t] = "idle" /\ \A u \in Threads \ {t} : pc'[u] = pc[u] /\ call'[u] = call[u]
      BY DEF IInv, Types, Join, Return
    <2> QED
      BY <1>1, <1>3, <2>1 DEF IInv, Callers, Agents
  <1>11. \A a : Noted(a)' <=> Noted(a) \/ a = t
    BY <1>1, <1>3 DEF Noted
  <1>12. HasEntry'
    BY <1>4, <1>6, <1>11, ResourceAssumption DEF HasEntry, IInv
  <1>13. EntryCorrect'
    <2> SUFFICES ASSUME NEW d \in DOMAIN entries
                 PROVE  /\ entries'[d].thread \in Agents =>
                             \/ Noted(entries'[d].thread) \/ entries'[d].thread = t
                             \/ d = 0 /\ entries'[d].thread \in At("claim")
                        /\ entries'[d].thread = NULL => entries'[d].count = 0
                        /\ entries'[d].thread = One => d = 0
                        /\ entries'[d].thread \in Owners' =>
                             entries'[d].count = hold'[entries'[d].thread].count
                        /\ Waiting(entries'[d].thread) => d # 0 /\ entries'[d].count = 1
      BY <1>1, <1>6, <1>11 DEF EntryCorrect, Places
    <2>1. CASE d = e
      BY <1>1, <1>3, <1>6, <1>11, <2>1, ResourceAssumption
    <2>2. CASE d # e
      BY <1>3, <1>6, <1>11, <2>2, OwnersFinite DEF IInv, EntryCorrect
    <2> QED
      BY <2>1, <2>2
  <1>14. OwnerEntryCorrect'
    <2>1. ExclusiveGrants = 0 /\ \A a \in Agents : hold[a].mode # "exclusive"
      BY <1>2, Numbers DEF IInv, Modes, Owners, Free
    <2> QED
      BY <1>1, <1>3, <2>1 DEF OwnerEntryCorrect
  <1> QED
    BY <1>6, <1>7, <1>8, <1>9, <1>10, <1>12, <1>13, <1>14 DEF IInv

-----------------------------------------------------------------------------
\* An owner is not inside an acquire, and its entry is the one that is found.
LEMMA ReleasingFacts ==
  ASSUME IInv, NEW t \in Threads, NEW a \in Agents, Releasing(t, a)
  PROVE  /\ a \in Owners /\ pc[t] = "idle" /\ ~Waiting(a) /\ a \notin At("claim")
         /\ pc[t] \notin Places /\ t \notin Registering
         /\ hold[a] \in AllHolds /\ hold[a].mode # "none" /\ hold[a].count > 0
         /\ \E e \in DOMAIN entries :
               /\ EntryOf(a) = {e} /\ entries[e] = [thread |-> a, count |-> hold[a].count]
               /\ \A d \in DOMAIN entries : entries[d].thread = a => d = e
               /\ exclusive => e = 0
  <1>1. a \in Owners /\ pc[t] = "idle"
    BY DEF Releasing, Owners
  <1>2. ~Waiting(a) /\ a \notin At("claim")
    BY <1>1 DEF IInv, Callers, Waiting, At, Owners
  <1>3. hold[a] \in AllHolds /\ hold[a].mode # "none" /\ hold[a].count > 0
    BY <1>1 DEF IInv, Types, Callers, Owners
  <1>4. pc[t] \notin Places /\ t \notin Registering
    BY <1>1 DEF Places, Registering
  <1> QED
    BY <1>1, <1>2, <1>3, <1>4, OwnEntry

LEMMA ReleaseOnceStep ==
  ASSUME IInv, NEW t \in Threads, NEW a \in Agents, ReleaseOnce(t, a)
  PROVE  IInv'
  <1>1. /\ a \in Owners /\ pc[t] = "idle" /\ ~Waiting(a) /\ a \notin At("claim")
        /\ pc[t] \notin Places /\ t \notin Registering
        /\ hold[a] \in AllHolds /\ hold[a].mode # "none" /\ hold[a].count > 0
    BY ReleasingFacts DEF ReleaseOnce
  <1>2. PICK e \in DOMAIN entries :
           /\ EntryOf(a) = {e} /\ entries[e] = [thread |-> a, count |-> hold[a].count]
           /\ \A d \in DOMAIN entries : entries[d].thread = a => d = e
           /\ exclusive => e = 0
    BY ReleasingFacts DEF ReleaseOnce
  <1>3. hold[a].count > 1 /\ entries' = [entries EXCEPT ![e].count = @ - 1]
    <2>1. PICK d \in EntryOf(a) : /\ entries[d].count > 1
                                  /\ entries' = [entries EXCEPT ![d].count = @ - 1]
      BY DEF ReleaseOnce
    <2>2. d = e
      BY <1>2
    <2>3. entries[e].count = hold[a].count
      BY <1>2
    <2> QED
      BY <2>1, <2>2, <2>3
  <1>4. /\ entries'[e] = [thread |-> a, count |-> hold[a].count - 1]
        /\ DOMAIN entries' = DOMAIN entries
        /\ \A d \in DOMAIN entries \ {e} : entries'[d] = entries[d]
    BY <1>2, <1>3, TableFacts DEF IInv
  <1>5. hold[a].count \in Nat
    BY <1>1 DEF AllHolds
  <1>6. /\ hold'[a] = [mode |-> hold[a].mode, count |-> hold[a].count - 1]
        /\ \A b \in Agents \ {a} : hold'[b] = hold[b]
    <2>1. hold[a].count # 1
      BY <1>3, <1>5
    <2> QED
      BY <2>1 DEF IInv, Types, ReleaseOnce, Dropped
  <1>7. Owners' = Owners
    BY <1>1, <1>3, <1>5, <1>6 DEF Owners, Free
  <1>8. UNCHANGED <<exclusive, activeEntries, activeCount, sharedWaiters,
                    exclusiveWaiters, allocated, semaphore, event, pc, call, local>>
    BY DEF ReleaseOnce
  <1>9. /\ \A q \in Places : At(q)' = At(q)
        /\ Registering' = Registering /\ Wakeups' = Wakeups
        /\ SharedGrants' = SharedGrants /\ ExclusiveGrants' = ExclusiveGrants
        /\ \A b : Waiting(b)' <=> Waiting(b)
    BY <1>1, <1>8, Quiet DEF Registering
  <1>10. Types'
    <2>1. entries' \in [DOMAIN entries -> Entry]
      BY <1>3, <1>4, <1>5, TableFacts DEF IInv, Entry
    <2>2. \E n \in Nat : entries' \in [0 .. n -> Entry]
      BY <2>1 DEF IInv, Types
    <2>3. hold' \in [Agents -> AllHolds]
      <3>1. DOMAIN hold' = Agents /\ hold' = [b \in Agents |-> hold'[b]]
        BY DEF IInv, Types, ReleaseOnce, Dropped
      <3>2. hold'[a] \in AllHolds
        BY <1>1, <1>3, <1>5, <1>6 DEF AllHolds
      <3> QED
        BY <1>6, <3>1, <3>2 DEF IInv, Types
    <2> QED
      BY <1>8, <2>2, <2>3 DEF IInv, Types
  <1>11. Sums'
    BY <1>7, <1>8, <1>9 DEF Sums, Places, IInv
  <1>12. \A b \in Agents : hold'[b].mode = hold[b].mode
    BY <1>6
  <1>13. Modes'
    BY <1>7, <1>8, <1>9, <1>12, OwnersFinite DEF Modes, IInv
  <1>14. Callers'
    <2>1. \A b \in Agents : hold'[b] # Free => hold[b] # Free
      BY <1>1, <1>6 DEF Owners
    <2>2. \A b \in Agents : hold'[b] # Free => hold'[b].mode # "none" /\ hold'[b].count > 0
      BY <1>1, <1>3, <1>5, <1>6 DEF IInv, Callers
    <2> QED
      BY <1>8, <2>1, <2>2 DEF IInv, Callers, Agents
  <1>15. \A b : Noted(b)' <=> Noted(b)
    BY <1>7, <1>9 DEF Noted
  <1>16. HasEntry'
    BY <1>2, <1>4, <1>15 DEF HasEntry, IInv
  <1>17. EntryCorrect'
    <2> SUFFICES ASSUME NEW d \in DOMAIN entries
                 PROVE  /\ entries'[d].thread \in Agents =>
                             \/ Noted(entries'[d].thread)
                             \/ d = 0 /\ entries'[d].thread \in At("claim")
                        /\ entries'[d].thread = NULL => entries'[d].count = 0
                        /\ entries'[d].thread = One => d = 0
                        /\ entries'[d].thread \in Owners =>
                             entries'[d].count = hold'[entries'[d].thread].count
                        /\ Waiting(entries'[d].thread) => d # 0 /\ entries'[d].count = 1
      BY <1>4, <1>7, <1>9, <1>15 DEF EntryCorrect, Places
    <2>1. CASE d = e
      BY <1>1, <1>4, <1>6, <2>1, ResourceAssumption DEF Noted
    <2>2. CASE d # e
      BY <1>2, <1>4, <1>6, <2>2, OwnersFinite DEF IInv, EntryCorrect
    <2> QED
      BY <2>1, <2>2
  <1>18. OneEntry'
    BY <1>2, <1>4 DEF OneEntry, IInv
  <1>19. OwnerEntryCorrect'
    <2>1. ExclusiveGrants = 0
      BY <1>1, Granted, Numbers DEF IInv
    <2>2. 0 \in DOMAIN entries
      BY TableFacts DEF IInv
    <2>3. entries'[0].thread = entries[0].thread
      BY <1>2, <1>4, <2>2
    <2> QED
      BY <1>9, <1>12, <2>1, <2>3 DEF OwnerEntryCorrect, IInv
  <1> QED
    BY <1>10, <1>11, <1>13, <1>14, <1>16, <1>17, <1>18, <1>19 DEF IInv

\* The last release of an owner: it is no owner, and has no entry, any more.
LEMMA LastRelease ==
  ASSUME IInv, NEW a \in Owners, hold[a].count = 1, Dropped(a)
  PROVE  /\ Owners' = Owners \ {a} /\ Cardinality(Owners') = Cardinality(Owners) - 1
         /\ hold'[a] = Free /\ \A b \in Agents \ {a} : hold'[b] = hold[b]
         /\ hold' \in [Agents -> AllHolds]
         /\ \A b \in Agents : hold'[b] # Free => hold[b] # Free /\ hold'[b] = hold[b]
  <1>1. /\ hold'[a] = Free /\ \A b \in Agents \ {a} : hold'[b] = hold[b]
        /\ hold' = [hold EXCEPT ![a] = Free] /\ a \in Agents
    BY OwnersFinite DEF IInv, Types, Dropped
  <1>2. Owners' = Owners \ {a}
    BY <1>1 DEF Owners
  <1>3. Cardinality(Owners \ {a}) = Cardinality(Owners) - 1
    BY OwnersFinite, FS_RemoveElement
  <1>4. hold' \in [Agents -> AllHolds]
    BY <1>1 DEF IInv, Types, Free, AllHolds
  <1> QED
    BY <1>1, <1>2, <1>3, <1>4

LEMMA EntryDropped ==
  ASSUME IInv, NEW a \in Owners, ~Waiting(a), a \notin At("claim"),
         NEW e \in DOMAIN entries, entries[e].thread = a,
         entries' = [entries EXCEPT ![e] = Empty],
         Owners' = Owners \ {a}, \A b \in Agents \ {a} : hold'[b] = hold[b],
         \A b : Waiting(b)' <=> Waiting(b), At("claim")' = At("claim")
  PROVE  /\ \E n \in Nat : entries' \in [0 .. n -> Entry]
         /\ HasEntry' /\ EntryCorrect' /\ OneEntry'
  <1>1. /\ DOMAIN entries' = DOMAIN entries /\ entries'[e] = Empty
        /\ \A d \in DOMAIN entries \ {e} : entries'[d] = entries[d]
        /\ a \in Agents /\ a # NULL
    BY TableFacts, OwnersFinite, ResourceAssumption DEF IInv
  <1>2. \A d \in DOMAIN entries \ {e} : entries[d].thread # a
    BY <1>1 DEF IInv, OneEntry
  <1>3. \A b : Noted(b)' <=> Noted(b) /\ b # a
    BY DEF Noted
  <1>4. \E n \in Nat : entries' \in [0 .. n -> Entry]
    BY DEF IInv, Types, Empty, Entry
  <1>5. HasEntry'
    BY <1>1, <1>2, <1>3 DEF HasEntry, IInv
  <1>6. EntryCorrect'
    <2> SUFFICES ASSUME NEW d \in DOMAIN entries
                 PROVE  /\ entries'[d].thread \in Agents =>
                             \/ Noted(entries'[d].thread) /\ entries'[d].thread # a
                             \/ d = 0 /\ entries'[d].thread \in At("claim")
                        /\ entries'[d].thread = NULL => entries'[d].count = 0
                        /\ entries'[d].thread = One => d = 0
                        /\ entries'[d].thread \in Owners \ {a} =>
                             entries'[d].count = hold'[entries'[d].thread].count
                        /\ Waiting(entries'[d].thread) => d # 0 /\ entries'[d].count = 1
      BY <1>1, <1>3 DEF EntryCorrect
    <2>1. CASE d = e
      BY <1>1, <2>1, ResourceAssumption, OwnersFinite DEF Empty, Agents, Waiting
    <2>2. CASE d # e
      BY <1>1, <1>2, <2>2, OwnersFinite DEF IInv, EntryCorrect
    <2> QED
      BY <2>1, <2>2
  <1>7. OneEntry'
    BY <1>1, <1>2 DEF OneEntry, IInv, Empty
  <1> QED
    BY <1>4, <1>5, <1>6, <1>7

LEMMA ReleaseLastStep ==
  ASSUME IInv, NEW t \in Threads, NEW a \in Agents, ReleaseLast(t, a)
  PROVE  IInv'
  <1>1. /\ a \in Owners /\ pc[t] = "idle" /\ ~Waiting(a) /\ a \notin At("claim")
        /\ pc[t] \notin Places /\ t \notin Registering
    BY ReleasingFacts DEF ReleaseLast
  <1>2. PICK e \in DOMAIN entries :
           /\ EntryOf(a) = {e} /\ entries[e] = [thread |-> a, count |-> hold[a].count]
           /\ exclusive => e = 0
    BY ReleasingFacts DEF ReleaseLast
  <1>3. hold[a].count = 1 /\ entries' = [entries EXCEPT ![e] = Empty]
    <2>1. PICK d \in EntryOf(a) : /\ entries[d].count = 1
                                  /\ entries' = [entries EXCEPT ![d] = Empty]
      BY DEF ReleaseLast
    <2> QED
      BY <1>2, <2>1
  <1>4. /\ Owners' = Owners \ {a} /\ Cardinality(Owners') = Cardinality(Owners) - 1
        /\ hold'[a] = Free /\ \A b \in Agents \ {a} : hold'[b] = hold[b]
        /\ hold' \in [Agents -> AllHolds]
        /\ \A b \in Agents : hold'[b] # Free => hold[b] # Free /\ hold'[b] = hold[b]
    BY <1>1, <1>3, LastRelease DEF ReleaseLast
  <1>5. /\ activeEntries' = activeEntries - 1 /\ exclusive' = FALSE
        /\ activeCount' = IF activeEntries = 1 THEN 0 ELSE activeCount
        /\ UNCHANGED <<sharedWaiters, exclusiveWaiters, allocated, semaphore, event,
                       pc, call, local>>
    BY DEF ReleaseLast
  <1>6. /\ \A q \in Places : At(q)' = At(q)
        /\ Registering' = Registering /\ Wakeups' = Wakeups
        /\ SharedGrants' = SharedGrants /\ ExclusiveGrants' = ExclusiveGrants
        /\ \A b : Waiting(b)' <=> Waiting(b)
    BY <1>1, <1>5, Quiet DEF Registering
  <1>7. /\ \E n \in Nat : entries' \in [0 .. n -> Entry]
        /\ HasEntry' /\ EntryCorrect' /\ OneEntry'
    <2>1. entries[e].thread = a
      BY <1>2
    <2>2. At("claim")' = At("claim")
      BY <1>6 DEF Places
    <2>3. \A b : Waiting(b)' <=> Waiting(b)
      BY <1>6
    <2> QED
      BY <1>1, <1>3, <1>4, <2>1, <2>2, <2>3, EntryDropped
  <1>8. /\ activeEntries \in Nat /\ activeEntries > 0 /\ Cardinality(Owners) >= 1
        /\ ExclusiveGrants = 0
    <2>1. Cardinality(Owners) >= 1
      BY <1>1, Counted
    <2>2. ExclusiveGrants = 0
      BY <1>1, Granted, Numbers DEF IInv
    <2>3. activeEntries \in Nat
      BY DEF IInv, Types
    <2> QED
      BY <2>1, <2>2, <2>3, Numbers DEF IInv, Sums
  <1>9. Types'
    <2>1. \E n \in Nat : entries' \in [0 .. n -> Entry]
      BY <1>7
    <2>2. activeEntries' \in Nat /\ activeCount' \in {0, 1}
      BY <1>5, <1>8 DEF IInv, Types
    <2> QED
      BY <1>4, <1>5, <2>1, <2>2 DEF IInv, Types
  <1>10. Sums'
    <2>1. /\ activeEntries = Cardinality(Owners) + Cardinality(Registering)
                               + SharedGrants + ExclusiveGrants
          /\ Cardinality(Owners) \in Nat /\ Cardinality(Registering) \in Nat
          /\ SharedGrants \in Nat /\ ExclusiveGrants \in Nat
          /\ sharedWaiters \in Nat /\ exclusiveWaiters \in Nat
      BY Numbers DEF IInv, Sums, Types
    <2>2. activeEntries' = Cardinality(Owners') + Cardinality(Registering')
                               + SharedGrants' + ExclusiveGrants'
      BY <1>4, <1>5, <1>6, <2>1
    <2>3. activeCount' = (IF activeEntries' > 0 THEN 1 ELSE 0)
      BY <1>5, <1>8 DEF IInv, Sums
    <2>4. CASE activeEntries > 1
      BY <1>5, <1>6, <1>8, <2>1, <2>2, <2>3, <2>4 DEF IInv, Sums, Places
    <2>5. CASE exclusiveWaiters = 0 /\ (exclusive => sharedWaiters = 0)
      <3>1. sharedWaiters = 0
        BY <2>1, <2>5 DEF IInv, Sums
      <3> QED
        BY <1>5, <1>6, <1>8, <2>1, <2>2, <2>3, <2>5, <3>1 DEF IInv, Sums, Places
    <2> QED
      BY <2>4, <2>5 DEF ReleaseLast
  <1>11. \A b \in Agents : hold'[b].mode # "exclusive"
    <2>1. CASE exclusive
      BY <1>1, <1>4, <2>1, Alone DEF Owners, Free
    <2>2. CASE ~exclusive
      BY <1>4, <2>2 DEF IInv, Modes, Owners, Free
    <2> QED
      BY <2>1, <2>2
  <1>12. Modes'
    BY <1>5, <1>6, <1>8, <1>11 DEF Modes, Owners
  <1>13. Callers'
    BY <1>4, <1>5 DEF IInv, Callers, Agents
  <1>14. OwnerEntryCorrect'
    BY <1>6, <1>8, <1>11 DEF OwnerEntryCorrect
  <1> QED
    BY <1>7, <1>9, <1>10, <1>12, <1>13, <1>14 DEF IInv

\* A release that makes all who wait to share the resource its owners.
LEMMA ReleaseToSharedStep ==
  ASSUME IInv, NEW t \in Threads, NEW a \in Agents, ReleaseToShared(t, a)
  PROVE  IInv'
  <1>1. /\ a \in Owners /\ pc[t] = "idle" /\ ~Waiting(a) /\ a \notin At("claim")
        /\ pc[t] \notin Places /\ t \notin Registering
    BY ReleasingFacts DEF ReleaseToShared
  <1>2. PICK e \in DOMAIN entries :
           /\ EntryOf(a) = {e} /\ entries[e] = [thread |-> a, count |-> hold[a].count]
    BY ReleasingFacts DEF ReleaseToShared
  <1>3. hold[a].count = 1 /\ entries' = [entries EXCEPT ![e] = Empty]
    <2>1. PICK d \in EntryOf(a) : /\ entries[d].count = 1
                                  /\ entries' = [entries EXCEPT ![d] = Empty]
      BY DEF ReleaseToShared
    <2> QED
      BY <1>2, <2>1
  <1>4. /\ Owners' = Owners \ {a} /\ Cardinality(Owners') = Cardinality(Owners) - 1
        /\ hold'[a] = Free /\ \A b \in Agents \ {a} : hold'[b] = hold[b]
        /\ hold' \in [Agents -> AllHolds]
        /\ \A b \in Agents : hold'[b] # Free => hold[b] # Free /\ hold'[b] = hold[b]
    BY <1>1, <1>3, LastRelease DEF ReleaseToShared
  <1>5. /\ exclusive /\ sharedWaiters > 0
        /\ exclusive' = FALSE /\ activeEntries' = sharedWaiters /\ sharedWaiters' = 0
        /\ local' = [local EXCEPT ![t] = sharedWaiters]
        /\ pc' = [pc EXCEPT ![t] = "releaseSemaphore"]
        /\ UNCHANGED <<activeCount, exclusiveWaiters, allocated, semaphore, event, call>>
    BY DEF ReleaseToShared
  <1>6. /\ Owners = {a} /\ Cardinality(Owners) = 1
        /\ Cardinality(Registering) = 0 /\ SharedGrants = 0 /\ semaphore = 0
        /\ Cardinality(Wakeups) = 0 /\ ExclusiveGrants = 0 /\ activeEntries = 1
    BY <1>1, <1>5, Alone
  <1>7. /\ At("releaseSemaphore")' = At("releaseSemaphore") \cup {t}
        /\ At("sharedWait")' = At("sharedWait") /\ At("exclusiveWait")' = At("exclusiveWait")
        /\ At("claim")' = At("claim") /\ At("setEvent")' = At("setEvent")
        /\ Registering' = Registering
        /\ \A b : Waiting(b)' <=> Waiting(b)
    BY <1>1, <1>5 DEF IInv, Types, At, Registering, Waiting
  <1>8. sharedWaiters \in Nat
    BY DEF IInv, Types
  <1>9. Cardinality(Wakeups') = sharedWaiters
    BY <1>5, <1>6, <1>7, <1>8, WakeupsAdded DEF IInv, Types
  <1>10. SharedGrants' = sharedWaiters /\ ExclusiveGrants' = ExclusiveGrants
    BY <1>5, <1>6, <1>7, <1>8, <1>9 DEF SharedGrants, ExclusiveGrants
  <1>11. /\ \E n \in Nat : entries' \in [0 .. n -> Entry]
         /\ HasEntry' /\ EntryCorrect' /\ OneEntry'
    <2>1. entries[e].thread = a
      BY <1>2
    <2>2. At("claim")' = At("claim") /\ \A b : Waiting(b)' <=> Waiting(b)
      BY <1>7
    <2> QED
      BY <1>1, <1>3, <1>4, <2>1, <2>2, EntryDropped
  <1>12. Types'
    <2>1. pc' \in [Threads -> AllPlaces] /\ local' \in [Threads -> Nat]
      BY <1>5, <1>8 DEF IInv, Types, AllPlaces
    <2>2. \E n \in Nat : entries' \in [0 .. n -> Entry]
      BY <1>11
    <2> QED
      BY <1>4, <1>5, <1>8, <2>1, <2>2 DEF IInv, Types
  <1>13. Sums'
    <2>1. /\ Cardinality(Owners') = 0 /\ Cardinality(Registering') = 0
          /\ SharedGrants' = sharedWaiters /\ ExclusiveGrants' = 0
      BY <1>4, <1>6, <1>7, <1>10
    <2>2. sharedWaiters + 0 = Cardinality(At("sharedWait")) /\ activeCount = 1
      BY <1>6 DEF IInv, Sums
    <2>3. exclusiveWaiters \in Nat
      BY DEF IInv, Types
    <2> QED
      BY <1>5, <1>6, <1>7, <1>8, <2>1, <2>2, <2>3 DEF Sums, IInv
  <1>14. \A b \in Agents : hold'[b] = Free
    BY <1>4, <1>6 DEF Owners
  <1>15. Modes' /\ OwnerEntryCorrect'
    BY <1>5, <1>6, <1>10, <1>14 DEF Modes, OwnerEntryCorrect, Free, Owners
  <1>16. Callers'
    BY <1>5, <1>14 DEF IInv, Types, Callers, Agents
  <1> QED
    BY <1>11, <1>12, <1>13, <1>15, <1>16 DEF IInv

\* One active entry, and an owner: the owner is the only one.
LEMMA OnlyOwner ==
  ASSUME IInv, activeEntries = 1, NEW a \in Owners
  PROVE  /\ Owners = {a} /\ Cardinality(Owners) = 1 /\ Cardinality(Registering) = 0
         /\ SharedGrants = 0 /\ ExclusiveGrants = 0 /\ At("claim") = {}
         /\ At("setEvent") = {} /\ ~event
         /\ Cardinality(At("setEvent")) = 0 /\ Cardinality(At("claim")) = 0
  <1>1. /\ Cardinality(Owners) \in Nat /\ Cardinality(Registering) \in Nat
        /\ SharedGrants \in Nat /\ ExclusiveGrants \in Nat /\ Cardinality(Owners) >= 1
    BY Numbers, Counted DEF IInv
  <1>2. /\ Cardinality(Owners) = 1 /\ Cardinality(Registering) = 0
        /\ SharedGrants = 0 /\ ExclusiveGrants = 0
    BY <1>1 DEF IInv, Sums
  <1>3. Owners = {a}
    BY <1>2, Counted
  <1>4. /\ Cardinality(At("setEvent")) \in Nat /\ Cardinality(At("claim")) \in Nat
        /\ 0 = Cardinality(At("setEvent")) + Cardinality(At("claim"))
                + (IF event THEN 1 ELSE 0)
    BY <1>2, Numbers DEF IInv
  <1>5. Cardinality(At("setEvent")) = 0 /\ Cardinality(At("claim")) = 0 /\ ~event
    BY <1>4
  <1>6. At("setEvent") = {} /\ At("claim") = {}
    BY <1>5, Counted
  <1> QED
    BY <1>2, <1>3, <1>5, <1>6

\* A release that gives the resource to one who waits for exclusive access.
LEMMA ReleaseToExclusiveStep ==
  ASSUME IInv, NEW t \in Threads, NEW a \in Agents, ReleaseToExclusive(t, a)
  PROVE  IInv'
  <1>1. /\ a \in Owners /\ pc[t] = "idle" /\ ~Waiting(a) /\ a \notin At("claim")
        /\ pc[t] \notin Places /\ t \notin Registering
    BY ReleasingFacts DEF ReleaseToExclusive
  <1>2. PICK e \in DOMAIN entries :
           /\ EntryOf(a) = {e} /\ entries[e] = [thread |-> a, count |-> hold[a].count]
           /\ \A d \in DOMAIN entries : entries[d].thread = a => d = e
    BY ReleasingFacts DEF ReleaseToExclusive
  <1>3. /\ hold[a].count = 1
        /\ entries' = [entries EXCEPT ![e] = Empty, ![0] = [thread |-> One, count |-> 1]]
    <2>1. PICK d \in EntryOf(a) :
             /\ entries[d].count = 1
             /\ entries' = [entries EXCEPT ![d] = Empty, ![0] = [thread |-> One, count |-> 1]]
      BY DEF ReleaseToExclusive
    <2> QED
      BY <1>2, <2>1
  <1>4. /\ Owners' = Owners \ {a} /\ Cardinality(Owners') = Cardinality(Owners) - 1
        /\ hold'[a] = Free /\ \A b \in Agents \ {a} : hold'[b] = hold[b]
        /\ hold' \in [Agents -> AllHolds]
    BY <1>1, <1>3, LastRelease DEF ReleaseToExclusive
  <1>5. /\ activeEntries = 1 /\ exclusiveWaiters > 0
        /\ exclusive' = TRUE /\ exclusiveWaiters' = exclusiveWaiters - 1
        /\ pc' = [pc EXCEPT ![t] = "setEvent"]
        /\ UNCHANGED <<activeEntries, activeCount, sharedWaiters, allocated,
                       semaphore, event, call, local>>
    BY DEF ReleaseToExclusive
  <1>6. /\ Owners = {a} /\ Cardinality(Owners) = 1 /\ Cardinality(Registering) = 0
        /\ SharedGrants = 0 /\ ExclusiveGrants = 0 /\ At("claim") = {} /\ ~event
        /\ Cardinality(At("setEvent")) = 0 /\ Cardinality(At("claim")) = 0
    BY <1>1, <1>5, OnlyOwner
  <1>7. /\ At("releaseSemaphore")' = At("releaseSemaphore")
        /\ At("sharedWait")' = At("sharedWait") /\ At("exclusiveWait")' = At("exclusiveWait")
        /\ At("claim")' = At("claim") /\ At("setEvent")' = At("setEvent") \cup {t}
        /\ t \notin At("setEvent") /\ Registering' = Registering
        /\ \A b : Waiting(b)' <=> Waiting(b)
    BY <1>1, <1>5 DEF IInv, Types, At, Registering, Waiting
  <1>8. Cardinality(At("setEvent")') = 1
    BY <1>6, <1>7, AtFinite, FS_AddElement
  <1>9. Wakeups' = Wakeups
    BY <1>5, <1>7, WakeupsSame
  <1>10. SharedGrants' = 0 /\ ExclusiveGrants' = 1
    BY <1>5, <1>6, <1>7, <1>8, <1>9 DEF SharedGrants, ExclusiveGrants
  <1>11. /\ Owners' = {} /\ \A b \in Agents : hold'[b] = Free
         /\ Cardinality(Owners') = 0
    BY <1>4, <1>6 DEF Owners
  <1>12. 0 \in DOMAIN entries
    BY TableFacts DEF IInv
  <1>13. /\ DOMAIN entries' = DOMAIN entries
         /\ entries'[0] = [thread |-> One, count |-> 1]
         /\ e # 0 => entries'[e] = Empty
         /\ \A d \in DOMAIN entries \ {0, e} : entries'[d] = entries[d]
    BY <1>3, <1>12
  <1>14. Types'
    <2>1. pc' \in [Threads -> AllPlaces]
      BY <1>5 DEF IInv, Types, AllPlaces
    <2>2. \E n \in Nat : entries' \in [0 .. n -> Entry]
      BY <1>3 DEF IInv, Types, Empty, Entry
    <2>3. exclusiveWaiters' \in Nat
      BY <1>5 DEF IInv, Types
    <2> QED
      BY <1>4, <1>5, <2>1, <2>2, <2>3 DEF IInv, Types
  <1>15. Sums'
    <2>1. exclusiveWaiters + 0 = Cardinality(At("exclusiveWait")) + 0
      BY <1>6 DEF IInv, Sums
    <2>2. exclusiveWaiters \in Nat /\ sharedWaiters \in Nat
      BY DEF IInv, Types
    <2>3. sharedWaiters + 0 = Cardinality(At("sharedWait")) /\ activeCount = 1
      BY <1>5, <1>6 DEF IInv, Sums
    <2> QED
      BY <1>5, <1>6, <1>7, <1>10, <1>11, <2>1, <2>2, <2>3 DEF Sums
  <1>16. Modes'
    BY <1>5, <1>10 DEF Modes
  <1>17. Callers'
    BY <1>5, <1>11 DEF IInv, Types, Callers, Agents
  <1>18. \A b \in Agents : Noted(b)' <=> Waiting(b)
    BY <1>7, <1>11 DEF Noted
  <1>19. HasEntry'
    <2> SUFFICES ASSUME NEW b \in Agents, Waiting(b)
                 PROVE  \E d \in DOMAIN entries : entries'[d].thread = b
      BY <1>13, <1>18 DEF HasEntry
    <2>1. PICK d \in DOMAIN entries : entries[d].thread = b
      BY DEF IInv, HasEntry, Noted
    <2>2. d # 0
      BY <2>1 DEF IInv, EntryCorrect
    <2>3. d # e
      BY <1>1, <1>2, <2>1
    <2> QED
      BY <1>13, <2>1, <2>2, <2>3
  <1>20. EntryCorrect'
    <2> SUFFICES ASSUME NEW d \in DOMAIN entries
                 PROVE  /\ entries'[d].thread \in Agents => Waiting(entries'[d].thread)
                        /\ entries'[d].thread = NULL => entries'[d].count = 0
                        /\ entries'[d].thread = One => d = 0
                        /\ Waiting(entries'[d].thread) => d # 0 /\ entries'[d].count = 1
      BY <1>7, <1>11, <1>13, <1>18 DEF EntryCorrect
    <2>1. CASE d = 0
      BY <1>13, <2>1, ResourceAssumption DEF Waiting, Agents
    <2>2. CASE d # 0 /\ d = e
      BY <1>13, <2>2, ResourceAssumption DEF Waiting, Agents, Empty
    <2>3. CASE d # 0 /\ d # e
      <3>1. entries'[d] = entries[d] /\ entries[d].thread # a
        BY <1>2, <1>13, <2>3
      <3> QED
        BY <1>6, <2>3, <3>1 DEF IInv, EntryCorrect, Noted
    <2> QED
      BY <2>1, <2>2, <2>3
  <1>21. OneEntry'
    <2> SUFFICES ASSUME NEW c \in DOMAIN entries, NEW d \in DOMAIN entries, c # d,
                        entries'[c].thread = entries'[d].thread
                 PROVE  entries'[c].thread = NULL
      BY <1>13 DEF OneEntry
    <2>1. \A b \in DOMAIN entries \ {0, e} : entries'[b].thread # One
      BY <1>13 DEF IInv, EntryCorrect
    <2>2. e # 0 => entries'[e].thread = NULL
      BY <1>13 DEF Empty
    <2> QED
      BY <1>13, <2>1, <2>2, ResourceAssumption DEF IInv, OneEntry
  <1>22. OwnerEntryCorrect'
    BY <1>11, <1>13 DEF OwnerEntryCorrect, Free
  <1> QED
    BY <1>14, <1>15, <1>16, <1>17, <1>19, <1>20, <1>21, <1>22 DEF IInv

-----------------------------------------------------------------------------
\* A thread goes to wait.
LEMMA QueueExclusiveStep ==
  ASSUME IInv, NEW t \in Threads, NEW k \in SharedKinds \cup ExclusiveKinds,
         QueueExclusive(t, k)
  PROVE  IInv'
  <1>1. pc[t] \in {"idle", "try"} /\ pc[t] \notin Places /\ t \notin Registering
    BY TryingFacts DEF IInv, QueueExclusive
  <1>2. hold[t] = Free /\ activeEntries # 0
    BY BlockedOwnsNothing DEF QueueExclusive, Blocked
  <1>3. /\ exclusiveWaiters' = exclusiveWaiters + 1
        /\ pc' = [pc EXCEPT ![t] = "exclusiveWait"]
        /\ call' = [call EXCEPT ![t] = [kind |-> k, wait |-> TRUE]]
        /\ UNCHANGED <<entries, exclusive, activeEntries, activeCount, sharedWaiters,
                       allocated, semaphore, event, local, hold>>
    BY DEF QueueExclusive, Go
  <1>4. /\ At("releaseSemaphore")' = At("releaseSemaphore")
        /\ At("sharedWait")' = At("sharedWait")
        /\ At("claim")' = At("claim") /\ At("setEvent")' = At("setEvent")
        /\ At("exclusiveWait")' = At("exclusiveWait") \cup {t} /\ t \notin At("exclusiveWait")
        /\ Registering' = Registering
        /\ \A b : Waiting(b)' <=> Waiting(b)
    BY <1>1, <1>3 DEF IInv, Types, At, Registering, Waiting
  <1>5. Cardinality(At("exclusiveWait")') = Cardinality(At("exclusiveWait")) + 1
    BY <1>4, AtFinite, FS_AddElement
  <1>6. Owners' = Owners /\ Wakeups' = Wakeups
    BY <1>3, <1>4, WakeupsSame DEF Owners
  <1>7. SharedGrants' = SharedGrants /\ ExclusiveGrants' = ExclusiveGrants
    BY <1>3, <1>4, <1>6 DEF SharedGrants, ExclusiveGrants
  <1>8. Types'
    <2>1. pc' \in [Threads -> AllPlaces] /\ call' \in [Threads -> AllCalls]
      BY <1>3 DEF IInv, Types, AllPlaces, AllCalls
    <2> QED
      BY <1>3, <2>1 DEF IInv, Types
  <1>9. Sums'
    <2>1. /\ exclusiveWaiters \in Nat /\ sharedWaiters \in Nat /\ activeEntries \in Nat
          /\ Cardinality(At("exclusiveWait")) \in Nat /\ Cardinality(At("claim")) \in Nat
          /\ ExclusiveGrants \in Nat
      BY Numbers DEF IInv, Types
    <2>2. exclusiveWaiters' + ExclusiveGrants
            = Cardinality(At("exclusiveWait")') + Cardinality(At("claim"))
      BY <1>3, <1>5, <2>1 DEF IInv, Sums
    <2> QED
      BY <1>2, <1>3, <1>4, <1>6, <1>7, <2>1, <2>2 DEF IInv, Sums
  <1>10. Modes'
    BY <1>3, <1>6, <1>7 DEF IInv, Modes
  <1>11. Callers'
    BY <1>2, <1>3 DEF IInv, Callers, Types
  <1>12. \A a : Noted(a)' <=> Noted(a)
    BY <1>4, <1>6 DEF Noted
  <1>13. HasEntry' /\ OneEntry'
    BY <1>3, <1>12 DEF IInv, HasEntry, OneEntry
  <1>14. EntryCorrect'
    BY <1>3, <1>4, <1>6, <1>12 DEF IInv, EntryCorrect
  <1>15. OwnerEntryCorrect'
    BY <1>3, <1>4, <1>7 DEF IInv, OwnerEntryCorrect
  <1> QED
    BY <1>8, <1>9, <1>10, <1>11, <1>13, <1>14, <1>15 DEF IInv

LEMMA QueueSharedStep ==
  ASSUME IInv, NEW t \in Threads, NEW k \in SharedKinds \cup ExclusiveKinds,
         QueueShared(t, k)
  PROVE  IInv'
  <1>1. /\ pc[t] \in {"idle", "try"} /\ pc[t] \notin Places /\ t \notin Registering
        /\ k \in SharedKinds
    BY TryingFacts DEF IInv, QueueShared
  <1>2. hold[t] = Free /\ activeEntries # 0 /\ MustWait(k) /\ FreeEntries(TRUE) # {}
    BY BlockedOwnsNothing DEF QueueShared, Blocked, SharedKinds, ExclusiveKinds
  <1>3. /\ sharedWaiters' = sharedWaiters + 1
        /\ pc' = [pc EXCEPT ![t] = "sharedWait"]
        /\ call' = [call EXCEPT ![t] = [kind |-> k, wait |-> TRUE]]
        /\ UNCHANGED <<exclusive, activeEntries, activeCount, exclusiveWaiters,
                       allocated, semaphore, event, local, hold>>
    BY DEF QueueShared, Go
  <1>4. PICK e \in DOMAIN entries :
           /\ entries[e].thread = NULL /\ e # 0
           /\ entries' = [entries EXCEPT ![e] = [thread |-> t, count |-> 1]]
    BY <1>2, FreeEntryFound DEF QueueShared
  <1>5. \A d \in DOMAIN entries : entries[d].thread # t
    BY <1>1, <1>2, NoEntry DEF Owners, Agents, Places
  <1>6. /\ DOMAIN entries' = DOMAIN entries
        /\ entries'[e] = [thread |-> t, count |-> 1]
        /\ \A d \in DOMAIN entries \ {e} : entries'[d] = entries[d] /\ entries'[d].thread # t
        /\ \E n \in Nat : entries' \in [0 .. n -> Entry]
        /\ OneEntry'
    BY <1>4, <1>5, NotedInFree
  <1>7. /\ At("releaseSemaphore")' = At("releaseSemaphore")
        /\ At("exclusiveWait")' = At("exclusiveWait")
        /\ At("claim")' = At("claim") /\ At("setEvent")' = At("setEvent")
        /\ At("sharedWait")' = At("sharedWait") \cup {t} /\ t \notin At("sharedWait")
        /\ Registering' = Registering
        /\ \A b : Waiting(b)' <=> Waiting(b) \/ b = t
    BY <1>1, <1>3 DEF IInv, Types, At, Registering, Waiting, SharedKinds
  <1>8. Cardinality(At("sharedWait")') = Cardinality(At("sharedWait")) + 1
    BY <1>7, AtFinite, FS_AddElement
  <1>9. Owners' = Owners /\ Wakeups' = Wakeups
    BY <1>3, <1>7, WakeupsSame DEF Owners
  <1>10. SharedGrants' = SharedGrants /\ ExclusiveGrants' = ExclusiveGrants
    BY <1>3, <1>7, <1>9 DEF SharedGrants, ExclusiveGrants
  <1>11. Types'
    <2>1. pc' \in [Threads -> AllPlaces] /\ call' \in [Threads -> AllCalls]
      BY <1>3 DEF IInv, Types, AllPlaces, AllCalls
    <2>2. \E n \in Nat : entries' \in [0 .. n -> Entry]
      BY <1>6
    <2>3. sharedWaiters' \in Nat
      BY <1>3 DEF IInv, Types
    <2> QED
      BY <1>3, <2>1, <2>2, <2>3 DEF IInv, Types
  <1>12. Sums'
    <2>1. /\ exclusiveWaiters \in Nat /\ sharedWaiters \in Nat /\ activeEntries \in Nat
          /\ Cardinality(At("sharedWait")) \in Nat /\ SharedGrants \in Nat
      BY Numbers DEF IInv, Types
    <2>2. sharedWaiters' + SharedGrants = Cardinality(At("sharedWait")')
      BY <1>3, <1>8, <2>1 DEF IInv, Sums
    <2> QED
      BY <1>2, <1>3, <1>7, <1>9, <1>10, <2>1, <2>2 DEF IInv, Sums, MustWait
  <1>13. Modes'
    BY <1>3, <1>9, <1>10 DEF IInv, Modes
  <1>14. Callers'
    BY <1>2, <1>3 DEF IInv, Callers, Types
  <1>15. \A a : Noted(a)' <=> Noted(a) \/ a = t
    BY <1>7, <1>9 DEF Noted
  <1>16. HasEntry'
    BY <1>4, <1>6, <1>15, ResourceAssumption DEF HasEntry, IInv
  <1>17. EntryCorrect'
    <2> SUFFICES ASSUME NEW d \in DOMAIN entries
                 PROVE  /\ entries'[d].thread \in Agents =>
                             \/ Noted(entries'[d].thread) \/ entries'[d].thread = t
                             \/ d = 0 /\ entries'[d].thread \in At("claim")
                        /\ entries'[d].thread = NULL => entries'[d].count = 0
                        /\ entries'[d].thread = One => d = 0
                        /\ entries'[d].thread \in Owners =>
                             entries'[d].count = hold[entries'[d].thread].count
                        /\ Waiting(entries'[d].thread) \/ entries'[d].thread = t =>
                             d # 0 /\ entries'[d].count = 1
      BY <1>3, <1>6, <1>7, <1>9, <1>15 DEF EntryCorrect
    <2>1. CASE d = e
      BY <1>2, <1>4, <1>6, <2>1, ResourceAssumption DEF Owners, Agents
    <2>2. CASE d # e
      BY <1>6, <2>2 DEF IInv, EntryCorrect
    <2> QED
      BY <2>1, <2>2
  <1>18. OwnerEntryCorrect'
    <2>1. entries'[0] = entries[0]
      BY <1>4, <1>6, TableFacts DEF IInv
    <2> QED
      BY <1>3, <1>7, <1>10, <2>1 DEF IInv, OwnerEntryCorrect
  <1> QED
    BY <1>6, <1>11, <1>12, <1>13, <1>14, <1>16, <1>17, <1>18 DEF IInv

LEMMA QueueFirstStep ==
  ASSUME IInv, NEW t \in Threads, NEW k \in SharedKinds \cup ExclusiveKinds,
         QueueFirst(t, k)
  PROVE  IInv'
  <1>1. pc[t] \in {"idle", "try"} /\ pc[t] \notin Places /\ t \notin Registering
    BY TryingFacts DEF IInv, QueueFirst
  <1>2. hold[t] = Free /\ activeEntries # 0 /\ exclusiveWaiters > 0
    BY BlockedOwnsNothing DEF QueueFirst, Blocked, WaitsFirst
  <1>3. /\ sharedWaiters' = sharedWaiters + 1
        /\ pc' = [pc EXCEPT ![t] = "sharedWait"]
        /\ call' = [call EXCEPT ![t] = [kind |-> "register", wait |-> TRUE]]
        /\ UNCHANGED <<entries, exclusive, activeEntries, activeCount, exclusiveWaiters,
                       allocated, semaphore, event, local, hold>>
    BY DEF QueueFirst, Go
  <1>4. /\ At("releaseSemaphore")' = At("releaseSemaphore")
        /\ At("exclusiveWait")' = At("exclusiveWait")
        /\ At("claim")' = At("claim") /\ At("setEvent")' = At("setEvent")
        /\ At("sharedWait")' = At("sharedWait") \cup {t} /\ t \notin At("sharedWait")
        /\ Registering' = Registering
        /\ \A b : Waiting(b)' <=> Waiting(b)
    BY <1>1, <1>3 DEF IInv, Types, At, Registering, Waiting
  <1>5. Cardinality(At("sharedWait")') = Cardinality(At("sharedWait")) + 1
    BY <1>4, AtFinite, FS_AddElement
  <1>6. Owners' = Owners /\ Wakeups' = Wakeups
    BY <1>3, <1>4, WakeupsSame DEF Owners
  <1>7. SharedGrants' = SharedGrants /\ ExclusiveGrants' = ExclusiveGrants
    BY <1>3, <1>4, <1>6 DEF SharedGrants, ExclusiveGrants
  <1>8. Types'
    <2>1. pc' \in [Threads -> AllPlaces] /\ call' \in [Threads -> AllCalls]
      BY <1>3 DEF IInv, Types, AllPlaces, AllCalls
    <2> QED
      BY <1>3, <2>1 DEF IInv, Types
  <1>9. Sums'
    <2>1. /\ exclusiveWaiters \in Nat /\ sharedWaiters \in Nat /\ activeEntries \in Nat
          /\ Cardinality(At("sharedWait")) \in Nat /\ SharedGrants \in Nat
      BY Numbers DEF IInv, Types
    <2>2. sharedWaiters' + SharedGrants = Cardinality(At("sharedWait")')
      BY <1>3, <1>5, <2>1 DEF IInv, Sums
    <2> QED
      BY <1>2, <1>3, <1>4, <1>6, <1>7, <2>1, <2>2 DEF IInv, Sums
  <1>10. Modes'
    BY <1>3, <1>6, <1>7 DEF IInv, Modes
  <1>11. Callers'
    BY <1>2, <1>3 DEF IInv, Callers, Types
  <1>12. \A a : Noted(a)' <=> Noted(a)
    BY <1>4, <1>6 DEF Noted
  <1>13. HasEntry' /\ OneEntry'
    BY <1>3, <1>12 DEF IInv, HasEntry, OneEntry
  <1>14. EntryCorrect'
    BY <1>3, <1>4, <1>6, <1>12 DEF IInv, EntryCorrect
  <1>15. OwnerEntryCorrect'
    BY <1>3, <1>4, <1>7 DEF IInv, OwnerEntryCorrect
  <1> QED
    BY <1>8, <1>9, <1>10, <1>11, <1>13, <1>14, <1>15 DEF IInv

-----------------------------------------------------------------------------
\* The wait ends: the thread was counted among the owners when it was released.
LEMMA TakeSemaphoreStep ==
  ASSUME IInv, NEW t \in Threads, TakeSemaphore(t)
  PROVE  IInv'
  <1>1. /\ pc[t] = "sharedWait" /\ hold[t] = Free /\ t \in Agents
        /\ semaphore > 0 /\ semaphore' = semaphore - 1
        /\ UNCHANGED <<entries, exclusive, activeEntries, activeCount, sharedWaiters,
                       exclusiveWaiters, allocated, event, local>>
    BY DEF IInv, Callers, TakeSemaphore, Agents
  <1>2. /\ semaphore \in Nat /\ SharedGrants = semaphore + Cardinality(Wakeups)
        /\ Cardinality(Wakeups) \in Nat /\ Cardinality(Owners) \in Nat
        /\ Cardinality(Registering) \in Nat /\ SharedGrants \in Nat /\ ExclusiveGrants \in Nat
        /\ Cardinality(At("sharedWait")) \in Nat
    BY Numbers DEF IInv
  <1>3. ~exclusive /\ ExclusiveGrants = 0 /\ \A a \in Owners : hold[a].mode # "exclusive"
    BY <1>1, <1>2, NotExclusive
  <1>4. CASE call[t].kind = "register"
    <2>1. pc' = [pc EXCEPT ![t] = "try"] /\ UNCHANGED <<call, hold>>
      BY <1>4 DEF TakeSemaphore
    <2>2. /\ At("releaseSemaphore")' = At("releaseSemaphore")
          /\ At("exclusiveWait")' = At("exclusiveWait")
          /\ At("claim")' = At("claim") /\ At("setEvent")' = At("setEvent")
          /\ At("sharedWait")' = At("sharedWait") \ {t} /\ t \in At("sharedWait")
          /\ Registering' = Registering \cup {t} /\ t \notin Registering
          /\ \A b : Waiting(b)' <=> Waiting(b)
      BY <1>1, <1>4, <2>1 DEF IInv, Types, At, Registering, Waiting
    <2>3. /\ Cardinality(At("sharedWait")') = Cardinality(At("sharedWait")) - 1
          /\ Cardinality(Registering') = Cardinality(Registering) + 1
      BY <2>2, AtFinite, RegisteringFinite, FS_AddElement, FS_RemoveElement
    <2>4. Owners' = Owners /\ Wakeups' = Wakeups
      BY <1>1, <2>1, <2>2, WakeupsSame DEF Owners
    <2>5. SharedGrants' = SharedGrants - 1 /\ ExclusiveGrants' = ExclusiveGrants
      BY <1>1, <1>2, <2>2, <2>4 DEF SharedGrants, ExclusiveGrants
    <2>6. Types'
      <3>1. pc' \in [Threads -> AllPlaces] /\ semaphore' \in Nat
        BY <1>1, <2>1 DEF IInv, Types, AllPlaces
      <3> QED
        BY <1>1, <2>1, <3>1 DEF IInv, Types
    <2>7. Sums'
      <3>1. activeEntries = Cardinality(Owners) + Cardinality(Registering')
                              + SharedGrants' + ExclusiveGrants
        BY <1>2, <2>3, <2>5 DEF IInv, Sums
      <3>2. sharedWaiters \in Nat /\ sharedWaiters + SharedGrants' = Cardinality(At("sharedWait")')
        BY <1>2, <2>3, <2>5 DEF IInv, Sums, Types
      <3> QED
        BY <1>1, <2>2, <2>4, <2>5, <3>1, <3>2 DEF IInv, Sums
    <2>8. Modes'
      BY <1>1, <2>1, <2>4, <2>5 DEF IInv, Modes
    <2>9. Callers'
      BY <1>1, <2>1 DEF IInv, Callers, Types
    <2>10. \A a : Noted(a)' <=> Noted(a)
      BY <2>2, <2>4 DEF Noted
    <2>11. HasEntry' /\ OneEntry'
      BY <1>1, <2>10 DEF IInv, HasEntry, OneEntry
    <2>12. EntryCorrect'
      BY <1>1, <2>1, <2>2, <2>4, <2>10 DEF IInv, EntryCorrect
    <2>13. OwnerEntryCorrect'
      BY <1>1, <2>1, <2>2, <2>5 DEF IInv, OwnerEntryCorrect
    <2> QED
      BY <2>6, <2>7, <2>8, <2>9, <2>11, <2>12, <2>13 DEF IInv
  <1>5. CASE call[t].kind # "register"
    <2>1. Gets(t, "shared") /\ Return(t) /\ Waiting(t)
      BY <1>1, <1>5 DEF TakeSemaphore, Waiting
    <2>2. /\ At("releaseSemaphore")' = At("releaseSemaphore")
          /\ At("exclusiveWait")' = At("exclusiveWait")
          /\ At("claim")' = At("claim") /\ At("setEvent")' = At("setEvent")
          /\ At("sharedWait")' = At("sharedWait") \ {t} /\ t \in At("sharedWait")
          /\ Registering' = Registering
          /\ \A b : Waiting(b)' <=> Waiting(b) /\ b # t
      BY <1>1, <1>5, <2>1 DEF IInv, Types, At, Registering, Waiting, Return
    <2>3. Cardinality(At("sharedWait")') = Cardinality(At("sharedWait")) - 1
      BY <2>2, AtFinite, FS_RemoveElement
    <2>4. /\ t \notin Owners /\ Owners' = Owners \cup {t}
          /\ Cardinality(Owners') = Cardinality(Owners) + 1
          /\ hold'[t] = [mode |-> "shared", count |-> 1]
          /\ \A b \in Agents \ {t} : hold'[b] = hold[b]
      BY <1>1, <2>1, NewOwner DEF Gets, IInv
    <2>5. Wakeups' = Wakeups
      BY <1>1, <2>2, WakeupsSame
    <2>6. SharedGrants' = SharedGrants - 1 /\ ExclusiveGrants' = ExclusiveGrants
      BY <1>1, <1>2, <2>2, <2>5 DEF SharedGrants, ExclusiveGrants
    <2>7. Types'
      <3>1. hold' \in [Agents -> AllHolds] /\ semaphore' \in Nat
        BY <1>1, <2>1 DEF IInv, Types, Gets, AllHolds
      <3> QED
        BY <1>1, <2>1, <3>1, ReturnTypes DEF IInv, Types
    <2>8. Sums'
      <3>1. activeEntries = Cardinality(Owners') + Cardinality(Registering)
                              + SharedGrants' + ExclusiveGrants
        BY <1>2, <2>4, <2>6 DEF IInv, Sums
      <3>2. sharedWaiters \in Nat /\ sharedWaiters + SharedGrants' = Cardinality(At("sharedWait")')
        BY <1>2, <2>3, <2>6 DEF IInv, Sums, Types
      <3> QED
        BY <1>1, <2>2, <2>6, <3>1, <3>2 DEF IInv, Sums
    <2>9. \A a \in Agents : hold'[a].mode # "exclusive"
      BY <1>3, <2>4 DEF Owners, Free
    <2>10. Modes'
      BY <1>1, <1>3, <2>6, <2>9 DEF Modes, Owners
    <2>11. Callers'
      <3>1. pc'[t] = "idle" /\ \A u \in Threads \ {t} : pc'[u] = pc[u] /\ call'[u] = call[u]
        BY <2>1 DEF IInv, Types, Return
      <3> QED
        BY <1>1, <2>4, <3>1 DEF IInv, Callers, Agents
    <2>12. \A a : Noted(a)' <=> Noted(a)
      BY <2>1, <2>2, <2>4 DEF Noted
    <2>13. HasEntry' /\ OneEntry'
      BY <1>1, <2>12 DEF IInv, HasEntry, OneEntry
    <2>14. EntryCorrect'
      <3> SUFFICES ASSUME NEW d \in DOMAIN entries
                   PROVE  /\ entries[d].thread \in Agents =>
                               \/ Noted(entries[d].thread)
                               \/ d = 0 /\ entries[d].thread \in At("claim")
                          /\ entries[d].thread = NULL => entries[d].count = 0
                          /\ entries[d].thread = One => d = 0
                          /\ entries[d].thread \in Owners' =>
                               entries[d].count = hold'[entries[d].thread].count
                          /\ Waiting(entries[d].thread) => d # 0 /\ entries[d].count = 1
        BY <1>1, <2>2, <2>12 DEF EntryCorrect
      <3>1. entries[d].thread = t => entries[d].count = 1
        BY <2>1 DEF IInv, EntryCorrect
      <3> QED
        BY <2>4, <3>1, OwnersFinite DEF IInv, EntryCorrect
    <2>15. OwnerEntryCorrect'
      BY <1>3, <2>6, <2>9 DEF OwnerEntryCorrect
    <2> QED
      BY <2>7, <2>8, <2>10, <2>11, <2>13, <2>14, <2>15 DEF IInv
  <1> QED
    BY <1>4, <1>5

\* The grant of exclusive access is in one place.
LEMMA OneGrant ==
  ASSUME IInv, ExclusiveGrants > 0
  PROVE  /\ \A t \in At("claim") : At("claim") = {t} /\ At("setEvent") = {} /\ ~event
         /\ \A t \in At("setEvent") : At("setEvent") = {t} /\ At("claim") = {} /\ ~event
         /\ event => At("claim") = {} /\ At("setEvent") = {}
  <1>1. /\ Cardinality(At("setEvent")) \in Nat /\ Cardinality(At("claim")) \in Nat
        /\ 1 = Cardinality(At("setEvent")) + Cardinality(At("claim"))
                + (IF event THEN 1 ELSE 0)
    BY Granted, Numbers DEF IInv
  <1>2. \A q : \A t, u \in At(q) : t # u => Cardinality(At(q)) >= 2
    <2> SUFFICES ASSUME NEW q, NEW t \in At(q), NEW u \in At(q), t # u
                 PROVE  Cardinality(At(q)) >= 2
      OBVIOUS
    <2>1. /\ IsFiniteSet(At(q) \ {t}) /\ Cardinality(At(q) \ {t}) = Cardinality(At(q)) - 1
      BY AtFinite, FS_RemoveElement
    <2>2. Cardinality(At(q) \ {t}) # 0 /\ Cardinality(At(q) \ {t}) \in Nat
      BY <2>1, FS_EmptySet, FS_CardinalityType
    <2> QED
      BY <2>1, <2>2, AtFinite
  <1>3. ASSUME NEW t \in At("claim")
        PROVE  At("claim") = {t} /\ At("setEvent") = {} /\ ~event
    <2>1. Cardinality(At("claim")) = 1 /\ Cardinality(At("setEvent")) = 0 /\ ~event
      BY <1>1, Counted
    <2> QED
      BY <1>2, <2>1, Counted
  <1>4. ASSUME NEW t \in At("setEvent")
        PROVE  At("setEvent") = {t} /\ At("claim") = {} /\ ~event
    <2>1. Cardinality(At("setEvent")) = 1 /\ Cardinality(At("claim")) = 0 /\ ~event
      BY <1>1, Counted
    <2> QED
      BY <1>2, <2>1, Counted
  <1>5. event => At("claim") = {} /\ At("setEvent") = {}
    BY <1>1, Counted
  <1> QED
    BY <1>3, <1>4, <1>5

LEMMA GrantCounted ==
  ASSUME IInv, event \/ At("claim") # {} \/ At("setEvent") # {}
  PROVE  ExclusiveGrants > 0
  <1>1. /\ Cardinality(At("setEvent")) \in Nat /\ Cardinality(At("claim")) \in Nat
        /\ ExclusiveGrants = Cardinality(At("setEvent")) + Cardinality(At("claim"))
                              + (IF event THEN 1 ELSE 0)
    BY Numbers DEF IInv
  <1>2. /\ At("claim") # {} => Cardinality(At("claim")) >= 1
        /\ At("setEvent") # {} => Cardinality(At("setEvent")) >= 1
    BY Counted
  <1> QED
    BY <1>1, <1>2

\* A step that moves the grant on, and may write the name of its thread.
LEMMA GrantMoves ==
  ASSUME IInv, ExclusiveGrants > 0, Types', Callers',
         Registering' = Registering, Wakeups' = Wakeups,
         \A b : Waiting(b)' <=> Waiting(b),
         ExclusiveGrants' = 1,
         At("sharedWait")' = At("sharedWait"),
         Cardinality(At("exclusiveWait")') + Cardinality(At("claim")')
            = Cardinality(At("exclusiveWait")) + Cardinality(At("claim")),
         UNCHANGED <<exclusive, activeEntries, activeCount, sharedWaiters,
                     exclusiveWaiters, semaphore, hold>>,
         DOMAIN entries' = DOMAIN entries,
         \A d \in DOMAIN entries \ {0} : entries'[d] = entries[d],
         entries'[0].count = 1, entries'[0].thread \in {One} \cup At("claim")'
  PROVE  IInv'
  <1>1. /\ exclusive /\ ExclusiveGrants = 1 /\ Owners = {} /\ activeEntries = 1
        /\ \A a \in Agents : hold[a] = Free
    BY Granted
  <1>2. Owners' = Owners
    BY DEF Owners
  <1>3. SharedGrants' = SharedGrants
    BY DEF SharedGrants
  <1>4. Sums'
    BY <1>1, <1>2, <1>3 DEF IInv, Sums
  <1>5. Modes'
    BY <1>1 DEF Modes
  <1>6. \A a : Noted(a)' <=> Waiting(a)
    BY <1>1, <1>2 DEF Noted
  <1>7. 0 \in DOMAIN entries
    BY TableFacts DEF IInv
  <1>8. HasEntry'
    <2> SUFFICES ASSUME NEW b \in Agents, Waiting(b)
                 PROVE  \E d \in DOMAIN entries : entries'[d].thread = b
      BY <1>6 DEF HasEntry
    <2>1. PICK d \in DOMAIN entries : entries[d].thread = b
      BY DEF IInv, HasEntry, Noted
    <2>2. d # 0
      BY <2>1 DEF IInv, EntryCorrect
    <2> QED
      BY <2>1, <2>2
  <1>9. \A a \in At("claim")' : ~Waiting(a) /\ a \in Threads
    BY DEF At, Waiting
  <1>10. EntryCorrect'
    <2> SUFFICES ASSUME NEW d \in DOMAIN entries
                 PROVE  /\ entries'[d].thread \in Agents =>
                             \/ Waiting(entries'[d].thread)
                             \/ d = 0 /\ entries'[d].thread \in At("claim")'
                        /\ entries'[d].thread = NULL => entries'[d].count = 0
                        /\ entries'[d].thread = One => d = 0
                        /\ Waiting(entries'[d].thread) => d # 0 /\ entries'[d].count = 1
      BY <1>1, <1>2, <1>6 DEF EntryCorrect
    <2>1. CASE d = 0
      BY <1>9, <2>1, ResourceAssumption DEF Waiting, Agents
    <2>2. CASE d # 0
      BY <1>1, <2>2 DEF IInv, EntryCorrect, Noted
    <2> QED
      BY <2>1, <2>2
  <1>11. OneEntry'
    <2>1. \A d \in DOMAIN entries \ {0} : entries[d].thread # entries'[0].thread
      <3>1. \A d \in DOMAIN entries \ {0} :
               /\ entries[d].thread # One
               /\ entries[d].thread \in Agents => Waiting(entries[d].thread)
        BY <1>1 DEF IInv, EntryCorrect, Noted
      <3> QED
        BY <1>9, <3>1 DEF Agents
    <2> QED
      BY <1>7, <2>1 DEF IInv, OneEntry
  <1>12. OwnerEntryCorrect'
    BY <1>1 DEF OwnerEntryCorrect, Free
  <1> QED
    BY <1>4, <1>5, <1>8, <1>10, <1>11, <1>12 DEF IInv

LEMMA TakeEventStep ==
  ASSUME IInv, NEW t \in Threads, TakeEvent(t)
  PROVE  IInv'
  <1>1. /\ pc[t] = "exclusiveWait" /\ hold[t] = Free /\ event /\ event' = FALSE
        /\ pc' = [pc EXCEPT ![t] = "claim"]
        /\ UNCHANGED <<entries, exclusive, activeEntries, activeCount, sharedWaiters,
                       exclusiveWaiters, allocated, semaphore, call, local, hold>>
    BY DEF IInv, Callers, TakeEvent
  <1>2. /\ ExclusiveGrants > 0 /\ At("claim") = {} /\ At("setEvent") = {}
    BY <1>1, GrantCounted, OneGrant
  <1>3. /\ At("releaseSemaphore")' = At("releaseSemaphore")
        /\ At("sharedWait")' = At("sharedWait")
        /\ At("exclusiveWait")' = At("exclusiveWait") \ {t} /\ t \in At("exclusiveWait")
        /\ At("claim")' = At("claim") \cup {t} /\ t \notin At("claim")
        /\ At("setEvent")' = At("setEvent")
        /\ Registering' = Registering
        /\ \A b : Waiting(b)' <=> Waiting(b)
    BY <1>1 DEF IInv, Types, At, Registering, Waiting
  <1>4. /\ Cardinality(At("claim")') = Cardinality(At("claim")) + 1
        /\ Cardinality(At("exclusiveWait")') = Cardinality(At("exclusiveWait")) - 1
        /\ Cardinality(At("claim")) = 0 /\ Cardinality(At("setEvent")) = 0
        /\ Cardinality(At("exclusiveWait")) \in Nat
    <2>a. Cardinality(At("claim") \cup {t}) = Cardinality(At("claim")) + 1
      BY <1>3, AtFinite, FS_AddElement
    <2>b. Cardinality(At("exclusiveWait") \ {t}) = Cardinality(At("exclusiveWait")) - 1
      BY <1>3, AtFinite, FS_RemoveElement
    <2>c. Cardinality(At("exclusiveWait")) \in Nat
      BY AtFinite
    <2>d. Cardinality({}) = 0
      BY FS_EmptySet
    <2> QED
      BY <1>2, <1>3, <2>a, <2>b, <2>c, <2>d
  <1>5. Wakeups' = Wakeups
    BY <1>1, <1>3, WakeupsSame
  <1>6. ExclusiveGrants' = 1
    BY <1>1, <1>3, <1>4 DEF ExclusiveGrants
  <1>7. /\ entries[0].count = 1 /\ entries[0].thread \in {One} \cup At("claim")'
    BY <1>2, <1>3 DEF IInv, OwnerEntryCorrect
  <1>8. Types'
    <2>1. pc' \in [Threads -> AllPlaces]
      BY <1>1 DEF IInv, Types, AllPlaces
    <2> QED
      BY <1>1, <2>1 DEF IInv, Types
  <1>9. Callers'
    BY <1>1 DEF IInv, Callers, Types
  <1> QED
    BY <1>1, <1>2, <1>3, <1>4, <1>5, <1>6, <1>7, <1>8, <1>9, GrantMoves

LEMMA SetEventStep ==
  ASSUME IInv, NEW t \in Threads, SetEvent(t)
  PROVE  IInv'
  <1>1. /\ pc[t] = "setEvent" /\ hold[t] = Free /\ event' = TRUE
        /\ pc' = [pc EXCEPT ![t] = "idle"]
        /\ UNCHANGED <<entries, exclusive, activeEntries, activeCount, sharedWaiters,
                       exclusiveWaiters, allocated, semaphore, call, local, hold>>
    BY DEF IInv, Callers, SetEvent
  <1>2. /\ ExclusiveGrants > 0 /\ At("setEvent") = {t} /\ At("claim") = {}
    <2>1. t \in At("setEvent")
      BY <1>1 DEF At
    <2> QED
      BY <2>1, GrantCounted, OneGrant
  <1>3. /\ At("releaseSemaphore")' = At("releaseSemaphore")
        /\ At("sharedWait")' = At("sharedWait")
        /\ At("exclusiveWait")' = At("exclusiveWait")
        /\ At("claim")' = At("claim") /\ At("setEvent")' = At("setEvent") \ {t}
        /\ Registering' = Registering
        /\ \A b : Waiting(b)' <=> Waiting(b)
    BY <1>1 DEF IInv, Types, At, Registering, Waiting
  <1>4. At("setEvent")' = {} /\ Cardinality(At("claim")) = 0
    BY <1>2, <1>3, FS_EmptySet
  <1>5. Wakeups' = Wakeups
    BY <1>1, <1>3, WakeupsSame
  <1>6. ExclusiveGrants' = 1
    BY <1>1, <1>3, <1>4, FS_EmptySet DEF ExclusiveGrants
  <1>7. /\ entries[0].count = 1 /\ entries[0].thread \in {One} \cup At("claim")'
    BY <1>2, <1>3 DEF IInv, OwnerEntryCorrect
  <1>8. Types'
    <2>1. pc' \in [Threads -> AllPlaces]
      BY <1>1 DEF IInv, Types, AllPlaces
    <2> QED
      BY <1>1, <2>1 DEF IInv, Types
  <1>9. Callers'
    BY <1>1 DEF IInv, Callers, Types
  <1> QED
    BY <1>1, <1>2, <1>3, <1>5, <1>6, <1>7, <1>8, <1>9, GrantMoves

LEMMA WakeExclusiveStep ==
  ASSUME IInv, NEW t \in Threads, NEW u \in Threads, WakeExclusive(t, u)
  PROVE  IInv'
  <1>1. /\ pc[t] = "setEvent" /\ pc[u] = "exclusiveWait" /\ hold[t] = Free /\ hold[u] = Free
        /\ entries' = [entries EXCEPT ![0].thread = u]
        /\ pc' = [pc EXCEPT ![t] = "idle", ![u] = "claim"]
        /\ UNCHANGED <<exclusive, activeEntries, activeCount, sharedWaiters,
                       exclusiveWaiters, allocated, semaphore, event, call, local, hold>>
    BY DEF IInv, Callers, WakeExclusive
  <1>2. /\ ExclusiveGrants > 0 /\ At("setEvent") = {t} /\ At("claim") = {} /\ ~event
    <2>1. t \in At("setEvent")
      BY <1>1 DEF At
    <2> QED
      BY <2>1, GrantCounted, OneGrant
  <1>3. /\ At("releaseSemaphore")' = At("releaseSemaphore")
        /\ At("sharedWait")' = At("sharedWait")
        /\ At("exclusiveWait")' = At("exclusiveWait") \ {u} /\ u \in At("exclusiveWait")
        /\ At("claim")' = At("claim") \cup {u} /\ u \notin At("claim")
        /\ At("setEvent")' = At("setEvent") \ {t}
        /\ Registering' = Registering
        /\ \A b : Waiting(b)' <=> Waiting(b)
    BY <1>1 DEF IInv, Types, At, Registering, Waiting
  <1>4. /\ Cardinality(At("claim")') = Cardinality(At("claim")) + 1
        /\ Cardinality(At("exclusiveWait")') = Cardinality(At("exclusiveWait")) - 1
        /\ Cardinality(At("claim")) = 0 /\ Cardinality(At("setEvent")') = 0
        /\ Cardinality(At("exclusiveWait")) \in Nat
    <2>1. At("setEvent")' = {}
      BY <1>2, <1>3
    <2>a. Cardinality(At("claim") \cup {u}) = Cardinality(At("claim")) + 1
      BY <1>3, AtFinite, FS_AddElement
    <2>b. Cardinality(At("exclusiveWait") \ {u}) = Cardinality(At("exclusiveWait")) - 1
      BY <1>3, AtFinite, FS_RemoveElement
    <2>c. Cardinality(At("exclusiveWait")) \in Nat
      BY AtFinite
    <2>d. Cardinality({}) = 0
      BY FS_EmptySet
    <2> QED
      BY <1>2, <1>3, <2>1, <2>a, <2>b, <2>c, <2>d
  <1>5. Wakeups' = Wakeups
    BY <1>1, <1>3, WakeupsSame
  <1>6. ExclusiveGrants' = 1
    BY <1>1, <1>2, <1>3, <1>4 DEF ExclusiveGrants
  <1>7. /\ entries'[0].count = 1 /\ entries'[0].thread = u
        /\ DOMAIN entries' = DOMAIN entries
        /\ \A d \in DOMAIN entries \ {0} : entries'[d] = entries[d]
    <2>1. entries[0].count = 1 /\ 0 \in DOMAIN entries
      BY <1>2, TableFacts DEF IInv, OwnerEntryCorrect
    <2>2. entries[0] \in Entry
      BY <2>1, TableFacts DEF IInv
    <2> QED
      BY <1>1, <2>1, <2>2 DEF Entry
  <1>8. Types'
    <2>1. pc' \in [Threads -> AllPlaces]
      BY <1>1 DEF IInv, Types, AllPlaces
    <2>2. \E n \in Nat : entries' \in [0 .. n -> Entry]
      BY <1>1 DEF IInv, Types, Entry, Agents
    <2> QED
      BY <1>1, <2>1, <2>2 DEF IInv, Types
  <1>9. Callers'
    BY <1>1 DEF IInv, Callers, Types
  <1>10. /\ entries'[0].thread \in {One} \cup At("claim")'
         /\ Cardinality(At("exclusiveWait")') + Cardinality(At("claim")')
              = Cardinality(At("exclusiveWait")) + Cardinality(At("claim"))
    BY <1>3, <1>4, <1>7
  <1> QED
    BY <1>1, <1>2, <1>3, <1>5, <1>6, <1>7, <1>8, <1>9, <1>10, GrantMoves

\* The thread that was given the resource becomes its owner.
LEMMA ClaimStep ==
  ASSUME IInv, NEW t \in Threads, Claim(t)
  PROVE  IInv'
  <1>1. /\ pc[t] = "claim" /\ hold[t] = Free /\ t \in Agents /\ t \in At("claim")
        /\ entries' = [entries EXCEPT ![0].thread = t]
        /\ Gets(t, "exclusive") /\ Return(t)
        /\ UNCHANGED <<exclusive, activeEntries, activeCount, sharedWaiters,
                       exclusiveWaiters, allocated, semaphore, event, local>>
    BY DEF IInv, Callers, Claim, Agents, At
  <1>2. /\ ExclusiveGrants > 0 /\ At("claim") = {t} /\ At("setEvent") = {} /\ ~event
    BY <1>1, GrantCounted, OneGrant
  <1>3. /\ exclusive /\ ExclusiveGrants = 1 /\ Owners = {} /\ Cardinality(Owners) = 0
        /\ Cardinality(Registering) = 0 /\ SharedGrants = 0 /\ activeEntries = 1
        /\ \A a \in Agents : hold[a] = Free
    BY <1>2, Granted
  <1>4. /\ At("releaseSemaphore")' = At("releaseSemaphore")
        /\ At("sharedWait")' = At("sharedWait") /\ At("exclusiveWait")' = At("exclusiveWait")
        /\ At("claim")' = {} /\ At("setEvent")' = {}
        /\ Registering' = Registering
        /\ \A b : Waiting(b)' <=> Waiting(b)
    BY <1>1, <1>2 DEF IInv, Types, At, Registering, Waiting, Return
  <1>5. /\ Owners' = {t} /\ Cardinality(Owners') = 1
        /\ hold'[t] = [mode |-> "exclusive", count |-> 1]
        /\ \A b \in Agents \ {t} : hold'[b] = Free
    <2>1. /\ Owners' = Owners \cup {t} /\ Cardinality(Owners') = Cardinality(Owners) + 1
          /\ hold'[t] = [mode |-> "exclusive", count |-> 1]
          /\ \A b \in Agents \ {t} : hold'[b] = hold[b]
      BY <1>1, NewOwner DEF Gets, IInv
    <2> QED
      BY <1>3, <2>1
  <1>6. Wakeups' = Wakeups
    BY <1>1, <1>4, WakeupsSame
  <1>7. /\ SharedGrants' = 0 /\ ExclusiveGrants' = 0 /\ Cardinality(At("claim")') = 0
        /\ Cardinality(At("claim")) = 1
    <2>1. Cardinality({}) = 0 /\ Cardinality({t}) = 1
      BY FS_EmptySet, FS_Singleton
    <2> QED
      BY <1>1, <1>2, <1>3, <1>4, <1>6, <2>1 DEF SharedGrants, ExclusiveGrants
  <1>8. /\ entries'[0] = [thread |-> t, count |-> 1] /\ 0 \in DOMAIN entries
        /\ DOMAIN entries' = DOMAIN entries
        /\ \A d \in DOMAIN entries \ {0} : entries'[d] = entries[d]
    <2>1. entries[0].count = 1 /\ 0 \in DOMAIN entries
      BY <1>2, TableFacts DEF IInv, OwnerEntryCorrect
    <2>2. entries[0] \in Entry
      BY <2>1, TableFacts DEF IInv
    <2> QED
      BY <1>1, <2>1, <2>2 DEF Entry
  <1>9. Types'
    <2>1. hold' \in [Agents -> AllHolds]
      BY <1>1 DEF IInv, Types, Gets, AllHolds
    <2>2. \E n \in Nat : entries' \in [0 .. n -> Entry]
      BY <1>1 DEF IInv, Types, Entry
    <2> QED
      BY <1>1, <2>1, <2>2, ReturnTypes DEF IInv, Types
  <1>10. Sums'
    <2>1. /\ exclusiveWaiters + 1 = Cardinality(At("exclusiveWait")) + 1
          /\ sharedWaiters + 0 = Cardinality(At("sharedWait"))
          /\ activeCount = 1
      BY <1>3, <1>7 DEF IInv, Sums
    <2>2. /\ exclusiveWaiters \in Nat /\ sharedWaiters \in Nat
          /\ Cardinality(At("exclusiveWait")) \in Nat
      BY Numbers DEF IInv, Types
    <2> QED
      BY <1>1, <1>3, <1>4, <1>5, <1>7, <2>1, <2>2 DEF Sums
  <1>11. Modes'
    BY <1>1, <1>3, <1>5 DEF Modes
  <1>12. Callers'
    <2>1. pc'[t] = "idle" /\ \A u \in Threads \ {t} : pc'[u] = pc[u] /\ call'[u] = call[u]
      BY <1>1 DEF IInv, Types, Return
    <2> QED
      BY <1>1, <1>5, <2>1 DEF IInv, Callers, Agents
  <1>13. \A a : Noted(a)' <=> Waiting(a) \/ a = t
    BY <1>4, <1>5 DEF Noted
  <1>14. \A d \in DOMAIN entries \ {0} :
            /\ entries[d].thread # One
            /\ entries[d].thread \in Agents => Waiting(entries[d].thread)
            /\ entries[d].thread # t
    BY <1>1, <1>3 DEF IInv, EntryCorrect, Noted, Waiting
  <1>15. HasEntry'
    <2> SUFFICES ASSUME NEW b \in Agents, Waiting(b) \/ b = t
                 PROVE  \E d \in DOMAIN entries : entries'[d].thread = b
      BY <1>8, <1>13 DEF HasEntry
    <2>1. CASE b = t
      BY <1>8, <2>1
    <2>2. CASE Waiting(b)
      <3>1. PICK d \in DOMAIN entries : entries[d].thread = b
        BY <2>2 DEF IInv, HasEntry, Noted
      <3>2. d # 0
        BY <2>2, <3>1 DEF IInv, EntryCorrect
      <3> QED
        BY <1>8, <3>1, <3>2
    <2> QED
      BY <2>1, <2>2
  <1>16. EntryCorrect'
    <2> SUFFICES ASSUME NEW d \in DOMAIN entries
                 PROVE  /\ entries'[d].thread \in Agents =>
                             Waiting(entries'[d].thread) \/ entries'[d].thread = t
                        /\ entries'[d].thread = NULL => entries'[d].count = 0
                        /\ entries'[d].thread = One => d = 0
                        /\ entries'[d].thread = t =>
                             entries'[d].count = hold'[entries'[d].thread].count
                        /\ Waiting(entries'[d].thread) => d # 0 /\ entries'[d].count = 1
      BY <1>4, <1>5, <1>8, <1>13 DEF EntryCorrect
    <2>1. CASE d = 0
      BY <1>1, <1>5, <1>8, <2>1, ResourceAssumption DEF Waiting, Agents
    <2>2. CASE d # 0
      BY <1>8, <1>14, <2>2 DEF IInv, EntryCorrect
    <2> QED
      BY <2>1, <2>2
  <1>17. OneEntry'
    BY <1>8, <1>14 DEF IInv, OneEntry
  <1>18. OwnerEntryCorrect'
    BY <1>5, <1>7, <1>8 DEF OwnerEntryCorrect, Free
  <1> QED
    BY <1>9, <1>10, <1>11, <1>12, <1>15, <1>16, <1>17, <1>18 DEF IInv

LEMMA RegisterStep ==
  ASSUME IInv, NEW t \in Threads, Register(t)
  PROVE  IInv'
  <1>1. /\ pc[t] = "try" /\ call[t].kind = "register" /\ hold[t] = Free /\ t \in Agents
        /\ FreeEntries(TRUE) # {} /\ Gets(t, "shared") /\ Return(t)
        /\ UNCHANGED <<exclusive, activeEntries, activeCount, sharedWaiters,
                       exclusiveWaiters, allocated, semaphore, event, local>>
    BY DEF IInv, Callers, Register, Agents
  <1>2. t \in Registering
    BY <1>1 DEF Registering
  <1>3. /\ Cardinality(Owners) \in Nat /\ Cardinality(Registering) \in Nat
        /\ Cardinality(Registering) >= 1 /\ SharedGrants \in Nat /\ ExclusiveGrants \in Nat
    BY <1>2, Numbers, Counted DEF IInv
  <1>4. ~exclusive /\ ExclusiveGrants = 0 /\ \A a \in Owners : hold[a].mode # "exclusive"
    BY <1>3, NotExclusive
  <1>5. /\ At("releaseSemaphore")' = At("releaseSemaphore")
        /\ At("sharedWait")' = At("sharedWait") /\ At("exclusiveWait")' = At("exclusiveWait")
        /\ At("claim")' = At("claim") /\ At("setEvent")' = At("setEvent")
        /\ Registering' = Registering \ {t}
        /\ \A b : Waiting(b)' <=> Waiting(b)
    BY <1>1 DEF IInv, Types, At, Registering, Waiting, Return
  <1>6. Cardinality(Registering') = Cardinality(Registering) - 1
    BY <1>2, <1>5, RegisteringFinite, FS_RemoveElement
  <1>7. /\ t \notin Owners /\ Owners' = Owners \cup {t}
        /\ Cardinality(Owners') = Cardinality(Owners) + 1
        /\ hold'[t] = [mode |-> "shared", count |-> 1]
        /\ \A b \in Agents \ {t} : hold'[b] = hold[b]
    BY <1>1, NewOwner DEF Gets, IInv
  <1>8. Wakeups' = Wakeups
    BY <1>1, <1>5, WakeupsSame
  <1>9. SharedGrants' = SharedGrants /\ ExclusiveGrants' = ExclusiveGrants
    BY <1>1, <1>5, <1>8 DEF SharedGrants, ExclusiveGrants
  <1>10. PICK e \in DOMAIN entries :
            /\ entries[e].thread = NULL /\ e # 0
            /\ entries' = [entries EXCEPT ![e] = [thread |-> t, count |-> 1]]
    BY <1>1, FreeEntryFound DEF Register
  <1>11. \A d \in DOMAIN entries : entries[d].thread # t
    BY <1>1, <1>7, NoEntry
  <1>12. /\ DOMAIN entries' = DOMAIN entries
         /\ entries'[e] = [thread |-> t, count |-> 1]
         /\ \A d \in DOMAIN entries \ {e} : entries'[d] = entries[d] /\ entries'[d].thread # t
         /\ \E n \in Nat : entries' \in [0 .. n -> Entry]
         /\ OneEntry'
    BY <1>10, <1>11, NotedInFree
  <1>13. Types'
    <2>1. hold' \in [Agents -> AllHolds]
      BY <1>1 DEF IInv, Types, Gets, AllHolds
    <2>2. \E n \in Nat : entries' \in [0 .. n -> Entry]
      BY <1>12
    <2> QED
      BY <1>1, <2>1, <2>2, ReturnTypes DEF IInv, Types
  <1>14. Sums'
    <2>1. activeEntries = Cardinality(Owners') + Cardinality(Registering')
                            + SharedGrants + ExclusiveGrants
      BY <1>3, <1>6, <1>7 DEF IInv, Sums
    <2> QED
      BY <1>1, <1>5, <1>9, <2>1 DEF IInv, Sums
  <1>15. \A a \in Agents : hold'[a].mode # "exclusive"
    BY <1>4, <1>7 DEF Owners, Free
  <1>16. Modes'
    BY <1>1, <1>4, <1>9, <1>15 DEF Modes, Owners
  <1>17. Callers'
    <2>1. pc'[t] = "idle" /\ \A u \in Threads \ {t} : pc'[u] = pc[u] /\ call'[u] = call[u]
      BY <1>1 DEF IInv, Types, Return
    <2> QED
      BY <1>1, <1>7, <2>1 DEF IInv, Callers, Agents
  <1>18. \A a : Noted(a)' <=> Noted(a) \/ a = t
    BY <1>5, <1>7 DEF Noted
  <1>19. HasEntry'
    BY <1>10, <1>12, <1>18, ResourceAssumption DEF HasEntry, IInv
  <1>20. EntryCorrect'
    <2> SUFFICES ASSUME NEW d \in DOMAIN entries
                 PROVE  /\ entries'[d].thread \in Agents =>
                             \/ Noted(entries'[d].thread) \/ entries'[d].thread = t
                             \/ d = 0 /\ entries'[d].thread \in At("claim")
                        /\ entries'[d].thread = NULL => entries'[d].count = 0
                        /\ entries'[d].thread = One => d = 0
                        /\ entries'[d].thread \in Owners' =>
                             entries'[d].count = hold'[entries'[d].thread].count
                        /\ Waiting(entries'[d].thread) => d # 0 /\ entries'[d].count = 1
      BY <1>5, <1>12, <1>18 DEF EntryCorrect
    <2>1. CASE d = e
      BY <1>1, <1>7, <1>12, <2>1, ResourceAssumption DEF Waiting
    <2>2. CASE d # e
      BY <1>7, <1>12, <2>2, OwnersFinite DEF IInv, EntryCorrect
    <2> QED
      BY <2>1, <2>2
  <1>21. OwnerEntryCorrect'
    BY <1>4, <1>9, <1>15 DEF OwnerEntryCorrect
  <1> QED
    BY <1>12, <1>13, <1>14, <1>16, <1>17, <1>19, <1>20, <1>21 DEF IInv

LEMMA ReleaseSemaphoreStep ==
  ASSUME IInv, NEW t \in Threads, ReleaseSemaphore(t)
  PROVE  IInv'
  <1>1. /\ pc[t] = "releaseSemaphore" /\ semaphore' = semaphore + local[t]
        /\ local' = [local EXCEPT ![t] = 0] /\ pc' = [pc EXCEPT ![t] = "idle"]
        /\ UNCHANGED <<entries, exclusive, activeEntries, activeCount, sharedWaiters,
                       exclusiveWaiters, allocated, event, call, hold>>
    BY DEF ReleaseSemaphore
  <1>2. /\ At("releaseSemaphore")' = At("releaseSemaphore") \ {t}
        /\ t \in At("releaseSemaphore")
        /\ At("sharedWait")' = At("sharedWait") /\ At("exclusiveWait")' = At("exclusiveWait")
        /\ At("claim")' = At("claim") /\ At("setEvent")' = At("setEvent")
        /\ Registering' = Registering
        /\ \A b : Waiting(b)' <=> Waiting(b)
    BY <1>1 DEF IInv, Types, At, Registering, Waiting
  <1>3. Cardinality(Wakeups') = Cardinality(Wakeups) - local[t]
    BY <1>1, <1>2, WakeupsRemoved DEF IInv, Types
  <1>4. /\ Cardinality(Wakeups) \in Nat /\ semaphore \in Nat /\ local[t] \in Nat
    BY Numbers DEF IInv, Types
  <1>5. SharedGrants' = SharedGrants /\ ExclusiveGrants' = ExclusiveGrants
    BY <1>1, <1>2, <1>3, <1>4 DEF SharedGrants, ExclusiveGrants
  <1>6. Owners' = Owners
    BY <1>1 DEF Owners
  <1>7. Types'
    <2>1. pc' \in [Threads -> AllPlaces] /\ local' \in [Threads -> Nat]
      BY <1>1 DEF IInv, Types, AllPlaces
    <2>2. semaphore' \in Nat
      BY <1>1, <1>4
    <2> QED
      BY <1>1, <2>1, <2>2 DEF IInv, Types
  <1>8. Sums'
    BY <1>1, <1>2, <1>5, <1>6 DEF IInv, Sums
  <1>9. Modes'
    BY <1>1, <1>5, <1>6 DEF IInv, Modes
  <1>10. Callers'
    BY <1>1 DEF IInv, Callers, Types
  <1>11. \A a : Noted(a)' <=> Noted(a)
    BY <1>2, <1>6 DEF Noted
  <1>12. HasEntry' /\ OneEntry'
    BY <1>1, <1>11 DEF IInv, HasEntry, OneEntry
  <1>13. EntryCorrect'
    BY <1>1, <1>2, <1>6, <1>11 DEF IInv, EntryCorrect
  <1>14. OwnerEntryCorrect'
    BY <1>1, <1>2, <1>5 DEF IInv, OwnerEntryCorrect
  <1> QED
    BY <1>7, <1>8, <1>9, <1>10, <1>12, <1>13, <1>14 DEF IInv

-----------------------------------------------------------------------------
\* The owner shares what it had exclusively, with all who wait to.
LEMMA ConvertStep ==
  ASSUME IInv, NEW t \in Threads, Convert(t)
  PROVE  IInv'
  <1>1. /\ pc[t] = "idle" /\ hold[t].mode = "exclusive" /\ t \in Agents /\ t \in Owners
        /\ exclusive' = FALSE /\ activeEntries' = activeEntries + sharedWaiters
        /\ local' = [local EXCEPT ![t] = sharedWaiters] /\ sharedWaiters' = 0
        /\ pc' = [pc EXCEPT ![t] = IF sharedWaiters > 0 THEN "releaseSemaphore" ELSE @]
        /\ hold' = [hold EXCEPT ![t].mode = "shared"]
        /\ UNCHANGED <<entries, activeCount, exclusiveWaiters, allocated, semaphore,
                       event, call>>
    BY DEF Convert, Agents, Owners, Free
  <1>2. exclusive
    BY <1>1 DEF IInv, Modes
  <1>3. /\ Owners = {t} /\ Cardinality(Owners) = 1
        /\ Cardinality(Registering) = 0 /\ SharedGrants = 0 /\ semaphore = 0
        /\ Cardinality(Wakeups) = 0 /\ ExclusiveGrants = 0 /\ activeEntries = 1
    BY <1>1, <1>2, Alone
  <1>4. /\ hold'[t] = [mode |-> "shared", count |-> hold[t].count]
        /\ \A b \in Agents \ {t} : hold'[b] = hold[b] /\ hold[b] = Free
        /\ hold[t].count \in Nat /\ hold[t].count > 0
    <2>1. \A b \in Agents \ {t} : hold[b] = Free
      BY <1>3 DEF Owners
    <2>2. hold[t] \in AllHolds /\ hold[t].count > 0
      BY <1>1 DEF IInv, Types, Callers, Owners
    <2>3. \A b \in Agents \ {t} : hold'[b] = hold[b]
      BY <1>1 DEF IInv, Types
    <2>4. hold'[t] = [hold[t] EXCEPT !.mode = "shared"]
      BY <1>1 DEF IInv, Types
    <2> QED
      BY <2>1, <2>2, <2>3, <2>4 DEF AllHolds
  <1>5. Owners' = {t} /\ Cardinality(Owners') = 1
    BY <1>1, <1>3, <1>4 DEF Owners, Free
  <1>6. /\ At("sharedWait")' = At("sharedWait") /\ At("exclusiveWait")' = At("exclusiveWait")
        /\ At("claim")' = At("claim") /\ At("setEvent")' = At("setEvent")
        /\ Registering' = Registering
        /\ \A b : Waiting(b)' <=> Waiting(b)
    BY <1>1 DEF IInv, Types, At, Registering, Waiting
  <1>7. sharedWaiters \in Nat
    BY DEF IInv, Types
  <1>8. Cardinality(Wakeups') = sharedWaiters
    <2>1. CASE sharedWaiters > 0
      <3>1. At("releaseSemaphore")' = At("releaseSemaphore") \cup {t}
        BY <1>1, <2>1 DEF IInv, Types, At
      <3> QED
        BY <1>1, <1>3, <1>7, <3>1, WakeupsAdded DEF IInv, Types
    <2>2. CASE ~(sharedWaiters > 0)
      <3>1. /\ At("releaseSemaphore")' = At("releaseSemaphore")
            /\ \A u \in At("releaseSemaphore") : local'[u] = local[u]
        BY <1>1, <2>2 DEF IInv, Types, At
      <3> QED
        BY <1>3, <1>7, <2>2, <3>1, WakeupsSame
    <2> QED
      BY <2>1, <2>2
  <1>9. SharedGrants' = sharedWaiters /\ ExclusiveGrants' = 0
    BY <1>1, <1>3, <1>6, <1>7, <1>8 DEF SharedGrants, ExclusiveGrants
  <1>10. Types'
    <2>1. pc' \in [Threads -> AllPlaces] /\ local' \in [Threads -> Nat]
      BY <1>1, <1>7 DEF IInv, Types, AllPlaces
    <2>2. hold' \in [Agents -> AllHolds]
      BY <1>1 DEF IInv, Types, AllHolds
    <2>3. activeEntries' \in Nat
      BY <1>1, <1>3, <1>7
    <2> QED
      BY <1>1, <2>1, <2>2, <2>3 DEF IInv, Types
  <1>11. Sums'
    <2>1. /\ sharedWaiters + 0 = Cardinality(At("sharedWait")) /\ activeCount = 1
          /\ exclusiveWaiters + 0 = Cardinality(At("exclusiveWait")) + Cardinality(At("claim"))
      BY <1>3 DEF IInv, Sums
    <2>2. exclusiveWaiters \in Nat
      BY DEF IInv, Types
    <2> QED
      BY <1>1, <1>3, <1>5, <1>6, <1>7, <1>9, <2>1, <2>2 DEF Sums
  <1>12. \A a \in Agents : hold'[a].mode # "exclusive"
    BY <1>4 DEF Free
  <1>13. Modes' /\ OwnerEntryCorrect'
    BY <1>1, <1>9, <1>12 DEF Modes, OwnerEntryCorrect, Owners
  <1>14. Callers'
    <2>1. /\ pc'[t] \in {"idle", "releaseSemaphore"}
          /\ \A u \in Threads \ {t} : pc'[u] = pc[u] /\ call'[u] = call[u]
      BY <1>1 DEF IInv, Types
    <2> QED
      BY <1>4, <2>1 DEF IInv, Callers, Agents
  <1>15. \A a : Noted(a)' <=> Noted(a)
    BY <1>3, <1>5, <1>6 DEF Noted
  <1>16. HasEntry' /\ OneEntry'
    BY <1>1, <1>15 DEF IInv, HasEntry, OneEntry
  <1>17. EntryCorrect'
    <2>1. \A a \in Owners : hold'[a].count = hold[a].count
      BY <1>3, <1>4
    <2> QED
      BY <1>1, <1>3, <1>5, <1>6, <1>15, <2>1 DEF IInv, EntryCorrect
  <1> QED
    BY <1>10, <1>11, <1>13, <1>14, <1>16, <1>17 DEF IInv

\* The thread leaves its ownership to a pointer.
LEMMA SetOwnerPointerStep ==
  ASSUME IInv, NEW t \in Threads, NEW p \in Pointers, SetOwnerPointer(t, p)
  PROVE  IInv'
  <1>1. /\ pc[t] = "idle" /\ t \in Owners /\ t \in Agents /\ p \in Agents /\ p \notin Threads
        /\ t # p /\ pc' = [pc EXCEPT ![t] = "left"]
        /\ hold' = [hold EXCEPT ![t] = Free,
                                ![p] = [mode |-> hold[t].mode,
                                        count |-> hold[t].count + @.count]]
        /\ UNCHANGED <<exclusive, activeCount, sharedWaiters, exclusiveWaiters,
                       allocated, semaphore, event, call, local>>
    BY ResourceAssumption DEF SetOwnerPointer, Agents, Owners
  <1>2. PICK e \in DOMAIN entries :
           /\ EntryOf(t) = {e} /\ entries[e] = [thread |-> t, count |-> hold[t].count]
           /\ \A d \in DOMAIN entries : entries[d].thread = t => d = e
           /\ exclusive => e = 0
    BY <1>1, OwnEntry
  <1>3. /\ hold[t] \in AllHolds /\ hold[p] \in AllHolds
        /\ hold[t].mode # "none" /\ hold[t].count > 0
    BY <1>1 DEF IInv, Types, Callers, Owners
  <1>4. /\ hold'[t] = Free
        /\ hold'[p] = [mode |-> hold[t].mode, count |-> hold[t].count + hold[p].count]
        /\ \A b \in Agents \ {t, p} : hold'[b] = hold[b]
    BY <1>1 DEF IInv, Types
  <1>5. hold[t].count \in Nat /\ hold[p].count \in Nat
    BY <1>3 DEF AllHolds
  <1>6. Owners' = (Owners \ {t}) \cup {p}
    <2>1. hold'[p].mode # "none" /\ hold'[p] # Free
      BY <1>3, <1>4 DEF Free
    <2>2. \A a : a \in Owners' <=> a \in Agents /\ hold'[a] # Free
      BY DEF Owners
    <2>3. \A a : a \in Owners <=> a \in Agents /\ hold[a] # Free
      BY DEF Owners
    <2> QED
      BY <1>1, <1>4, <2>1, <2>2, <2>3
  <1>7. /\ \A q \in Places : At(q)' = At(q)
        /\ Registering' = Registering /\ Wakeups' = Wakeups
        /\ SharedGrants' = SharedGrants /\ ExclusiveGrants' = ExclusiveGrants
        /\ \A a : Waiting(a)' <=> Waiting(a)
    <2>1. /\ pc[t] \notin Places /\ pc'[t] \notin Places
          /\ t \notin Registering /\ t \notin Registering'
          /\ \A u \in Threads \ {t} : pc'[u] = pc[u] /\ call'[u] = call[u] /\ local'[u] = local[u]
      BY <1>1 DEF IInv, Types, Places, Registering
    <2> QED
      BY <1>1, <2>1, Quiet
  <1>8. /\ ExclusiveGrants = 0 /\ ~Waiting(t) /\ ~Waiting(p)
        /\ t \notin At("claim") /\ p \notin At("claim")
    <2>1. ExclusiveGrants = 0
      BY <1>1, Granted, Numbers DEF IInv
    <2> QED
      BY <1>1, <2>1 DEF Waiting, At
  <1>9. /\ hold' \in [Agents -> AllHolds] /\ pc' \in [Threads -> AllPlaces]
    <2>1. hold' = [b \in Agents |-> hold'[b]]
      BY <1>1 DEF IInv, Types
    <2>2. hold'[t] \in AllHolds /\ hold'[p] \in AllHolds
      BY <1>3, <1>4, <1>5 DEF Free, AllHolds
    <2>3. \A b \in Agents : hold'[b] \in AllHolds
      BY <1>4, <2>2 DEF IInv, Types
    <2> QED
      BY <1>1, <2>1, <2>3 DEF IInv, Types, AllPlaces
  <1>10. Callers'
    <2>1. /\ pc'[t] = "left" /\ \A u \in Threads \ {t} : pc'[u] = pc[u]
          /\ \A u \in Threads \ {t} : hold'[u] = hold[u]
      BY <1>1, <1>4 DEF IInv, Types, Agents
    <2>2. \A u \in Threads : /\ hold'[u] # Free => pc'[u] \in {"idle", "releaseSemaphore"}
                             /\ pc'[u] = "allocate" => call'[u].kind # "register"
      BY <1>1, <1>4, <2>1 DEF IInv, Callers
    <2>3. \A b \in Agents : hold'[b] # Free => hold'[b].mode # "none" /\ hold'[b].count > 0
      BY <1>3, <1>4, <1>5 DEF IInv, Callers
    <2> QED
      BY <2>2, <2>3 DEF Callers
  <1>11. \A a : Noted(a)' <=> (Noted(a) /\ a # t) \/ a = p
    BY <1>1, <1>6, <1>7, <1>8 DEF Noted
  <1>12. CASE EntryOf(p) = {}
    <2>1. entries' = [entries EXCEPT ![e].thread = p] /\ activeEntries' = activeEntries
      BY <1>2, <1>12 DEF SetOwnerPointer
    <2>2. p \notin Owners /\ hold[p] = Free /\ hold[p].count = 0
      <3>1. p \notin Owners
        BY <1>12, OwnEntry
      <3> QED
        BY <1>1, <3>1 DEF Owners, Free
    <2>3. \A d \in DOMAIN entries : entries[d].thread # p
      BY <1>1, <2>2, NoEntry
    <2>4. /\ DOMAIN entries' = DOMAIN entries
          /\ entries'[e] = [thread |-> p, count |-> hold[t].count]
          /\ \A d \in DOMAIN entries \ {e} :
                entries'[d] = entries[d] /\ entries[d].thread # t /\ entries[d].thread # p
      BY <1>2, <2>1, <2>3
    <2>5. Cardinality(Owners') = Cardinality(Owners)
      <3>1. /\ IsFiniteSet(Owners \ {t}) /\ Cardinality(Owners \ {t}) = Cardinality(Owners) - 1
        BY <1>1, OwnersFinite, FS_RemoveElement
      <3>2. Cardinality((Owners \ {t}) \cup {p}) = Cardinality(Owners \ {t}) + 1
        BY <2>2, <3>1, FS_AddElement
      <3> QED
        BY <1>6, <3>1, <3>2, OwnersFinite
    <2>6. Types'
      <3>1. \E n \in Nat : entries' \in [0 .. n -> Entry]
        BY <1>1, <2>1 DEF IInv, Types, Entry
      <3> QED
        BY <1>1, <1>9, <2>1, <3>1 DEF IInv, Types
    <2>7. Sums'
      BY <1>1, <1>7, <2>1, <2>5 DEF IInv, Sums, Places
    <2>8. Modes'
      <3>1. (\E a \in Owners' : hold'[a].mode = "exclusive")
               <=> (\E a \in Owners : hold[a].mode = "exclusive")
        <4>1. \A a \in Owners \ {t} : a # p /\ hold'[a] = hold[a]
          BY <1>4, <2>2, OwnersFinite
        <4>2. hold'[p].mode = hold[t].mode
          BY <1>4
        <4> QED
          BY <1>1, <1>6, <4>1, <4>2
      <3> QED
        BY <1>1, <1>7, <3>1 DEF IInv, Modes
    <2>9. HasEntry'
      BY <1>2, <1>11, <2>4 DEF IInv, HasEntry
    <2>10. EntryCorrect'
      <3> SUFFICES ASSUME NEW d \in DOMAIN entries
                   PROVE  /\ entries'[d].thread \in Agents =>
                               \/ Noted(entries'[d].thread) /\ entries'[d].thread # t
                               \/ entries'[d].thread = p
                               \/ d = 0 /\ entries'[d].thread \in At("claim")
                          /\ entries'[d].thread = NULL => entries'[d].count = 0
                          /\ entries'[d].thread = One => d = 0
                          /\ entries'[d].thread \in (Owners \ {t}) \cup {p} =>
                               entries'[d].count = hold'[entries'[d].thread].count
                          /\ Waiting(entries'[d].thread) => d # 0 /\ entries'[d].count = 1
        BY <1>6, <1>7, <1>11, <2>4 DEF EntryCorrect, Places
      <3>1. CASE d = e
        BY <1>1, <1>4, <1>5, <1>8, <2>2, <2>4, <3>1, ResourceAssumption
      <3>2. CASE d # e
        BY <1>4, <2>4, <3>2, OwnersFinite DEF IInv, EntryCorrect
      <3> QED
        BY <3>1, <3>2
    <2>11. OneEntry'
      BY <2>4 DEF IInv, OneEntry
    <2>12. OwnerEntryCorrect'
      <3>1. \A a \in Agents : hold'[a].mode = "exclusive" => entries'[0].thread = a
        <4> SUFFICES ASSUME NEW a \in Agents, hold'[a].mode = "exclusive"
                     PROVE  entries'[0].thread = a
          OBVIOUS
        <4>1. a # t
          BY <1>4 DEF Free
        <4>2. CASE a = p
          <5>1. exclusive
            BY <1>1, <1>4, <4>2 DEF IInv, Modes
          <5> QED
            BY <1>2, <2>4, <4>2, <5>1
        <4>3. CASE a # p
          <5>1. hold[a].mode = "exclusive" /\ a \in Owners
            BY <1>4, <4>1, <4>3 DEF Owners, Free
          <5>2. exclusive
            BY <5>1 DEF IInv, Modes
          <5> QED
            BY <1>1, <4>1, <5>1, <5>2, Alone
        <4> QED
          BY <4>2, <4>3
      <3> QED
        BY <1>7, <1>8, <3>1 DEF OwnerEntryCorrect
    <2> QED
      BY <1>10, <2>6, <2>7, <2>8, <2>9, <2>10, <2>11, <2>12 DEF IInv
  <1>13. CASE EntryOf(p) # {}
    <2>1. p \in Owners
      BY <1>1, <1>13, NoEntry
    <2>2. ~exclusive
      BY <1>1, <2>1, Alone
    <2>3. PICK f \in DOMAIN entries :
             /\ EntryOf(p) = {f} /\ entries[f] = [thread |-> p, count |-> hold[p].count]
             /\ \A d \in DOMAIN entries : entries[d].thread = p => d = f
      BY <2>1, OwnEntry
    <2>4. Min({f}) = f
      BY TableFacts DEF IInv, Min
    <2>5. e # f
      BY <1>1, <1>2, <2>3
    <2>6. /\ entries' = [entries EXCEPT ![f].count = @ + entries[e].count, ![e] = Empty]
          /\ activeEntries' = activeEntries - 1
      BY <1>2, <1>13, <2>3, <2>4 DEF SetOwnerPointer
    <2>7. /\ DOMAIN entries' = DOMAIN entries
          /\ entries'[f] = [thread |-> p, count |-> hold[t].count + hold[p].count]
          /\ entries'[e] = Empty
          /\ \A d \in DOMAIN entries \ {e, f} :
                entries'[d] = entries[d] /\ entries[d].thread # t /\ entries[d].thread # p
      BY <1>2, <1>5, <2>3, <2>5, <2>6
    <2>8. /\ Owners' = Owners \ {t} /\ Cardinality(Owners') = Cardinality(Owners) - 1
          /\ Cardinality(Owners) >= 2
      <3>1. Cardinality(Owners \ {t}) = Cardinality(Owners) - 1
        BY <1>1, OwnersFinite, FS_RemoveElement
      <3> QED
        BY <1>1, <1>6, <2>1, <3>1, Counted
    <2>9. /\ activeEntries \in Nat /\ activeEntries >= 2
          /\ Cardinality(Owners) \in Nat /\ Cardinality(Registering) \in Nat
          /\ SharedGrants \in Nat /\ ExclusiveGrants \in Nat
          /\ activeEntries = Cardinality(Owners) + Cardinality(Registering)
                               + SharedGrants + ExclusiveGrants
      <3>1. /\ Cardinality(Owners) \in Nat /\ Cardinality(Registering) \in Nat
            /\ SharedGrants \in Nat /\ ExclusiveGrants \in Nat
        BY Numbers DEF IInv
      <3>2. /\ activeEntries \in Nat
            /\ activeEntries = Cardinality(Owners) + Cardinality(Registering)
                                 + SharedGrants + ExclusiveGrants
        BY DEF IInv, Types, Sums
      <3>3. Cardinality(Owners) >= 2
        BY <2>8
      <3>4. activeEntries >= 2
        BY <3>1, <3>2, <3>3
      <3> QED
        BY <3>1, <3>2, <3>4
    <2>10. Types'
      <3>1. entries' \in [DOMAIN entries -> Entry]
        <4>1. Empty \in Entry /\ entries'[f] \in Entry
          BY <1>1, <1>5, <2>7 DEF Empty, Entry
        <4>2. \A d \in DOMAIN entries : entries'[d] \in Entry
          BY <2>7, <4>1, TableFacts DEF IInv
        <4> QED
          BY <2>6, <4>2
      <3>2. \E n \in Nat : entries' \in [0 .. n -> Entry]
        BY <3>1 DEF IInv, Types
      <3>3. activeEntries' \in Nat
        BY <2>6, <2>9
      <3> QED
        BY <1>1, <1>9, <3>2, <3>3 DEF IInv, Types
    <2>11. Sums'
      <3>1. /\ activeEntries' = Cardinality(Owners') + Cardinality(Registering)
                                  + SharedGrants + ExclusiveGrants
            /\ activeEntries' > 0 /\ activeEntries > 0
        BY <2>6, <2>8, <2>9
      <3> QED
        BY <1>1, <1>7, <2>2, <3>1 DEF IInv, Sums, Places
    <2>12. \A a \in Agents : hold'[a].mode # "exclusive"
      <3>1. \A a \in Owners : hold[a].mode # "exclusive"
        BY <2>2 DEF IInv, Modes
      <3>2. \A a \in Agents : hold[a].mode # "exclusive"
        BY <3>1 DEF Owners, Free
      <3>3. hold'[t].mode # "exclusive" /\ hold'[p].mode # "exclusive"
        BY <1>1, <1>4, <3>2 DEF Free
      <3> QED
        BY <1>4, <3>2, <3>3
    <2>13. Modes'
      <3>1. \A a \in Owners' : hold'[a].mode # "exclusive"
        BY <1>1, <1>6, <2>12, OwnersFinite
      <3>2. ExclusiveGrants' = 0 /\ ~exclusive'
        BY <1>1, <1>7, <1>8, <2>2
      <3> QED
        BY <3>1, <3>2 DEF Modes
    <2>17. OwnerEntryCorrect'
      <3>1. ExclusiveGrants' = 0
        BY <1>7, <1>8
      <3> QED
        BY <2>12, <3>1 DEF OwnerEntryCorrect
    <2>14. HasEntry'
      <3> SUFFICES ASSUME NEW a \in Agents, Noted(a)'
                   PROVE  \E d \in DOMAIN entries : entries'[d].thread = a
        BY <2>7 DEF HasEntry
      <3>1. CASE a = p
        BY <2>7, <3>1
      <3>2. CASE a # p
        <4>1. Noted(a) /\ a # t
          BY <1>11, <3>2
        <4>2. PICK d \in DOMAIN entries : entries[d].thread = a
          BY <4>1 DEF IInv, HasEntry
        <4>3. d # e /\ d # f
          BY <1>2, <2>3, <3>2, <4>1, <4>2
        <4> QED
          BY <2>7, <4>2, <4>3
      <3> QED
        BY <3>1, <3>2
    <2>15. EntryCorrect'
      <3> SUFFICES ASSUME NEW d \in DOMAIN entries
                   PROVE  /\ entries'[d].thread \in Agents =>
                               \/ Noted(entries'[d].thread) /\ entries'[d].thread # t
                               \/ entries'[d].thread = p
                               \/ d = 0 /\ entries'[d].thread \in At("claim")
                          /\ entries'[d].thread = NULL => entries'[d].count = 0
                          /\ entries'[d].thread = One => d = 0
                          /\ entries'[d].thread \in (Owners \ {t}) \cup {p} =>
                               entries'[d].count = hold'[entries'[d].thread].count
                          /\ Waiting(entries'[d].thread) => d # 0 /\ entries'[d].count = 1
        BY <1>6, <1>7, <1>11, <2>7 DEF EntryCorrect, Places
      <3>1. CASE d = e
        BY <1>1, <2>7, <3>1, ResourceAssumption, OwnersFinite DEF Empty, Waiting, Agents
      <3>2. CASE d = f
        BY <1>1, <1>4, <1>8, <2>5, <2>7, <3>2, ResourceAssumption
      <3>3. CASE d # e /\ d # f
        BY <1>4, <2>7, <3>3, OwnersFinite DEF IInv, EntryCorrect
      <3> QED
        BY <3>1, <3>2, <3>3
    <2>16. OneEntry'
      BY <2>5, <2>7 DEF IInv, OneEntry, Empty
    <2> QED
      BY <1>10, <2>10, <2>11, <2>13, <2>14, <2>15, <2>16, <2>17 DEF IInv
  <1> QED
    BY <1>12, <1>13

\* A resource nobody uses is as it was in the beginning, but for its table.
LEMMA ReinitializeStep ==
  ASSUME IInv, Reinitialize
  PROVE  IInv'
  <1>1. /\ \A t \in Threads : pc[t] = "idle"
        /\ \A a \in Agents : hold[a] = Free
        /\ entries' = [e \in DOMAIN entries |-> Empty] /\ exclusive' = FALSE
        /\ activeEntries' = 0 /\ activeCount' = 0 /\ sharedWaiters' = 0
        /\ exclusiveWaiters' = 0 /\ semaphore' = 0 /\ event' = FALSE
        /\ UNCHANGED <<allocated, pc, call, local, hold>>
    BY DEF Reinitialize
  <1>2. /\ Owners' = {} /\ Registering' = {} /\ \A q \in Places : At(q)' = {}
        /\ \A a : ~Noted(a)'
    <2>1. Owners' = {}
      BY <1>1 DEF Owners
    <2>2. Registering' = {} /\ \A q \in Places : At(q)' = {}
      BY <1>1 DEF Registering, At, Places
    <2>3. \A a : ~Waiting(a)'
      BY <1>1 DEF Waiting
    <2> QED
      BY <2>1, <2>2, <2>3 DEF Noted
  <1>3. Wakeups' = {}
    BY <1>2 DEF Wakeups, Places
  <1>4. Cardinality({}) = 0
    BY FS_EmptySet
  <1>5. SharedGrants' = 0 /\ ExclusiveGrants' = 0
    BY <1>1, <1>2, <1>3, <1>4 DEF SharedGrants, ExclusiveGrants, Places
  <1>6. Types'
    <2>1. \E n \in Nat : entries' \in [0 .. n -> Entry]
      BY <1>1 DEF IInv, Types, Empty, Entry
    <2> QED
      BY <1>1, <2>1 DEF IInv, Types
  <1>7. Sums'
    <2>1. /\ Cardinality(Owners') = 0 /\ Cardinality(Registering') = 0
          /\ Cardinality(At("sharedWait")') = 0 /\ Cardinality(At("exclusiveWait")') = 0
          /\ Cardinality(At("claim")') = 0
      BY <1>2, <1>4 DEF Places
    <2> QED
      BY <1>1, <1>5, <2>1 DEF Sums
  <1>8. Modes'
    BY <1>1, <1>2, <1>5 DEF Modes
  <1>9. Callers'
    BY <1>1 DEF IInv, Callers
  <1>10. HasEntry' /\ OneEntry'
    BY <1>1, <1>2 DEF HasEntry, OneEntry, Empty
  <1>11. EntryCorrect'
    BY <1>1, <1>2, ResourceAssumption DEF EntryCorrect, Empty, Noted
  <1>12. OwnerEntryCorrect'
    BY <1>1, <1>5 DEF OwnerEntryCorrect, Free
  <1> QED
    BY <1>6, <1>7, <1>8, <1>9, <1>10, <1>11, <1>12 DEF IInv

LEMMA InitIInv ==
  Init => IInv
  <1> SUFFICES ASSUME Init PROVE IInv
    OBVIOUS
  <1>1. Owners = {} /\ Registering = {} /\ \A q \in Places : At(q) = {}
    <2>1. Owners = {}
      BY DEF Init, Owners
    <2>2. \A t \in Threads : pc[t] = "idle"
      BY DEF Init
    <2> QED
      BY <2>1, <2>2 DEF Registering, At, Places
  <1>2. \A a : ~Noted(a)
    BY <1>1 DEF Noted, Waiting, At, Places
  <1>3. Cardinality({}) = 0
    BY FS_EmptySet
  <1>4. Wakeups = {}
    BY <1>1 DEF Wakeups, Places
  <1>5. SharedGrants = 0 /\ ExclusiveGrants = 0
    BY <1>1, <1>3, <1>4 DEF Init, SharedGrants, ExclusiveGrants, Places
  <1>6. Types
    <2>1. Empty \in Entry /\ Free \in AllHolds /\ NoCall \in AllCalls
      BY DEF Empty, Entry, Free, AllHolds, NoCall, AllCalls
    <2>2. 0 \in Nat /\ {0} = 0 .. 0
      OBVIOUS
    <2>3. \E n \in Nat : entries \in [0 .. n -> Entry]
      BY <2>1, <2>2 DEF Init
    <2> QED
      BY <2>1, <2>3 DEF Init, Types, AllPlaces
  <1>7. Sums
    <2>1. /\ Cardinality(Owners) = 0 /\ Cardinality(Registering) = 0
          /\ Cardinality(At("sharedWait")) = 0 /\ Cardinality(At("exclusiveWait")) = 0
          /\ Cardinality(At("claim")) = 0
      BY <1>1, <1>3 DEF Places
    <2> QED
      BY <1>5, <2>1 DEF Init, Sums
  <1>8. Modes
    BY <1>1, <1>5 DEF Init, Modes
  <1>9. Callers
    BY DEF Init, Callers, Agents
  <1>10. HasEntry /\ OneEntry
    BY <1>2 DEF Init, HasEntry, OneEntry, Empty
  <1>11. EntryCorrect
    BY <1>1, <1>2, ResourceAssumption DEF Init, EntryCorrect, Empty, Noted
  <1>12. OwnerEntryCorrect
    BY <1>5 DEF Init, OwnerEntryCorrect, Free
  <1> QED
    BY <1>6, <1>7, <1>8, <1>9, <1>10, <1>11, <1>12 DEF IInv

-----------------------------------------------------------------------------
\* The actions of an acquire, of the rest of a call and of a release.
LEMMA AcquireStep ==
  ASSUME IInv, NEW t \in Threads, Acquire(t)
  PROVE  IInv'
  <1>1. PICK k \in SharedKinds \cup ExclusiveKinds :
           \/ \E w \in BOOLEAN : \/ AcquireFree(t, k, w) \/ AcquireAgain(t, k, w)
                                 \/ Join(t, k, w) \/ Expand(t, k, w)
           \/ Refuse(t, k) \/ Allocate(t, k)
           \/ QueueExclusive(t, k) \/ QueueShared(t, k) \/ QueueFirst(t, k)
    BY DEF Acquire
  <1>2. ASSUME NEW w \in BOOLEAN, AcquireFree(t, k, w) \/ AcquireAgain(t, k, w) \/ Join(t, k, w)
        PROVE  IInv'
    BY <1>2, AcquireFreeStep, AcquireAgainStep, JoinStep
  <1>3. ASSUME NEW w \in BOOLEAN, Expand(t, k, w)
        PROVE  IInv'
    <2>1. k \in SharedKinds
      BY <1>3 DEF Expand
    <2> QED
      BY <1>3, <2>1, ExpandStep
  <1>4. ASSUME \/ Refuse(t, k) \/ Allocate(t, k)
               \/ QueueExclusive(t, k) \/ QueueShared(t, k) \/ QueueFirst(t, k)
        PROVE  IInv'
    BY <1>4, RefuseStep, AllocateStep, QueueExclusiveStep, QueueSharedStep, QueueFirstStep
  <1> QED
    BY <1>1, <1>2, <1>3, <1>4

LEMMA ContinueStep ==
  ASSUME IInv, NEW t \in Threads, Continue(t)
  PROVE  IInv'
  <1>1. CASE pc[t] = "try" /\ Acquire(t)
    BY <1>1, AcquireStep
  <1>2. CASE ExpandTable(t) \/ SetObject(t) \/ TakeSemaphore(t) \/ TakeEvent(t) \/ Claim(t)
    BY <1>2, ExpandTableStep, SetObjectStep, TakeSemaphoreStep, TakeEventStep, ClaimStep
  <1>3. CASE Register(t) \/ RegisterExpand(t) \/ ReleaseSemaphore(t) \/ SetEvent(t) \/ ComeBack(t)
    BY <1>3, RegisterStep, RegisterExpandStep, ReleaseSemaphoreStep, SetEventStep, ComeBackStep
  <1>4. CASE \E u \in Threads : WakeExclusive(t, u)
    BY <1>4, WakeExclusiveStep
  <1> QED
    BY <1>1, <1>2, <1>3, <1>4 DEF Continue

LEMMA NextIInv ==
  IInv /\ [Next]_vars => IInv'
  <1> SUFFICES ASSUME IInv, [Next]_vars PROVE IInv'
    OBVIOUS
  <1>1. ASSUME NEW t \in Threads, Acquire(t) \/ Continue(t) \/ Convert(t)
        PROVE  IInv'
    BY <1>1, AcquireStep, ContinueStep, ConvertStep
  <1>2. ASSUME NEW t \in Threads, NEW a \in Agents, Release(t, a)
        PROVE  IInv'
    BY <1>2, ReleaseOnceStep, ReleaseLastStep, ReleaseToSharedStep, ReleaseToExclusiveStep
       DEF Release
  <1>3. ASSUME NEW t \in Threads, NEW p \in Pointers, SetOwnerPointer(t, p)
        PROVE  IInv'
    BY <1>3, SetOwnerPointerStep
  <1>4. CASE Reinitialize
    BY <1>4, ReinitializeStep
  <1>5. CASE UNCHANGED vars
    <2>1. UNCHANGED <<entries, exclusive, activeEntries, activeCount, sharedWaiters,
                      exclusiveWaiters, allocated, semaphore, event, pc, call, local, hold>>
      BY <1>5 DEF vars, resource
    <2>2. Types' /\ Callers'
      BY <2>1 DEF IInv, Types, Callers
    <2>3. /\ \A q : At(q)' = At(q)
          /\ Owners' = Owners /\ Registering' = Registering /\ Wakeups' = Wakeups
          /\ \A a : Waiting(a)' <=> Waiting(a)
      BY <2>1 DEF At, Owners, Registering, Wakeups, Waiting
    <2>4. SharedGrants' = SharedGrants /\ ExclusiveGrants' = ExclusiveGrants
          /\ \A a : Noted(a)' <=> Noted(a)
      BY <2>1, <2>3 DEF SharedGrants, ExclusiveGrants, Noted
    <2>5. Sums' /\ Modes'
      BY <2>1, <2>3, <2>4 DEF IInv, Sums, Modes
    <2>6. HasEntry' /\ EntryCorrect' /\ OneEntry' /\ OwnerEntryCorrect'
      BY <2>1, <2>3, <2>4 DEF IInv, HasEntry, EntryCorrect, OneEntry, OwnerEntryCorrect
    <2> QED
      BY <2>2, <2>5, <2>6 DEF IInv
  <1> QED
    BY <1>1, <1>2, <1>3, <1>4, <1>5 DEF Next

\* The inductive invariant holds in every state.
THEOREM Invariance == Spec => []IInv
  BY InitIInv, NextIInv, PTL DEF Spec

LEMMA TypesOK ==
  Types => TypeOK
  <1> SUFFICES ASSUME Types PROVE TypeOK
    OBVIOUS
  <1>1. entries \in [0 .. Cardinality(DOMAIN entries) - 1 -> Entry]
    BY TableSize
  <1> QED
    BY <1>1 DEF Types, TypeOK, Entry, AllPlaces, AllCalls, AllHolds

\* The table has an OwnerEntry and every entry an owner or none, whichever way
\* acquires, releases and expansions of the table interleave.
THEOREM TypeCorrect == Spec => []TypeOK
  <1>1. IInv => TypeOK
    BY TypesOK DEF IInv
  <1> QED
    BY <1>1, Invariance, PTL

\* ActiveEntries, ActiveCount and the numbers of waiters (resource.c) are exact
\* while the lock is dropped, too: who was made an owner by a release and has
\* not been woken is counted once; and nobody waits whom no release will find.
THEOREM OwnersCounted == Spec => []OwnersAddUp
  <1>1. IInv => OwnersAddUp
    BY TypesOK DEF IInv, Sums, Modes, OwnersAddUp
  <1> QED
    BY <1>1, Invariance, PTL

LEMMA OwnerAnswer ==
  ASSUME IInv, NEW a \in Agents, a \in Threads => pc[a] \notin {"sharedWait", "claim"}
  PROVE  AcquiredShared(a) = hold[a].count
  <1>1. CASE a \in Owners
    <2>1. PICK e \in DOMAIN entries :
             /\ EntryOf(a) = {e} /\ entries[e] = [thread |-> a, count |-> hold[a].count]
      BY <1>1, OwnEntry
    <2>2. Min({e}) = e
      BY TableFacts DEF IInv, Min
    <2>3. activeEntries # 0
      BY <1>1, Nobody
    <2> QED
      BY <2>1, <2>2, <2>3 DEF AcquiredShared
  <1>2. CASE a \notin Owners
    <2>1. EntryOf(a) = {} /\ hold[a] = Free
      BY <1>2, NoEntry DEF Owners
    <2> QED
      BY <2>1 DEF AcquiredShared, Free
  <1> QED
    BY <1>1, <1>2

\* ExIsResourceAcquiredExclusiveLite and ExIsResourceAcquiredSharedLite tell a
\* thread what it has, and every owner is in the table once.
THEOREM QueriesCorrect == Spec => []QueriesAnswer
  <1>1. IInv => QueriesAnswer
    <2> SUFFICES ASSUME IInv PROVE QueriesAnswer
      OBVIOUS
    <2>1. ASSUME NEW t \in Threads, pc[t] = "idle"
          PROVE  IsAcquiredExclusive(t) <=> hold[t].mode = "exclusive"
      <3>1. t \in Agents
        BY DEF Agents
      <3>2. ASSUME IsAcquiredExclusive(t) PROVE hold[t].mode = "exclusive"
        <4>1. exclusive /\ entries[0].thread = t /\ 0 \in DOMAIN entries
          BY <3>2, TableFacts DEF IsAcquiredExclusive, IInv
        <4>2. t \in Owners
          BY <2>1, <3>1, <4>1, NoEntry
        <4> QED
          BY <4>1, <4>2, Alone
      <3>3. ASSUME hold[t].mode = "exclusive" PROVE IsAcquiredExclusive(t)
        <4>1. t \in Owners
          BY <3>1, <3>3 DEF Owners, Free
        <4> QED
          BY <3>1, <3>3, <4>1 DEF IInv, Modes, OwnerEntryCorrect, IsAcquiredExclusive
      <3> QED
        BY <3>2, <3>3
    <2>2. ASSUME NEW t \in Threads, pc[t] = "idle"
          PROVE  AcquiredShared(t) = hold[t].count
      BY <2>2, OwnerAnswer DEF Agents
    <2>3. ASSUME NEW p \in Pointers
          PROVE  AcquiredShared(p) = hold[p].count
      BY OwnerAnswer, ResourceAssumption DEF Agents
    <2>4. ASSUME NEW d \in DOMAIN entries, NEW e \in DOMAIN entries,
                 entries[d].thread = entries[e].thread, d # e
          PROVE  entries[d] = Empty
      <3>1. entries[d].thread = NULL
        BY <2>4 DEF IInv, OneEntry
      <3>2. entries[d].count = 0
        BY <3>1 DEF IInv, EntryCorrect
      <3>3. entries[d] \in Entry
        BY TableFacts DEF IInv
      <3> QED
        BY <3>1, <3>2, <3>3 DEF Entry, Empty
    <2> QED
      BY <2>1, <2>2, <2>3, <2>4 DEF QueriesAnswer
  <1> QED
    BY <1>1, Invariance, PTL

-----------------------------------------------------------------------------
\* An owner comes about when nobody excludes it.
LEMMA AcquireImplements ==
  ASSUME IInv, NEW t \in Threads, Acquire(t)
  PROVE  Abstract!Next \/ UNCHANGED hold
  <1>1. t \in Agents
    BY DEF Agents
  <1>2. PICK k \in SharedKinds \cup ExclusiveKinds :
           \/ \E w \in BOOLEAN : \/ AcquireFree(t, k, w) \/ AcquireAgain(t, k, w)
                                 \/ Join(t, k, w) \/ Expand(t, k, w)
           \/ Refuse(t, k) \/ Allocate(t, k)
           \/ QueueExclusive(t, k) \/ QueueShared(t, k) \/ QueueFirst(t, k)
    BY DEF Acquire
  <1>3. ASSUME NEW w \in BOOLEAN, AcquireFree(t, k, w)
        PROVE  Abstract!Acquire(t) \/ Abstract!Share(t)
    <2>1. activeEntries = 0
      BY <1>3 DEF AcquireFree, IInv, Sums, Types
    <2>2. \A a \in Agents : hold[a] = Free
      BY <2>1, Nobody
    <2>3. hold' = [hold EXCEPT ![t] = [mode |-> IF k \in ExclusiveKinds THEN "exclusive"
                                                                        ELSE "shared",
                                       count |-> 1]]
      BY <1>3 DEF AcquireFree, Gets
    <2>4. CASE k \in ExclusiveKinds
      BY <2>2, <2>3, <2>4 DEF Abstract!Acquire, Abstract!Free, Free
    <2>5. CASE k \notin ExclusiveKinds
      BY <1>1, <2>2, <2>3, <2>5 DEF Abstract!Share, Abstract!Free, Free
    <2> QED
      BY <2>4, <2>5
  <1>4. ASSUME NEW w \in BOOLEAN, AcquireAgain(t, k, w)
        PROVE  Abstract!Again(t)
    <2>1. EntryOf(t) # {} /\ pc[t] \in {"idle", "try"}
      BY <1>4, TryingFacts DEF AcquireAgain, IInv
    <2>2. hold[t] # Free
      BY <1>1, <2>1, NoEntry DEF Owners
    <2> QED
      BY <1>4, <2>2 DEF AcquireAgain, Abstract!Again, Abstract!Free, Free
  <1>5. ASSUME NEW w \in BOOLEAN, Join(t, k, w)
        PROVE  Abstract!Share(t)
    <2>1. hold[t] = Free
      BY <1>1, <1>5, OwnEntry DEF Join, Owners
    <2>2. \A a \in Agents : hold[a].mode # "exclusive"
      BY <1>5 DEF Join, MustWait, IInv, Modes, Owners, Free
    <2> QED
      BY <1>5, <2>1, <2>2 DEF Join, Gets, Abstract!Share, Abstract!Free, Free
  <1>6. ASSUME \/ \E w \in BOOLEAN : Expand(t, k, w)
               \/ Refuse(t, k) \/ Allocate(t, k)
               \/ QueueExclusive(t, k) \/ QueueShared(t, k) \/ QueueFirst(t, k)
        PROVE  UNCHANGED hold
    BY <1>6 DEF Expand, Refuse, Allocate, QueueExclusive, QueueShared, QueueFirst
  <1> QED
    BY <1>1, <1>2, <1>3, <1>4, <1>5, <1>6 DEF Abstract!Next

\* A thread whose wait is over finds that nobody excludes it.
LEMMA ContinueImplements ==
  ASSUME IInv, NEW t \in Threads, Continue(t)
  PROVE  Abstract!Next \/ UNCHANGED hold
  <1>1. t \in Agents
    BY DEF Agents
  <1>2. CASE pc[t] = "try" /\ Acquire(t)
    BY <1>2, AcquireImplements
  <1>3. CASE TakeSemaphore(t)
    <2>1. hold[t] = Free /\ semaphore > 0 /\ (Gets(t, "shared") \/ UNCHANGED hold)
      BY <1>3 DEF TakeSemaphore, IInv, Callers
    <2>2. \A a \in Agents : hold[a].mode # "exclusive"
      <3>1. Cardinality(Registering) + SharedGrants > 0
        <4>1. /\ SharedGrants \in Nat /\ SharedGrants = semaphore + Cardinality(Wakeups)
              /\ Cardinality(Wakeups) \in Nat /\ semaphore \in Nat
              /\ Cardinality(Registering) \in Nat
          BY Numbers DEF IInv
        <4> QED
          BY <2>1, <4>1
      <3>2. \A a \in Owners : hold[a].mode # "exclusive"
        BY <3>1, NotExclusive
      <3> QED
        BY <3>2 DEF Owners, Free
    <2>3. Gets(t, "shared") => Abstract!Share(t)
      BY <2>1, <2>2 DEF Gets, Abstract!Share, Abstract!Free, Free
    <2> QED
      BY <1>1, <2>1, <2>3 DEF Abstract!Next
  <1>4. CASE Claim(t)
    <2>1. t \in At("claim")
      BY <1>4 DEF Claim, At
    <2>2. \A a \in Agents : hold[a] = Free
      BY <2>1, GrantCounted, Granted
    <2>3. Abstract!Acquire(t)
      BY <1>4, <2>2 DEF Claim, Gets, Abstract!Acquire, Abstract!Free, Free
    <2> QED
      BY <1>1, <2>3 DEF Abstract!Next
  <1>5. CASE Register(t)
    <2>1. hold[t] = Free /\ t \in Registering
      BY <1>5 DEF Register, IInv, Callers, Registering
    <2>2. \A a \in Agents : hold[a].mode # "exclusive"
      <3>1. /\ Cardinality(Registering) >= 1 /\ Cardinality(Registering) \in Nat
            /\ SharedGrants \in Nat
        BY <2>1, Counted, Numbers DEF IInv
      <3>2. Cardinality(Registering) + SharedGrants > 0
        BY <3>1
      <3>3. \A a \in Owners : hold[a].mode # "exclusive"
        BY <3>2, NotExclusive
      <3> QED
        BY <3>3 DEF Owners, Free
    <2>3. Abstract!Share(t)
      BY <1>5, <2>1, <2>2 DEF Register, Gets, Abstract!Share, Abstract!Free, Free
    <2> QED
      BY <1>1, <2>3 DEF Abstract!Next
  <1>6. CASE \/ ExpandTable(t) \/ SetObject(t) \/ TakeEvent(t) \/ RegisterExpand(t)
             \/ ReleaseSemaphore(t) \/ SetEvent(t) \/ ComeBack(t)
             \/ \E u \in Threads : WakeExclusive(t, u)
    BY <1>6 DEF ExpandTable, SetObject, TakeEvent, RegisterExpand, ReleaseSemaphore,
                SetEvent, ComeBack, WakeExclusive
  <1> QED
    BY <1>2, <1>3, <1>4, <1>5, <1>6 DEF Continue

\* An executive resource is a reader-writer lock: whichever way an owner came
\* to it (at once, by the semaphore, by the event, by its own registration), no
\* other owner excludes it then; ownership changes by nothing else.
THEOREM ImplementsReaderWriterLock == Spec => Refinement
  <1>1. Init => Abstract!Init
    BY DEF Init, Abstract!Init, Free, Abstract!Free
  <1>2. IInv /\ [Next]_vars => [Abstract!Next]_hold
    <2> SUFFICES ASSUME IInv, [Next]_vars PROVE Abstract!Next \/ UNCHANGED hold
      OBVIOUS
    <2>1. ASSUME NEW t \in Threads, Acquire(t) \/ Continue(t)
          PROVE  Abstract!Next \/ UNCHANGED hold
      BY <2>1, AcquireImplements, ContinueImplements
    <2>2. ASSUME NEW t \in Threads, Convert(t)
          PROVE  Abstract!Next
      <3>1. Abstract!Convert(t) /\ t \in Agents
        BY <2>2 DEF Convert, Abstract!Convert, Agents
      <3> QED
        BY <3>1 DEF Abstract!Next
    <2>3. ASSUME NEW t \in Threads, NEW a \in Agents, Release(t, a)
          PROVE  Abstract!Next
      <3>1. hold[a] # Free /\ Dropped(a)
        BY <2>3 DEF Release, ReleaseOnce, ReleaseLast, ReleaseToShared, ReleaseToExclusive,
                    Releasing
      <3>2. Abstract!Release(a)
        BY <3>1 DEF Dropped, Abstract!Release, Abstract!Free, Free
      <3> QED
        BY <3>2 DEF Abstract!Next
    <2>4. ASSUME NEW t \in Threads, NEW p \in Pointers, SetOwnerPointer(t, p)
          PROVE  Abstract!Next
      <3>1. t \in Agents /\ p \in Agents /\ t # p
        BY ResourceAssumption DEF Agents
      <3>2. Abstract!Leave(t, p)
        BY <2>4, <3>1 DEF SetOwnerPointer, Abstract!Leave, Abstract!Free, Free
      <3> QED
        BY <3>1, <3>2 DEF Abstract!Next
    <2>5. CASE Reinitialize
      BY <2>5 DEF Reinitialize
    <2>6. CASE UNCHANGED vars
      BY <2>6 DEF vars
    <2> QED
      BY <2>1, <2>2, <2>3, <2>4, <2>5, <2>6 DEF Next
  <1> QED
    BY <1>1, <1>2, Invariance, PTL DEF Spec, Refinement, Abstract!Spec

====
