-------------------------- MODULE ProtectionProofs --------------------------
(***************************************************************************)
(* Proofs about the protocols that keep what is referenced from going      *)
(* away: Rundown, for any finite set of threads and any bound on the       *)
(* references a thread holds; RemoveLock (the instance R), for any finite  *)
(* set of threads and any tags; and NotifyRoutines, for any finite set of  *)
(* threads, any blocks and routines, any table size and any number of fast *)
(* references.                                                             *)
(*                                                                         *)
(* That the removal ends with no reference left rests on IoCount being     *)
(* exact (Counted), the refused references and the reference the lock is   *)
(* born with included.  That LowMemoryCount does not fall below 0 rests    *)
(* on a matching: each tracking block belongs to a reference with its tag, *)
(* no two to the same (Matched), so that a thread which finds no block was *)
(* counted when it got none.                                               *)
(*                                                                         *)
(* For the notify routines the invariant says where a callback block can   *)
(* be (Placed) and that its rundown count covers the references to it      *)
(* (CountsCover): the ones of the threads that still owe a release, the    *)
(* cached ones in the low bits of a slot, and the table's own.  For the    *)
(* thread and image lists the count is exact.  For the process list it is  *)
(* only a lower bound: a removal of PsSetCreateProcessNotifyRoutine that   *)
(* passes over another routine's block keeps the reference it took.  A     *)
(* block's freeing needs count 0, so the bound is what NoUseAfterFree      *)
(* rests on, and it holds for all three.  References are counted as the    *)
(* size of a set with one pair per unit (Units).  UnitsChange says what a  *)
(* change of one thread or one slot does to it, Balance what a step does   *)
(* to the references, and Kept reduces CountsCover to one equation per     *)
(* step.  No induction over the threads or the table is needed.            *)
(***************************************************************************)
EXTENDS MCProtection, NotifyRoutines, Sequences, FiniteSetTheorems,
        FunctionTheorems, TLAPS

-----------------------------------------------------------------------------
(* Counting references. *)

\* The outstanding references are finitely many.
LEMMA RefSetFinite ==
    ASSUME NEW f \in [Users -> 0 .. MaxRefs]
    PROVE  IsFiniteSet(RefSet(f))
<1>1. IsFiniteSet(1 .. MaxRefs)
    BY FS_Interval, MaxRefsAssumption
<1>2. IsFiniteSet(Users \X (1 .. MaxRefs))
    BY <1>1, FS_Product, UsersAssumption
<1>3. RefSet(f) \in SUBSET (Users \X (1 .. MaxRefs))
    BY DEF RefSet
<1> QED
    BY <1>2, <1>3, FS_Subset

\* There are none exactly when no thread holds one.
LEMMA RefSetEmpty ==
    ASSUME NEW f \in [Users -> 0 .. MaxRefs]
    PROVE  Cardinality(RefSet(f)) = 0 <=> \A u \in Users : f[u] = 0
<1>1. Cardinality(RefSet(f)) = 0 <=> RefSet(f) = {}
    BY RefSetFinite, FS_EmptySet
<1>2. ASSUME RefSet(f) = {}, NEW u \in Users
      PROVE  f[u] = 0
    <2>1. SUFFICES ASSUME f[u] # 0 PROVE FALSE
        OBVIOUS
    <2>2. f[u] \in 1 .. MaxRefs
        BY <2>1, MaxRefsAssumption
    <2>3. <<u, f[u]>> \in RefSet(f)
        BY <2>2 DEF RefSet
    <2> QED
        BY <1>2, <2>3
<1>3. ASSUME \A u \in Users : f[u] = 0
      PROVE  RefSet(f) = {}
    BY <1>3, MaxRefsAssumption DEF RefSet
<1> QED
    BY <1>1, <1>2, <1>3

\* A thread that takes n more references adds n to the count.
LEMMA RefSetGrows ==
    ASSUME NEW f \in [Users -> 0 .. MaxRefs],
           NEW u \in Users, NEW n \in 1 .. MaxRefs,
           f[u] + n <= MaxRefs
    PROVE  Cardinality(RefSet([f EXCEPT ![u] = @ + n]))
             = Cardinality(RefSet(f)) + n
<1> DEFINE g   == [f EXCEPT ![u] = @ + n]
           New == {u} \X (f[u] + 1 .. f[u] + n)
<1>1. /\ f[u] \in Nat /\ n \in Nat \ {0} /\ MaxRefs \in Nat
      /\ f[u] + 1 \in Int /\ f[u] + n \in Int
    BY MaxRefsAssumption
<1>2. RefSet(g) = RefSet(f) \cup New
    <2>1. /\ RefSet(g) \subseteq Users \X (1 .. MaxRefs)
          /\ RefSet(f) \subseteq Users \X (1 .. MaxRefs)
          /\ New \subseteq Users \X (1 .. MaxRefs)
        BY <1>1 DEF RefSet
    <2>2. ASSUME NEW r \in Users \X (1 .. MaxRefs)
          PROVE  r \in RefSet(g) <=> r \in RefSet(f) \cup New
        <3>1. PICK v \in Users, i \in 1 .. MaxRefs : r = <<v, i>>
            OBVIOUS
        <3>2. r \in RefSet(g) <=> i <= g[v]
            BY <3>1 DEF RefSet
        <3>3. r \in RefSet(f) <=> i <= f[v]
            BY <3>1 DEF RefSet
        <3>4. r \in New <=> v = u /\ f[u] + 1 <= i /\ i <= f[u] + n
            BY <3>1, <1>1
        <3>5. CASE v = u
            BY <3>2, <3>3, <3>4, <3>5, <1>1
        <3>6. CASE v # u
            BY <3>2, <3>3, <3>4, <3>6, <1>1
        <3> QED
            BY <3>5, <3>6
    <2> HIDE DEF g, New
    <2> QED
        BY <2>1, <2>2
<1>3. RefSet(f) \cap New = {}
    BY <1>1 DEF RefSet
<1>4. IsFiniteSet(New) /\ Cardinality(New) = n
    <2>1. /\ IsFiniteSet(f[u] + 1 .. f[u] + n)
          /\ Cardinality(f[u] + 1 .. f[u] + n) = n
        BY <1>1, FS_Interval
    <2>2. IsFiniteSet({u}) /\ Cardinality({u}) = 1
        BY FS_Singleton
    <2> DEFINE Ordinals == f[u] + 1 .. f[u] + n
    <2> HIDE DEF Ordinals
    <2>3. IsFiniteSet(Ordinals) /\ Cardinality(Ordinals) = n
        BY <2>1 DEF Ordinals
    <2>4. /\ IsFiniteSet({u} \X Ordinals)
          /\ Cardinality({u} \X Ordinals) = Cardinality({u}) * Cardinality(Ordinals)
        BY <2>2, <2>3, FS_Product, Zenon
    <2>5. New = {u} \X Ordinals
        BY DEF New, Ordinals
    <2> HIDE DEF New
    <2> QED
        BY <1>1, <2>2, <2>3, <2>4, <2>5
<1>5. IsFiniteSet(RefSet(f))
    BY RefSetFinite
<1> HIDE DEF g, New
<1>6. Cardinality(RefSet(g))
        = Cardinality(RefSet(f)) + n - Cardinality({})
    BY <1>2, <1>3, <1>4, <1>5, FS_Union
<1>7. Cardinality(RefSet(f)) \in Nat /\ Cardinality({}) = 0
    BY <1>5, FS_CardinalityType, FS_EmptySet
<1> QED
    BY <1>1, <1>6, <1>7 DEF g

\* A thread that drops n references takes n from the count.
LEMMA RefSetShrinks ==
    ASSUME NEW f \in [Users -> 0 .. MaxRefs],
           NEW u \in Users, NEW n \in 1 .. MaxRefs,
           n <= f[u]
    PROVE  /\ Cardinality(RefSet([f EXCEPT ![u] = @ - n]))
                = Cardinality(RefSet(f)) - n
           /\ n <= Cardinality(RefSet(f))
<1> DEFINE g == [f EXCEPT ![u] = @ - n]
<1>1. /\ f[u] \in Nat /\ n \in Nat \ {0} /\ MaxRefs \in Nat
      /\ g \in [Users -> 0 .. MaxRefs]
      /\ g[u] + n <= MaxRefs
    BY MaxRefsAssumption
<1>2. [g EXCEPT ![u] = @ + n] = f
    <2> DEFINE h == [g EXCEPT ![u] = @ + n]
    <2>1. h = [v \in Users |-> h[v]] /\ f = [v \in Users |-> f[v]]
        OBVIOUS
    <2>2. ASSUME NEW v \in Users PROVE h[v] = f[v]
        BY <1>1
    <2> QED
        BY <2>1, <2>2
<1>3. Cardinality(RefSet(f)) = Cardinality(RefSet(g)) + n
    BY <1>1, <1>2, RefSetGrows
<1>4. Cardinality(RefSet(g)) \in Nat
    BY <1>1, RefSetFinite, FS_CardinalityType
<1> QED
    BY <1>1, <1>3, <1>4

-----------------------------------------------------------------------------
(***************************************************************************)
(* The inductive invariant.                                                *)
(*   - WordMatchesOwner ties the descriptor's active bit and pointer to    *)
(*     where the owner is;                                                 *)
(*   - UserValues says what a thread inside a call may rely on: a releaser *)
(*     that read an active word holds a reference, so the owner is still   *)
(*     in its wait;                                                        *)
(*   - Signals says there is one signaller at most, and only for a block   *)
(*     whose count is zero.                                                *)
(* With CountIsExact these are closed under every step; the properties the *)
(* runs check follow from them.                                            *)
(***************************************************************************)
WordMatchesOwner ==
    /\ word.active = 0 <=> opc \in {"up", "exf", "install"}
    /\ word.active = 0 => word.ptr = "null"
    /\ opc = "wait" => word = WaitBlockPointer
    /\ opc = "down" => word \in {EX_RUNDOWN_ACTIVE, WaitBlockPointer}
    /\ opc = "install" => oval.active = 0 /\ oval.ptr = "null"

UserValues ==
    \A u \in Users :
        /\ upc[u] \in {"acqFast", "acqSlow"} => refs[u] + un[u] <= MaxRefs
        /\ upc[u] \in {"relFast", "relSlow"} => un[u] <= refs[u]
        /\ upc[u] \in {"acqFast", "relFast"} => uval[u].active = 0
        /\ upc[u] = "relSlow" /\ uval[u].active = 1 => opc = "wait"

Signals ==
    /\ \A u \in Users : upc[u] = "signal" =>
            opc = "wait" /\ blkCount = 0 /\ blkEvent = 0
    /\ \A u, v \in Users : upc[u] = "signal" /\ upc[v] = "signal" => u = v
    /\ blkEvent = 1 => opc = "wait" /\ blkCount = 0

IInv == /\ TypeOK
        /\ WordMatchesOwner
        /\ UserValues
        /\ Signals
        /\ CountIsExact
        /\ NoReferenceAfterRundown
        /\ WakeupPending

\* The descriptor values the code builds are descriptor values.
LEMMA WordValues ==
    /\ Counting(0) \in Word
    /\ \A v \in Word : MaskActive(v) \in Word
BY DEF Word, Counting, MaskActive

\* A fresh descriptor, ExInitializeRundownProtection, satisfies it.
LEMMA InitEstablishesIInv == Init => IInv
<1> SUFFICES ASSUME Init PROVE IInv
    OBVIOUS
<1>1. TypeOK
    BY MaxRefsAssumption DEF Init, TypeOK, Word, Counting
<1>2. Cardinality(RefSet(refs)) = 0
    BY <1>1, RefSetEmpty DEF TypeOK, Init
<1>3. CountIsExact
    BY <1>2 DEF Init, CountIsExact, Counting, WaitBlockPointer, EX_RUNDOWN_ACTIVE
<1>4. WordMatchesOwner /\ UserValues /\ Signals
    BY DEF Init, WordMatchesOwner, UserValues, Signals, Counting
<1>5. NoReferenceAfterRundown /\ WakeupPending
    BY DEF Init, NoReferenceAfterRundown, WakeupPending
<1> QED
    BY <1>1, <1>3, <1>4, <1>5 DEF IInv

\* Reads and refused or retried exchanges: they move one thread and its
\* locals, nothing else.
LEMMA LocalStepsPreserve ==
    ASSUME IInv, NEW u \in Users,
           \/ AcquireFastRead(u)
           \/ \E n \in 1 .. MaxRefs : AcquireExRead(u, n)
           \/ AcquireFastFails(u)
           \/ AcquireRefused(u)
           \/ AcquireSlowRetry(u)
           \/ ReleaseFastRead(u)
           \/ \E n \in 1 .. MaxRefs : ReleaseExRead(u, n)
           \/ ReleaseFastFails(u)
           \/ ReleaseSlowRetry(u)
    PROVE  IInv'
<1> USE DEF AcquireFastRead, AcquireExRead, AcquireFastFails, AcquireRefused,
            AcquireSlowRetry, ReleaseFastRead, ReleaseExRead, ReleaseFastFails,
            ReleaseSlowRetry, UserAt, UserReturns, ownerVars
<1>1. UNCHANGED <<word, refs, blkCount, blkEvent, opc, oval>>
    OBVIOUS
<1>2. TypeOK'
    <2>1. upc' \in [Users -> {"idle", "acqFast", "acqSlow",
                              "relFast", "relSlow", "signal"}]
        BY DEF IInv, TypeOK
    <2>2. un' \in [Users -> 1 .. MaxRefs]
        BY MaxRefsAssumption DEF IInv, TypeOK
    <2>3. uval' \in [Users -> Word]
        BY WordValues DEF IInv, TypeOK
    <2> QED
        BY <1>1, <2>1, <2>2, <2>3 DEF IInv, TypeOK
<1>3. WordMatchesOwner'
    BY <1>1 DEF IInv, WordMatchesOwner
<1>4. UserValues'
    <2>1. refs[u] >= 1 /\ word.active = 1 => opc = "wait"
        BY DEF IInv, TypeOK, WordMatchesOwner, NoReferenceAfterRundown
    <2> QED
        BY <2>1, MaxRefsAssumption
        DEF IInv, TypeOK, UserValues, Word, MaskActive, Counting
<1>5. Signals'
    BY DEF IInv, TypeOK, Signals
<1>6. CountIsExact'
    BY <1>1 DEF IInv, CountIsExact
<1>7. NoReferenceAfterRundown' /\ WakeupPending'
    BY DEF IInv, TypeOK, NoReferenceAfterRundown, WakeupPending
<1> QED
    BY <1>2, <1>3, <1>4, <1>5, <1>6, <1>7 DEF IInv

\* A granted acquisition moves count and references together.
LEMMA GrantPreserves ==
    ASSUME IInv, NEW u \in Users,
           AcquireGranted(u, "acqFast") \/ AcquireSlowGranted(u)
    PROVE  IInv'
<1> USE DEF AcquireSlowGranted, AcquireGranted, UserAt, UserReturns, ownerVars
<1>1. /\ upc[u] \in {"acqFast", "acqSlow"}
      /\ word = uval[u] /\ word.active = 0
      /\ refs[u] + un[u] <= MaxRefs
    BY DEF IInv, UserValues
<1>2. TypeOK'
    <2>1. word' \in Word
        BY DEF IInv, TypeOK, Word, AddRefs
    <2>2. uval' \in [Users -> Word]
        BY DEF IInv, TypeOK, Word, Counting
    <2>3. refs' \in [Users -> 0 .. MaxRefs]
        BY <1>1, MaxRefsAssumption DEF IInv, TypeOK
    <2>4. /\ un' \in [Users -> 1 .. MaxRefs]
          /\ upc' \in [Users -> {"idle", "acqFast", "acqSlow",
                                 "relFast", "relSlow", "signal"}]
        BY MaxRefsAssumption DEF IInv, TypeOK
    <2> QED
        BY <2>1, <2>2, <2>3, <2>4 DEF IInv, TypeOK
<1>3. WordMatchesOwner'
    BY <1>1 DEF IInv, TypeOK, Word, WordMatchesOwner, AddRefs
<1>4. UserValues'
    BY <1>1, MaxRefsAssumption DEF IInv, TypeOK, UserValues, WordMatchesOwner, Counting
<1>5. Signals' /\ WakeupPending' /\ NoReferenceAfterRundown'
    BY <1>1 DEF IInv, TypeOK, Signals, WordMatchesOwner, WakeupPending,
                NoReferenceAfterRundown
<1>6. CountIsExact'
    <2>1. Cardinality(RefSet(refs')) = Cardinality(RefSet(refs)) + un[u]
        BY <1>1, RefSetGrows DEF IInv, TypeOK
    <2>2. word'.active = 0 /\ word'.count = word.count + un[u]
        BY <1>1 DEF IInv, TypeOK, Word, AddRefs
    <2> QED
        BY <1>1, <2>1, <2>2
        DEF IInv, CountIsExact, WaitBlockPointer, EX_RUNDOWN_ACTIVE
<1> QED
    BY <1>2, <1>3, <1>4, <1>5, <1>6 DEF IInv

\* So does a release to the word.
LEMMA ReleaseToWordPreserves ==
    ASSUME IInv, NEW u \in Users,
           ReleaseToWord(u, "relFast") \/ ReleaseSlowToWord(u)
    PROVE  IInv'
<1> USE DEF ReleaseSlowToWord, ReleaseToWord, UserAt, UserReturns, ownerVars
<1>1. /\ upc[u] \in {"relFast", "relSlow"}
      /\ word = uval[u] /\ word.active = 0
      /\ un[u] <= refs[u]
    BY DEF IInv, UserValues
<1>2. /\ Cardinality(RefSet(refs')) = Cardinality(RefSet(refs)) - un[u]
      /\ un[u] <= Cardinality(RefSet(refs))
    <2>1. /\ refs \in [Users -> 0 .. MaxRefs] /\ un[u] \in 1 .. MaxRefs
          /\ refs' = [refs EXCEPT ![u] = @ - un[u]]
        BY DEF IInv, TypeOK
    <2> QED
        BY <1>1, <2>1, RefSetShrinks
<1>3. word.count = Cardinality(RefSet(refs))
    BY <1>1 DEF IInv, CountIsExact
<1>4. /\ word' = SubRefs(word, un[u])
      /\ word \in Word /\ word.count \in Nat
      /\ un[u] \in Nat /\ un[u] <= word.count
    BY <1>2, <1>3, MaxRefsAssumption DEF IInv, TypeOK, Word
<1>5. /\ word'.active = 0
      /\ word'.count = word.count - un[u]
      /\ word' \in Word
    BY <1>1, <1>4 DEF Word, SubRefs
<1>6. TypeOK'
    <2>1. refs' \in [Users -> 0 .. MaxRefs]
        BY <1>1, MaxRefsAssumption DEF IInv, TypeOK
    <2>2. un' \in [Users -> 1 .. MaxRefs] /\ uval' \in [Users -> Word]
        BY MaxRefsAssumption, WordValues DEF IInv, TypeOK
    <2> QED
        BY <1>5, <2>1, <2>2 DEF IInv, TypeOK
<1>7. WordMatchesOwner'
    BY <1>1 DEF IInv, TypeOK, Word, WordMatchesOwner, SubRefs
<1>8. UserValues'
    BY <1>1, MaxRefsAssumption
    DEF IInv, TypeOK, UserValues, WordMatchesOwner, Counting
<1>9. Signals' /\ WakeupPending' /\ NoReferenceAfterRundown'
    BY <1>1 DEF IInv, TypeOK, Signals, WordMatchesOwner, WakeupPending,
                NoReferenceAfterRundown
<1>10. CountIsExact'
    <2>1. Cardinality(RefSet(refs')) = word'.count
        BY <1>2, <1>3, <1>5
    <2> QED
        BY <1>5, <2>1 DEF CountIsExact, WaitBlockPointer, EX_RUNDOWN_ACTIVE
<1> QED
    BY <1>6, <1>7, <1>8, <1>9, <1>10 DEF IInv

\* A release counted down in the wait block: the releaser holds a reference,
\* so the owner still waits, and the block's count is the number of references.
LEMMA ReleaseToBlockPreserves ==
    ASSUME IInv, NEW u \in Users,
           ReleaseToBlock(u) \/ ReleaseLastToBlock(u)
    PROVE  IInv'
<1> USE DEF ReleaseToBlock, ReleaseLastToBlock, CountDownInBlock,
            UserAt, UserReturns
<1>1. /\ upc[u] = "relSlow" /\ uval[u].active = 1
      /\ un[u] <= refs[u] /\ un[u] \in 1 .. MaxRefs
      /\ opc = "wait" /\ word = WaitBlockPointer
    BY DEF IInv, TypeOK, UserValues, WordMatchesOwner
<1>2. /\ Cardinality(RefSet(refs')) = Cardinality(RefSet(refs)) - un[u]
      /\ un[u] <= Cardinality(RefSet(refs))
    <2>1. /\ refs \in [Users -> 0 .. MaxRefs]
          /\ refs' = [refs EXCEPT ![u] = @ - un[u]]
        BY DEF IInv, TypeOK
    <2> QED
        BY <1>1, <2>1, RefSetShrinks
<1>3. blkCount = Cardinality(RefSet(refs)) /\ blkCount \in Nat
    BY <1>1 DEF IInv, CountIsExact, TypeOK
<1>4. blkCount' = Cardinality(RefSet(refs')) /\ blkCount' \in Nat
    BY <1>1, <1>2, <1>3, MaxRefsAssumption
<1>5. blkCount # 0 /\ blkEvent = 0 /\ \A v \in Users : upc[v] # "signal"
    BY <1>1, <1>2, <1>3, MaxRefsAssumption DEF IInv, TypeOK, Signals
<1>6. TypeOK'
    <2>1. refs' \in [Users -> 0 .. MaxRefs]
        BY <1>1, MaxRefsAssumption DEF IInv, TypeOK
    <2>2. un' \in [Users -> 1 .. MaxRefs] /\ uval' \in [Users -> Word]
        BY MaxRefsAssumption, WordValues DEF IInv, TypeOK
    <2> QED
        BY <1>4, <2>1, <2>2 DEF IInv, TypeOK
<1>7. WordMatchesOwner'
    BY DEF IInv, WordMatchesOwner
<1>8. UserValues'
    BY <1>1, MaxRefsAssumption DEF IInv, TypeOK, UserValues, Counting
<1>9. CountIsExact'
    BY <1>1, <1>4 DEF CountIsExact, WaitBlockPointer, EX_RUNDOWN_ACTIVE
<1>10. NoReferenceAfterRundown'
    BY <1>1 DEF NoReferenceAfterRundown
<1>11. CASE ReleaseToBlock(u)
    <2>1. blkCount' # 0
        BY <1>1, <1>3, <1>11, MaxRefsAssumption
    <2>2. Signals' /\ WakeupPending'
        BY <1>1, <1>5, <1>11, <2>1 DEF IInv, TypeOK, Signals, WakeupPending
    <2> QED
        BY <1>6, <1>7, <1>8, <1>9, <1>10, <2>2 DEF IInv
<1>12. CASE ReleaseLastToBlock(u)
    <2>1. blkCount' = 0
        BY <1>1, <1>3, <1>12, MaxRefsAssumption
    <2>2. Signals' /\ WakeupPending'
        BY <1>1, <1>5, <1>12, <2>1 DEF IInv, TypeOK, Signals, WakeupPending
    <2> QED
        BY <1>6, <1>7, <1>8, <1>9, <1>10, <2>2 DEF IInv
<1> QED
    BY <1>11, <1>12

\* KeSetEvent by the thread that took the count to zero.
LEMMA SignalPreserves ==
    ASSUME IInv, NEW u \in Users, SignalOwner(u)
    PROVE  IInv'
<1> USE DEF SignalOwner, UserAt, UserReturns
<1>1. upc[u] = "signal" /\ opc = "wait" /\ blkCount = 0
    BY DEF IInv, Signals
<1>2. TypeOK'
    BY MaxRefsAssumption DEF IInv, TypeOK, Word, Counting
<1>3. WordMatchesOwner' /\ NoReferenceAfterRundown'
    BY DEF IInv, WordMatchesOwner, NoReferenceAfterRundown
<1>4. UserValues'
    BY <1>1, MaxRefsAssumption DEF IInv, TypeOK, UserValues, Counting
<1>5. Signals' /\ WakeupPending'
    BY <1>1 DEF IInv, TypeOK, Signals, WakeupPending
<1>6. CountIsExact'
    BY DEF IInv, CountIsExact
<1> QED
    BY <1>2, <1>3, <1>4, <1>5, <1>6 DEF IInv

\* The owner's steps.  Going "down" needs that nothing is referenced: the
\* count is exact, so a zero word, or a signalled event, says so.
LEMMA OwnerStepsPreserve ==
    ASSUME IInv, OwnerWaits \/ RundownCompleted \/ ReInitialize
    PROVE  IInv'
<1> USE DEF ownerVars
<1>1. CASE WaitNothingHeld
    <2> USE <1>1 DEF WaitNothingHeld
    <2>1. opc \in {"up", "exf"} /\ word = Counting(0)
        BY DEF IInv, WordMatchesOwner, EX_RUNDOWN_ACTIVE
    <2>2. Cardinality(RefSet(refs)) = 0
        BY <2>1 DEF IInv, CountIsExact, Counting
    <2>3. \A u \in Users : refs[u] = 0
        BY <2>2, RefSetEmpty DEF IInv, TypeOK
    <2>4. TypeOK'
        BY DEF IInv, TypeOK, Word, EX_RUNDOWN_ACTIVE
    <2>5. WordMatchesOwner'
        BY DEF IInv, WordMatchesOwner, EX_RUNDOWN_ACTIVE
    <2>6. UserValues'
        BY <2>1, <2>3, MaxRefsAssumption DEF IInv, TypeOK, UserValues
    <2>7. Signals' /\ WakeupPending' /\ NoReferenceAfterRundown'
        BY <2>1, <2>3 DEF IInv, Signals, WakeupPending, NoReferenceAfterRundown
    <2>8. CountIsExact'
        BY <2>2 DEF CountIsExact, EX_RUNDOWN_ACTIVE, WaitBlockPointer
    <2> QED
        BY <2>4, <2>5, <2>6, <2>7, <2>8 DEF IInv
<1>2. CASE WaitInlineFails \/ WaitExfFails
    <2> USE <1>2 DEF WaitInlineFails, WaitExfFails
    <2>1. TypeOK' /\ WordMatchesOwner'
        BY DEF IInv, TypeOK, WordMatchesOwner
    <2>2. UserValues' /\ Signals' /\ WakeupPending' /\ NoReferenceAfterRundown'
        BY DEF IInv, UserValues, Signals, WakeupPending, NoReferenceAfterRundown
    <2>3. CountIsExact'
        BY DEF IInv, CountIsExact
    <2> QED
        BY <2>1, <2>2, <2>3 DEF IInv
<1>3. CASE WaitInstall
    <2> USE <1>3 DEF WaitInstall
    <2>1. /\ opc = "install" /\ word = oval /\ word.active = 0
          /\ word' = WaitBlockPointer /\ UNCHANGED <<refs, upc, uval, un>>
          /\ blkCount' = word.count /\ word.count \in Nat
          /\ blkEvent = 0 /\ blkEvent' = 0
        BY DEF IInv, WordMatchesOwner, TypeOK, Word, Signals
    <2>2. Cardinality(RefSet(refs)) = word.count
        BY <2>1 DEF IInv, CountIsExact
    <2>3. word.count = 0 => \A u \in Users : refs[u] = 0
        BY <2>2, RefSetEmpty DEF IInv, TypeOK
    <2>4. opc' = IF word.count = 0 THEN "down" ELSE "wait"
        BY <2>1
    <2>5. TypeOK'
        BY <2>1, <2>4 DEF IInv, TypeOK, Word, WaitBlockPointer, Counting
    <2>6. WordMatchesOwner'
        BY <2>1, <2>4 DEF WordMatchesOwner, WaitBlockPointer
    <2>7. UserValues'
        BY <2>1 DEF IInv, TypeOK, UserValues
    <2>8. Signals' /\ WakeupPending' /\ NoReferenceAfterRundown'
        BY <2>1, <2>3, <2>4
        DEF IInv, TypeOK, Signals, WakeupPending, NoReferenceAfterRundown
    <2>9. CountIsExact'
        BY <2>1, <2>2 DEF CountIsExact, WaitBlockPointer, EX_RUNDOWN_ACTIVE
    <2> QED
        BY <2>5, <2>6, <2>7, <2>8, <2>9 DEF IInv
<1>4. CASE WaitInstallRetry
    <2> USE <1>4 DEF WaitInstallRetry
    <2>1. /\ opc = "install" /\ word.active = 0 /\ word.ptr = "null"
          /\ blkEvent' = 0 /\ UNCHANGED <<word, opc, upc, uval, un, refs>>
        BY DEF IInv, WordMatchesOwner, TypeOK, Signals
    <2>2. TypeOK'
        BY <2>1 DEF IInv, TypeOK, Word
    <2>3. WordMatchesOwner'
        BY <2>1 DEF IInv, WordMatchesOwner
    <2>4. UserValues' /\ Signals' /\ WakeupPending' /\ NoReferenceAfterRundown'
        BY <2>1 DEF IInv, UserValues, Signals, WakeupPending,
                    NoReferenceAfterRundown
    <2>5. CountIsExact'
        BY <2>1 DEF IInv, CountIsExact, WaitBlockPointer, EX_RUNDOWN_ACTIVE
    <2> QED
        BY <2>2, <2>3, <2>4, <2>5 DEF IInv
<1>5. CASE WaitSatisfied
    <2> USE <1>5 DEF WaitSatisfied
    <2>1. opc = "wait" /\ word = WaitBlockPointer /\ blkCount = 0
        BY DEF IInv, WordMatchesOwner, Signals
    <2>2. \A u \in Users : refs[u] = 0
        BY <2>1, RefSetEmpty DEF IInv, TypeOK, CountIsExact
    <2>3. TypeOK' /\ WordMatchesOwner'
        BY <2>1 DEF IInv, TypeOK, WordMatchesOwner
    <2>4. UserValues'
        BY <2>2, MaxRefsAssumption DEF IInv, TypeOK, UserValues
    <2>5. Signals' /\ WakeupPending' /\ NoReferenceAfterRundown'
        BY <2>1, <2>2 DEF IInv, Signals, WakeupPending, NoReferenceAfterRundown
    <2>6. CountIsExact'
        BY DEF IInv, CountIsExact
    <2> QED
        BY <2>3, <2>4, <2>5, <2>6 DEF IInv
<1>6. CASE RundownCompleted \/ ReInitialize
    <2> USE <1>6 DEF RundownCompleted, ReInitialize
    <2>1. /\ opc = "down" /\ \A u \in Users : refs[u] = 0
          /\ UNCHANGED <<blkCount, blkEvent, upc, uval, un, refs>>
          /\ word' = EX_RUNDOWN_ACTIVE \/ word' = Counting(0)
        BY DEF IInv, NoReferenceAfterRundown
    <2>2. Cardinality(RefSet(refs)) = 0
        BY <2>1, RefSetEmpty DEF IInv, TypeOK
    <2>3. TypeOK'
        BY <2>1 DEF IInv, TypeOK, Word, EX_RUNDOWN_ACTIVE, Counting
    <2>4. WordMatchesOwner'
        BY DEF IInv, WordMatchesOwner, EX_RUNDOWN_ACTIVE, Counting
    <2>5. UserValues'
        BY <2>1 DEF IInv, UserValues
    <2>6. Signals' /\ WakeupPending' /\ NoReferenceAfterRundown'
        BY <2>1 DEF IInv, Signals, WakeupPending, NoReferenceAfterRundown
    <2>7. CountIsExact'
        BY <2>1, <2>2
        DEF CountIsExact, EX_RUNDOWN_ACTIVE, WaitBlockPointer, Counting
    <2> QED
        BY <2>3, <2>4, <2>5, <2>6, <2>7 DEF IInv
<1> QED
    BY <1>1, <1>2, <1>3, <1>4, <1>5, <1>6 DEF OwnerWaits

-----------------------------------------------------------------------------
\* Every step preserves the inductive invariant.
LEMMA NextPreservesIInv == IInv /\ [Next]_vars => IInv'
<1> SUFFICES ASSUME IInv, [Next]_vars PROVE IInv'
    OBVIOUS
<1>1. CASE UNCHANGED vars
    BY <1>1 DEF vars, IInv, TypeOK, WordMatchesOwner, UserValues, Signals,
                CountIsExact, NoReferenceAfterRundown, WakeupPending
<1>2. ASSUME NEW u \in Users, BeginAcquire(u) \/ BeginRelease(u)
      PROVE  IInv'
    BY <1>2, LocalStepsPreserve DEF BeginAcquire, BeginRelease
<1>3. ASSUME NEW u \in Users, FinishAcquire(u)
      PROVE  IInv'
    BY <1>3, LocalStepsPreserve, GrantPreserves DEF FinishAcquire
<1>4. ASSUME NEW u \in Users, FinishRelease(u)
      PROVE  IInv'
    BY <1>4, LocalStepsPreserve, ReleaseToWordPreserves,
       ReleaseToBlockPreserves, SignalPreserves DEF FinishRelease
<1>5. CASE OwnerWaits \/ RundownCompleted \/ ReInitialize
    BY <1>5, OwnerStepsPreserve
<1> QED
    BY <1>1, <1>2, <1>3, <1>4, <1>5 DEF Next

\* The invariant holds in every reachable state.
THEOREM Invariance == Spec => []IInv
<1>1. Init => IInv
    BY InitEstablishesIInv
<1>2. IInv /\ [Next]_vars => IInv'
    BY NextPreservesIInv
<1> QED
    BY <1>1, <1>2, PTL DEF Spec

\* Type correctness of the descriptor, the wait block and every local.
THEOREM TypeCorrect == Spec => []TypeOK
<1>1. IInv => TypeOK
    BY DEF IInv
<1> QED
    BY <1>1, Invariance, PTL

\* When ExWaitForRundownProtectionRelease has returned, no reference is left.
THEOREM RundownIsSafe == Spec => []NoReferenceAfterRundown
<1>1. IInv => NoReferenceAfterRundown
    BY DEF IInv
<1> QED
    BY <1>1, Invariance, PTL

\* The count in the descriptor, or in the wait block that replaced it, is the
\* number of outstanding references.
THEOREM CountCorrect == Spec => []CountIsExact
<1>1. IInv => CountIsExact
    BY DEF IInv
<1> QED
    BY <1>1, Invariance, PTL

\* No releaser touches the wait block of an owner that has returned.
THEOREM WaitBlockCorrect == Spec => []WaitBlockAlive
<1>1. IInv => WaitBlockAlive
    <2> SUFFICES ASSUME IInv PROVE WaitBlockAlive
        OBVIOUS
    <2>1. \A u, v \in Users : upc[u] = "signal" /\ upc[v] = "signal" => u = v
        BY DEF IInv, Signals
    <2>2. ASSUME NEW u \in Users, upc[u] = "signal"
          PROVE  opc = "wait" /\ word = WaitBlockPointer /\ blkEvent = 0
        BY <2>2 DEF IInv, Signals, WordMatchesOwner
    <2>3. ASSUME NEW u \in Users, upc[u] = "relSlow", uval[u].active = 1
          PROVE  opc = "wait" /\ word = WaitBlockPointer /\ blkEvent = 0
        <3>1. opc = "wait" /\ word = WaitBlockPointer
            BY <2>3 DEF IInv, UserValues, WordMatchesOwner
        <3>2. refs[u] # 0
            BY <2>3, MaxRefsAssumption DEF IInv, TypeOK, UserValues
        <3>3. blkCount # 0
            BY <3>1, <3>2, RefSetEmpty DEF IInv, TypeOK, CountIsExact
        <3> QED
            BY <3>1, <3>3 DEF IInv, TypeOK, Signals
    <2> QED
        BY <2>1, <2>2, <2>3 DEF WaitBlockAlive
<1> QED
    BY <1>1, Invariance, PTL

\* The owner's wakeup is never lost.
THEOREM WakeupCorrect == Spec => []WakeupPending
<1>1. IInv => WakeupPending
    BY DEF IInv
<1> QED
    BY <1>1, Invariance, PTL

-----------------------------------------------------------------------------
\* What a thread's step does to the references it holds: nothing, or it gains
\* some from a word that is not active, or it drops some it holds.
LEMMA UserStepAbstract ==
    ASSUME IInv, NEW u \in Users,
           \/ BeginAcquire(u) \/ FinishAcquire(u)
           \/ BeginRelease(u) \/ FinishRelease(u)
    PROVE  /\ UNCHANGED opc
           /\ word'.active = word.active
           /\ \/ UNCHANGED refs
              \/ /\ word.active = 0
                 /\ refs' = [refs EXCEPT ![u] = @ + un[u]]
              \/ /\ un[u] <= refs[u]
                 /\ refs' = [refs EXCEPT ![u] = @ - un[u]]
<1> USE DEF UserAt, UserReturns, ownerVars
<1>1. CASE BeginAcquire(u) \/ BeginRelease(u)
    BY <1>1 DEF BeginAcquire, BeginRelease, AcquireFastRead, AcquireExRead,
                ReleaseFastRead, ReleaseExRead
<1>2. CASE AcquireGranted(u, "acqFast") \/ AcquireSlowGranted(u)
    <2>1. word.active = 0
        BY <1>2 DEF IInv, UserValues, AcquireGranted, AcquireSlowGranted
    <2>2. word'.active = word.active
        BY <1>2 DEF IInv, TypeOK, Word, AcquireGranted, AcquireSlowGranted,
                    AddRefs
    <2> QED
        BY <1>2, <2>1, <2>2 DEF AcquireGranted, AcquireSlowGranted
<1>3. CASE AcquireFastFails(u) \/ AcquireRefused(u) \/ AcquireSlowRetry(u)
    BY <1>3 DEF AcquireFastFails, AcquireRefused, AcquireSlowRetry
<1>4. CASE ReleaseToWord(u, "relFast") \/ ReleaseSlowToWord(u)
    <2>1. un[u] <= refs[u]
        BY <1>4 DEF IInv, UserValues, ReleaseToWord, ReleaseSlowToWord
    <2>2. word'.active = word.active
        BY <1>4 DEF IInv, TypeOK, Word, ReleaseToWord, ReleaseSlowToWord,
                    SubRefs
    <2> QED
        BY <1>4, <2>1, <2>2 DEF ReleaseToWord, ReleaseSlowToWord
<1>5. CASE ReleaseFastFails(u) \/ ReleaseSlowRetry(u) \/ SignalOwner(u)
    BY <1>5 DEF ReleaseFastFails, ReleaseSlowRetry, SignalOwner
<1>6. CASE ReleaseToBlock(u) \/ ReleaseLastToBlock(u)
    BY <1>6 DEF IInv, UserValues, ReleaseToBlock, ReleaseLastToBlock,
                CountDownInBlock
<1> QED
    BY <1>1, <1>2, <1>3, <1>4, <1>5, <1>6 DEF FinishAcquire, FinishRelease

\* While the active bit is set no thread gains a reference.
THEOREM NoLateGrant == Spec => NoGrantWhileActive
<1>1. IInv /\ [Next]_vars =>
        [word.active = 1 => \A u \in Users : refs'[u] <= refs[u]]_vars
    <2> SUFFICES ASSUME IInv, Next, word.active = 1, NEW v \in Users
                 PROVE  refs'[v] <= refs[v]
        BY DEF vars
    <2>1. refs \in [Users -> 0 .. MaxRefs] /\ un \in [Users -> 1 .. MaxRefs]
        BY DEF IInv, TypeOK
    <2>2. ASSUME NEW u \in Users,
                 \/ BeginAcquire(u) \/ FinishAcquire(u)
                 \/ BeginRelease(u) \/ FinishRelease(u)
          PROVE  refs'[v] <= refs[v]
        <3>1. \/ UNCHANGED refs
              \/ refs' = [refs EXCEPT ![u] = @ - un[u]]
            BY <2>2, UserStepAbstract
        <3> QED
            BY <2>1, <3>1, MaxRefsAssumption
    <2>3. CASE OwnerWaits \/ RundownCompleted \/ ReInitialize
        <3>1. UNCHANGED refs
            BY <2>3 DEF OwnerWaits, WaitNothingHeld, WaitInlineFails,
                        WaitExfFails, WaitInstall, WaitInstallRetry,
                        WaitSatisfied, RundownCompleted, ReInitialize
        <3> QED
            BY <2>1, <3>1, MaxRefsAssumption
    <2> QED
        BY <2>2, <2>3 DEF Next
<1> QED
    BY <1>1, Invariance, PTL DEF Spec, NoGrantWhileActive

\* The descriptor, its wait block and its event implement the abstract
\* protection of RundownSpec: every step is one of its steps, or none.
THEOREM RundownImplementsSpec == Spec => Refinement
<1>1. Init => Abs!AbsInit
    BY DEF Init, Abs!AbsInit, PhaseOf, Counting
<1>2. IInv /\ [Next]_vars => [Abs!AbsNext]_(Abs!absVars)
    <2> SUFFICES ASSUME IInv, [Next]_vars
                 PROVE  Abs!AbsNext \/ (UNCHANGED <<refs, PhaseOf>>)
        BY DEF Abs!absVars
    <2>1. CASE UNCHANGED vars
        BY <2>1 DEF vars, PhaseOf
    <2>2. ASSUME NEW u \in Users,
                 \/ BeginAcquire(u) \/ FinishAcquire(u)
                 \/ BeginRelease(u) \/ FinishRelease(u)
          PROVE  Abs!AbsNext \/ (UNCHANGED <<refs, PhaseOf>>)
        <3>1. un[u] \in 1 .. MaxRefs /\ UNCHANGED PhaseOf
            BY <2>2, UserStepAbstract DEF IInv, TypeOK, PhaseOf
        <3>2. \/ UNCHANGED refs
              \/ Abs!Acquire(u, un[u])
              \/ Abs!Release(u, un[u])
            BY <2>2, <3>1, UserStepAbstract
            DEF Abs!Acquire, Abs!Release, PhaseOf, IInv, TypeOK
        <3> QED
            BY <3>1, <3>2 DEF Abs!AbsNext
    <2>3. CASE WaitNothingHeld
        <3>1. opc \in {"up", "exf"} /\ word = Counting(0)
            BY <2>3 DEF WaitNothingHeld, IInv, WordMatchesOwner,
                        EX_RUNDOWN_ACTIVE
        <3>2. \A u \in Users : refs[u] = 0
            BY <3>1, RefSetEmpty DEF IInv, TypeOK, CountIsExact, Counting
        <3>3. Abs!Down
            BY <2>3, <3>1, <3>2 DEF WaitNothingHeld, Abs!Down, Abs!NoneHeld,
               PhaseOf, Counting, EX_RUNDOWN_ACTIVE
        <3> QED
            BY <3>3 DEF Abs!AbsNext
    <2>4. CASE WaitInlineFails \/ WaitExfFails \/ WaitInstallRetry
        BY <2>4 DEF WaitInlineFails, WaitExfFails, WaitInstallRetry, PhaseOf,
                    IInv, WordMatchesOwner
    <2>5. CASE WaitInstall
        <3>1. word.active = 0 /\ word'.active = 1 /\ UNCHANGED refs
            BY <2>5 DEF WaitInstall, IInv, WordMatchesOwner, WaitBlockPointer
        <3>2. CASE oval.count = 0
            <4>1. \A u \in Users : refs[u] = 0
                BY <2>5, <3>1, <3>2, RefSetEmpty
                DEF WaitInstall, IInv, TypeOK, CountIsExact
            <4>2. Abs!Down
                BY <2>5, <3>1, <3>2, <4>1
                DEF WaitInstall, Abs!Down, Abs!NoneHeld, PhaseOf
            <4> QED
                BY <4>2 DEF Abs!AbsNext
        <3>3. CASE oval.count # 0
            <4>1. Abs!Close
                BY <2>5, <3>1, <3>3 DEF WaitInstall, Abs!Close, PhaseOf
            <4> QED
                BY <4>1 DEF Abs!AbsNext
        <3> QED
            BY <3>2, <3>3
    <2>6. CASE WaitSatisfied
        <3>1. word = WaitBlockPointer /\ blkCount = 0
            BY <2>6 DEF WaitSatisfied, IInv, WordMatchesOwner, Signals
        <3>2. \A u \in Users : refs[u] = 0
            BY <3>1, RefSetEmpty DEF IInv, TypeOK, CountIsExact
        <3>3. Abs!Down
            BY <2>6, <3>1, <3>2 DEF WaitSatisfied, Abs!Down, Abs!NoneHeld,
               PhaseOf, WaitBlockPointer
        <3> QED
            BY <3>3 DEF Abs!AbsNext
    <2>7. CASE RundownCompleted
        BY <2>7 DEF RundownCompleted, ownerVars, PhaseOf, EX_RUNDOWN_ACTIVE,
                    IInv, WordMatchesOwner
    <2>8. CASE ReInitialize
        <3>1. Abs!Reopen
            BY <2>8 DEF ReInitialize, Abs!Reopen, PhaseOf, Counting,
                        IInv, TypeOK, Word, WordMatchesOwner
        <3> QED
            BY <3>1 DEF Abs!AbsNext
    <2> QED
        BY <2>1, <2>2, <2>3, <2>4, <2>5, <2>6, <2>7, <2>8
        DEF Next, OwnerWaits
<1> QED
    BY <1>1, <1>2, Invariance, PTL DEF Spec, Refinement, Abs!AbsSpec

\* The owner may tear the object down when the wait returns, for any number of
\* users: nobody holds a reference, none was lost when the count moved to the
\* wait block, and nobody touches the block any more.
THEOREM ReferencesTheorem == Spec => []ReferencesSafe
    BY RundownIsSafe, CountCorrect, WaitBlockCorrect, PTL DEF ReferencesSafe

-----------------------------------------------------------------------------
\* TypeOK but for IoCount and LowMemoryCount being no less than 0.
\* The instance has a Cardinality of its own, which is the same.
LEMMA SameCardinality == \A S : R!Cardinality(S) = Cardinality(S)
  BY DEF Cardinality, R!Cardinality

Types == /\ removed \in BOOLEAN
         /\ ioCount \in Int
         /\ event \in BOOLEAN
         /\ debug \in BOOLEAN
         /\ blocks \in Seq(Tags)
         /\ lowMemory \in Int
         /\ pc \in [Threads -> R!Pcs]
         /\ tag \in [Threads -> Tags]

\* The references the count knows of,
Refs == {t \in Threads : pc[t] \in {"check", "track", "held", "undo", "forget",
                                    "decrement", "drop"}}

\* and whether the one the lock was initialized with is gone.
Dropped == \E t \in Threads : pc[t] \in {"wait", "alone", "done", "fault"}

Counted == ioCount = Cardinality(Refs) + (IF Dropped THEN 0 ELSE 1)

OneRemover ==
    /\ \A t, u \in Threads : R!IsRemover(t) /\ R!IsRemover(u) => t = u
    /\ removed <=> \E t \in Threads : R!IsRemover(t)

\* NoEarlySignal and RemovedUnused, which need each other.
Over == event \/ \E t \in Threads : pc[t] \in {"signal", "alone", "done", "fault"}
Unused == Over => Dropped /\ \A t \in Threads : ~R!HasReference(t)

Core == Types /\ Counted /\ OneRemover /\ Unused

-----------------------------------------------------------------------------
\* The references are finitely many.
LEMMA RefsFinite == IsFiniteSet(Refs) /\ Cardinality(Refs) \in Nat
  BY ThreadsFinite, FS_Subset, FS_CardinalityType DEF Refs

\* One more is counted,
LEMMA CountUp ==
  ASSUME Counted, NEW t \in Threads, t \notin Refs,
         Refs' = Refs \cup {t}, ioCount' = ioCount + 1, Dropped' = Dropped
  PROVE  Counted'
  <1>1. Cardinality(Refs \cup {t}) = Cardinality(Refs) + 1
    BY RefsFinite, FS_AddElement
  <1>2. CASE Dropped
    BY <1>1, <1>2, RefsFinite DEF Counted
  <1>3. CASE ~Dropped
    BY <1>1, <1>3, RefsFinite DEF Counted
  <1> QED
    BY <1>2, <1>3

\* or one less; when the count gets to 0 nothing is left.
LEMMA CountDown ==
  ASSUME Counted, NEW t \in Refs,
         Refs' = Refs \ {t}, ioCount' = ioCount - 1, Dropped' = Dropped
  PROVE  /\ Counted'
         /\ ioCount - 1 = 0 => Dropped /\ Refs \ {t} = {}
  <1>1. /\ IsFiniteSet(Refs \ {t})
        /\ Cardinality(Refs \ {t}) = Cardinality(Refs) - 1
    BY RefsFinite, FS_RemoveElement
  <1>2. /\ Cardinality(Refs \ {t}) \in Nat
        /\ Cardinality(Refs \ {t}) = 0 <=> Refs \ {t} = {}
    BY <1>1, FS_CardinalityType, FS_EmptySet
  <1>3. CASE Dropped
    BY <1>1, <1>2, <1>3, RefsFinite DEF Counted
  <1>4. CASE ~Dropped
    BY <1>1, <1>2, <1>4, RefsFinite DEF Counted
  <1> QED
    BY <1>3, <1>4

\* A lock just initialized.
LEMMA InitCore == R!Init => Core
  <1> SUFFICES ASSUME R!Init PROVE Core
    OBVIOUS
  <1>1. Types
    <2>1. removed \in BOOLEAN /\ event \in BOOLEAN /\ debug \in BOOLEAN
      BY Zenon DEF R!Init
    <2>2. /\ ioCount \in Int /\ lowMemory \in Int
          /\ blocks \in Seq(Tags)
          /\ pc \in [Threads -> R!Pcs] /\ tag \in [Threads -> Tags]
      BY DEF R!Init, R!Pcs
    <2> QED
      BY <2>1, <2>2 DEF Types
  <1>2. Refs = {} /\ ~Dropped
    BY DEF R!Init, Refs, Dropped
  <1>3. Counted
    BY <1>2, FS_EmptySet DEF R!Init, Counted
  <1>4. OneRemover
    BY DEF R!Init, OneRemover, R!IsRemover
  <1>5. Unused
    BY DEF R!Init, Unused, Over
  <1> QED
    BY <1>1, <1>3, <1>4, <1>5 DEF Core

\* A reference more, good or not.
LEMMA AcquireCore ==
  ASSUME Core, NEW t \in Threads, NEW x \in Tags, R!Acquire(t, x)
  PROVE  Core'
  <1> USE DEF Core
  <1>1. Types'
    BY DEF R!Acquire, R!Goto, Types, R!Pcs, R!common, R!dbg
  <1>2. t \notin Refs /\ Refs' = Refs \cup {t} /\ Dropped' = Dropped
    BY DEF R!Acquire, R!Goto, Types, Refs, Dropped
  <1>3. Counted'
    BY <1>2, CountUp DEF R!Acquire
  <1>4. OneRemover'
    BY DEF R!Acquire, R!Goto, Types, OneRemover, R!IsRemover, R!common
  <1>5. Unused'
    BY <1>2 DEF R!Acquire, R!Goto, Types, Unused, Over, R!HasReference, R!common
  <1> QED
    BY <1>1, <1>3, <1>4, <1>5

\* While Removed is not set nothing is over.
LEMMA GrantedCore ==
  ASSUME Core, NEW t \in Threads, R!Granted(t)
  PROVE  Core'
  <1> USE DEF Core
  <1>1. Types'
    BY DEF R!Granted, R!Goto, Types, R!Pcs, R!common, R!dbg
  <1>2. Refs' = Refs /\ Dropped' = Dropped /\ ioCount' = ioCount
    BY DEF R!Granted, R!Goto, Types, Refs, Dropped, R!common
  <1>3. Counted'
    BY <1>2 DEF Counted
  <1>4. OneRemover'
    BY DEF R!Granted, R!Goto, Types, OneRemover, R!IsRemover, R!common
  <1>5. Unused'
    BY <1>2 DEF R!Granted, R!Goto, Types, Unused, Over, R!HasReference, OneRemover, R!IsRemover, Dropped, R!common
  <1> QED
    BY <1>1, <1>3, <1>4, <1>5

\* The reference is no good, but counted.
LEMMA RefusedCore ==
  ASSUME Core, NEW t \in Threads, R!Refused(t)
  PROVE  Core'
  <1> USE DEF Core
  <1>1. Types'
    BY DEF R!Refused, R!Goto, Types, R!Pcs, R!common, R!dbg
  <1>2. Refs' = Refs /\ Dropped' = Dropped /\ ioCount' = ioCount
    BY DEF R!Refused, R!Goto, Types, Refs, Dropped, R!common
  <1>3. Counted'
    BY <1>2 DEF Counted
  <1>4. OneRemover'
    BY DEF R!Refused, R!Goto, Types, OneRemover, R!IsRemover, R!common
  <1>5. Unused'
    BY <1>2 DEF R!Refused, R!Goto, Types, Unused, Over, R!HasReference, R!common
  <1> QED
    BY <1>1, <1>3, <1>4, <1>5

\* A block more.
LEMMA TrackCore ==
  ASSUME Core, NEW t \in Threads, R!Track(t)
  PROVE  Core'
  <1> USE DEF Core
  <1>1. Types'
    BY DEF R!Track, R!Goto, Types, R!Pcs, R!common, R!dbg
  <1>2. Refs' = Refs /\ Dropped' = Dropped /\ ioCount' = ioCount
    BY DEF R!Track, R!Goto, Types, Refs, Dropped, R!common
  <1>3. Counted'
    BY <1>2 DEF Counted
  <1>4. OneRemover'
    BY DEF R!Track, R!Goto, Types, OneRemover, R!IsRemover, R!common
  <1>5. Unused'
    BY <1>2 DEF R!Track, R!Goto, Types, Unused, Over, R!HasReference, R!common
  <1> QED
    BY <1>1, <1>3, <1>4, <1>5

\* No block.
LEMMA TrackFailedCore ==
  ASSUME Core, NEW t \in Threads, R!TrackFailed(t)
  PROVE  Core'
  <1> USE DEF Core
  <1>1. Types'
    BY DEF R!TrackFailed, R!Goto, Types, R!Pcs, R!common, R!dbg
  <1>2. Refs' = Refs /\ Dropped' = Dropped /\ ioCount' = ioCount
    BY DEF R!TrackFailed, R!Goto, Types, Refs, Dropped, R!common
  <1>3. Counted'
    BY <1>2 DEF Counted
  <1>4. OneRemover'
    BY DEF R!TrackFailed, R!Goto, Types, OneRemover, R!IsRemover, R!common
  <1>5. Unused'
    BY <1>2 DEF R!TrackFailed, R!Goto, Types, Unused, Over, R!HasReference, R!common
  <1> QED
    BY <1>1, <1>3, <1>4, <1>5

\* The count is corrected.
LEMMA UndoCore ==
  ASSUME Core, NEW t \in Threads, R!Undo(t)
  PROVE  Core'
  <1> USE DEF Core
  <1>1. Types'
    BY DEF R!Undo, R!Goto, Types, R!Pcs, R!common, R!dbg
  <1>2. t \in Refs /\ Refs' = Refs \ {t} /\ Dropped' = Dropped
    BY DEF R!Undo, R!Goto, Types, Refs, Dropped
  <1>3. /\ Counted'
        /\ ioCount - 1 = 0 => Dropped /\ Refs \ {t} = {}
    BY <1>2, CountDown DEF R!Undo
  <1>4. OneRemover'
    BY DEF R!Undo, R!Goto, Types, OneRemover, R!IsRemover, R!common
  <1>5. Unused'
    <2>1. CASE ioCount - 1 = 0
      <3>1. Dropped' /\ \A u \in Threads : ~R!HasReference(u)'
        BY <1>2, <1>3, <2>1 DEF Refs, R!HasReference
      <3> QED
        BY <3>1 DEF Unused
    <2>2. CASE ioCount - 1 # 0
      <3>1. pc' = [pc EXCEPT ![t] = "idle"] /\ UNCHANGED event
        BY <2>2 DEF R!Undo, R!Goto
      <3> QED
        BY <1>2, <3>1 DEF Types, Unused, Over, R!HasReference
    <2> QED
      BY <2>1, <2>2
  <1> QED
    BY <1>1, <1>3, <1>4, <1>5

\* A block less.
LEMMA WithoutType ==
  ASSUME NEW s \in Seq(Tags), NEW i \in 1 .. Len(s)
  PROVE  R!Without(s, i) \in Seq(Tags) /\ Len(R!Without(s, i)) = Len(s) - 1
  BY DEF R!Without

\* The tracked reference,
LEMMA ReleaseCore ==
  ASSUME Core, NEW t \in Threads, R!Release(t)
  PROVE  Core'
  <1> USE DEF Core
  <1>1. Types'
    <2>1. blocks' \in Seq(Tags)
      BY WithoutType DEF R!Release, Types
    <2> QED
      BY <2>1 DEF R!Release, R!Goto, Types, R!Pcs, R!common
  <1>2. Refs' = Refs /\ Dropped' = Dropped /\ ioCount' = ioCount
    BY DEF R!Release, R!Goto, Types, Refs, Dropped, R!common
  <1>3. Counted'
    BY <1>2 DEF Counted
  <1>4. OneRemover'
    BY DEF R!Release, R!Goto, Types, OneRemover, R!IsRemover, R!common
  <1>5. Unused'
    BY <1>2 DEF R!Release, R!Goto, Types, Unused, Over, R!HasReference, R!common
  <1> QED
    BY <1>1, <1>3, <1>4, <1>5

\* the untracked one,
LEMMA ReleaseUntrackedCore ==
  ASSUME Core, NEW t \in Threads, R!ReleaseUntracked(t)
  PROVE  Core'
  <1> USE DEF Core
  <1>1. Types'
    BY DEF R!ReleaseUntracked, R!Goto, Types, R!Pcs, R!common, R!dbg
  <1>2. Refs' = Refs /\ Dropped' = Dropped /\ ioCount' = ioCount
    BY DEF R!ReleaseUntracked, R!Goto, Types, Refs, Dropped, R!common
  <1>3. Counted'
    BY <1>2 DEF Counted
  <1>4. OneRemover'
    BY DEF R!ReleaseUntracked, R!Goto, Types, OneRemover, R!IsRemover, R!common
  <1>5. Unused'
    BY <1>2 DEF R!ReleaseUntracked, R!Goto, Types, Unused, Over, R!HasReference, R!common
  <1> QED
    BY <1>1, <1>3, <1>4, <1>5

\* and the one of a lock without debug block.
LEMMA ReleasePlainCore ==
  ASSUME Core, NEW t \in Threads, R!ReleasePlain(t)
  PROVE  Core'
  <1> USE DEF Core
  <1>1. Types'
    BY DEF R!ReleasePlain, R!Goto, Types, R!Pcs, R!common, R!dbg
  <1>2. Refs' = Refs /\ Dropped' = Dropped /\ ioCount' = ioCount
    BY DEF R!ReleasePlain, R!Goto, Types, Refs, Dropped, R!common
  <1>3. Counted'
    BY <1>2 DEF Counted
  <1>4. OneRemover'
    BY DEF R!ReleasePlain, R!Goto, Types, OneRemover, R!IsRemover, R!common
  <1>5. Unused'
    BY <1>2 DEF R!ReleasePlain, R!Goto, Types, Unused, Over, R!HasReference, R!common
  <1> QED
    BY <1>1, <1>3, <1>4, <1>5

\* A missing block less.
LEMMA ForgetCore ==
  ASSUME Core, NEW t \in Threads, R!Forget(t)
  PROVE  Core'
  <1> USE DEF Core
  <1>1. Types'
    BY DEF R!Forget, R!Goto, Types, R!Pcs, R!common, R!dbg
  <1>2. Refs' = Refs /\ Dropped' = Dropped /\ ioCount' = ioCount
    BY DEF R!Forget, R!Goto, Types, Refs, Dropped, R!common
  <1>3. Counted'
    BY <1>2 DEF Counted
  <1>4. OneRemover'
    BY DEF R!Forget, R!Goto, Types, OneRemover, R!IsRemover, R!common
  <1>5. Unused'
    BY <1>2 DEF R!Forget, R!Goto, Types, Unused, Over, R!HasReference, R!common
  <1> QED
    BY <1>1, <1>3, <1>4, <1>5

\* A reference less.
LEMMA DecrementCore ==
  ASSUME Core, NEW t \in Threads, R!Decrement(t)
  PROVE  Core'
  <1> USE DEF Core
  <1>1. Types'
    BY DEF R!Decrement, R!Goto, Types, R!Pcs, R!common, R!dbg
  <1>2. t \in Refs /\ Refs' = Refs \ {t} /\ Dropped' = Dropped
    BY DEF R!Decrement, R!Goto, Types, Refs, Dropped
  <1>3. /\ Counted'
        /\ ioCount - 1 = 0 => Dropped /\ Refs \ {t} = {}
    BY <1>2, CountDown DEF R!Decrement
  <1>4. OneRemover'
    BY DEF R!Decrement, R!Goto, Types, OneRemover, R!IsRemover, R!common
  <1>5. Unused'
    <2>1. CASE ioCount - 1 = 0
      <3>1. Dropped' /\ \A u \in Threads : ~R!HasReference(u)'
        BY <1>2, <1>3, <2>1 DEF Refs, R!HasReference
      <3> QED
        BY <3>1 DEF Unused
    <2>2. CASE ioCount - 1 # 0
      <3>1. pc' = [pc EXCEPT ![t] = "idle"] /\ UNCHANGED event
        BY <2>2 DEF R!Decrement, R!Goto
      <3> QED
        BY <1>2, <3>1 DEF Types, Unused, Over, R!HasReference
    <2> QED
      BY <2>1, <2>2
  <1> QED
    BY <1>1, <1>3, <1>4, <1>5

\* Nobody is left already.
LEMMA SetEventCore ==
  ASSUME Core, NEW t \in Threads, R!SetEvent(t)
  PROVE  Core'
  <1> USE DEF Core
  <1>1. Types'
    BY DEF R!SetEvent, R!Goto, Types, R!Pcs, R!common, R!dbg
  <1>2. Refs' = Refs /\ Dropped' = Dropped /\ ioCount' = ioCount
    BY DEF R!SetEvent, R!Goto, Types, Refs, Dropped, R!common
  <1>3. Counted'
    BY <1>2 DEF Counted
  <1>4. OneRemover'
    BY DEF R!SetEvent, R!Goto, Types, OneRemover, R!IsRemover, R!common
  <1>5. Unused'
    BY <1>2 DEF R!SetEvent, R!Goto, Types, Unused, Over, R!HasReference, R!common
  <1> QED
    BY <1>1, <1>3, <1>4, <1>5

\* The first and only remover.
LEMMA SetRemovedCore ==
  ASSUME Core, NEW t \in Threads, R!SetRemoved(t)
  PROVE  Core'
  <1> USE DEF Core
  <1>1. Types'
    BY DEF R!SetRemoved, R!Goto, Types, R!Pcs, R!common, R!dbg
  <1>2. Refs' = Refs /\ Dropped' = Dropped /\ ioCount' = ioCount
    BY DEF R!SetRemoved, R!Goto, Types, Refs, Dropped, R!common
  <1>3. Counted'
    BY <1>2 DEF Counted
  <1>4. OneRemover'
    BY DEF R!SetRemoved, R!Goto, Types, OneRemover, R!IsRemover, R!common
  <1>5. Unused'
    BY <1>2 DEF R!SetRemoved, R!Goto, Types, Unused, Over, R!HasReference
  <1> QED
    BY <1>1, <1>3, <1>4, <1>5

\* Its reference.
LEMMA DropCore ==
  ASSUME Core, NEW t \in Threads, R!Drop(t)
  PROVE  Core'
  <1> USE DEF Core
  <1>1. Types'
    BY DEF R!Drop, R!Goto, Types, R!Pcs, R!common, R!dbg
  <1>2. t \in Refs /\ Refs' = Refs \ {t} /\ Dropped' = Dropped
    BY DEF R!Drop, R!Goto, Types, Refs, Dropped
  <1>3. /\ Counted'
        /\ ioCount - 1 = 0 => Dropped /\ Refs \ {t} = {}
    BY <1>2, CountDown DEF R!Drop
  <1>4. OneRemover'
    BY DEF R!Drop, R!Goto, Types, OneRemover, R!IsRemover, R!common
  <1>5. Unused'
    BY <1>2 DEF R!Drop, R!Goto, Types, Unused, Over, R!HasReference
  <1> QED
    BY <1>1, <1>3, <1>4, <1>5

\* The lock's own reference: the count is the others' now.
LEMMA DropLastCore ==
  ASSUME Core, NEW t \in Threads, R!DropLast(t)
  PROVE  Core'
  <1> USE DEF Core
  <1>1. Types'
    BY DEF R!DropLast, R!Goto, Types, R!Pcs, R!common, R!dbg
  <1>2. Refs' = Refs /\ ~Dropped /\ Dropped'
    BY DEF R!DropLast, R!Goto, Types, Refs, Dropped, OneRemover, R!IsRemover
  <1>3. Counted'
    BY <1>2, RefsFinite DEF Counted, R!DropLast
  <1>4. OneRemover'
    BY DEF R!DropLast, R!Goto, Types, OneRemover, R!IsRemover, R!common
  <1>5. Unused'
    <2>1. CASE ioCount - 1 > 0
      <3>1. pc' = [pc EXCEPT ![t] = "wait"] /\ UNCHANGED event
        BY <2>1 DEF R!DropLast, R!Goto
      <3> QED
        BY <1>2, <3>1 DEF Types, Unused, Over, R!HasReference
    <2>2. CASE ~(ioCount - 1 > 0)
      <3>1. Refs = {}
        BY <1>2, <2>2, RefsFinite, FS_EmptySet DEF Counted, Types
      <3> QED
        BY <1>2, <3>1 DEF Unused, Refs, R!HasReference
    <2> QED
      BY <2>1, <2>2
  <1> QED
    BY <1>1, <1>3, <1>4, <1>5

\* The event says that nobody is left.
LEMMA WaitCore ==
  ASSUME Core, NEW t \in Threads, R!Wait(t)
  PROVE  Core'
  <1> USE DEF Core
  <1>1. Types'
    BY DEF R!Wait, R!Goto, Types, R!Pcs, R!common, R!dbg
  <1>2. Refs' = Refs /\ Dropped' = Dropped /\ ioCount' = ioCount
    BY DEF R!Wait, R!Goto, Types, Refs, Dropped, R!common
  <1>3. Counted'
    BY <1>2 DEF Counted
  <1>4. OneRemover'
    BY DEF R!Wait, R!Goto, Types, OneRemover, R!IsRemover, R!common
  <1>5. Unused'
    BY <1>2 DEF R!Wait, R!Goto, Types, Unused, Over, R!HasReference, R!common
  <1> QED
    BY <1>1, <1>3, <1>4, <1>5

\* The removal is over.
LEMMA FreeBlockCore ==
  ASSUME Core, NEW t \in Threads, R!FreeBlock(t)
  PROVE  Core'
  <1> USE DEF Core
  <1>1. Types'
    BY DEF R!FreeBlock, R!Goto, Types, R!Pcs, R!common, R!dbg
  <1>2. Refs' = Refs /\ Dropped' = Dropped /\ ioCount' = ioCount
    BY DEF R!FreeBlock, R!Goto, Types, Refs, Dropped, R!common
  <1>3. Counted'
    BY <1>2 DEF Counted
  <1>4. OneRemover'
    BY DEF R!FreeBlock, R!Goto, Types, OneRemover, R!IsRemover, R!common
  <1>5. Unused'
    BY <1>2 DEF R!FreeBlock, R!Goto, Types, Unused, Over, R!HasReference, R!common
  <1> QED
    BY <1>1, <1>3, <1>4, <1>5

\* or it faults, with no block to free.
LEMMA NoBlockLeftCore ==
  ASSUME Core, NEW t \in Threads, R!NoBlockLeft(t)
  PROVE  Core'
  <1> USE DEF Core
  <1>1. Types'
    BY DEF R!NoBlockLeft, R!Goto, Types, R!Pcs, R!common, R!dbg
  <1>2. Refs' = Refs /\ Dropped' = Dropped /\ ioCount' = ioCount
    BY DEF R!NoBlockLeft, R!Goto, Types, Refs, Dropped, R!common
  <1>3. Counted'
    BY <1>2 DEF Counted
  <1>4. OneRemover'
    BY DEF R!NoBlockLeft, R!Goto, Types, OneRemover, R!IsRemover, R!common
  <1>5. Unused'
    BY <1>2 DEF R!NoBlockLeft, R!Goto, Types, Unused, Over, R!HasReference, R!common
  <1> QED
    BY <1>1, <1>3, <1>4, <1>5

\* Core is an invariant.
LEMMA NextCore == Core /\ [R!Next]_(R!vars) => Core'
  <1> SUFFICES ASSUME Core, [R!Next]_(R!vars) PROVE Core'
    OBVIOUS
  <1>1. CASE UNCHANGED R!vars
    BY <1>1 DEF Core, Types, Counted, OneRemover, Unused, Over, Refs, Dropped,
                R!IsRemover, R!HasReference, R!vars, R!common, R!dbg
  <1>2. ASSUME NEW t \in Threads, R!Begin(t) PROVE Core'
    BY <1>2, AcquireCore DEF R!Begin
  <1>3. ASSUME NEW t \in Threads, R!Continue(t) PROVE Core'
    BY <1>3, GrantedCore, RefusedCore, TrackCore, TrackFailedCore, UndoCore,
       ForgetCore, DecrementCore, SetEventCore, DropCore, DropLastCore,
       WaitCore, FreeBlockCore, NoBlockLeftCore DEF R!Continue
  <1>4. ASSUME NEW t \in Threads, R!Return(t) PROVE Core'
    BY <1>4, ReleaseCore, ReleaseUntrackedCore, ReleasePlainCore DEF R!Return
  <1> QED
    BY <1>1, <1>2, <1>3, <1>4, SetRemovedCore DEF R!Next

-----------------------------------------------------------------------------
(***************************************************************************)
(* The tracking blocks.                                                    *)
(***************************************************************************)
\* The references that may have a block, and those known to have none.
Tracked == {t \in Threads : pc[t] = "held" \/ R!IsRemover(t)}
Forgetting == {t \in Threads : pc[t] = "forget"}

\* Every block is that of a reference with its tag, no two of the same one.
IsMatching(f) ==
    /\ f \in [1 .. Len(blocks) -> Tracked]
    /\ \A i, j \in 1 .. Len(blocks) : f[i] = f[j] => i = j
    /\ \A i \in 1 .. Len(blocks) : blocks[i] = tag[f[i]]
Matched == \E f : IsMatching(f)

AddUp == debug => Len(blocks) + lowMemory = Cardinality(Tracked \cup Forgetting)

NoDebug == ~debug => /\ blocks = <<>>
                     /\ lowMemory = 0
                     /\ \A t \in Threads : pc[t] \notin {"track", "forget"}

LockIInv == Core /\ Matched /\ AddUp /\ NoDebug

\* These sets are finite.
LEMMA TrackedFinite ==
  /\ IsFiniteSet(Tracked) /\ Cardinality(Tracked) \in Nat
  /\ IsFiniteSet(Forgetting) /\ Cardinality(Forgetting) \in Nat
  /\ IsFiniteSet(Tracked \cup Forgetting)
  /\ Cardinality(Tracked \cup Forgetting) \in Nat
  BY ThreadsFinite, FS_Subset, FS_CardinalityType DEF Tracked, Forgetting

\* Threads that found no block have been counted.
LEMMA LowEnough ==
  ASSUME LockIInv
  PROVE  lowMemory >= Cardinality(Forgetting) \/ (~debug /\ lowMemory = 0)
  <1>1. PICK f : IsMatching(f)
    BY DEF LockIInv, Matched
  <1>2. f \in Injection(1 .. Len(blocks), Tracked)
    BY <1>1, Fun_IsInj DEF IsMatching
  <1>3. Len(blocks) \in Nat /\ lowMemory \in Int
    BY DEF LockIInv, Core, Types
  <1>4. Cardinality(1 .. Len(blocks)) = Len(blocks)
    <2>1. 1 \in Int /\ Len(blocks) \in Int
      BY <1>3
    <2>2. Cardinality(1 .. Len(blocks))
            = IF 1 > Len(blocks) THEN 0 ELSE Len(blocks) - 1 + 1
      BY <2>1, FS_Interval, Zenon
    <2> QED
      BY <1>3, <2>2
  <1>5. Len(blocks) <= Cardinality(Tracked)
    BY <1>2, <1>4, TrackedFinite, FS_Injection
  <1>6. Cardinality(Tracked \cup Forgetting)
          = Cardinality(Tracked) + Cardinality(Forgetting)
    <2>1. Tracked \cap Forgetting = {}
      BY DEF Tracked, Forgetting, R!IsRemover
    <2>2. Cardinality(Tracked \cup Forgetting)
            = Cardinality(Tracked) + Cardinality(Forgetting)
                - Cardinality(Tracked \cap Forgetting)
      BY TrackedFinite, FS_Union
    <2>3. Cardinality(Tracked \cap Forgetting) = 0
      BY <2>1, FS_EmptySet
    <2> QED
      BY <2>2, <2>3, TrackedFinite
  <1>7. CASE debug
    BY <1>3, <1>5, <1>6, <1>7, TrackedFinite DEF LockIInv, AddUp
  <1>8. CASE ~debug
    BY <1>8 DEF LockIInv, NoDebug
  <1> QED
    BY <1>7, <1>8

\* The matching remains one while the blocks do, and their references do.
LEMMA MatchingKept ==
  ASSUME Matched, Tracked \subseteq Tracked', blocks' = blocks,
         \A u \in Tracked : tag'[u] = tag[u]
  PROVE  Matched'
  <1>1. PICK f : IsMatching(f)
    BY DEF Matched
  <1>2. IsMatching(f)'
    BY <1>1 DEF IsMatching
  <1> QED
    BY <1>2 DEF Matched

\* No blocks, no references with one.
LEMMA InitIInv == R!Init => LockIInv
  <1> SUFFICES ASSUME R!Init PROVE LockIInv
    OBVIOUS
  <1>1. Tracked = {} /\ Forgetting = {} /\ blocks = <<>> /\ lowMemory = 0
    BY DEF R!Init, Tracked, Forgetting, R!IsRemover
  <1>2. IsMatching(<<>>)
    BY <1>1 DEF IsMatching
  <1>3. AddUp
    <2>1. Len(blocks) + lowMemory = 0 /\ Tracked \cup Forgetting = {}
      BY <1>1
    <2> QED
      BY <2>1, FS_EmptySet DEF AddUp
  <1>4. NoDebug
    BY <1>1 DEF R!Init, NoDebug
  <1> QED
    BY <1>2, <1>3, <1>4, InitCore DEF LockIInv, Matched

\* The tag of a thread changes while it has no block.
LEMMA AcquireStep ==
  ASSUME LockIInv, NEW t \in Threads, NEW x \in Tags, R!Acquire(t, x)
  PROVE  Matched' /\ AddUp' /\ NoDebug'
  <1> USE DEF LockIInv
  <1>1. Tracked' = Tracked /\ Forgetting' = Forgetting /\ UNCHANGED R!dbg
    BY DEF R!Acquire, R!Goto, Core, Types, Tracked, Forgetting, R!IsRemover, R!dbg
  <1>2. Matched'
    BY <1>1, MatchingKept DEF R!Acquire, R!Goto, Core, Types, Tracked, R!IsRemover, R!dbg
  <1>3. AddUp'
    BY <1>1 DEF AddUp, R!dbg
  <1>4. NoDebug'
    BY <1>1 DEF R!Acquire, R!Goto, Core, Types, NoDebug, R!dbg
  <1> QED
    BY <1>2, <1>3, <1>4

\* These steps concern no tracked reference.
LEMMA RefusedStep ==
  ASSUME LockIInv, NEW t \in Threads, R!Refused(t)
  PROVE  Matched' /\ AddUp' /\ NoDebug'
  <1> USE DEF LockIInv
  <1>1. Tracked' = Tracked /\ Forgetting' = Forgetting /\ UNCHANGED R!dbg
    BY DEF R!Refused, R!Goto, Core, Types, Tracked, Forgetting, R!IsRemover, R!dbg
  <1>2. Matched'
    BY <1>1, MatchingKept DEF R!Refused, R!Goto, Core, Types, Tracked, R!IsRemover, R!dbg
  <1>3. AddUp'
    BY <1>1 DEF AddUp, R!dbg
  <1>4. NoDebug'
    BY <1>1 DEF R!Refused, R!Goto, Core, Types, NoDebug, R!dbg
  <1> QED
    BY <1>2, <1>3, <1>4

\* Neither does this,
LEMMA UndoStep ==
  ASSUME LockIInv, NEW t \in Threads, R!Undo(t)
  PROVE  Matched' /\ AddUp' /\ NoDebug'
  <1> USE DEF LockIInv
  <1>1. Tracked' = Tracked /\ Forgetting' = Forgetting /\ UNCHANGED R!dbg
    BY DEF R!Undo, R!Goto, Core, Types, Tracked, Forgetting, R!IsRemover, R!dbg
  <1>2. Matched'
    BY <1>1, MatchingKept DEF R!Undo, R!Goto, Core, Types, Tracked, R!IsRemover, R!dbg
  <1>3. AddUp'
    BY <1>1 DEF AddUp, R!dbg
  <1>4. NoDebug'
    BY <1>1 DEF R!Undo, R!Goto, Core, Types, NoDebug, R!dbg
  <1> QED
    BY <1>2, <1>3, <1>4

\* this,
LEMMA DecrementStep ==
  ASSUME LockIInv, NEW t \in Threads, R!Decrement(t)
  PROVE  Matched' /\ AddUp' /\ NoDebug'
  <1> USE DEF LockIInv
  <1>1. Tracked' = Tracked /\ Forgetting' = Forgetting /\ UNCHANGED R!dbg
    BY DEF R!Decrement, R!Goto, Core, Types, Tracked, Forgetting, R!IsRemover, R!dbg
  <1>2. Matched'
    BY <1>1, MatchingKept DEF R!Decrement, R!Goto, Core, Types, Tracked, R!IsRemover, R!dbg
  <1>3. AddUp'
    BY <1>1 DEF AddUp, R!dbg
  <1>4. NoDebug'
    BY <1>1 DEF R!Decrement, R!Goto, Core, Types, NoDebug, R!dbg
  <1> QED
    BY <1>2, <1>3, <1>4

\* or this.
LEMMA SetEventStep ==
  ASSUME LockIInv, NEW t \in Threads, R!SetEvent(t)
  PROVE  Matched' /\ AddUp' /\ NoDebug'
  <1> USE DEF LockIInv
  <1>1. Tracked' = Tracked /\ Forgetting' = Forgetting /\ UNCHANGED R!dbg
    BY DEF R!SetEvent, R!Goto, Core, Types, Tracked, Forgetting, R!IsRemover, R!dbg
  <1>2. Matched'
    BY <1>1, MatchingKept DEF R!SetEvent, R!Goto, Core, Types, Tracked, R!IsRemover, R!dbg
  <1>3. AddUp'
    BY <1>1 DEF AddUp, R!dbg
  <1>4. NoDebug'
    BY <1>1 DEF R!SetEvent, R!Goto, Core, Types, NoDebug, R!dbg
  <1> QED
    BY <1>2, <1>3, <1>4

\* The remover's block stays,
LEMMA SetRemovedStep ==
  ASSUME LockIInv, NEW t \in Threads, R!SetRemoved(t)
  PROVE  Matched' /\ AddUp' /\ NoDebug'
  <1> USE DEF LockIInv
  <1>1. Tracked' = Tracked /\ Forgetting' = Forgetting /\ UNCHANGED R!dbg
    BY DEF R!SetRemoved, R!Goto, Core, Types, Tracked, Forgetting, R!IsRemover, R!dbg
  <1>2. Matched'
    BY <1>1, MatchingKept DEF R!SetRemoved, R!Goto, Core, Types, Tracked, R!IsRemover, R!dbg
  <1>3. AddUp'
    BY <1>1 DEF AddUp, R!dbg
  <1>4. NoDebug'
    BY <1>1 DEF R!SetRemoved, R!Goto, Core, Types, NoDebug, R!dbg
  <1> QED
    BY <1>2, <1>3, <1>4

\* and stays,
LEMMA DropStep ==
  ASSUME LockIInv, NEW t \in Threads, R!Drop(t)
  PROVE  Matched' /\ AddUp' /\ NoDebug'
  <1> USE DEF LockIInv
  <1>1. Tracked' = Tracked /\ Forgetting' = Forgetting /\ UNCHANGED R!dbg
    BY DEF R!Drop, R!Goto, Core, Types, Tracked, Forgetting, R!IsRemover, R!dbg
  <1>2. Matched'
    BY <1>1, MatchingKept DEF R!Drop, R!Goto, Core, Types, Tracked, R!IsRemover, R!dbg
  <1>3. AddUp'
    BY <1>1 DEF AddUp, R!dbg
  <1>4. NoDebug'
    BY <1>1 DEF R!Drop, R!Goto, Core, Types, NoDebug, R!dbg
  <1> QED
    BY <1>2, <1>3, <1>4

\* and stays,
LEMMA DropLastStep ==
  ASSUME LockIInv, NEW t \in Threads, R!DropLast(t)
  PROVE  Matched' /\ AddUp' /\ NoDebug'
  <1> USE DEF LockIInv
  <1>1. Tracked' = Tracked /\ Forgetting' = Forgetting /\ UNCHANGED R!dbg
    BY DEF R!DropLast, R!Goto, Core, Types, Tracked, Forgetting, R!IsRemover, R!dbg
  <1>2. Matched'
    BY <1>1, MatchingKept DEF R!DropLast, R!Goto, Core, Types, Tracked, R!IsRemover, R!dbg
  <1>3. AddUp'
    BY <1>1 DEF AddUp, R!dbg
  <1>4. NoDebug'
    BY <1>1 DEF R!DropLast, R!Goto, Core, Types, NoDebug, R!dbg
  <1> QED
    BY <1>2, <1>3, <1>4

\* and stays,
LEMMA WaitStep ==
  ASSUME LockIInv, NEW t \in Threads, R!Wait(t)
  PROVE  Matched' /\ AddUp' /\ NoDebug'
  <1> USE DEF LockIInv
  <1>1. Tracked' = Tracked /\ Forgetting' = Forgetting /\ UNCHANGED R!dbg
    BY DEF R!Wait, R!Goto, Core, Types, Tracked, Forgetting, R!IsRemover, R!dbg
  <1>2. Matched'
    BY <1>1, MatchingKept DEF R!Wait, R!Goto, Core, Types, Tracked, R!IsRemover, R!dbg
  <1>3. AddUp'
    BY <1>1 DEF AddUp, R!dbg
  <1>4. NoDebug'
    BY <1>1 DEF R!Wait, R!Goto, Core, Types, NoDebug, R!dbg
  <1> QED
    BY <1>2, <1>3, <1>4

\* as the last one.
LEMMA FreeBlockStep ==
  ASSUME LockIInv, NEW t \in Threads, R!FreeBlock(t)
  PROVE  Matched' /\ AddUp' /\ NoDebug'
  <1> USE DEF LockIInv
  <1>1. Tracked' = Tracked /\ Forgetting' = Forgetting /\ UNCHANGED R!dbg
    BY DEF R!FreeBlock, R!Goto, Core, Types, Tracked, Forgetting, R!IsRemover, R!dbg
  <1>2. Matched'
    BY <1>1, MatchingKept DEF R!FreeBlock, R!Goto, Core, Types, Tracked, R!IsRemover, R!dbg
  <1>3. AddUp'
    BY <1>1 DEF AddUp, R!dbg
  <1>4. NoDebug'
    BY <1>1 DEF R!FreeBlock, R!Goto, Core, Types, NoDebug, R!dbg
  <1> QED
    BY <1>2, <1>3, <1>4

\* A fault changes nothing either.
LEMMA NoBlockLeftStep ==
  ASSUME LockIInv, NEW t \in Threads, R!NoBlockLeft(t)
  PROVE  Matched' /\ AddUp' /\ NoDebug'
  <1> USE DEF LockIInv
  <1>1. Tracked' = Tracked /\ Forgetting' = Forgetting /\ UNCHANGED R!dbg
    BY DEF R!NoBlockLeft, R!Goto, Core, Types, Tracked, Forgetting, R!IsRemover, R!dbg
  <1>2. Matched'
    BY <1>1, MatchingKept DEF R!NoBlockLeft, R!Goto, Core, Types, Tracked, R!IsRemover, R!dbg
  <1>3. AddUp'
    BY <1>1 DEF AddUp, R!dbg
  <1>4. NoDebug'
    BY <1>1 DEF R!NoBlockLeft, R!Goto, Core, Types, NoDebug, R!dbg
  <1> QED
    BY <1>2, <1>3, <1>4

\* The lock without debug block has no blocks to match.
LEMMA GrantedStep ==
  ASSUME LockIInv, NEW t \in Threads, R!Granted(t)
  PROVE  Matched' /\ AddUp' /\ NoDebug'
  <1> USE DEF LockIInv
  <1>1. /\ Tracked \subseteq Tracked' /\ Forgetting' = Forgetting
        /\ UNCHANGED <<R!dbg, tag>>
        /\ debug => Tracked' = Tracked
    BY DEF R!Granted, R!Goto, Core, Types, Tracked, Forgetting, R!IsRemover, R!dbg
  <1>2. Matched'
    BY <1>1, MatchingKept DEF R!dbg
  <1>3. AddUp'
    BY <1>1 DEF AddUp, R!dbg
  <1>4. NoDebug'
    BY <1>1 DEF R!Granted, R!Goto, Core, Types, NoDebug, R!dbg
  <1> QED
    BY <1>2, <1>3, <1>4

\* The new block is matched with the new reference.
LEMMA TrackStep ==
  ASSUME LockIInv, NEW t \in Threads, R!Track(t)
  PROVE  Matched' /\ AddUp' /\ NoDebug'
  <1> USE DEF LockIInv
  <1>1. /\ t \notin Tracked \cup Forgetting
        /\ Tracked' = Tracked \cup {t} /\ Forgetting' = Forgetting
        /\ UNCHANGED <<lowMemory, tag>>
        /\ debug /\ debug'
    BY DEF R!Track, R!Goto, Core, Types, Tracked, Forgetting, R!IsRemover, NoDebug
  <1>2. /\ blocks \in Seq(Tags) /\ Len(blocks') = Len(blocks) + 1
        /\ blocks'[1] = tag[t]
        /\ \A i \in 2 .. Len(blocks) + 1 : blocks'[i] = blocks[i - 1]
    BY DEF R!Track, Core, Types
  <1>3. Matched'
    <2>1. PICK f : IsMatching(f)
      BY DEF Matched
    <2> DEFINE g == [i \in 1 .. Len(blocks) + 1 |-> IF i = 1 THEN t ELSE f[i - 1]]
    <2>2. \A i \in 2 .. Len(blocks) + 1 : i - 1 \in 1 .. Len(blocks)
      BY <1>2
    <2>3. g \in [1 .. Len(blocks) + 1 -> Tracked']
      BY <1>1, <2>1, <2>2 DEF IsMatching
    <2>4. ASSUME NEW i \in 1 .. Len(blocks) + 1, NEW j \in 1 .. Len(blocks) + 1,
                 g[i] = g[j]
          PROVE  i = j
      <3>1. \A k \in 2 .. Len(blocks) + 1 : g[k] = f[k - 1] /\ g[k] # t
        BY <1>1, <2>1, <2>2 DEF IsMatching
      <3>2. g[1] = t /\ Len(blocks) \in Nat
        BY <1>2
      <3>3. CASE i = 1 \/ j = 1
        <4> HIDE DEF g
        <4> QED
          BY <2>4, <3>1, <3>2, <3>3
      <3>4. CASE i \in 2 .. Len(blocks) + 1 /\ j \in 2 .. Len(blocks) + 1
        <4>1. f[i - 1] = f[j - 1]
          BY <2>4, <3>1, <3>4
        <4> QED
          BY <4>1, <2>1, <2>2, <3>4 DEF IsMatching
      <3> QED
        BY <3>2, <3>3, <3>4
    <2>5. \A i \in 1 .. Len(blocks) + 1 : blocks'[i] = tag[g[i]]
      BY <1>1, <1>2, <2>1, <2>2 DEF IsMatching
    <2> HIDE DEF g
    <2>6. PICK h : h = g
      OBVIOUS
    <2>7. IsMatching(h)'
      BY <1>1, <1>2, <2>3, <2>4, <2>5, <2>6 DEF IsMatching
    <2> QED
      BY <2>7 DEF Matched
  <1>4. AddUp'
    <2>1. (Tracked \cup Forgetting)' = (Tracked \cup Forgetting) \cup {t}
      BY <1>1
    <2>2. Cardinality((Tracked \cup Forgetting)')
            = Cardinality(Tracked \cup Forgetting) + 1
      BY <1>1, <2>1, TrackedFinite, FS_AddElement
    <2> QED
      BY <1>1, <1>2, <2>2 DEF AddUp, Core, Types
  <1>5. NoDebug'
    BY <1>1 DEF NoDebug
  <1> QED
    BY <1>3, <1>4, <1>5

\* The missing block is counted.
LEMMA TrackFailedStep ==
  ASSUME LockIInv, NEW t \in Threads, R!TrackFailed(t)
  PROVE  Matched' /\ AddUp' /\ NoDebug'
  <1> USE DEF LockIInv
  <1>1. /\ t \notin Tracked \cup Forgetting
        /\ Tracked' = Tracked \cup {t} /\ Forgetting' = Forgetting
        /\ UNCHANGED <<blocks, tag>> /\ lowMemory' = lowMemory + 1
        /\ debug /\ debug'
    BY DEF R!TrackFailed, R!Goto, Core, Types, Tracked, Forgetting, R!IsRemover, NoDebug
  <1>2. Matched'
    BY <1>1, MatchingKept
  <1>3. AddUp'
    <2>1. (Tracked \cup Forgetting)' = (Tracked \cup Forgetting) \cup {t}
      BY <1>1
    <2>2. Cardinality((Tracked \cup Forgetting)')
            = Cardinality(Tracked \cup Forgetting) + 1
      BY <1>1, <2>1, TrackedFinite, FS_AddElement
    <2> QED
      BY <1>1, <2>2, TrackedFinite DEF AddUp, Core, Types
  <1>4. NoDebug'
    BY <1>1 DEF NoDebug
  <1> QED
    BY <1>2, <1>3, <1>4

(***************************************************************************)
(* The block that is freed need not be the one the thread allocated, since *)
(* tags are shared: then its owner gets the block of the thread that       *)
(* leaves.                                                                 *)
(***************************************************************************)
LEMMA ReleaseStep ==
  ASSUME LockIInv, NEW t \in Threads, R!Release(t)
  PROVE  Matched' /\ AddUp' /\ NoDebug'
  <1> USE DEF LockIInv
  <1>1. /\ t \in Tracked /\ t \notin Forgetting
        /\ Tracked' = Tracked \ {t} /\ Forgetting' = Forgetting
        /\ UNCHANGED <<lowMemory, tag>>
        /\ debug /\ debug'
    BY DEF R!Release, R!Goto, Core, Types, Tracked, Forgetting, R!IsRemover
  <1>2. PICK i \in DOMAIN blocks : /\ blocks[i] = tag[t]
                                   /\ blocks' = R!Without(blocks, i)
    BY DEF R!Release
  <1> DEFINE n == Len(blocks)
             Old(j) == IF j < i THEN j ELSE j + 1
  <1>3. /\ n \in Nat /\ i \in 1 .. n /\ Len(blocks') = n - 1
        /\ \A j \in 1 .. n - 1 : blocks'[j] = blocks[Old(j)]
    BY <1>2 DEF Core, Types, R!Without
  <1>4. /\ \A j \in 1 .. n - 1 : Old(j) \in 1 .. n /\ Old(j) # i
        /\ \A j, k \in 1 .. n - 1 : Old(j) = Old(k) => j = k
    BY <1>3
  <1>5. Matched'
    <2>1. PICK f : IsMatching(f)
      BY DEF Matched
    <2> DEFINE g == [j \in 1 .. n - 1 |-> IF f[Old(j)] = t THEN f[i] ELSE f[Old(j)]]
    <2> HIDE DEF Old, n
    <2>2. /\ f \in [1 .. n -> Tracked]
          /\ \A j, k \in 1 .. n : f[j] = f[k] => j = k
          /\ \A j \in 1 .. n : blocks[j] = tag[f[j]]
      BY <2>1 DEF IsMatching, n
    <2>3. ASSUME NEW j \in 1 .. n - 1
          PROVE  /\ g[j] \in Tracked \ {t}
                 /\ blocks'[j] = tag[g[j]]
      BY <1>2, <1>3, <1>4, <2>2, <2>3
    <2>4. ASSUME NEW j \in 1 .. n - 1, NEW k \in 1 .. n - 1, g[j] = g[k]
          PROVE  j = k
      <3>1. Old(j) = Old(k)
        BY <1>3, <1>4, <2>2, <2>4
      <3> QED
        BY <1>4, <3>1
    <2>5. g \in [1 .. n - 1 -> Tracked \ {t}]
      BY <2>3
    <2> HIDE DEF g
    <2>6. PICK h : h = g
      OBVIOUS
    <2>7. IsMatching(h)'
      BY <1>1, <1>3, <2>3, <2>4, <2>5, <2>6 DEF IsMatching
    <2> QED
      BY <2>7 DEF Matched
  <1>6. AddUp'
    <2>1. (Tracked \cup Forgetting)' = (Tracked \cup Forgetting) \ {t}
      BY <1>1
    <2>2. Cardinality((Tracked \cup Forgetting)')
            = Cardinality(Tracked \cup Forgetting) - 1
      <3> HIDE DEF LockIInv
      <3> DEFINE Using == Tracked \cup Forgetting
      <3>1. t \in Using /\ IsFiniteSet(Using)
        BY <1>1, TrackedFinite
      <3> HIDE DEF Using
      <3>2. Cardinality(Using \ {t}) = Cardinality(Using) - 1
        BY <3>1, FS_RemoveElement, Zenon
      <3> QED
        BY <2>1, <3>2 DEF Using
    <2> QED
      BY <1>1, <1>3, <2>2, TrackedFinite DEF AddUp, Core, Types
  <1>7. NoDebug'
    BY <1>1 DEF NoDebug
  <1> QED
    BY <1>5, <1>6, <1>7

\* No block has the thread's tag, so none is matched with the thread.
LEMMA ReleaseUntrackedStep ==
  ASSUME LockIInv, NEW t \in Threads, R!ReleaseUntracked(t)
  PROVE  Matched' /\ AddUp' /\ NoDebug'
  <1> USE DEF LockIInv
  <1>1. /\ t \in Tracked
        /\ Tracked' = Tracked \ {t} /\ Forgetting' = Forgetting \cup {t}
        /\ UNCHANGED <<R!dbg, tag>>
        /\ debug /\ debug'
        /\ \A i \in DOMAIN blocks : blocks[i] # tag[t]
    BY DEF R!ReleaseUntracked, R!Goto, Core, Types, Tracked, Forgetting, R!IsRemover, R!dbg
  <1>2. Matched'
    <2>1. PICK f : IsMatching(f)
      BY DEF Matched
    <2>2. \A i \in 1 .. Len(blocks) : f[i] # t
      BY <1>1, <2>1 DEF IsMatching, Core, Types
    <2>3. IsMatching(f)'
      BY <1>1, <2>1, <2>2 DEF IsMatching, R!dbg
    <2> QED
      BY <2>3 DEF Matched
  <1>3. AddUp'
    <2>1. (Tracked \cup Forgetting)' = Tracked \cup Forgetting
      BY <1>1
    <2> QED
      BY <1>1, <2>1 DEF AddUp, R!dbg
  <1>4. NoDebug'
    BY <1>1 DEF NoDebug
  <1> QED
    BY <1>2, <1>3, <1>4

\* Nothing to find, nothing to miss.
LEMMA ReleasePlainStep ==
  ASSUME LockIInv, NEW t \in Threads, R!ReleasePlain(t)
  PROVE  Matched' /\ AddUp' /\ NoDebug'
  <1> USE DEF LockIInv
  <1>1. ~debug /\ blocks = <<>> /\ UNCHANGED R!dbg
    BY DEF R!ReleasePlain, NoDebug
  <1>2. IsMatching(<<>>)'
    BY <1>1 DEF IsMatching, R!dbg
  <1>3. NoDebug'
    BY <1>1 DEF R!ReleasePlain, R!Goto, Core, Types, NoDebug, R!dbg
  <1> QED
    BY <1>1, <1>2, <1>3 DEF Matched, AddUp, R!dbg

\* A missing block is found missing.
LEMMA ForgetStep ==
  ASSUME LockIInv, NEW t \in Threads, R!Forget(t)
  PROVE  Matched' /\ AddUp' /\ NoDebug'
  <1> USE DEF LockIInv
  <1>1. /\ t \in Forgetting /\ t \notin Tracked
        /\ Tracked' = Tracked /\ Forgetting' = Forgetting \ {t}
        /\ UNCHANGED <<blocks, tag>> /\ lowMemory' = lowMemory - 1
        /\ debug /\ debug'
    BY DEF R!Forget, R!Goto, Core, Types, Tracked, Forgetting, R!IsRemover, NoDebug
  <1>2. Matched'
    BY <1>1, MatchingKept
  <1>3. AddUp'
    <2>1. (Tracked \cup Forgetting)' = (Tracked \cup Forgetting) \ {t}
      BY <1>1
    <2>2. Cardinality((Tracked \cup Forgetting)')
            = Cardinality(Tracked \cup Forgetting) - 1
      <3> HIDE DEF LockIInv
      <3> DEFINE Using == Tracked \cup Forgetting
      <3>1. t \in Using /\ IsFiniteSet(Using)
        BY <1>1, TrackedFinite
      <3> HIDE DEF Using
      <3>2. Cardinality(Using \ {t}) = Cardinality(Using) - 1
        BY <3>1, FS_RemoveElement, Zenon
      <3> QED
        BY <2>1, <3>2 DEF Using
    <2> QED
      BY <1>1, <2>2, TrackedFinite DEF AddUp, Core, Types
  <1>4. NoDebug'
    BY <1>1 DEF NoDebug
  <1> QED
    BY <1>2, <1>3, <1>4

\* The inductive invariant.
THEOREM Inductive == R!Spec => []LockIInv
  <1>1. LockIInv /\ [R!Next]_(R!vars) => LockIInv'
    <2> SUFFICES ASSUME LockIInv, [R!Next]_(R!vars) PROVE LockIInv'
      OBVIOUS
    <2>1. Core'
      BY NextCore DEF LockIInv
    <2>2. CASE UNCHANGED R!vars
      <3>1. Tracked' = Tracked /\ Forgetting' = Forgetting /\ UNCHANGED <<R!dbg, pc, tag>>
        BY <2>2 DEF R!vars, Tracked, Forgetting, R!IsRemover
      <3>2. Matched'
        BY <3>1, MatchingKept DEF LockIInv, R!dbg
      <3> QED
        BY <2>1, <3>1, <3>2 DEF LockIInv, AddUp, NoDebug, R!dbg
    <2>3. ASSUME NEW t \in Threads, R!Begin(t) PROVE Matched' /\ AddUp' /\ NoDebug'
      BY <2>3, AcquireStep DEF R!Begin
    <2>4. ASSUME NEW t \in Threads, R!Continue(t) PROVE Matched' /\ AddUp' /\ NoDebug'
      BY <2>4, GrantedStep, RefusedStep, TrackStep, TrackFailedStep, UndoStep,
         ForgetStep, DecrementStep, SetEventStep, DropStep, DropLastStep,
         WaitStep, FreeBlockStep, NoBlockLeftStep DEF R!Continue
    <2>5. ASSUME NEW t \in Threads, R!Return(t) PROVE Matched' /\ AddUp' /\ NoDebug'
      BY <2>5, ReleaseStep, ReleaseUntrackedStep, ReleasePlainStep DEF R!Return
    <2> QED
      BY <2>1, <2>2, <2>3, <2>4, <2>5, SetRemovedStep DEF LockIInv, R!Next
  <1> QED
    BY <1>1, InitIInv, PTL DEF R!Spec

\* Types, with the ASSERTs that neither count falls below 0 (remlock.c:219, 226).
THEOREM LockTypeCorrect == R!Spec => []R!TypeOK
  <1>1. LockIInv => R!TypeOK
    <2> SUFFICES ASSUME LockIInv PROVE R!TypeOK
      OBVIOUS
    <2>1. ioCount \in Nat
      BY RefsFinite DEF LockIInv, Core, Counted
    <2>2. lowMemory \in Nat
      BY LowEnough, TrackedFinite DEF LockIInv, Core, Types
    <2> QED
      BY <2>1, <2>2 DEF LockIInv, Core, Types, R!TypeOK
  <1> QED
    BY <1>1, Inductive, PTL

\* IoReleaseRemoveLockAndWaitEx returns when no reference is left.
THEOREM UnusedTheorem == R!Spec => []R!RemovedUnused
  <1>1. LockIInv => R!RemovedUnused
    BY DEF LockIInv, Core, Unused, Over, OneRemover, R!IsRemover, R!RemovedUnused
  <1> QED
    BY <1>1, Inductive, PTL

\* RemoveEvent is set when nobody can have a reference any more.
THEOREM SignalTheorem == R!Spec => []R!NoEarlySignal
  <1>1. LockIInv => R!NoEarlySignal
    BY DEF LockIInv, Core, Unused, Over, Dropped, OneRemover, R!IsRemover, R!NoEarlySignal
  <1> QED
    BY <1>1, Inductive, PTL

\* The ASSERTs in remlock.c:95, 231 and 257.
THEOREM AssertTheorem == R!Spec => []R!AssertsHold
  <1>1. LockIInv => R!AssertsHold
    <2> SUFFICES ASSUME LockIInv, NEW t \in Threads
                 PROVE  /\ pc[t] \in {"check", "dropLast"} => ioCount > 0
                        /\ pc[t] = "signal" => removed
      BY DEF R!AssertsHold
    <2>1. CASE pc[t] = "check"
      <3>1. Refs # {}
        BY <2>1 DEF Refs
      <3>2. Cardinality(Refs) # 0
        BY <3>1, RefsFinite, FS_EmptySet
      <3> QED
        BY <2>1, <3>2, RefsFinite DEF LockIInv, Core, Counted
    <2>2. CASE pc[t] = "dropLast"
      <3>1. ~Dropped
        BY <2>2 DEF LockIInv, Core, OneRemover, R!IsRemover, Dropped
      <3> QED
        BY <2>2, <3>1, RefsFinite DEF LockIInv, Core, Counted
    <2>3. CASE pc[t] = "signal"
      BY <2>3 DEF LockIInv, Core, Unused, Over, Dropped, OneRemover, R!IsRemover
    <2> QED
      BY <2>1, <2>2, <2>3
  <1> QED
    BY <1>1, Inductive, PTL

\* Blocks and failures to allocate one add up to the references, and what is
\* left for the remover is its own.
THEOREM BlocksTheorem == R!Spec => []R!BlocksAddUp
  <1>1. LockIInv => R!BlocksAddUp
    <2> SUFFICES ASSUME LockIInv PROVE R!BlocksAddUp
      OBVIOUS
    <2>1. Tracked \cup Forgetting
            = {t \in Threads : pc[t] \in {"held", "forget"} \/ R!IsRemover(t)}
      BY DEF Tracked, Forgetting
    <2>2. debug => Len(blocks) + lowMemory =
            Cardinality({t \in Threads : pc[t] \in {"held", "forget"} \/ R!IsRemover(t)})
      BY <2>1 DEF LockIInv, AddUp
    <2>3. ASSUME NEW t \in Threads, pc[t] = "alone", NEW i \in DOMAIN blocks
          PROVE  blocks[i] = tag[t]
      <3>1. Tracked = {t}
        BY <2>3 DEF LockIInv, Core, Unused, Over, OneRemover, R!IsRemover, R!HasReference, Tracked
      <3>2. PICK f : IsMatching(f)
        BY DEF LockIInv, Matched
      <3>3. i \in 1 .. Len(blocks)
        BY DEF LockIInv, Core, Types
      <3> QED
        BY <3>1, <3>2, <3>3 DEF IsMatching
    <2> QED
      BY <2>2, <2>3, SameCardinality DEF R!BlocksAddUp
  <1> QED
    BY <1>1, Inductive, PTL

\* "A block must be remaining" (remlock.c:273) as long as no allocation failed.
THEOREM RemainsTheorem == R!Spec => [](lowMemory = 0 => R!BlockRemains)
  <1>1. LockIInv => (lowMemory = 0 => R!BlockRemains)
    <2> SUFFICES ASSUME LockIInv, lowMemory = 0, NEW t \in Threads,
                        pc[t] = "alone", debug, blocks = <<>>
                 PROVE  FALSE
      BY DEF R!BlockRemains
    <2>1. IsFiniteSet(Tracked \cup Forgetting) /\ t \in Tracked
      <3>1. Tracked \cup Forgetting \in SUBSET Threads
        BY DEF Tracked, Forgetting
      <3> QED
        BY <3>1, ThreadsFinite, FS_Subset DEF Tracked, R!IsRemover
    <2>2. Cardinality(Tracked \cup Forgetting) = 0
      BY DEF LockIInv, AddUp
    <2> QED
      BY <2>1, <2>2, FS_EmptySet
  <1> QED
    BY <1>1, Inductive, PTL

-----------------------------------------------------------------------------
\* How steps of the lock look to its users: nothing changes for them,
Ended == \E t \in Threads : pc[t] \in {"alone", "done", "fault"}

LEMMA Stutters ==
  ASSUME \A v \in Threads : R!HasReference(v)' <=> R!HasReference(v),
         Ended' <=> Ended, removed' = removed
  PROVE  UNCHANGED R!Abstract!absVars
  <1>1. R!held' = R!held
    BY DEF R!held
  <1>2. R!phase' = R!phase
    BY DEF R!phase, Ended
  <1> QED
    BY <1>1, <1>2 DEF R!Abstract!absVars

\* a reference is acquired,
LEMMA Acquires ==
  ASSUME NEW t \in Threads, ~R!HasReference(t), R!HasReference(t)',
         \A v \in Threads \ {t} : R!HasReference(v)' <=> R!HasReference(v),
         ~removed, ~removed', ~Ended, ~Ended'
  PROVE  R!Abstract!AbsNext
  <1>1. /\ R!held[t] = 0 /\ R!held'[t] = 1
        /\ \A v \in Threads \ {t} : R!held'[v] = R!held[v]
    BY DEF R!held, R!HasReference
  <1>2. R!held' = [R!held EXCEPT ![t] = @ + 1]
    <2>1. R!held \in [Threads -> {0, 1}] /\ R!held' \in [Threads -> {0, 1}]
      BY DEF R!held
    <2> HIDE DEF R!held
    <2> QED
      BY <1>1, <2>1
  <1>3. R!phase = "up" /\ R!phase' = "up"
    BY DEF R!phase, Ended
  <1>4. R!Abstract!Acquire(t, 1)
    BY <1>1, <1>2, <1>3 DEF R!Abstract!Acquire
  <1> QED
    BY <1>4 DEF R!Abstract!AbsNext

\* or released,
LEMMA Releases ==
  ASSUME NEW t \in Threads, R!HasReference(t), ~R!HasReference(t)',
         \A v \in Threads \ {t} : R!HasReference(v)' <=> R!HasReference(v),
         Ended' <=> Ended, removed' = removed
  PROVE  R!Abstract!AbsNext
  <1>1. /\ R!held[t] = 1 /\ R!held'[t] = 0
        /\ \A v \in Threads \ {t} : R!held'[v] = R!held[v]
    BY DEF R!held, R!HasReference
  <1>2. R!held' = [R!held EXCEPT ![t] = @ - 1]
    <2>1. R!held \in [Threads -> {0, 1}] /\ R!held' \in [Threads -> {0, 1}]
      BY DEF R!held
    <2> HIDE DEF R!held
    <2> QED
      BY <1>1, <2>1
  <1>3. R!phase' = R!phase
    BY DEF R!phase, Ended
  <1>4. R!Abstract!Release(t, 1)
    BY <1>1, <1>2, <1>3 DEF R!Abstract!Release
  <1> QED
    BY <1>4 DEF R!Abstract!AbsNext

\* or the removal ends.
LEMMA Ends ==
  ASSUME \A v \in Threads : R!HasReference(v)' <=> R!HasReference(v),
         \A v \in Threads : ~R!HasReference(v),
         ~Ended, Ended'
  PROVE  R!Abstract!AbsNext
  <1>1. R!held' = R!held /\ \A v \in Threads : R!held[v] = 0
    BY DEF R!held
  <1>2. R!phase \in {"up", "closing"} /\ R!phase' = "down"
    BY DEF R!phase, Ended
  <1>3. R!Abstract!Down
    BY <1>1, <1>2 DEF R!Abstract!Down, R!Abstract!NoneHeld
  <1> QED
    BY <1>3 DEF R!Abstract!AbsNext

\* A remove lock implements rundown protection: a request that is let in is an
\* acquired reference, and the removal's two halves are Close and Down.
THEOREM RefinementTheorem == R!Spec => ImplementsProtection
  <1>1. R!Init => R!Abstract!AbsInit
    BY DEF R!Init, R!Abstract!AbsInit, R!held, R!phase, R!HasReference
  <1>2. LockIInv /\ LockIInv' /\ [R!Next]_(R!vars) => [R!Abstract!AbsNext]_(R!Abstract!absVars)
    <2> SUFFICES ASSUME LockIInv, LockIInv', [R!Next]_(R!vars)
                 PROVE  R!Abstract!AbsNext \/ UNCHANGED R!Abstract!absVars
      OBVIOUS
    <2> USE DEF LockIInv, Core
    <2>1. CASE UNCHANGED R!vars
      BY <2>1, Stutters DEF R!vars, R!common, R!HasReference, Ended
    <2>2. ASSUME NEW t \in Threads, NEW x \in Tags, R!Acquire(t, x)
          PROVE  UNCHANGED R!Abstract!absVars
      BY <2>2, Stutters DEF R!Acquire, R!Goto, Types, R!HasReference, Ended
    <2>3. ASSUME NEW t \in Threads,
                 R!Refused(t) \/ R!Track(t) \/ R!TrackFailed(t) \/ R!Undo(t) \/ R!Forget(t)
          PROVE  UNCHANGED R!Abstract!absVars
      BY <2>3, Stutters
      DEF R!Refused, R!Track, R!TrackFailed, R!Undo, R!Forget, R!Goto, Types, R!HasReference,
          Ended, R!common
    <2>4. ASSUME NEW t \in Threads,
                 \/ R!Release(t) \/ R!ReleaseUntracked(t) \/ R!ReleasePlain(t)
                 \/ R!SetEvent(t) \/ R!FreeBlock(t) \/ R!NoBlockLeft(t)
          PROVE  UNCHANGED R!Abstract!absVars
      BY <2>4, Stutters
      DEF R!Release, R!ReleaseUntracked, R!ReleasePlain, R!SetEvent, R!FreeBlock,
          R!NoBlockLeft, R!Goto, Types, R!HasReference, Ended, R!common
    <2>5. ASSUME NEW t \in Threads, R!Granted(t) PROVE R!Abstract!AbsNext
      <3>1. ~Ended
        BY <2>5 DEF R!Granted, OneRemover, R!IsRemover, Ended
      <3> QED
        BY <2>5, <3>1, Acquires
        DEF R!Granted, R!Goto, Types, R!HasReference, Ended, R!common
    <2>6. ASSUME NEW t \in Threads, R!Decrement(t) \/ R!Drop(t) PROVE R!Abstract!AbsNext
      BY <2>6, Releases DEF R!Decrement, R!Drop, R!Goto, Types, R!HasReference, Ended
    <2>7. ASSUME NEW t \in Threads, R!SetRemoved(t) PROVE R!Abstract!AbsNext
      <3>1. ~Ended /\ ~Ended'
        BY <2>7 DEF R!SetRemoved, R!Goto, Types, OneRemover, R!IsRemover, Ended
      <3>2. \A v \in Threads : R!HasReference(v)' <=> R!HasReference(v)
        BY <2>7 DEF R!SetRemoved, R!Goto, Types, R!HasReference
      <3>3. R!held' = R!held
        BY <3>2 DEF R!held
      <3>4. R!phase = "up" /\ R!phase' = "closing"
        BY <2>7, <3>1 DEF R!SetRemoved, R!phase, Ended
      <3>5. R!Abstract!Close
        BY <3>3, <3>4 DEF R!Abstract!Close
      <3> QED
        BY <3>5 DEF R!Abstract!AbsNext
    <2>8. ASSUME NEW t \in Threads, R!DropLast(t) \/ R!Wait(t)
          PROVE  R!Abstract!AbsNext \/ UNCHANGED R!Abstract!absVars
      <3>1. /\ pc[t] \in {"dropLast", "wait"}
            /\ pc' = [pc EXCEPT ![t] = "wait"] \/ pc' = [pc EXCEPT ![t] = "alone"]
            /\ removed' = removed
        BY <2>8 DEF R!DropLast, R!Wait, R!Goto
      <3>2. ~Ended
        BY <3>1 DEF OneRemover, R!IsRemover, Ended
      <3>3. \A v \in Threads : R!HasReference(v)' <=> R!HasReference(v)
        BY <3>1 DEF Types, R!HasReference
      <3>4. CASE pc' = [pc EXCEPT ![t] = "wait"]
        BY <3>1, <3>2, <3>3, <3>4, Stutters DEF Types, Ended
      <3>5. CASE pc' = [pc EXCEPT ![t] = "alone"]
        <4>1. Ended' /\ \A v \in Threads : ~R!HasReference(v)'
          BY <3>5 DEF Types, Unused, Over, Ended
        <4> QED
          BY <3>2, <3>3, <4>1, Ends
      <3> QED
        BY <3>1, <3>4, <3>5
    <2> QED
      BY <2>1, <2>2, <2>3, <2>4, <2>5, <2>6, <2>7, <2>8
      DEF R!Next, R!Begin, R!Continue, R!Return
  <1> QED
    BY <1>1, <1>2, Inductive, PTL DEF R!Spec, ImplementsProtection, R!ImplementsProtection, R!Abstract!AbsSpec

\* A driver may remove its device when IoReleaseRemoveLockAndWaitEx returns, and
\* the tracking blocks of the debug version are accounted for.
THEOREM RemovalTheorem == R!Spec => []RemovalSafe
  BY SignalTheorem, BlocksTheorem, PTL DEF RemovalSafe, R!RemovalSafe

-----------------------------------------------------------------------------
(* Notify routines. *)

\* Where a thread has a block for itself: not yet in the table, or taken out.
Alone == {"insertSlot", "release", "decrement", "release1", "wait", "drain"}

\* The blocks threads and slots have are allocated; a slot's is in no other
\* slot, and a block a thread has for itself is in no slot and nobody else's.
Placed ==
    /\ \A t \in Callers : npc[t] \in HoldsAt \cup Alone => blk[t] \in Blocks /\ func[blk[t]] # NULL
    /\ \A t \in Callers : npc[t] \in Alone =>
           /\ \A i \in 1 .. Slots : slot[i].obj # blk[t]
           /\ \A u \in Callers \ {t} : npc[u] \in Alone => blk[u] # blk[t]
    /\ \A t, u \in Callers : npc[t] = "insertSlot" /\ npc[u] \in HoldsAt => blk[u] # blk[t]
    /\ \A i \in 1 .. Slots :
           /\ slot[i].obj # NULL => func[slot[i].obj] # NULL
           /\ slot[i].obj = NULL => slot[i].cnt = 0
           /\ \A j \in 1 .. Slots : i # j /\ slot[i].obj # NULL => slot[i].obj # slot[j].obj

(* A block's count covers the references to it, and is exact but for the   *)
(* process list.                                                           *)
CountsCover ==
    \A b \in Blocks :
        /\ count[b] >= References(b)
        /\ List # "process" => count[b] = References(b)

(* The inductive invariant. *)
Inv == TableTypeOK /\ Placed /\ CountsCover

-----------------------------------------------------------------------------
(* Units of a finite set is finite. *)
LEMMA UnitsFinite ==
  ASSUME NEW D, IsFiniteSet(D), NEW n \in Nat, NEW f
  PROVE  IsFiniteSet(Units(D, n, f)) /\ Cardinality(Units(D, n, f)) \in Nat
  <1>0. IsFiniteSet(1 .. n)
    BY FS_Interval
  <1>1. IsFiniteSet(D \X (1 .. n))
    BY <1>0, FS_Product
  <1>2. Units(D, n, f) \in SUBSET (D \X (1 .. n))
    BY DEF Units
  <1> QED BY <1>1, <1>2, FS_Subset, FS_CardinalityType

(* The units of x are f[x] in number. *)
LEMMA UnitsOf ==
  ASSUME NEW D, IsFiniteSet(D), NEW n \in Nat, NEW f \in [D -> 0 .. n], NEW x \in D
  PROVE  LET rest == {p \in Units(D, n, f) : p[1] # x}
         IN  IsFiniteSet(rest) /\ Cardinality(Units(D, n, f)) = Cardinality(rest) + f[x]
  <1> DEFINE rest == {p \in Units(D, n, f) : p[1] # x}
             own == {x} \X (1 .. f[x])
  <1>1. IsFiniteSet(rest) /\ Cardinality(rest) \in Nat
    <2>1. rest \in SUBSET Units(D, n, f)
      OBVIOUS
    <2> QED BY <2>1, UnitsFinite, FS_Subset, FS_CardinalityType
  <1>2. IsFiniteSet(own) /\ Cardinality(own) = f[x]
    <2>1. IsFiniteSet({x}) /\ Cardinality({x}) = 1
      BY FS_Singleton
    <2>2. f[x] \in Nat
      OBVIOUS
    <2>3. IsFiniteSet(1 .. f[x]) /\ Cardinality(1 .. f[x]) = f[x]
      BY <2>2, FS_Interval
    <2>4. Cardinality(own) = 1 * Cardinality(1 .. f[x]) /\ IsFiniteSet(own)
      BY <2>1, <2>3, FS_Product
    <2> QED BY <2>2, <2>3, <2>4
  <1>3. rest \cap own = {}
    OBVIOUS
  <1>4. Units(D, n, f) = rest \cup own
    <2>1. ASSUME NEW p \in Units(D, n, f), p[1] = x PROVE p \in own
      <3>1. p \in D \X (1 .. n) /\ p[2] <= f[x]
        BY <2>1 DEF Units
      <3>2. p = <<x, p[2]>> /\ p[2] \in 1 .. f[x]
        BY <2>1, <3>1
      <3> QED BY <3>2
    <2>2. ASSUME NEW k \in 1 .. f[x] PROVE <<x, k>> \in Units(D, n, f)
      <3>1. k \in 1 .. n /\ k <= f[x]
        OBVIOUS
      <3> QED BY <3>1 DEF Units
    <2> QED BY <2>1, <2>2
  <1> HIDE DEF rest, own
  <1>5. Cardinality(rest \cup own) = Cardinality(rest) + Cardinality(own) - Cardinality(rest \cap own)
    BY <1>1, <1>2, FS_Union
  <1>6. Cardinality(rest \cap own) = 0
    BY <1>3, FS_EmptySet
  <1>7. f[x] \in Nat
    OBVIOUS
  <1>8. IsFiniteSet(rest) /\ Cardinality(Units(D, n, f)) = Cardinality(rest) + f[x]
    BY <1>1, <1>2, <1>4, <1>5, <1>6, <1>7
  <1> QED BY <1>8 DEF rest

(* When only x changes, the number of units changes as f[x] does. *)
LEMMA UnitsChange ==
  ASSUME NEW D, IsFiniteSet(D), NEW n \in Nat, NEW f \in [D -> 0 .. n], NEW g \in [D -> 0 .. n],
         NEW x \in D, \A y \in D \ {x} : g[y] = f[y]
  PROVE  Cardinality(Units(D, n, g)) = Cardinality(Units(D, n, f)) + g[x] - f[x]
  <1>1. {p \in Units(D, n, g) : p[1] # x} = {p \in Units(D, n, f) : p[1] # x}
    BY DEF Units
  <1>2. Cardinality({p \in Units(D, n, f) : p[1] # x}) \in Nat
    BY UnitsOf, FS_CardinalityType
  <1> QED BY <1>1, <1>2, UnitsOf

(* There are at least the units of x. *)
LEMMA UnitsAtLeast ==
  ASSUME NEW D, IsFiniteSet(D), NEW n \in Nat, NEW f \in [D -> 0 .. n], NEW x \in D
  PROVE  Cardinality(Units(D, n, f)) >= f[x]
  <1>1. Cardinality({p \in Units(D, n, f) : p[1] # x}) \in Nat
    BY UnitsOf, FS_CardinalityType
  <1> QED BY <1>1, UnitsOf

(* There are none when f is zero everywhere. *)
LEMMA UnitsNone ==
  ASSUME NEW D, NEW n \in Nat, NEW f, \A x \in D : f[x] = 0
  PROVE  Cardinality(Units(D, n, f)) = 0
  <1>1. Units(D, n, f) = {}
    BY DEF Units
  <1> QED BY <1>1, FS_EmptySet

-----------------------------------------------------------------------------
(* The places of a thread, and the types of the two structured variables. *)
Labels == {"idle", "reference", "insertSlot", "increment", "enable", "fetch", "give", "use",
           "dereference", "swap", "release", "decrement", "release1", "wait", "drain"}

SlotType == [1 .. Slots -> [obj : Blocks \cup {NULL}, cnt : 0 .. MAX_FAST_REFS]]
GivenType == [Callers -> 0 .. MAX_FAST_REFS]

\* TypeOK without the counts, which are natural only because they are exact.
TableTypes ==
    /\ slot \in SlotType
    /\ func \in [Blocks -> Routines \cup {NULL}]
    /\ active \in [Blocks -> BOOLEAN]
    /\ registered \in Int
    /\ enabled \in BOOLEAN
    /\ npc \in [Callers -> Labels]
    /\ op \in [Callers -> {"none", "notify", "remove", "register"}]
    /\ at \in [Callers -> 1 .. Slots]
    /\ blk \in [Callers -> Blocks \cup {NULL}]
    /\ arg \in [Callers -> Routines \cup {NULL}]
    /\ given \in GivenType

(* TableTypeOK is TableTypes and natural counts. *)
LEMMA TypesIs == TableTypeOK <=> TableTypes /\ count \in [Blocks -> Nat]
  BY DEF TableTypeOK, TableTypes, Labels, SlotType, GivenType

(* A step of t leaves the other threads alone, *)
Others(t) == \A u \in Callers \ {t} : npc'[u] = npc[u] /\ blk'[u] = blk[u] /\ given'[u] = given[u]
(* and a step that writes slot i the other slots. *)
OtherSlots(i) == \A j \in (1 .. Slots) \ {i} : slot'[j] = slot[j]

(* What a thread owes is bounded, *)
LEMMA OwedIs ==
  ASSUME given \in GivenType, NEW t \in Callers, NEW b
  PROVE  Owed(t, b) \in 0 .. MAX_FAST_REFS + 2
  BY NotifyAssumption DEF Owed, GivenType

(* also after a step; *)
LEMMA OwedWillBe ==
  ASSUME given' \in GivenType, NEW t \in Callers, NEW b
  PROVE  Owed(t, b)' \in 0 .. MAX_FAST_REFS + 2
  BY NotifyAssumption DEF Owed, GivenType

(* so is what a slot accounts for, *)
LEMMA InSlotIs ==
  ASSUME slot \in SlotType, NEW i \in 1 .. Slots, NEW b
  PROVE  InSlot(i, b) \in 0 .. MAX_FAST_REFS + 1
  BY NotifyAssumption DEF InSlot, SlotType

(* also after a step. *)
LEMMA InSlotWillBe ==
  ASSUME slot' \in SlotType, NEW i \in 1 .. Slots, NEW b
  PROVE  InSlot(i, b)' \in 0 .. MAX_FAST_REFS + 1
  BY NotifyAssumption DEF InSlot, SlotType

(* The sets counted over are finite, the bounds natural. *)
LEMMA Bounds ==
  /\ IsFiniteSet(Callers) /\ IsFiniteSet(1 .. Slots)
  /\ MAX_FAST_REFS + 2 \in Nat /\ MAX_FAST_REFS + 1 \in Nat
  BY NotifyAssumption, FS_Interval

(* There are finitely many references to a block. *)
LEMMA ReferencesNat ==
  ASSUME NEW b PROVE References(b) \in Nat
  BY Bounds, UnitsFinite DEF References

(* The slots, as a set whose bounds the provers need not see. *)
Table == 1 .. Slots

(* A step of t that writes at most slot i changes the references to b as   *)
(* it changes what t owes and what slot i accounts for.                    *)
LEMMA Balance ==
  ASSUME TableTypes, TableTypes', NEW t \in Callers, NEW i \in Table, NEW b \in Blocks,
         Others(t), OtherSlots(i)
  PROVE  References(b)' = References(b) + (Owed(t, b)' - Owed(t, b)) + (InSlot(i, b)' - InSlot(i, b))
  <1> DEFINE f == [u \in Callers |-> Owed(u, b)]
             g == [u \in Callers |-> Owed(u, b)']
             k == [j \in Table |-> InSlot(j, b)]
             big == MAX_FAST_REFS + 2
             small == MAX_FAST_REFS + 1
             m == [j \in Table |-> InSlot(j, b)']
  <1>0. slot \in SlotType /\ slot' \in SlotType /\ given \in GivenType /\ given' \in GivenType
    BY DEF TableTypes
  <1>1. f \in [Callers -> 0 .. big] /\ g \in [Callers -> 0 .. big]
    BY <1>0, OwedIs, OwedWillBe
  <1>2. k \in [Table -> 0 .. small] /\ m \in [Table -> 0 .. small]
    BY <1>0, InSlotIs, InSlotWillBe DEF Table
  <1>3. \A u \in Callers \ {t} : g[u] = f[u]
    BY DEF Others, Owed
  <1>4. \A j \in Table \ {i} : m[j] = k[j]
    BY DEF OtherSlots, InSlot, Table
  <1>5. f[t] = Owed(t, b) /\ g[t] = Owed(t, b)' /\ k[i] = InSlot(i, b) /\ m[i] = InSlot(i, b)'
    OBVIOUS
  <1>6. /\ References(b) = Cardinality(Units(Callers, big, f))
                           + Cardinality(Units(Table, small, k))
        /\ References(b)' = Cardinality(Units(Callers, big, g))
                            + Cardinality(Units(Table, small, m))
    BY DEF References, Table
  <1>b. big \in Nat /\ small \in Nat
    BY Bounds
  <1>c. IsFiniteSet(Table) /\ IsFiniteSet(Callers)
    BY Bounds DEF Table
  <1> HIDE DEF f, g, k, m, big, small
  <1>7. Cardinality(Units(Callers, big, g))
          = Cardinality(Units(Callers, big, f)) + g[t] - f[t]
    BY <1>1, <1>3, <1>b, <1>c, UnitsChange
  <1>8. Cardinality(Units(Table, small, m))
          = Cardinality(Units(Table, small, k)) + m[i] - k[i]
    BY <1>2, <1>4, <1>b, <1>c, UnitsChange
  <1>9. /\ Cardinality(Units(Callers, big, f)) \in Nat
        /\ Cardinality(Units(Table, small, k)) \in Nat
    BY <1>b, <1>c, UnitsFinite
  <1>10. f[t] \in Int /\ g[t] \in Int /\ k[i] \in Int /\ m[i] \in Int
    <2>1. f[t] \in 0 .. big /\ g[t] \in 0 .. big /\ k[i] \in 0 .. small /\ m[i] \in 0 .. small
      BY <1>1, <1>2, <1>c
    <2> QED BY <1>b, <2>1
  <1> QED BY <1>5, <1>6, <1>7, <1>8, <1>9, <1>10

(* A block a thread holds has at least the references the thread owes, one *)
(* or more.                                                                *)
LEMMA HeldIsCounted ==
  ASSUME TableTypes, NEW t \in Callers, npc[t] \in HoldsAt, blk[t] \in Blocks
  PROVE  References(blk[t]) >= Owed(t, blk[t]) /\ Owed(t, blk[t]) >= 1
  <1> DEFINE f == [u \in Callers |-> Owed(u, blk[t])]
             k == [j \in 1 .. Slots |-> InSlot(j, blk[t])]
  <1>1. f \in [Callers -> 0 .. MAX_FAST_REFS + 2]
    BY OwedIs DEF TableTypes
  <1>2. Cardinality(Units(Callers, MAX_FAST_REFS + 2, f)) >= f[t]
    BY <1>1, Bounds, UnitsAtLeast
  <1>3. /\ Cardinality(Units(1 .. Slots, MAX_FAST_REFS + 1, k)) \in Nat
        /\ Cardinality(Units(Callers, MAX_FAST_REFS + 2, f)) \in Nat
    BY Bounds, UnitsFinite
  <1>4. f[t] = Owed(t, blk[t]) /\ f[t] >= 1
    BY NotifyAssumption DEF Owed, TableTypes, GivenType
  <1>5. References(blk[t]) = Cardinality(Units(Callers, MAX_FAST_REFS + 2, f))
                             + Cardinality(Units(1 .. Slots, MAX_FAST_REFS + 1, k))
    BY DEF References
  <1> HIDE DEF f, k
  <1> QED BY <1>1, <1>2, <1>3, <1>4, <1>5

(* A block no thread holds and no slot names has no references. *)
LEMMA NoReferences ==
  ASSUME NEW b \in Blocks, \A t \in Callers : npc[t] \in HoldsAt => blk[t] # b,
         \A i \in 1 .. Slots : slot[i].obj # b
  PROVE  References(b) = 0
  <1>1. Cardinality(Units(Callers, MAX_FAST_REFS + 2, [t \in Callers |-> Owed(t, b)])) = 0
    BY Bounds, UnitsNone DEF Owed
  <1>2. Cardinality(Units(1 .. Slots, MAX_FAST_REFS + 1, [i \in 1 .. Slots |-> InSlot(i, b)])) = 0
    BY Bounds, UnitsNone DEF InSlot
  <1> QED BY <1>1, <1>2 DEF References

-----------------------------------------------------------------------------
(* A step keeps the counts if it changes a block's count as it changes its *)
(* references; the process list may keep more.                             *)
LEMMA Kept ==
  ASSUME Inv, TableTypes', NEW t \in Callers, NEW i \in 1 .. Slots, Others(t), OtherSlots(i),
         count' \in [Blocks -> Int],
         \A b \in Blocks :
             LET before == count[b] - Owed(t, b) - InSlot(i, b)
                 now == count'[b] - Owed(t, b)' - InSlot(i, b)'
             IN  now >= before /\ (List # "process" => now = before)
  PROVE  TableTypeOK' /\ CountsCover'
  <1>1. TableTypes /\ count \in [Blocks -> Nat] /\ CountsCover
    BY TypesIs DEF Inv
  <1>2. ASSUME NEW b \in Blocks
        PROVE  /\ count'[b] >= References(b)'
               /\ List # "process" => count'[b] = References(b)'
               /\ count'[b] \in Nat
    <2>1. References(b)' = References(b) + (Owed(t, b)' - Owed(t, b)) + (InSlot(i, b)' - InSlot(i, b))
      BY <1>1, Balance DEF Table
    <2>2. References(b) \in Nat /\ count[b] \in Nat /\ count'[b] \in Int
      BY <1>1, ReferencesNat
    <2>3. /\ Owed(t, b) \in Int /\ Owed(t, b)' \in Int
          /\ InSlot(i, b) \in Int /\ InSlot(i, b)' \in Int
      <3>1. \A n \in Nat : 0 .. n \subseteq Int
        OBVIOUS
      <3> QED BY <1>1, <3>1, Bounds, OwedIs, OwedWillBe, InSlotIs, InSlotWillBe DEF TableTypes
    <2>4. count[b] >= References(b) /\ (List # "process" => count[b] = References(b))
      BY <1>1 DEF CountsCover
    <2>5. count'[b] >= References(b)' /\ (List # "process" => count'[b] = References(b)')
      BY <2>1, <2>2, <2>3, <2>4
    <2>6. References(b)' \in Nat
      BY Bounds, UnitsFinite DEF References
    <2> QED BY <2>2, <2>5, <2>6
  <1>3. count' \in [Blocks -> Nat]
    BY <1>2
  <1>4. TableTypeOK'
    BY <1>3 DEF TableTypeOK, TableTypes, Labels, SlotType, GivenType
  <1> QED BY <1>2, <1>4 DEF CountsCover

(* A step of t that moves no block into or out of a slot or out of memory  *)
(* keeps Placed.                                                           *)
LEMMA PlacedKept ==
  ASSUME Inv, NEW t \in Callers, Others(t), func' = func,
         \A i \in 1 .. Slots : slot'[i].obj = slot[i].obj /\ (slot[i].obj = NULL => slot'[i].cnt = 0),
         npc'[t] \in Alone => npc[t] \in Alone /\ blk'[t] = blk[t],
         npc'[t] = "insertSlot" => npc[t] = "insertSlot",
         npc'[t] \in HoldsAt => \/ npc[t] \in HoldsAt /\ blk'[t] = blk[t]
                                \/ blk'[t] # NULL /\ \E i \in 1 .. Slots : slot[i].obj = blk'[t]
  PROVE  Placed'
  <1>1. TableTypes /\ Placed
    BY TypesIs DEF Inv
  <1>2. ASSUME NEW u \in Callers, npc'[u] \in HoldsAt \cup Alone
        PROVE  blk'[u] \in Blocks /\ func'[blk'[u]] # NULL
    <2>1. CASE (npc[u] \in HoldsAt \cup Alone) /\ blk'[u] = blk[u]
      BY <1>1, <2>1 DEF Placed
    <2>2. CASE blk'[u] # NULL /\ \E i \in 1 .. Slots : slot[i].obj = blk'[u]
      <3>1. \A i \in 1 .. Slots : slot[i].obj \in Blocks \cup {NULL}
        BY <1>1 DEF TableTypes, SlotType
      <3> QED BY <1>1, <2>2, <3>1 DEF Placed
    <2> QED BY <1>2, <2>1, <2>2 DEF Others
  <1>3. ASSUME NEW u \in Callers, npc'[u] \in Alone
        PROVE  /\ npc[u] \in Alone /\ blk'[u] = blk[u]
               /\ \A i \in 1 .. Slots : slot'[i].obj # blk'[u]
               /\ \A v \in Callers \ {u} : npc'[v] \in Alone => blk'[v] # blk'[u]
    <2>1. \A v \in Callers : npc'[v] \in Alone => npc[v] \in Alone /\ blk'[v] = blk[v]
      BY DEF Others
    <2> QED BY <1>1, <1>3, <2>1 DEF Placed
  <1>4. ASSUME NEW u \in Callers, NEW v \in Callers, npc'[u] = "insertSlot", npc'[v] \in HoldsAt
        PROVE  blk'[v] # blk'[u]
    <2>1. npc[u] = "insertSlot" /\ blk'[u] = blk[u] /\ npc[u] \in Alone
      BY <1>4 DEF Others, Alone
    <2>2. \/ npc[v] \in HoldsAt /\ blk'[v] = blk[v]
          \/ \E i \in 1 .. Slots : slot[i].obj = blk'[v]
      BY <1>4 DEF Others
    <2> QED BY <1>1, <2>1, <2>2 DEF Placed
  <1>5. ASSUME NEW i \in 1 .. Slots
        PROVE  /\ slot'[i].obj # NULL => func'[slot'[i].obj] # NULL
               /\ slot'[i].obj = NULL => slot'[i].cnt = 0
               /\ \A j \in 1 .. Slots : i # j /\ slot'[i].obj # NULL => slot'[i].obj # slot'[j].obj
    BY <1>1 DEF Placed
  <1> QED BY <1>2, <1>3, <1>4, <1>5 DEF Placed

(* Returning, or going on with the next slot, keeps the types and leaves t *)
(* without a block.                                                        *)
LEMMA Leaves ==
  ASSUME TableTypes, NEW t \in Callers, Return(t) \/ NextSlot(t)
  PROVE  /\ npc' \in [Callers -> Labels]
         /\ op' \in [Callers -> {"none", "notify", "remove", "register"}]
         /\ at' \in [Callers -> 1 .. Slots]
         /\ blk' \in [Callers -> Blocks \cup {NULL}]
         /\ arg' \in [Callers -> Routines \cup {NULL}]
         /\ given' \in GivenType
         /\ Others(t) /\ npc'[t] \in {"idle", "reference"}
  <1>1. CASE Return(t)
    <2>1. 1 \in 1 .. Slots /\ 0 \in 0 .. MAX_FAST_REFS
      BY NotifyAssumption
    <2> QED BY <1>1, <2>1 DEF Return, TableTypes, Labels, GivenType, Others
  <1>2. CASE NextSlot(t) /\ at[t] # Slots
    <2>1. at[t] + 1 \in 1 .. Slots
      BY <1>2, NotifyAssumption DEF TableTypes
    <2> QED BY <1>2, <2>1 DEF NextSlot, TableTypes, Labels, GivenType, Others
  <1> QED BY <1>1, <1>2 DEF NextSlot

-----------------------------------------------------------------------------
(* A step that changes no slot, block or count keeps the invariant, if t   *)
(* owes as much after it; in the process list it may owe less.             *)
LEMMA Quiet ==
  ASSUME Inv, TableTypes', NEW t \in Callers, Others(t), UNCHANGED <<slot, func, count>>,
         \/ npc[t] \notin HoldsAt /\ npc'[t] \notin HoldsAt
         \/ /\ npc[t] \in HoldsAt \ {"give", "release"} /\ npc'[t] \in HoldsAt \ {"give", "release"}
            /\ blk'[t] = blk[t]
         \/ npc[t] \in HoldsAt \ {"give", "release"} /\ npc'[t] \notin HoldsAt /\ List = "process",
         npc'[t] \in Alone => npc[t] \in Alone /\ blk'[t] = blk[t],
         npc'[t] = "insertSlot" => npc[t] = "insertSlot"
  PROVE  Inv'
  <1>1. TableTypes /\ Placed /\ count \in [Blocks -> Nat] /\ 1 \in 1 .. Slots
    BY TypesIs, NotifyAssumption DEF Inv
  <1>2. Placed'
    BY <1>1, PlacedKept DEF Placed
  <1>3. OtherSlots(1) /\ count' \in [Blocks -> Int]
    BY <1>1 DEF OtherSlots
  <1>4. ASSUME NEW b \in Blocks
        PROVE  LET before == count[b] - Owed(t, b) - InSlot(1, b)
                   now == count'[b] - Owed(t, b)' - InSlot(1, b)'
               IN  now >= before /\ (List # "process" => now = before)
    <2>1. count'[b] = count[b] /\ count[b] \in Nat /\ InSlot(1, b)' = InSlot(1, b)
      BY <1>1 DEF InSlot
    <2>2. InSlot(1, b) \in Nat
      BY <1>1, InSlotIs DEF TableTypes
    <2>3. \/ Owed(t, b)' = Owed(t, b) /\ Owed(t, b) \in Nat
          \/ Owed(t, b)' = 0 /\ Owed(t, b) \in Nat /\ List = "process"
      <3>1. Owed(t, b) \in Nat
        BY <1>1, OwedIs DEF TableTypes
      <3> QED BY <3>1 DEF Owed
    <2> QED BY <2>1, <2>2, <2>3
  <1> HIDE DEF Inv
  <1> QED BY <1>1, <1>2, <1>3, <1>4, Kept DEF Inv

(* These are the steps that change no slot, block or count: the calls, the *)
(* walks over the table, the call of the routine, the counters, and the    *)
(* closing of the rundown protection.                                      *)
LEMMA QuietSteps ==
  ASSUME Inv, NEW t \in Callers,
         \/ Notify(t) \/ (\E r \in Routines : Remove(t, r)) \/ InsertNext(t)
         \/ Increment(t) \/ Enable(t) \/ ReferenceNone(t) \/ ReferenceRace(t)
         \/ Use(t) \/ Match(t) \/ NoMatch(t) \/ SwapFails(t) \/ Decrement(t) \/ Close(t)
  PROVE  Inv'
  <1>0. TableTypes
    BY TypesIs, NotifyAssumption DEF Inv
  <1> DEFINE Plain ==
        /\ TableTypes' /\ Others(t) /\ UNCHANGED <<slot, func, count>>
        /\ npc'[t] \in Alone => npc[t] \in Alone /\ blk'[t] = blk[t]
        /\ npc'[t] = "insertSlot" => npc[t] = "insertSlot"
  <1>a. CASE Plain /\ npc[t] \notin HoldsAt /\ npc'[t] \notin HoldsAt
    BY <1>a, Quiet
  <1>b. CASE /\ Plain /\ npc[t] \in HoldsAt \ {"give", "release"}
             /\ npc'[t] \in HoldsAt \ {"give", "release"} /\ blk'[t] = blk[t]
    BY <1>b, Quiet
  <1> USE DEF Goto, memory
  <1>1. CASE Notify(t)
    <2>1. Plain /\ npc[t] = "idle" /\ npc'[t] = "reference"
      BY <1>0, <1>1 DEF Notify, TableTypes, Labels, Others, GivenType, Alone
    <2> QED BY <1>a, <2>1 DEF HoldsAt
  <1>2. CASE \E r \in Routines : Remove(t, r)
    <2>1. Plain /\ npc[t] = "idle" /\ npc'[t] = "reference"
      BY <1>0, <1>2 DEF Remove, TableTypes, Labels, Others, GivenType, Alone
    <2> QED BY <1>a, <2>1 DEF HoldsAt
  <1>3. CASE InsertNext(t)
    <2>0. at[t] + 1 \in 1 .. Slots
      BY <1>0, <1>3, NotifyAssumption DEF InsertNext, TableTypes
    <2>1. Plain /\ npc[t] = "insertSlot" /\ npc'[t] = "insertSlot"
      BY <1>0, <1>3, <2>0 DEF InsertNext, TableTypes, Labels, Others, GivenType, Alone
    <2> QED BY <1>a, <2>1 DEF HoldsAt
  <1>4. CASE Increment(t)
    <2>0. registered' \in Int
      BY <1>0, <1>4 DEF Increment, TableTypes
    <2>1. CASE List = "image"
      <3>1. Plain /\ npc[t] = "increment" /\ npc'[t] = "enable"
        BY <1>0, <1>4, <2>0, <2>1 DEF Increment, TableTypes, Labels, Others, GivenType, Alone
      <3> QED BY <1>a, <3>1 DEF HoldsAt
    <2>2. CASE List # "image"
      <3>1. Return(t) /\ npc[t] = "increment"
        BY <1>4, <2>2 DEF Increment
      <3>2. Plain /\ npc'[t] \in {"idle", "reference"}
        BY <1>0, <1>4, <2>0, <3>1, Leaves DEF Increment, TableTypes, Alone
      <3> QED BY <1>a, <3>1, <3>2 DEF HoldsAt
    <2> QED BY <2>1, <2>2
  <1>5. CASE Enable(t)
    <2>1. Plain /\ npc[t] = "enable" /\ npc'[t] \in {"idle", "reference"}
      BY <1>0, <1>5, Leaves DEF Enable, TableTypes, Alone
    <2> QED BY <1>a, <2>1 DEF HoldsAt
  <1>6. CASE ReferenceNone(t) \/ ReferenceRace(t)
    <2>1. Plain /\ npc[t] = "reference" /\ npc'[t] \in {"idle", "reference"}
      BY <1>0, <1>6, Leaves DEF ReferenceNone, ReferenceRace, TableTypes, Alone
    <2> QED BY <1>a, <2>1 DEF HoldsAt
  <1>7. CASE Use(t) \/ Match(t) \/ SwapFails(t) \/ (NoMatch(t) /\ List # "process")
    <2>1. /\ npc[t] \in {"use", "swap"} /\ UNCHANGED <<memory, op, at, blk, arg, given>>
          /\ \E l \in {"dereference", "swap"} : npc' = [npc EXCEPT ![t] = l]
      BY <1>7 DEF Use, Match, SwapFails, NoMatch
    <2>2. Plain /\ npc'[t] \in {"dereference", "swap"}
      BY <1>0, <2>1 DEF TableTypes, Labels, Others, GivenType, Alone
    <2> QED BY <1>b, <2>1, <2>2 DEF HoldsAt
  <1>8. CASE NoMatch(t) /\ List = "process"
    <2>1. Plain /\ npc[t] = "use" /\ npc'[t] \in {"idle", "reference"}
      BY <1>0, <1>8, Leaves DEF NoMatch, TableTypes, Alone
    <2> QED BY <1>8, <2>1, Quiet DEF HoldsAt
  <1>9. CASE Decrement(t)
    <2>0. registered' \in Int
      BY <1>0, <1>9 DEF Decrement, TableTypes
    <2>1. Plain /\ npc[t] = "decrement" /\ npc'[t] = "release1" /\ blk'[t] = blk[t]
      BY <1>0, <1>9, <2>0 DEF Decrement, TableTypes, Labels, Others, GivenType, Alone
    <2> QED BY <1>b, <2>1 DEF HoldsAt
  <1>10. CASE Close(t)
    <2>0. active' \in [Blocks -> BOOLEAN]
      BY <1>0, <1>10 DEF Close, TableTypes
    <2>1. Plain /\ npc[t] = "wait" /\ npc'[t] = "drain"
      BY <1>0, <1>10, <2>0 DEF Close, TableTypes, Labels, Others, GivenType, Alone
    <2> QED BY <1>a, <2>1 DEF HoldsAt
  <1> QED BY <1>1, <1>2, <1>3, <1>4, <1>5, <1>6, <1>7, <1>8, <1>9, <1>10

-----------------------------------------------------------------------------
(* A compare-exchange of the reference bits changes one slot and not its   *)
(* object.                                                                 *)
LEMMA WordChanged ==
  ASSUME slot \in SlotType, NEW i \in 1 .. Slots, NEW n \in 0 .. MAX_FAST_REFS,
         slot' = [slot EXCEPT ![i].cnt = n]
  PROVE  slot' \in SlotType /\ OtherSlots(i) /\ slot'[i].obj = slot[i].obj /\ slot'[i].cnt = n
  <1> DEFINE new == [slot[i] EXCEPT !.cnt = n]
  <1>1. /\ new \in [obj : Blocks \cup {NULL}, cnt : 0 .. MAX_FAST_REFS]
        /\ new.obj = slot[i].obj /\ new.cnt = n
    BY DEF SlotType
  <1>2. slot' = [slot EXCEPT ![i] = new]
    OBVIOUS
  <1> HIDE DEF new
  <1>3. slot' \in SlotType /\ slot'[i] = new /\ OtherSlots(i)
    BY <1>1, <1>2 DEF SlotType, OtherSlots
  <1> QED BY <1>1, <1>3

(* ExAcquireFastReference moves a cached reference from the slot to the    *)
(* thread.                                                                 *)
LEMMA ReferenceFastStep ==
  ASSUME Inv, NEW t \in Callers, ReferenceFast(t)
  PROVE  Inv'
  <1>0. TableTypes /\ Placed /\ count \in [Blocks -> Nat]
    BY TypesIs DEF Inv
  <1>1. PICK i \in 1 .. Slots : i = at[t]
    BY <1>0 DEF TableTypes
  <1>2. /\ slot[i].cnt \in 1 .. MAX_FAST_REFS /\ slot[i].obj \in Blocks
        /\ npc[t] = "reference" /\ UNCHANGED <<func, count, active, registered, op, at, arg, given, enabled>>
        /\ \E l \in {"fetch", "use"} : npc' = [npc EXCEPT ![t] = l]
        /\ slot' = [slot EXCEPT ![i].cnt = slot[i].cnt - 1]
        /\ blk' = [blk EXCEPT ![t] = slot[i].obj]
    <2>1. slot[i].cnt > 0 /\ slot[i] \in [obj : Blocks \cup {NULL}, cnt : 0 .. MAX_FAST_REFS]
      BY <1>0, <1>1 DEF ReferenceFast, TableTypes, SlotType
    <2>2. slot[i].obj # NULL
      BY <1>0, <2>1 DEF Placed
    <2>3. /\ npc[t] = "reference" /\ UNCHANGED <<func, count, active, registered, op, at, arg, given, enabled>>
          /\ npc' = [npc EXCEPT ![t] = IF slot[i].cnt = 1 THEN "fetch" ELSE "use"]
          /\ blk' = [blk EXCEPT ![t] = slot[i].obj]
      BY <1>1 DEF ReferenceFast, Goto
    <2>4. slot' = [slot EXCEPT ![i].cnt = slot[i].cnt - 1]
      BY <1>1 DEF ReferenceFast
    <2>5. slot[i].cnt \in 1 .. MAX_FAST_REFS
      BY <2>1, NotifyAssumption
    <2>6. \E l \in {"fetch", "use"} : npc' = [npc EXCEPT ![t] = l]
      BY <2>3
    <2> QED BY <2>1, <2>2, <2>3, <2>4, <2>5, <2>6
  <1>3. /\ slot' \in SlotType /\ OtherSlots(i)
        /\ slot'[i].obj = slot[i].obj /\ slot'[i].cnt = slot[i].cnt - 1
    <2>1. slot[i].cnt - 1 \in 0 .. MAX_FAST_REFS
      BY <1>2, NotifyAssumption
    <2> QED BY <1>0, <1>2, <2>1, WordChanged DEF TableTypes
  <1>4. TableTypes' /\ Others(t) /\ npc'[t] \in {"fetch", "use"} /\ blk'[t] = slot[i].obj
    BY <1>0, <1>2, <1>3 DEF TableTypes, Labels, Others
  <1>5. Placed'
    <2>1. \A j \in 1 .. Slots : slot'[j].obj = slot[j].obj /\ (slot[j].obj = NULL => slot'[j].cnt = 0)
      BY <1>0, <1>2, <1>3, NotifyAssumption DEF OtherSlots, Placed
    <2> QED BY <1>2, <1>4, <2>1, NotifyAssumption, PlacedKept DEF Alone
  <1>6. ASSUME NEW b \in Blocks
        PROVE  LET before == count[b] - Owed(t, b) - InSlot(i, b)
                   now == count'[b] - Owed(t, b)' - InSlot(i, b)'
               IN  now = before /\ now >= before
    <2>1. CASE b = slot[i].obj
      <3>1. Owed(t, b) = 0 /\ Owed(t, b)' = 1
        BY <1>2, <1>4, <2>1 DEF Owed, HoldsAt
      <3>2. InSlot(i, b) = slot[i].cnt + 1 /\ InSlot(i, b)' = slot[i].cnt
        BY <1>2, <1>3, <2>1 DEF InSlot
      <3> QED BY <1>0, <1>2, <3>1, <3>2
    <2>2. CASE b # slot[i].obj
      <3>1. Owed(t, b) = 0 /\ Owed(t, b)' = 0 /\ InSlot(i, b) = 0 /\ InSlot(i, b)' = 0
        BY <1>2, <1>3, <1>4, <2>2 DEF Owed, HoldsAt, InSlot
      <3> QED BY <1>0, <1>2, <3>1
    <2> QED BY <2>1, <2>2
  <1>7. count' \in [Blocks -> Int]
    BY <1>0, <1>2
  <1> QED BY <1>3, <1>4, <1>5, <1>6, <1>7, Kept DEF Inv

(* ExInsertFastReference and ExReleaseFastReference move references from   *)
(* the thread to the slot.                                                 *)
LEMMA SlotFilled ==
  ASSUME Inv, NEW t \in Callers, Give(t) \/ DereferenceFast(t)
  PROVE  Inv'
  <1>0. TableTypes /\ Placed /\ count \in [Blocks -> Nat]
    BY TypesIs DEF Inv
  <1>1. PICK i \in 1 .. Slots : i = at[t]
    BY <1>0 DEF TableTypes
  <1> DEFINE b0 == slot[i].obj
  <1>2. PICK n \in 0 .. MAX_FAST_REFS :
        /\ slot' = [slot EXCEPT ![i].cnt = n]
        /\ b0 = blk[t] /\ UNCHANGED <<func, count, active, registered, enabled>>
        /\ npc[t] \in {"give", "dereference"}
        /\ npc[t] = "give" => /\ slot[i].cnt = 0 /\ n = MAX_FAST_REFS
                              /\ npc' = [npc EXCEPT ![t] = "use"]
                              /\ UNCHANGED <<op, at, blk, arg, given>>
        /\ npc[t] = "dereference" => n = slot[i].cnt + 1 /\ NextSlot(t)
    <2>1. CASE Give(t)
      <3>1. slot[i].obj = blk[t] /\ slot[i].cnt = 0
        BY <1>1, <2>1 DEF Give
      <3>2. /\ slot' = [slot EXCEPT ![i].cnt = MAX_FAST_REFS] /\ npc[t] = "give"
            /\ npc' = [npc EXCEPT ![t] = "use"]
            /\ UNCHANGED <<func, count, active, registered, op, at, blk, arg, given, enabled>>
        BY <1>1, <2>1 DEF Give, Goto
      <3>3. MAX_FAST_REFS \in 0 .. MAX_FAST_REFS
        BY NotifyAssumption
      <3> QED BY <3>1, <3>2, <3>3
    <2>2. CASE DereferenceFast(t)
      <3>1. slot[i].cnt + 1 \in 0 .. MAX_FAST_REFS
        BY <1>0, <1>1, <2>2, NotifyAssumption DEF DereferenceFast, TableTypes, SlotType
      <3> QED BY <1>1, <2>2, <3>1 DEF DereferenceFast
    <2> QED BY <2>1, <2>2
  <1>3. /\ slot' \in SlotType /\ OtherSlots(i)
        /\ slot'[i].obj = b0 /\ slot'[i].cnt = n
        /\ b0 \in Blocks /\ slot[i].cnt \in Nat
    <2>1. slot' \in SlotType /\ OtherSlots(i) /\ slot'[i].obj = b0 /\ slot'[i].cnt = n
      BY <1>0, <1>2, WordChanged DEF TableTypes
    <2>2. b0 \in Blocks
      BY <1>0, <1>2 DEF Placed, HoldsAt
    <2>3. slot[i].cnt \in Nat
      BY <1>0, NotifyAssumption DEF TableTypes, SlotType
    <2> QED BY <2>1, <2>2, <2>3
  <1>4. TableTypes' /\ Others(t) /\ npc'[t] \notin Alone
        /\ (npc[t] = "give" => npc'[t] = "use" /\ blk'[t] = blk[t])
        /\ (npc[t] = "dereference" => npc'[t] \in {"idle", "reference"})
    <2>1. CASE npc[t] = "give"
      BY <1>0, <1>2, <1>3, <2>1 DEF TableTypes, Labels, Others, Alone
    <2>2. CASE npc[t] = "dereference"
      BY <1>0, <1>2, <1>3, <2>2, Leaves DEF TableTypes, Alone
    <2> QED BY <1>2, <2>1, <2>2
  <1>5. Placed'
    <2>1. \A j \in 1 .. Slots : slot'[j].obj = slot[j].obj /\ (slot[j].obj = NULL => slot'[j].cnt = 0)
      BY <1>0, <1>2, <1>3, NotifyAssumption DEF OtherSlots, Placed
    <2> QED BY <1>2, <1>4, <2>1, PlacedKept DEF Alone, HoldsAt
  <1>6. ASSUME NEW b \in Blocks
        PROVE  LET before == count[b] - Owed(t, b) - InSlot(i, b)
                   now == count'[b] - Owed(t, b)' - InSlot(i, b)'
               IN  now = before /\ now >= before
    <2>1. CASE b = b0 /\ npc[t] = "give"
      <3>1. Owed(t, b) = 1 + MAX_FAST_REFS /\ Owed(t, b)' = 1
        BY <1>2, <1>4, <2>1 DEF Owed, HoldsAt
      <3>2. InSlot(i, b) = 1 /\ InSlot(i, b)' = MAX_FAST_REFS + 1
        BY <1>2, <1>3, <2>1 DEF InSlot
      <3> QED BY <1>0, <1>2, <3>1, <3>2, NotifyAssumption
    <2>2. CASE b = b0 /\ npc[t] = "dereference"
      <3>1. Owed(t, b) = 1 /\ Owed(t, b)' = 0
        BY <1>2, <1>4, <2>2 DEF Owed, HoldsAt
      <3>2. InSlot(i, b) = slot[i].cnt + 1 /\ InSlot(i, b)' = slot[i].cnt + 2
        BY <1>2, <1>3, <2>2 DEF InSlot
      <3> QED BY <1>0, <1>2, <1>3, <3>1, <3>2
    <2>3. CASE b # b0
      <3>1. Owed(t, b) = 0 /\ Owed(t, b)' = 0 /\ InSlot(i, b) = 0 /\ InSlot(i, b)' = 0
        BY <1>2, <1>3, <1>4, <2>3 DEF Owed, HoldsAt, InSlot
      <3> QED BY <1>0, <1>2, <3>1
    <2> QED BY <1>2, <2>1, <2>2, <2>3
  <1>7. count' \in [Blocks -> Int]
    BY <1>0, <1>2
  <1> QED BY <1>3, <1>4, <1>5, <1>6, <1>7, Kept DEF Inv

(* Acquisitions and releases of the rundown protection change the count    *)
(* and what the thread owes alike.                                         *)
LEMMA CountMoves ==
  ASSUME Inv, NEW t \in Callers,
         Fetch(t) \/ GiveBack(t) \/ DereferenceSlow(t) \/ SwapRelease(t) \/ ReleaseOwn(t)
  PROVE  Inv'
  <1>0. TableTypes /\ Placed /\ count \in [Blocks -> Nat]
    BY TypesIs DEF Inv
  <1>1. PICK c \in Blocks : c = blk[t]
    <2>1. npc[t] \in HoldsAt
      BY DEF Fetch, GiveBack, DereferenceSlow, SwapRelease, ReleaseOwn, Goto, HoldsAt
    <2> QED BY <1>0, <2>1 DEF Placed
  <1> DEFINE Moved(n) ==
        /\ count' = [count EXCEPT ![c] = count[c] + n]
        /\ UNCHANGED <<slot, func, active, registered, enabled>>
        /\ TableTypes' /\ Others(t)
        /\ npc'[t] \in Alone => npc[t] \in Alone /\ blk'[t] = blk[t]
        /\ npc'[t] # "insertSlot" /\ npc[t] \in HoldsAt
        /\ npc'[t] \in HoldsAt => blk'[t] = blk[t]
  <1>2. ASSUME NEW n \in Int, Moved(n), Owed(t, c)' = Owed(t, c) + n PROVE Inv'
    <2>0. 1 \in 1 .. Slots /\ OtherSlots(1)
      BY <1>2, NotifyAssumption DEF OtherSlots
    <2>1. Placed'
      BY <1>0, <1>2, PlacedKept DEF Placed
    <2>2. ASSUME NEW b \in Blocks
          PROVE  LET before == count[b] - Owed(t, b) - InSlot(1, b)
                     now == count'[b] - Owed(t, b)' - InSlot(1, b)'
                 IN  now = before /\ now >= before
      <3>1. InSlot(1, b)' = InSlot(1, b) /\ InSlot(1, b) \in Nat /\ Owed(t, b) \in Nat
        <4>1. InSlot(1, b) \in Nat /\ Owed(t, b) \in Nat
          BY <1>0, <2>0, InSlotIs, OwedIs, Bounds DEF TableTypes
        <4> QED BY <1>2, <4>1 DEF InSlot
      <3>2. CASE b = c
        <4>1. count'[b] = count[b] + n /\ count[b] \in Nat
          BY <1>0, <1>2, <3>2
        <4> QED BY <1>2, <3>1, <3>2, <4>1
      <3>3. CASE b # c
        <4>1. count'[b] = count[b] /\ count[b] \in Nat
          BY <1>0, <1>2, <3>3
        <4>2. Owed(t, b) = 0 /\ Owed(t, b)' = 0
          BY <1>1, <1>2, <3>3 DEF Owed
        <4> QED BY <3>1, <4>1, <4>2
      <3> QED BY <3>2, <3>3
    <2>3. count' \in [Blocks -> Int]
      BY <1>0, <1>2
    <2> HIDE DEF Moved
    <2> QED BY <1>2, <2>0, <2>1, <2>2, <2>3, Kept DEF Inv, Moved
  <1> USE DEF Goto, Rundown
  <1> HIDE DEF Moved
  <1>3. CASE Fetch(t)
    <2>0. npc[t] = "fetch" /\ blk'[t] = blk[t] /\ TableTypes' /\ Others(t)
      BY <1>0, <1>1, <1>3 DEF Fetch, TableTypes, Labels, Others
    <2>1. CASE active[c]
      <3>0. /\ npc' = [npc EXCEPT ![t] = "use"] /\ count' = [count EXCEPT ![c] = count[c]]
            /\ UNCHANGED <<slot, func, active, registered, enabled>>
        BY <1>1, <1>3, <2>1 DEF Fetch
      <3>1. Moved(0) /\ npc'[t] = "use"
        <4>1. count[c] + 0 = count[c] /\ npc'[t] = "use"
          BY <1>0, <3>0 DEF TableTypes
        <4> QED BY <2>0, <3>0, <4>1 DEF Alone, HoldsAt, Moved
      <3>2. Owed(t, c)' = Owed(t, c) + 0
        BY <1>1, <2>0, <3>1 DEF Owed, HoldsAt
      <3> QED BY <1>2, <3>1, <3>2
    <2>2. CASE ~active[c]
      <3>1. Moved(MAX_FAST_REFS) /\ npc'[t] = "give"
        BY <1>0, <1>1, <1>3, <2>0, <2>2 DEF Fetch, TableTypes, Alone, HoldsAt, Moved
      <3>2. Owed(t, c)' = Owed(t, c) + MAX_FAST_REFS
        BY <1>1, <2>0, <3>1, NotifyAssumption DEF Owed, HoldsAt
      <3>3. MAX_FAST_REFS \in Int
        BY NotifyAssumption
      <3> QED BY <1>2, <3>1, <3>2, <3>3
    <2> QED BY <2>1, <2>2
  <1>4. CASE GiveBack(t)
    <2>1. Moved(-MAX_FAST_REFS) /\ npc[t] = "give" /\ npc'[t] = "use" /\ blk'[t] = blk[t]
      BY <1>0, <1>1, <1>4, NotifyAssumption DEF GiveBack, TableTypes, Labels, Others, Alone, HoldsAt, Moved
    <2>2. Owed(t, c)' = Owed(t, c) + (-MAX_FAST_REFS)
      BY <1>1, <2>1, NotifyAssumption DEF Owed, HoldsAt
    <2>3. -MAX_FAST_REFS \in Int
      BY NotifyAssumption
    <2> QED BY <1>2, <2>1, <2>2, <2>3
  <1>5. CASE DereferenceSlow(t)
    <2>0. NextSlot(t) /\ npc[t] = "dereference"
      BY <1>5 DEF DereferenceSlow
    <2>1. TableTypes' /\ Others(t) /\ npc'[t] \in {"idle", "reference"}
      BY <1>0, <1>5, <2>0, Leaves DEF DereferenceSlow, TableTypes
    <2>2. Moved(-1)
      BY <1>0, <1>1, <1>5, <2>0, <2>1 DEF DereferenceSlow, Alone, HoldsAt, Moved
    <2>3. Owed(t, c)' = Owed(t, c) + (-1)
      BY <1>1, <2>0, <2>1 DEF Owed, HoldsAt
    <2> QED BY <1>2, <2>2, <2>3
  <1>6. CASE SwapRelease(t)
    <2>0. given[t] \in Nat /\ 0 \in 0 .. MAX_FAST_REFS
      BY <1>0, NotifyAssumption DEF TableTypes, GivenType
    <2>1. /\ TableTypes' /\ Others(t) /\ npc[t] = "release" /\ npc'[t] = "decrement" /\ blk'[t] = blk[t]
      BY <1>0, <1>6, <2>0 DEF SwapRelease, TableTypes, GivenType, Labels, Others
    <2>2. Moved(-(given[t] + 1))
      <3>1. count[c] - (given[t] + 1) = count[c] + (-(given[t] + 1))
        BY <1>0, <2>0
      <3> QED BY <1>0, <1>1, <1>6, <2>1, <3>1 DEF SwapRelease, Alone, HoldsAt, Moved
    <2>3. Owed(t, c)' = Owed(t, c) + (-(given[t] + 1))
      BY <1>1, <2>0, <2>1 DEF Owed, HoldsAt
    <2>4. -(given[t] + 1) \in Int
      BY <2>0
    <2> QED BY <1>2, <2>2, <2>3, <2>4
  <1>7. CASE ReleaseOwn(t)
    <2>1. Moved(-1) /\ npc[t] = "release1" /\ npc'[t] = "wait"
      BY <1>0, <1>1, <1>7 DEF ReleaseOwn, TableTypes, Labels, Others, Alone, HoldsAt, Moved
    <2>2. Owed(t, c)' = Owed(t, c) + (-1)
      BY <1>1, <2>1 DEF Owed, HoldsAt
    <2> QED BY <1>2, <2>1, <2>2
  <1> QED BY <1>3, <1>4, <1>5, <1>6, <1>7

-----------------------------------------------------------------------------
(* ExAllocateCallBack makes a block that nobody has, with no references. *)
LEMMA RegisterStep ==
  ASSUME Inv, NEW t \in Callers, NEW r \in Routines, NEW b \in Blocks, Register(t, r, b)
  PROVE  Inv'
  <1>0. TableTypes /\ Placed /\ count \in [Blocks -> Nat] /\ CountsCover
    BY TypesIs DEF Inv
  <1>1. /\ npc[t] = "idle" /\ func[b] = NULL
        /\ npc' = [npc EXCEPT ![t] = "insertSlot"]
        /\ func' = [func EXCEPT ![b] = r]
        /\ count' = [count EXCEPT ![b] = 0]
        /\ active' = [active EXCEPT ![b] = FALSE]
        /\ op' = [op EXCEPT ![t] = "register"]
        /\ blk' = [blk EXCEPT ![t] = b]
        /\ UNCHANGED <<slot, registered, at, arg, given, enabled>>
    BY DEF Register, Goto
  <1>2. /\ TableTypes' /\ Others(t) /\ npc'[t] = "insertSlot" /\ blk'[t] = b /\ count' \in [Blocks -> Int]
    <2>1. active' \in [Blocks -> BOOLEAN]
      BY <1>0, <1>1 DEF TableTypes
    <2> QED BY <1>0, <1>1, <2>1 DEF TableTypes, Labels, Others
  <1>3. /\ \A u \in Callers : npc[u] \in HoldsAt \cup Alone => blk[u] # b
        /\ \A i \in 1 .. Slots : slot[i].obj # b
    BY <1>0, <1>1, NotifyAssumption DEF Placed
  <1>4. r # NULL /\ b # NULL
    BY NotifyAssumption
  <1>5. Placed'
    <2>1. \A u \in Callers \ {t} : npc'[u] = npc[u] /\ blk'[u] = blk[u]
      BY <1>2 DEF Others
    <2>2. func'[b] # NULL /\ \A c \in Blocks \ {b} : func'[c] = func[c]
      BY <1>0, <1>1, <1>4 DEF TableTypes
    <2>3. \A i \in 1 .. Slots : slot[i].obj # NULL => slot[i].obj \in Blocks
      BY <1>0 DEF TableTypes, SlotType
    <2>4. \A u \in Callers : npc'[u] \in HoldsAt \cup Alone => blk'[u] \in Blocks /\ func'[blk'[u]] # NULL
      BY <1>0, <1>2, <1>3, <2>1, <2>2 DEF Placed
    <2>5. ASSUME NEW u \in Callers, npc'[u] \in Alone
          PROVE  /\ \A i \in 1 .. Slots : slot'[i].obj # blk'[u]
                 /\ \A v \in Callers \ {u} : npc'[v] \in Alone => blk'[v] # blk'[u]
      BY <1>0, <1>1, <1>2, <1>3, <2>1, <2>5 DEF Placed
    <2>6. ASSUME NEW u \in Callers, NEW v \in Callers, npc'[u] = "insertSlot", npc'[v] \in HoldsAt
          PROVE  blk'[v] # blk'[u]
      BY <1>0, <1>2, <1>3, <2>1, <2>6 DEF Placed, HoldsAt
    <2>7. ASSUME NEW i \in 1 .. Slots
          PROVE  /\ slot'[i].obj # NULL => func'[slot'[i].obj] # NULL
                 /\ slot'[i].obj = NULL => slot'[i].cnt = 0
                 /\ \A j \in 1 .. Slots : i # j /\ slot'[i].obj # NULL => slot'[i].obj # slot'[j].obj
      BY <1>0, <1>1, <1>3, <2>2, <2>3 DEF Placed
    <2> QED BY <2>4, <2>5, <2>6, <2>7 DEF Placed
  <1>6. References(b) = 0
    BY <1>3, NoReferences
  <1>7. \A c \in Blocks : References(c)' = References(c)
    <2> SUFFICES ASSUME NEW c \in Blocks PROVE References(c)' = References(c)
      OBVIOUS
    <2>1. OtherSlots(1) /\ 1 \in Table
      BY <1>1, NotifyAssumption DEF OtherSlots, Table
    <2>2. Owed(t, c)' = 0 /\ Owed(t, c) = 0
      BY <1>1, <1>2 DEF Owed, HoldsAt
    <2>3. InSlot(1, c)' = InSlot(1, c)
      BY <1>1 DEF InSlot
    <2>4. InSlot(1, c) \in Int
      BY <1>0, <2>1, InSlotIs DEF TableTypes, Table
    <2>5. References(c)' = References(c) + (Owed(t, c)' - Owed(t, c)) + (InSlot(1, c)' - InSlot(1, c))
      BY <1>0, <1>2, <2>1, Balance
    <2> QED BY <2>2, <2>3, <2>4, <2>5, ReferencesNat
  <1>8. CountsCover'
    BY <1>0, <1>1, <1>6, <1>7 DEF CountsCover
  <1>9. TableTypeOK'
    <2>1. count' \in [Blocks -> Nat]
      BY <1>0, <1>1
    <2> QED BY <1>2, <2>1 DEF TableTypeOK, TableTypes, Labels, SlotType, GivenType
  <1> QED BY <1>5, <1>8, <1>9 DEF Inv

(* ExCompareExchangeCallBack puts a block into an empty slot with its      *)
(* cached references and the table's own.                                  *)
LEMMA InsertSlotStep ==
  ASSUME Inv, NEW t \in Callers, InsertSlot(t)
  PROVE  Inv'
  <1>0. TableTypes /\ Placed /\ count \in [Blocks -> Nat]
    BY TypesIs DEF Inv
  <1>1. PICK i \in 1 .. Slots : i = at[t]
    BY <1>0 DEF TableTypes
  <1>2. PICK c \in Blocks : c = blk[t]
    BY <1>0 DEF InsertSlot, Goto, Placed, Alone
  <1> DEFINE new == [obj |-> c, cnt |-> MAX_FAST_REFS]
  <1>3. /\ slot[i].obj = NULL /\ npc[t] = "insertSlot"
        /\ npc' = [npc EXCEPT ![t] = "increment"]
        /\ slot' = [slot EXCEPT ![i] = new]
        /\ count' = [count EXCEPT ![c] = count[c] + MAX_FAST_REFS + 1]
        /\ blk' = [blk EXCEPT ![t] = NULL] /\ at' = [at EXCEPT ![t] = 1]
        /\ UNCHANGED <<func, active, registered, op, arg, given, enabled>>
    BY <1>1, <1>2 DEF InsertSlot, Goto
  <1>4. /\ new \in [obj : Blocks \cup {NULL}, cnt : 0 .. MAX_FAST_REFS]
        /\ new.obj = c /\ new.cnt = MAX_FAST_REFS
    BY NotifyAssumption
  <1> HIDE DEF new
  <1>5. slot' \in SlotType /\ slot'[i] = new /\ OtherSlots(i)
    BY <1>0, <1>3, <1>4 DEF TableTypes, SlotType, OtherSlots
  <1>6. TableTypes' /\ Others(t) /\ npc'[t] = "increment"
    BY <1>0, <1>3, <1>5, NotifyAssumption DEF TableTypes, Labels, Others
  <1>7. count' \in [Blocks -> Int]
    BY <1>0, <1>3, NotifyAssumption
  <1>8. Placed'
    <2>1. \A u \in Callers \ {t} : npc'[u] = npc[u] /\ blk'[u] = blk[u]
      BY <1>6 DEF Others
    <2>2. c # NULL /\ func[c] # NULL /\ \A j \in 1 .. Slots : slot[j].obj # c
      BY <1>0, <1>2, <1>3, NotifyAssumption DEF Placed, Alone
    <2>3. \A u \in Callers \ {t} : npc[u] \in Alone => blk[u] # c
      BY <1>0, <1>2, <1>3 DEF Placed, Alone
    <2>4. npc'[t] \notin HoldsAt \cup Alone
      BY <1>6 DEF HoldsAt, Alone
    <2>5. \A j \in 1 .. Slots : slot'[j].obj = IF j = i THEN c ELSE slot[j].obj
      BY <1>4, <1>5 DEF OtherSlots
    <2>6. ASSUME NEW u \in Callers, npc'[u] \in Alone
          PROVE  /\ \A j \in 1 .. Slots : slot'[j].obj # blk'[u]
                 /\ \A v \in Callers \ {u} : npc'[v] \in Alone => blk'[v] # blk'[u]
      BY <1>0, <1>3, <2>1, <2>3, <2>4, <2>5, <2>6 DEF Placed
    <2>7. \A u \in Callers : npc'[u] \in HoldsAt \cup Alone => blk'[u] \in Blocks /\ func'[blk'[u]] # NULL
      BY <1>0, <1>3, <2>1, <2>4 DEF Placed
    <2>8. ASSUME NEW u \in Callers, NEW v \in Callers, npc'[u] = "insertSlot", npc'[v] \in HoldsAt
          PROVE  blk'[v] # blk'[u]
      BY <1>0, <1>3, <1>6, <2>1, <2>4, <2>8 DEF Placed
    <2>9. ASSUME NEW j \in 1 .. Slots
          PROVE  /\ slot'[j].obj # NULL => func'[slot'[j].obj] # NULL
                 /\ slot'[j].obj = NULL => slot'[j].cnt = 0
                 /\ \A k \in 1 .. Slots : j # k /\ slot'[j].obj # NULL => slot'[j].obj # slot'[k].obj
      <3>1. j # i => slot'[j] = slot[j]
        BY <1>5 DEF OtherSlots
      <3> QED BY <1>0, <1>3, <2>2, <2>5, <3>1 DEF Placed
    <2> QED BY <2>6, <2>7, <2>8, <2>9 DEF Placed
  <1>9. ASSUME NEW b \in Blocks
        PROVE  LET before == count[b] - Owed(t, b) - InSlot(i, b)
                   now == count'[b] - Owed(t, b)' - InSlot(i, b)'
               IN  now = before /\ now >= before
    <2>1. Owed(t, b) = 0 /\ Owed(t, b)' = 0
      BY <1>3, <1>6 DEF Owed, HoldsAt
    <2>2. InSlot(i, b) = 0
      BY <1>3, NotifyAssumption DEF InSlot
    <2>3. CASE b = c
      <3>1. InSlot(i, b)' = MAX_FAST_REFS + 1
        BY <1>4, <1>5, <2>3 DEF InSlot
      <3>2. count'[b] = count[b] + MAX_FAST_REFS + 1 /\ count[b] \in Nat
        BY <1>0, <1>3, <2>3
      <3> QED BY <2>1, <2>2, <3>1, <3>2, NotifyAssumption
    <2>4. CASE b # c
      <3>1. InSlot(i, b)' = 0
        BY <1>4, <1>5, <2>4 DEF InSlot
      <3>2. count'[b] = count[b] /\ count[b] \in Nat
        BY <1>0, <1>3, <2>4
      <3> QED BY <2>1, <2>2, <3>1, <3>2
    <2> QED BY <2>3, <2>4
  <1> QED BY <1>5, <1>6, <1>7, <1>8, <1>9, Kept DEF Inv

(* ExCompareExchangeCallBack takes a block out; the thread then owes what  *)
(* the slot accounted for.                                                 *)
LEMMA SwapStep ==
  ASSUME Inv, NEW t \in Callers, Swap(t)
  PROVE  Inv'
  <1>0. TableTypes /\ Placed /\ count \in [Blocks -> Nat]
    BY TypesIs DEF Inv
  <1>1. PICK i \in 1 .. Slots : i = at[t]
    BY <1>0 DEF TableTypes
  <1>2. PICK c \in Blocks : c = blk[t]
    BY <1>0 DEF Swap, Goto, Placed, HoldsAt
  <1>3. /\ slot[i].obj = c /\ npc[t] = "swap"
        /\ npc' = [npc EXCEPT ![t] = "release"]
        /\ slot' = [slot EXCEPT ![i] = Empty]
        /\ given' = [given EXCEPT ![t] = slot[i].cnt]
        /\ at' = [at EXCEPT ![t] = 1]
        /\ UNCHANGED <<func, count, active, registered, op, blk, arg, enabled>>
    BY <1>1, <1>2 DEF Swap, Goto
  <1>4. /\ Empty \in [obj : Blocks \cup {NULL}, cnt : 0 .. MAX_FAST_REFS]
        /\ Empty.obj = NULL /\ Empty.cnt = 0
    BY NotifyAssumption DEF Empty
  <1>5. slot' \in SlotType /\ slot'[i] = Empty /\ OtherSlots(i) /\ slot[i].cnt \in 0 .. MAX_FAST_REFS
    BY <1>0, <1>3, <1>4 DEF TableTypes, SlotType, OtherSlots
  <1>6. TableTypes' /\ Others(t) /\ npc'[t] = "release" /\ given'[t] = slot[i].cnt
    BY <1>0, <1>3, <1>5, NotifyAssumption DEF TableTypes, Labels, Others, GivenType
  <1>7. count' \in [Blocks -> Int]
    BY <1>0, <1>3
  <1>8. Placed'
    <2>1. \A u \in Callers \ {t} : npc'[u] = npc[u]
      BY <1>6 DEF Others
    <2>2. c # NULL /\ \A j \in (1 .. Slots) \ {i} : slot[j].obj # c
      BY <1>0, <1>3, NotifyAssumption DEF Placed
    <2>3. \A u \in Callers : npc[u] \in Alone => blk[u] # c
      BY <1>0, <1>3 DEF Placed
    <2>5. \A j \in 1 .. Slots : slot'[j].obj = IF j = i THEN NULL ELSE slot[j].obj
      BY <1>4, <1>5 DEF OtherSlots
    <2>7. \A u \in Callers : npc'[u] \in HoldsAt \cup Alone => blk'[u] \in Blocks /\ func'[blk'[u]] # NULL
      BY <1>0, <1>3, <2>1 DEF Placed, HoldsAt
    <2>6. ASSUME NEW u \in Callers, npc'[u] \in Alone
          PROVE  /\ \A j \in 1 .. Slots : slot'[j].obj # blk'[u]
                 /\ \A v \in Callers \ {u} : npc'[v] \in Alone => blk'[v] # blk'[u]
      <3>1. blk'[u] \in Blocks /\ blk'[u] # NULL
        BY <2>6, <2>7, NotifyAssumption
      <3>2. CASE u = t
        BY <1>2, <1>3, <2>1, <2>2, <2>3, <2>5, <3>1, <3>2
      <3>3. CASE u # t
        BY <1>0, <1>2, <1>3, <2>1, <2>3, <2>5, <2>6, <3>1, <3>3 DEF Placed
      <3> QED BY <3>2, <3>3
    <2>8. ASSUME NEW u \in Callers, NEW v \in Callers, npc'[u] = "insertSlot", npc'[v] \in HoldsAt
          PROVE  blk'[v] # blk'[u]
      <3>1. u # t /\ npc[u] = "insertSlot" /\ npc[v] \in HoldsAt
        BY <1>3, <1>6, <2>1, <2>8 DEF HoldsAt
      <3> QED BY <1>0, <1>3, <3>1 DEF Placed
    <2>9. ASSUME NEW j \in 1 .. Slots
          PROVE  /\ slot'[j].obj # NULL => func'[slot'[j].obj] # NULL
                 /\ slot'[j].obj = NULL => slot'[j].cnt = 0
                 /\ \A k \in 1 .. Slots : j # k /\ slot'[j].obj # NULL => slot'[j].obj # slot'[k].obj
      <3>1. j # i => slot'[j] = slot[j]
        BY <1>5 DEF OtherSlots
      <3> QED BY <1>0, <1>3, <1>4, <1>5, <2>5, <3>1 DEF Placed
    <2> QED BY <2>6, <2>7, <2>8, <2>9 DEF Placed
  <1>9. ASSUME NEW b \in Blocks
        PROVE  LET before == count[b] - Owed(t, b) - InSlot(i, b)
                   now == count'[b] - Owed(t, b)' - InSlot(i, b)'
               IN  now = before /\ now >= before
    <2>1. InSlot(i, b)' = 0
      BY <1>4, <1>5, NotifyAssumption DEF InSlot
    <2>2. count'[b] = count[b] /\ count[b] \in Nat
      BY <1>0, <1>3
    <2>3. CASE b = c
      <3>1. Owed(t, b) = 1 /\ Owed(t, b)' = 2 + slot[i].cnt
        BY <1>2, <1>3, <1>6, <2>3 DEF Owed, HoldsAt
      <3>2. InSlot(i, b) = slot[i].cnt + 1
        BY <1>3, <2>3 DEF InSlot
      <3>3. slot[i].cnt \in Nat
        BY <1>5, NotifyAssumption
      <3> QED BY <2>1, <2>2, <3>1, <3>2, <3>3
    <2>4. CASE b # c
      <3>1. Owed(t, b) = 0 /\ Owed(t, b)' = 0 /\ InSlot(i, b) = 0
        BY <1>2, <1>3, <2>4 DEF Owed, InSlot
      <3> QED BY <2>1, <2>2, <3>1
    <2> QED BY <2>3, <2>4
  <1> QED BY <1>5, <1>6, <1>7, <1>8, <1>9, Kept DEF Inv

(* A block is freed when nobody else has it: its count is 0, or it never   *)
(* was in the table.                                                       *)
LEMMA FreeStep ==
  ASSUME Inv, NEW t \in Callers, Free(t) \/ InsertFails(t)
  PROVE  Inv'
  <1>0. TableTypes /\ Placed /\ count \in [Blocks -> Nat] /\ CountsCover
    BY TypesIs DEF Inv
  <1>2. PICK c \in Blocks : c = blk[t]
    BY <1>0 DEF Free, InsertFails, Placed, Alone
  <1>3. /\ npc[t] \in {"drain", "insertSlot"} /\ func' = [func EXCEPT ![c] = NULL] /\ Return(t)
        /\ UNCHANGED <<slot, count, registered, enabled>>
        /\ active' \in [Blocks -> BOOLEAN]
        /\ npc[t] = "drain" => count[c] = 0
    BY <1>0, <1>2 DEF Free, InsertFails, TableTypes
  <1>4. TableTypes' /\ Others(t) /\ npc'[t] \in {"idle", "reference"}
    BY <1>0, <1>3, Leaves DEF TableTypes
  <1>5. /\ \A u \in Callers \ {t} : npc[u] \in HoldsAt \cup Alone => blk[u] # c
        /\ \A i \in 1 .. Slots : slot[i].obj # c
    <2>1. \A u \in Callers \ {t} : npc[u] \in Alone => blk[u] # c
      BY <1>0, <1>2, <1>3 DEF Placed, Alone
    <2>2. \A i \in 1 .. Slots : slot[i].obj # c
      BY <1>0, <1>2, <1>3 DEF Placed, Alone
    <2>3. ASSUME NEW u \in Callers, npc[u] \in HoldsAt, blk[u] = c PROVE FALSE
      <3>1. npc[t] # "insertSlot"
        BY <1>0, <1>2, <2>3 DEF Placed
      <3>2. References(c) >= Owed(u, c) /\ Owed(u, c) >= 1
        BY <1>0, <2>3, HeldIsCounted
      <3>3. count[c] >= References(c) /\ count[c] = 0
        BY <1>0, <1>3, <3>1 DEF CountsCover
      <3>4. Owed(u, c) \in Int
        BY <1>0, OwedIs DEF TableTypes
      <3> QED BY <3>2, <3>3, <3>4, ReferencesNat
    <2> QED BY <2>1, <2>2, <2>3
  <1>6. Placed'
    <2>1. \A u \in Callers \ {t} : npc'[u] = npc[u] /\ blk'[u] = blk[u]
      BY <1>4 DEF Others
    <2>2. npc'[t] \notin HoldsAt \cup Alone
      BY <1>4 DEF HoldsAt, Alone
    <2>3. \A d \in Blocks \ {c} : func'[d] = func[d]
      BY <1>0, <1>3 DEF TableTypes
    <2>4. \A i \in 1 .. Slots : slot[i].obj # NULL => slot[i].obj \in Blocks
      BY <1>0 DEF TableTypes, SlotType
    <2>5. \A u \in Callers : npc'[u] \in HoldsAt \cup Alone => blk'[u] \in Blocks /\ func'[blk'[u]] # NULL
      BY <1>0, <1>5, <2>1, <2>2, <2>3 DEF Placed
    <2>6. ASSUME NEW u \in Callers, npc'[u] \in Alone
          PROVE  /\ \A j \in 1 .. Slots : slot'[j].obj # blk'[u]
                 /\ \A v \in Callers \ {u} : npc'[v] \in Alone => blk'[v] # blk'[u]
      BY <1>0, <1>3, <2>1, <2>2, <2>6 DEF Placed
    <2>7. ASSUME NEW u \in Callers, NEW v \in Callers, npc'[u] = "insertSlot", npc'[v] \in HoldsAt
          PROVE  blk'[v] # blk'[u]
      BY <1>0, <1>4, <2>1, <2>2, <2>7 DEF Placed
    <2>8. ASSUME NEW i \in 1 .. Slots
          PROVE  /\ slot'[i].obj # NULL => func'[slot'[i].obj] # NULL
                 /\ slot'[i].obj = NULL => slot'[i].cnt = 0
                 /\ \A j \in 1 .. Slots : i # j /\ slot'[i].obj # NULL => slot'[i].obj # slot'[j].obj
      BY <1>0, <1>3, <1>5, <2>3, <2>4 DEF Placed
    <2> QED BY <2>5, <2>6, <2>7, <2>8 DEF Placed
  <1>7. 1 \in 1 .. Slots /\ OtherSlots(1) /\ count' \in [Blocks -> Int]
    BY <1>0, <1>3, NotifyAssumption DEF OtherSlots
  <1>8. ASSUME NEW b \in Blocks
        PROVE  LET before == count[b] - Owed(t, b) - InSlot(1, b)
                   now == count'[b] - Owed(t, b)' - InSlot(1, b)'
               IN  now = before /\ now >= before
    <2>1. Owed(t, b) = 0 /\ Owed(t, b)' = 0
      BY <1>3, <1>4 DEF Owed, HoldsAt
    <2>2. InSlot(1, b)' = InSlot(1, b) /\ count'[b] = count[b] /\ count[b] \in Nat
      BY <1>0, <1>3 DEF InSlot
    <2>3. InSlot(1, b) \in Int
      BY <1>0, <1>7, InSlotIs DEF TableTypes
    <2> QED BY <2>1, <2>2, <2>3
  <1> QED BY <1>4, <1>6, <1>7, <1>8, Kept DEF Inv

(* An empty table satisfies the invariant. *)
LEMMA InitInv == NotifyInit => Inv
  <1> SUFFICES ASSUME NotifyInit PROVE Inv
    OBVIOUS
  <1>0. Empty \in [obj : Blocks \cup {NULL}, cnt : 0 .. MAX_FAST_REFS] /\ Empty.obj = NULL /\ Empty.cnt = 0
    BY NotifyAssumption DEF Empty
  <1>1. TableTypeOK
    <2>1. 1 \in 1 .. Slots /\ 0 \in 0 .. MAX_FAST_REFS
      BY NotifyAssumption
    <2>2. active \in [Blocks -> BOOLEAN] /\ enabled \in BOOLEAN
      BY Zenon DEF NotifyInit
    <2> QED BY <1>0, <2>1, <2>2 DEF NotifyInit, TableTypeOK
  <1>2. Placed
    BY <1>0 DEF NotifyInit, Placed, HoldsAt, Alone
  <1>3. ASSUME NEW b \in Blocks PROVE References(b) = 0
    <2>1. \A t \in Callers : npc[t] \notin HoldsAt
      BY DEF NotifyInit, HoldsAt
    <2>2. \A i \in 1 .. Slots : slot[i].obj # b
      BY <1>0, NotifyAssumption DEF NotifyInit
    <2> QED BY <2>1, <2>2, NoReferences
  <1>4. CountsCover
    BY <1>3 DEF NotifyInit, CountsCover
  <1> QED BY <1>1, <1>2, <1>4 DEF Inv

(* The invariant is inductive. *)
LEMMA NextInv == Inv /\ [NotifyNext]_tableVars => Inv'
  <1> SUFFICES ASSUME Inv, [NotifyNext]_tableVars PROVE Inv'
    OBVIOUS
  <1>1. CASE UNCHANGED tableVars
    <2>1. \A b \in Blocks : References(b)' = References(b)
      BY <1>1 DEF tableVars, References, Owed, InSlot
    <2>2. CountsCover'
      BY <1>1, <2>1 DEF tableVars, Inv, CountsCover
    <2>3. TableTypeOK' /\ Placed'
      BY <1>1 DEF tableVars, Inv, TableTypeOK, Placed
    <2> QED BY <2>2, <2>3 DEF Inv
  <1>2. ASSUME NEW t \in Callers, Begin(t) PROVE Inv'
    BY <1>2, QuietSteps, RegisterStep DEF Begin
  <1>3. ASSUME NEW t \in Callers, Continue(t) PROVE Inv'
    BY <1>3, QuietSteps, ReferenceFastStep, SlotFilled, CountMoves, InsertSlotStep, SwapStep, FreeStep
       DEF Continue
  <1> QED BY <1>1, <1>2, <1>3 DEF NotifyNext

(* Every allocated block is where one owner put it and its count covers    *)
(* the references to it, whatever the list.                                *)
THEOREM TableInvariance == NotifySpec => []Inv
  BY InitInv, NextInv, PTL DEF NotifySpec

(* No routine is called through, and no slot points to, a callback block   *)
(* that ExFreeCallBack has freed, and the block is freed while no other    *)
(* thread holds it, however calls, registrations and removals interleave;  *)
(* for all three lists, also the one that leaks references.                *)
THEOREM NoBlockUsedAfterFree == NotifySpec => []NoUseAfterFree
  <1>1. Inv => NoUseAfterFree
    <2> SUFFICES ASSUME Inv PROVE NoUseAfterFree
      OBVIOUS
    <2>0. TableTypes /\ Placed /\ CountsCover
      BY TypesIs DEF Inv
    <2>1. \A t \in Callers : npc[t] \in HoldsAt => func[blk[t]] # NULL
      BY <2>0 DEF Placed
    <2>2. \A i \in 1 .. Slots : slot[i].obj # NULL => func[slot[i].obj] # NULL
      BY <2>0 DEF Placed
    <2>3. ASSUME NEW t \in Callers, NEW u \in Callers, t # u, npc[t] = "drain", count[blk[t]] = 0,
                 blk[u] = blk[t], npc[u] \in HoldsAt \cup {"drain"}
          PROVE  FALSE
      <3>1. blk[t] \in Blocks /\ npc[u] # "drain"
        BY <2>0, <2>3 DEF Placed, Alone
      <3>2. References(blk[u]) >= Owed(u, blk[u]) /\ Owed(u, blk[u]) >= 1
        BY <2>0, <2>3, <3>1, HeldIsCounted
      <3>3. count[blk[t]] >= References(blk[t])
        BY <2>0, <3>1 DEF CountsCover
      <3>4. Owed(u, blk[u]) \in Int
        BY <2>0, OwedIs DEF TableTypes
      <3> QED BY <2>3, <3>2, <3>3, <3>4, ReferencesNat
    <2> QED BY <2>1, <2>2, <2>3 DEF NoUseAfterFree
  <1> QED BY <1>1, TableInvariance, PTL

-----------------------------------------------------------------------------
(* The filled slots, the removals whose decrement is still to come, and    *)
(* the registrations whose increment is.                                   *)
Full == {i \in 1 .. Slots : slot[i].obj # NULL}
Late == {t \in Callers : npc[t] \in {"release", "decrement"}}
Early == {t \in Callers : npc[t] = "increment"}

(* The sets RegisteredCorrect counts are finite. *)
LEMMA FiniteSets ==
  /\ IsFiniteSet(Full) /\ IsFiniteSet(Late) /\ IsFiniteSet(Early)
  /\ Cardinality(Full) \in Nat /\ Cardinality(Late) \in Nat /\ Cardinality(Early) \in Nat
  <1>1. Full \in SUBSET (1 .. Slots) /\ Late \in SUBSET Callers /\ Early \in SUBSET Callers
    BY DEF Full, Late, Early
  <1> QED BY <1>1, Bounds, FS_Subset, FS_CardinalityType

(* RegisteredCorrect in terms of them. *)
LEMMA RegisteredIs == RegisteredCorrect <=> registered = Cardinality(Full) + Cardinality(Late) - Cardinality(Early)
  BY DEF RegisteredCorrect, Full, Late, Early

(* A step that fills or empties no slot and is not at a counter keeps it. *)
LEMMA RegisteredKept ==
  ASSUME RegisteredCorrect, NEW t \in Callers, Others(t), registered' = registered,
         \A i \in 1 .. Slots : slot'[i].obj = slot[i].obj,
         npc'[t] \in {"release", "decrement"} <=> npc[t] \in {"release", "decrement"},
         npc'[t] # "increment", npc[t] # "increment"
  PROVE  RegisteredCorrect'
  <1>1. Full' = Full /\ Late' = Late /\ Early' = Early
    BY DEF Full, Late, Early, Others
  <1> QED BY <1>1 DEF RegisteredCorrect, Full, Late, Early

(* RegisteredCorrect is inductive, given the invariant. *)
LEMMA RegisteredStep == Inv /\ RegisteredCorrect /\ [NotifyNext]_tableVars => RegisteredCorrect'
  <1> SUFFICES ASSUME Inv, RegisteredCorrect, [NotifyNext]_tableVars PROVE RegisteredCorrect'
    OBVIOUS
  <1>0. TableTypes /\ Placed
    BY TypesIs DEF Inv
  <1>1. CASE UNCHANGED tableVars
    BY <1>1 DEF tableVars, RegisteredCorrect
  <1> USE DEF Goto, memory
  <1>2. ASSUME NEW t \in Callers, Begin(t) PROVE RegisteredCorrect'
    <2>1. /\ npc[t] = "idle" /\ registered' = registered /\ slot' = slot
          /\ \E l \in {"reference", "insertSlot"} : npc' = [npc EXCEPT ![t] = l]
          /\ \A u \in Callers \ {t} : blk'[u] = blk[u] /\ given'[u] = given[u]
      BY <1>0, <1>2 DEF Begin, Notify, Remove, Register, TableTypes
    <2>2. Others(t) /\ npc'[t] \in {"reference", "insertSlot"}
      BY <1>0, <2>1 DEF Others, TableTypes
    <2> QED BY <2>1, <2>2, RegisteredKept
  <1>3. ASSUME NEW t \in Callers, Continue(t) PROVE RegisteredCorrect'
    <2>i. PICK i \in 1 .. Slots : i = at[t]
      BY <1>0 DEF TableTypes
    <2>1. CASE InsertNext(t) \/ Fetch(t) \/ GiveBack(t) \/ Use(t) \/ Match(t) \/ SwapFails(t)
               \/ SwapRelease(t) \/ ReleaseOwn(t) \/ Close(t) \/ (NoMatch(t) /\ List # "process")
      <3>1. UNCHANGED <<registered, slot, blk>>
        BY <2>1 DEF InsertNext, Fetch, GiveBack, Use, Match, SwapFails, SwapRelease, ReleaseOwn, Close, NoMatch
      <3>2. /\ npc[t] # "increment"
            /\ npc' = npc \/ \E l \in {"use", "give", "dereference", "swap", "decrement", "wait", "drain"} :
                  /\ npc' = [npc EXCEPT ![t] = l]
                  /\ l = "decrement" <=> npc[t] \in {"release", "decrement"}
        BY <2>1 DEF InsertNext, Fetch, GiveBack, Use, Match, SwapFails, SwapRelease, ReleaseOwn, Close, NoMatch
      <3>3. \A u \in Callers \ {t} : given'[u] = given[u]
        BY <1>0, <2>1 DEF InsertNext, Fetch, GiveBack, Use, Match, SwapFails, SwapRelease, ReleaseOwn, Close,
           NoMatch, TableTypes, GivenType
      <3>4. Others(t) /\ npc'[t] # "increment"
            /\ (npc'[t] \in {"release", "decrement"} <=> npc[t] \in {"release", "decrement"})
        BY <1>0, <3>1, <3>2, <3>3 DEF Others, TableTypes
      <3> QED BY <3>1, <3>2, <3>4, RegisteredKept
    <2>2. CASE InsertFails(t) \/ Enable(t) \/ ReferenceNone(t) \/ ReferenceRace(t) \/ DereferenceSlow(t)
               \/ Free(t) \/ (NoMatch(t) /\ List = "process")
      <3>1. /\ Return(t) \/ NextSlot(t)
            /\ npc[t] \notin {"increment", "release", "decrement"} /\ UNCHANGED <<registered, slot>>
        BY <2>2 DEF InsertFails, Enable, ReferenceNone, ReferenceRace, DereferenceSlow, Free, NoMatch
      <3>2. Others(t) /\ npc'[t] \in {"idle", "reference"}
        BY <1>0, <3>1, Leaves
      <3> QED BY <3>1, <3>2, RegisteredKept
    <2>3. CASE ReferenceFast(t) \/ Give(t) \/ DereferenceFast(t)
      <3>1. /\ registered' = registered
            /\ npc[t] \in {"reference", "give", "dereference"}
            /\ \E n : slot' = [slot EXCEPT ![i].cnt = n]
        BY <2>i, <2>3 DEF ReferenceFast, Give, DereferenceFast
      <3>2. \A j \in 1 .. Slots : slot'[j].obj = slot[j].obj
        BY <1>0, <3>1 DEF TableTypes, SlotType
      <3>3. Others(t) /\ npc'[t] \in {"fetch", "use", "idle", "reference"}
        <4>1. CASE DereferenceFast(t)
          BY <1>0, <4>1, Leaves DEF DereferenceFast
        <4>2. CASE ReferenceFast(t)
          BY <1>0, <4>2 DEF ReferenceFast, Others, TableTypes
        <4>3. CASE Give(t)
          BY <1>0, <4>3 DEF Give, Others, TableTypes
        <4> QED BY <2>3, <4>1, <4>2, <4>3
      <3> QED BY <3>1, <3>2, <3>3, RegisteredKept
    <2> DEFINE F == Cardinality(Full)  L == Cardinality(Late)  E == Cardinality(Early)
    <2>s. /\ registered = F + L - E /\ F \in Nat /\ L \in Nat /\ E \in Nat
          /\ (RegisteredCorrect' <=> registered' = Cardinality(Full') + Cardinality(Late') - Cardinality(Early'))
      BY RegisteredIs, FiniteSets DEF RegisteredCorrect, Full, Late, Early
    <2>4. CASE InsertSlot(t)
      <3>1. /\ slot[i].obj = NULL /\ npc[t] = "insertSlot" /\ npc' = [npc EXCEPT ![t] = "increment"]
            /\ slot' = [slot EXCEPT ![i] = [obj |-> blk[t], cnt |-> MAX_FAST_REFS]]
            /\ registered' = registered /\ blk[t] \in Blocks
        BY <1>0, <2>i, <2>4 DEF InsertSlot, Placed, Alone
      <3>2. Full' = Full \cup {i} /\ i \notin Full
        BY <1>0, <3>1, NotifyAssumption DEF Full, TableTypes, SlotType
      <3>3. Late' = Late /\ Early' = Early \cup {t} /\ t \notin Early
        BY <1>0, <3>1 DEF Late, Early, TableTypes
      <3>4. Cardinality(Full') = F + 1 /\ Cardinality(Early') = E + 1
        BY <3>2, <3>3, FiniteSets, FS_AddElement
      <3> QED BY <2>s, <3>1, <3>3, <3>4
    <2>5. CASE Swap(t)
      <3>1. /\ slot[i].obj = blk[t] /\ npc[t] = "swap" /\ npc' = [npc EXCEPT ![t] = "release"]
            /\ slot' = [slot EXCEPT ![i] = Empty] /\ Empty.obj = NULL
            /\ registered' = registered /\ blk[t] \in Blocks
        BY <1>0, <2>i, <2>5 DEF Swap, Placed, HoldsAt, Empty
      <3>2. Full' = Full \ {i} /\ i \in Full
        BY <1>0, <3>1, NotifyAssumption DEF Full, TableTypes, SlotType
      <3>3. Late' = Late \cup {t} /\ t \notin Late /\ Early' = Early
        BY <1>0, <3>1 DEF Late, Early, TableTypes
      <3>4. Cardinality(Full') = F - 1 /\ Cardinality(Late') = L + 1
        BY <3>2, <3>3, FiniteSets, FS_AddElement, FS_RemoveElement
      <3> QED BY <2>s, <3>1, <3>3, <3>4
    <2>6. CASE Increment(t)
      <3>1. npc[t] = "increment" /\ slot' = slot /\ registered' = registered + 1
        BY <2>6 DEF Increment
      <3>2. npc'[t] \in {"idle", "enable", "reference"} /\ \A u \in Callers \ {t} : npc'[u] = npc[u]
        <4>1. CASE List = "image"
          BY <1>0, <2>6, <4>1 DEF Increment, TableTypes
        <4>2. CASE List # "image"
          BY <1>0, <2>6, <4>2, Leaves DEF Increment, Others
        <4> QED BY <4>1, <4>2
      <3>3. Full' = Full /\ Late' = Late /\ Early' = Early \ {t} /\ t \in Early
        BY <3>1, <3>2 DEF Full, Late, Early
      <3>4. Cardinality(Early') = E - 1
        BY <3>3, FiniteSets, FS_RemoveElement
      <3> QED BY <2>s, <3>1, <3>3, <3>4
    <2>7. CASE Decrement(t)
      <3>1. /\ npc[t] = "decrement" /\ slot' = slot /\ registered' = registered - 1
            /\ npc' = [npc EXCEPT ![t] = "release1"]
        BY <2>7 DEF Decrement
      <3>3. Full' = Full /\ Late' = Late \ {t} /\ t \in Late /\ Early' = Early
        BY <1>0, <3>1 DEF Full, Late, Early, TableTypes
      <3>4. Cardinality(Late') = L - 1
        BY <3>3, FiniteSets, FS_RemoveElement
      <3> QED BY <2>s, <3>1, <3>3, <3>4
    <2> QED BY <1>3, <2>1, <2>2, <2>3, <2>4, <2>5, <2>6, <2>7 DEF Continue
  <1> QED BY <1>1, <1>2, <1>3 DEF NotifyNext

(* An empty table has no routine registered. *)
LEMMA InitRegistered == NotifyInit => RegisteredCorrect
  <1> SUFFICES ASSUME NotifyInit PROVE RegisteredCorrect
    OBVIOUS
  <1>1. Full = {} /\ Late = {} /\ Early = {} /\ registered = 0
    BY DEF NotifyInit, Empty, Full, Late, Early
  <1> QED BY <1>1, FS_EmptySet, RegisteredIs

(* The counter of registered routines is the number of filled slots, up to *)
(* registrations and removals under way: PspThreadNotifyRoutineCount and   *)
(* its siblings never drift.                                               *)
THEOREM RegisteredIsCorrect == NotifySpec => []RegisteredCorrect
  BY InitRegistered, RegisteredStep, TableInvariance, PTL DEF NotifySpec

(* In the thread and image lists the count of each block is exactly the    *)
(* references to it, and the counter of registered routines is right: no   *)
(* interleaving leaks or invents a reference.                              *)
THEOREM TableIsCorrect == List # "process" => (NotifySpec => []TableCorrect)
  <1> SUFFICES ASSUME List # "process" PROVE NotifySpec => []TableCorrect
    OBVIOUS
  <1>1. Inv /\ RegisteredCorrect => TableCorrect
    BY DEF Inv, CountsCover, TableCorrect, ReferencesAddUp
  <1> QED BY <1>1, TableInvariance, RegisteredIsCorrect, PTL
=============================================================================
