------------------------ MODULE ObjectLifetimeProofs ------------------------
(***************************************************************************)
(* Proofs about ObjectLifetime, for any finite set of threads, any objects *)
(* and names, and any bound on the handles.                                *)
(*                                                                         *)
(* The inductive invariant Inv has one part per aspect of the model:       *)
(*   TypeOK, Stacks  a step that uses an object without a reference of its *)
(*                   own has a later step on the same stack that drops one *)
(*                   (Backed);                                             *)
(*   Counts          the two counts are what the handle tables, the        *)
(*                   directory and the stacks account for;                 *)
(*   Gone            nobody has a deleted object;                          *)
(*   Deaths          an object has no references exactly when one thread   *)
(*                   is deleting it or it is on the reaper's list, not     *)
(*                   both, and one thread only;                            *)
(*   Lists, Reaping  the reaper's two lists end and share nothing, and one *)
(*                   worker, one queued item or one thread about to queue  *)
(*                   it answers for a list that is not empty;              *)
(*   Naming          what is in the directory has its name and a query     *)
(*                   reference; what is to be inserted is one thread's;    *)
(*   NoOrphanName    as the run checks it.                                 *)
(*                                                                         *)
(* The references of calls in progress are counted as the places of their  *)
(* steps in the stacks (Owning): places are counted from the bottom, so a  *)
(* push or a pop moves none of them.  TotalChange says what a change of    *)
(* one stack does to a total, Gains what a step's change of its own stack  *)
(* does, and Books reduces Counts to one equation per object.  No          *)
(* induction over the threads or the stacks is needed.  The reaper's lists *)
(* are closures (Reach); the lemmas from ReachIn to LooplessHead say what  *)
(* following or changing one link does to them.                            *)
(*                                                                         *)
(* Most steps keep the reaper's part: StepKeeps, BooksKeep and EntryKeeps  *)
(* are for them.  SpecialKeeps and DeleteKeeps are for the steps that end  *)
(* an object, CreateKeeps is for the one that makes it.                    *)
(***************************************************************************)
EXTENDS ObjectLifetime, FiniteSetTheorems, SequenceTheorems, TLAPS

\* What NextToFree and the head of the list may hold.
Link == Objects \cup {NULL, 1}
Links == [Objects -> Link]

\* What a handle about to be made is made with.
HandleArg == [new : BOOLEAN, context : Objects \cup {NULL}, inserted : Objects \cup {NULL}]

\* The steps.
StepType ==
    [op : {"counthandle", "grant", "exhandle"}, obj : Objects, arg : HandleArg]
    \cup [op : {"readhandles", "readpointers"}, obj : Objects, arg : Int]
    \cup [op : {"push"}, obj : Objects, arg : Link]
    \cup [op : {"insert", "deref", "derefname", "dechandle", "temporary", "namecheck", "namedelete",
                "dec", "deferdelete", "delete", "defer", "queue"},
          obj : Objects, arg : {NULL}]

\* The types of the variables but todo.
Types ==
    /\ live \in SUBSET Objects
    /\ PointerCount \in [Objects -> Int]
    /\ HandleCount \in [Objects -> Int]
    /\ Name \in [Objects -> Names \cup {NULL}]
    /\ Permanent \in [Objects -> BOOLEAN]
    /\ QueryReferences \in [Objects -> Int]
    /\ Directory \in [Objects -> BOOLEAN]
    /\ entry \in [Names -> Objects \cup {NULL}]
    /\ dirLock \in Threads \cup {NULL}
    /\ handles \in [Objects -> Nat]
    /\ NextToFree \in Links
    /\ ObpReaperList \in Link
    /\ workItem \in BOOLEAN
    /\ reap \in [pc : {"idle", "take", "delete", "leave"}, obj : Objects \cup {NULL}]
    /\ skipped \in [Objects -> Nat]

\* The type invariant.
TypeOK == Types /\ todo \in [Threads -> Seq(StepType)]

\* Step a has, among the steps R that come after it, the references it relies
\* on: a name's, a handle's or an inserted object's owner drops its reference
\* to the object later.  Only these steps are ever left for later.
Backed(a, R) ==
    /\ a.op = "insert" => R = {}
    /\ a.op \in {"derefname", "namecheck", "namedelete", "temporary", "dechandle"} => Deref(a.obj) \in R
    /\ a.op \in {"counthandle", "grant", "exhandle"} =>
           /\ a.arg.inserted # NULL => Deref(a.arg.inserted) \in R /\ DerefName(a.arg.inserted) \in R
           /\ a.arg.inserted = NULL /\ a.arg.new => Deref(a.obj) \in R
           /\ a.op # "exhandle" /\ a.arg.inserted # NULL => a.arg.new /\ a.obj \in {a.arg.context, a.arg.inserted}
    /\ \A s \in R : s.op \in {"deref", "derefname", "namecheck", "exhandle"}

\* Every step of a stack is backed by those after it.
Ordered(st) == \A i \in 1 .. Len(st) : Backed(st[i], {st[j] : j \in i + 1 .. Len(st)})

\* So are the steps of all threads.
Stacks == \A t \in Threads : Ordered(todo[t])

\* Step s has object o in its hands.
Has(s, o) == s.obj = o \/ OwnsContext(s, o)

\* Nothing but the reaper's list has a deleted object.
Gone ==
    \A o \in Objects \ live :
        /\ handles[o] = 0
        /\ Entered(o) = 0
        /\ \A t \in Threads : \A s \in Range(todo[t]) : s.op # "queue" => ~Has(s, o)

\* t has the last word on its object.
Dying(t) == todo[t] # << >> /\ Head(todo[t]).op \in {"delete", "defer", "push"}

\* The last reference is dropped once: the object is then one thread's to
\* delete, or on the reaper's list.
Deaths ==
    /\ \A t \in Threads : Dying(t) => Obj(t) \in live /\ PointerCount[Obj(t)] = 0 /\ Obj(t) \notin Reapable
    /\ \A t, u \in Threads : t # u /\ Dying(t) /\ Dying(u) => Obj(t) # Obj(u)
    /\ \A t \in Threads : At(t, "push") => NextToFree[Obj(t)] = Arg(t)
    /\ \A o \in Reapable : o \in live /\ PointerCount[o] = 0
    /\ \A o \in live : PointerCount[o] = 0 => o \in Reapable \/ \E t \in Threads : Dying(t) /\ Obj(t) = o

\* Following the links from o never comes back.
Loopless(nx, o) == \A c \in Reach(nx, o) : c \notin Reach(nx, nx[c])

\* The list and what the reaper took off it.
Lists ==
    /\ Loopless(NextToFree, ObpReaperList)
    /\ Loopless(NextToFree, reap.obj)
    /\ Reach(NextToFree, ObpReaperList) \cap Reach(NextToFree, reap.obj) = {}

\* Who answers for the list: never two, and never nobody while it has an
\* object.
Reaping ==
    /\ reap.pc = "delete" <=> reap.obj \in Objects
    /\ \A t \in Threads : At(t, "queue") =>
           ~workItem /\ reap.pc = "idle" /\ ObpReaperList \in Objects /\ \A u \in Threads \ {t} : ~At(u, "queue")
    /\ workItem => reap.pc = "idle" /\ ObpReaperList \in Objects
    /\ reap.pc = "take" => ObpReaperList \in Objects
    /\ reap.pc \in {"delete", "leave"} => ObpReaperList # NULL
    /\ reap.pc \in {"idle", "take"} => ObpReaperList # 1
    /\ ObpReaperList \in Objects => workItem \/ reap.pc # "idle" \/ \E t \in Threads : At(t, "queue")

-----------------------------------------------------------------------------
\* How many steps of the stack st are in W: the depths of those that are.
Depths(st, W) == {d \in 1 .. Len(st) : st[Len(st) + 1 - d] \in W}
Num(st, W) == Cardinality(Depths(st, W))
\* 1 if a is in W.
In(a, W) == IF a \in W THEN 1 ELSE 0

\* A stack has finitely many steps in W.
LEMMA NumNat ==
  ASSUME NEW S, NEW st \in Seq(S), NEW W
  PROVE  IsFiniteSet(Depths(st, W)) /\ Num(st, W) \in Nat
  <1>1. Len(st) \in Nat
    BY LenProperties
  <1>2. IsFiniteSet(1 .. Len(st))
    BY <1>1, FS_Interval
  <1>3. Depths(st, W) \in SUBSET (1 .. Len(st))
    BY DEF Depths
  <1> QED BY <1>2, <1>3, FS_Subset, FS_CardinalityType DEF Num

\* What a push does to a stack.
LEMMA PushIs ==
  ASSUME NEW S, NEW q \in Seq(S), NEW a \in S
  PROVE  LET st == <<a>> \o q
         IN  /\ st \in Seq(S) /\ st # << >> /\ Head(st) = a /\ Tail(st) = q
             /\ Len(st) = Len(q) + 1 /\ Len(q) \in Nat
             /\ st[1] = a /\ \A i \in 1 .. Len(q) : st[i + 1] = q[i]
             /\ Range(st) = {a} \cup Range(q)
  <1> DEFINE st == <<a>> \o q
  <1>1. <<a>> \in Seq(S) /\ Len(<<a>>) = 1 /\ <<a>>[1] = a /\ Len(q) \in Nat
    BY LenProperties
  <1>2. /\ st \in Seq(S) /\ Len(st) = 1 + Len(q)
        /\ \A i \in 1 .. 1 + Len(q) : st[i] = IF i <= 1 THEN <<a>>[i] ELSE q[i - 1]
    BY <1>1, ConcatProperties
  <1> HIDE DEF st
  <1>3. st[1] = a /\ \A i \in 1 .. Len(q) : st[i + 1] = q[i]
    BY <1>1, <1>2
  <1>4. st # << >> /\ Head(st) = a
    BY <1>1, <1>2, <1>3, EmptySeq
  <1>5. Tail(st) = q
    <2>1. Tail(st) \in Seq(S) /\ Len(Tail(st)) = Len(st) - 1 /\ \A i \in 1 .. Len(Tail(st)) : Tail(st)[i] = st[i + 1]
      BY <1>2, <1>4, HeadTailProperties
    <2> QED BY <1>1, <1>2, <1>3, <2>1, SeqEqual
  <1>6. Range(st) = {a} \cup Range(q)
    <2>1. Range(<<a>>) = {a}
      BY DEF Range
    <2>2. Range(<<a>> \o q) = Range(<<a>>) \cup Range(q)
      BY <1>1, RangeConcatenation
    <2> QED BY <2>1, <2>2 DEF st
  <1>7. Len(st) = Len(q) + 1
    BY <1>1, <1>2
  <1> QED BY <1>1, <1>2, <1>3, <1>4, <1>5, <1>6, <1>7 DEF st

\* A stack is its first step and the rest.
LEMMA HeadTail ==
  ASSUME NEW S, NEW st \in Seq(S), st # << >>
  PROVE  Head(st) \in S /\ Tail(st) \in Seq(S) /\ st = <<Head(st)>> \o Tail(st)
  <1>1. /\ Head(st) \in S /\ Tail(st) \in Seq(S) /\ Len(Tail(st)) = Len(st) - 1
        /\ \A i \in 1 .. Len(Tail(st)) : Tail(st)[i] = st[i + 1]
    BY HeadTailProperties
  <1> DEFINE u == <<Head(st)>> \o Tail(st)
  <1>2. /\ u \in Seq(S) /\ Len(u) = Len(Tail(st)) + 1 /\ Len(Tail(st)) \in Nat
        /\ u[1] = Head(st) /\ \A i \in 1 .. Len(Tail(st)) : u[i + 1] = Tail(st)[i]
    BY <1>1, PushIs
  <1>3. Len(st) \in Nat \ {0} /\ st[1] = Head(st)
    BY EmptySeq
  <1> HIDE DEF u
  <1>4. ASSUME NEW i \in 1 .. Len(u) PROVE u[i] = st[i]
    <2>1. CASE i = 1
      BY <1>2, <1>3, <2>1
    <2>2. CASE i # 1
      <3>1. i - 1 \in 1 .. Len(Tail(st)) /\ (i - 1) + 1 = i
        BY <1>2, <2>2
      <3>2. u[(i - 1) + 1] = Tail(st)[i - 1] /\ Tail(st)[i - 1] = st[(i - 1) + 1]
        BY <1>1, <1>2, <3>1
      <3> QED BY <3>1, <3>2
    <2> QED BY <2>1, <2>2
  <1>5. Len(u) = Len(st)
    BY <1>1, <1>2, <1>3
  <1>6. u = st
    BY <1>2, <1>4, <1>5, SeqEqual
  <1> QED BY <1>1, <1>6 DEF u

\* A push adds one to the steps in W, or none.
LEMMA NumPush ==
  ASSUME NEW S, NEW q \in Seq(S), NEW a \in S, NEW W
  PROVE  Num(<<a>> \o q, W) = Num(q, W) + In(a, W)
  <1> DEFINE st == <<a>> \o q
  <1>1. /\ Len(st) = Len(q) + 1 /\ Len(q) \in Nat
        /\ st[1] = a /\ \A i \in 1 .. Len(q) : st[i + 1] = q[i]
    BY PushIs
  <1> HIDE DEF st
  <1>2. ASSUME NEW d \in 1 .. Len(q) PROVE st[Len(st) + 1 - d] = q[Len(q) + 1 - d]
    <2>1. Len(q) + 1 - d \in 1 .. Len(q) /\ Len(st) + 1 - d = (Len(q) + 1 - d) + 1
      BY <1>1
    <2>2. st[(Len(q) + 1 - d) + 1] = q[Len(q) + 1 - d]
      BY <1>1, <2>1
    <2> QED BY <2>1, <2>2
  <1>3. st[Len(st) + 1 - (Len(q) + 1)] = a
    BY <1>1
  <1>4. Depths(st, W) = Depths(q, W) \cup (IF a \in W THEN {Len(q) + 1} ELSE {})
    <2>1. ASSUME NEW d \in Depths(st, W) PROVE d \in Depths(q, W) \/ (a \in W /\ d = Len(q) + 1)
      <3>1. CASE d = Len(q) + 1
        BY <1>3, <3>1 DEF Depths
      <3>2. CASE d # Len(q) + 1
        <4>1. d \in 1 .. Len(q)
          BY <1>1, <3>2 DEF Depths
        <4> QED BY <1>2, <4>1 DEF Depths
      <3> QED BY <3>1, <3>2
    <2>2. ASSUME NEW d \in Depths(q, W) PROVE d \in Depths(st, W)
      <3>1. d \in 1 .. Len(q) /\ d \in 1 .. Len(st)
        BY <1>1 DEF Depths
      <3> QED BY <1>2, <3>1 DEF Depths
    <2>3. a \in W => Len(q) + 1 \in Depths(st, W)
      <3>1. Len(q) + 1 \in 1 .. Len(st)
        BY <1>1
      <3> QED BY <1>3, <3>1 DEF Depths
    <2> QED BY <2>1, <2>2, <2>3
  <1>5. Len(q) + 1 \notin Depths(q, W)
    BY <1>1 DEF Depths
  <1>6. IsFiniteSet(Depths(q, W)) /\ Num(q, W) \in Nat
    BY NumNat
  <1>7. CASE a \in W
    <2>1. Cardinality(Depths(q, W) \cup {Len(q) + 1}) = Cardinality(Depths(q, W)) + 1
      BY <1>5, <1>6, FS_AddElement
    <2>2. Depths(st, W) = Depths(q, W) \cup {Len(q) + 1}
      BY <1>4, <1>7
    <2> QED BY <1>7, <2>1, <2>2 DEF Num, In, st
  <1>8. CASE a \notin W
    <2>1. Num(st, W) = Num(q, W) /\ In(a, W) = 0
      BY <1>4, <1>8 DEF Num, In
    <2> QED BY <1>6, <2>1 DEF st
  <1> QED BY <1>7, <1>8

\* The steps that come after the one at place i.
LaterSteps(st, i) == {st[j] : j \in i + 1 .. Len(st)}

\* A push adds the whole stack to what comes after its first step, and
\* nothing to what comes after the others.
LEMMA LaterPush ==
  ASSUME NEW S, NEW q \in Seq(S), NEW a \in S
  PROVE  LET st == <<a>> \o q
         IN  LaterSteps(st, 1) = Range(q) /\ \A i \in 1 .. Len(q) : LaterSteps(st, i + 1) = LaterSteps(q, i)
  <1> DEFINE st == <<a>> \o q
  <1>1. /\ Len(st) = Len(q) + 1 /\ Len(q) \in Nat
        /\ \A i \in 1 .. Len(q) : st[i + 1] = q[i]
    BY PushIs
  <1>2. DOMAIN q = 1 .. Len(q)
    BY LenProperties
  <1> HIDE DEF st
  <1>3. ASSUME NEW i \in 0 .. Len(q) PROVE LaterSteps(st, i + 1) = {q[j] : j \in i + 1 .. Len(q)}
    <2>1. ASSUME NEW j \in (i + 1) + 1 .. Len(st) PROVE \E k \in i + 1 .. Len(q) : st[j] = q[k]
      <3>1. j - 1 \in i + 1 .. Len(q) /\ j - 1 \in 1 .. Len(q) /\ (j - 1) + 1 = j
        BY <1>1
      <3> QED BY <1>1, <3>1
    <2>2. ASSUME NEW k \in i + 1 .. Len(q) PROVE \E j \in (i + 1) + 1 .. Len(st) : st[j] = q[k]
      <3>1. k + 1 \in (i + 1) + 1 .. Len(st) /\ k \in 1 .. Len(q)
        BY <1>1
      <3> QED BY <1>1, <3>1
    <2> DEFINE A == LaterSteps(st, i + 1)  B == {q[j] : j \in i + 1 .. Len(q)}
    <2>3. \A x : x \in A => x \in B
      BY <2>1 DEF LaterSteps
    <2>4. \A x : x \in B => x \in A
      BY <2>2 DEF LaterSteps
    <2> HIDE DEF A, B
    <2>5. A = B
      BY <2>3, <2>4
    <2> QED BY <2>5 DEF A, B
  <1>4. LaterSteps(st, 1) = Range(q)
    <2>1. 0 \in 0 .. Len(q) /\ 0 + 1 = 1
      BY <1>1
    <2>2. LaterSteps(st, 0 + 1) = {q[j] : j \in 0 + 1 .. Len(q)}
      BY <1>3, <2>1
    <2> QED BY <1>2, <2>1, <2>2 DEF Range
  <1>5. \A i \in 1 .. Len(q) : LaterSteps(st, i + 1) = LaterSteps(q, i)
    <2>1. \A i \in 1 .. Len(q) : i \in 0 .. Len(q)
      BY <1>1
    <2> QED BY <1>3, <2>1 DEF LaterSteps
  <1> QED BY <1>4, <1>5 DEF st

\* Ordered in terms of LaterSteps.
LEMMA OrderedIs ==
  ASSUME NEW st
  PROVE  Ordered(st) <=> \A i \in 1 .. Len(st) : Backed(st[i], LaterSteps(st, i))
  BY DEF Ordered, LaterSteps

\* A stack is ordered if its first step is backed by the rest and the rest is
\* ordered.
LEMMA OrderedPush ==
  ASSUME NEW S, NEW q \in Seq(S), NEW a \in S
  PROVE  Ordered(<<a>> \o q) <=> Backed(a, Range(q)) /\ Ordered(q)
  <1> DEFINE st == <<a>> \o q
  <1>1. /\ Len(st) = Len(q) + 1 /\ Len(q) \in Nat
        /\ st[1] = a /\ \A i \in 1 .. Len(q) : st[i + 1] = q[i]
    BY PushIs
  <1>2. LaterSteps(st, 1) = Range(q) /\ \A i \in 1 .. Len(q) : LaterSteps(st, i + 1) = LaterSteps(q, i)
    BY LaterPush
  <1> HIDE DEF st
  <1>3. ASSUME Ordered(st) PROVE Backed(a, Range(q)) /\ Ordered(q)
    <2>0. \A i \in 1 .. Len(st) : Backed(st[i], LaterSteps(st, i))
      BY <1>3, OrderedIs
    <2>1. 1 \in 1 .. Len(st) /\ \A i \in 1 .. Len(q) : i + 1 \in 1 .. Len(st)
      BY <1>1
    <2>2. Backed(a, Range(q))
      BY <1>1, <1>2, <2>0, <2>1
    <2>3. \A i \in 1 .. Len(q) : Backed(q[i], LaterSteps(q, i))
      BY <1>1, <1>2, <2>0, <2>1
    <2> QED BY <2>2, <2>3, OrderedIs
  <1>4. ASSUME Backed(a, Range(q)), Ordered(q) PROVE Ordered(st)
    <2>1. ASSUME NEW i \in 1 .. Len(st) PROVE Backed(st[i], LaterSteps(st, i))
      <3>1. CASE i = 1
        BY <1>1, <1>2, <1>4, <3>1
      <3>2. CASE i # 1
        <4> DEFINE k == i - 1
        <4>1. k \in 1 .. Len(q) /\ k + 1 = i
          BY <1>1, <3>2
        <4> HIDE DEF k
        <4>2. Backed(q[k], LaterSteps(q, k))
          BY <1>4, <4>1, OrderedIs
        <4> QED BY <1>1, <1>2, <4>1, <4>2
      <3> QED BY <3>1, <3>2
    <2> QED BY <2>1, OrderedIs
  <1> QED BY <1>3, <1>4 DEF st

\* A stack of steps that have what they rely on.
Sound(q) == q \in Seq(StepType) /\ Ordered(q)

\* Push a step that is backed: the stack stays sound.
LEMMA Push ==
  ASSUME NEW q, Sound(q), NEW a \in StepType, Backed(a, Range(q))
  PROVE  LET st == <<a>> \o q
         IN  /\ Sound(st) /\ st # << >> /\ Head(st) = a
             /\ Range(st) = {a} \cup Range(q)
             /\ \A W : Num(st, W) = Num(q, W) + In(a, W)
  <1> DEFINE st == <<a>> \o q
  <1>0. q \in Seq(StepType)
    BY DEF Sound
  <1>1. st \in Seq(StepType) /\ st # << >> /\ Head(st) = a /\ Range(st) = {a} \cup Range(q)
    BY <1>0, PushIs
  <1>2. Ordered(st)
    BY <1>0, OrderedPush DEF Sound
  <1>3. \A W : Num(st, W) = Num(q, W) + In(a, W)
    BY <1>0, NumPush
  <1> QED BY <1>1, <1>2, <1>3 DEF Sound

\* The rest of a sound stack is sound.
LEMMA Pop ==
  ASSUME NEW st, Sound(st), st # << >>
  PROVE  /\ Head(st) \in StepType /\ Sound(Tail(st)) /\ Backed(Head(st), Range(Tail(st)))
         /\ Range(st) = {Head(st)} \cup Range(Tail(st))
         /\ \A W : Num(st, W) = Num(Tail(st), W) + In(Head(st), W)
  <1>0. st \in Seq(StepType)
    BY DEF Sound
  <1> DEFINE a == Head(st)  q == Tail(st)
  <1>1. a \in StepType /\ q \in Seq(StepType) /\ st = <<a>> \o q
    BY <1>0, HeadTail
  <1> HIDE DEF a, q
  <1>2. Backed(a, Range(q)) /\ Ordered(q)
    BY <1>1, OrderedPush DEF Sound
  <1>3. Range(st) = {a} \cup Range(q) /\ \A W : Num(st, W) = Num(q, W) + In(a, W)
    BY <1>1, PushIs, NumPush
  <1> QED BY <1>1, <1>2, <1>3 DEF Sound, a, q

\* The empty stack is sound.
LEMMA SoundEmpty == Sound(<< >>) /\ Range(<< >>) = {} /\ \A W : Num(<< >>, W) = 0
  <1>1. << >> \in Seq(StepType) /\ Len(<< >>) = 0
    BY EmptySeq
  <1>2. \A W : Depths(<< >>, W) = {}
    BY <1>1 DEF Depths
  <1>3. Ordered(<< >>)
    BY <1>1 DEF Ordered
  <1>4. Range(<< >>) = {}
    BY DEF Range
  <1> QED BY <1>1, <1>2, <1>3, <1>4, FS_EmptySet DEF Sound, Num

-----------------------------------------------------------------------------
\* The places, in the stacks td of all threads, of the steps in W.
Owning(td, W) ==
    {p \in UNION {{t} \X (1 .. Len(td[t])) : t \in Threads} :
        LET s == td[p[1]] IN s[Len(s) + 1 - p[2]] \in W}
Total(td, W) == Cardinality(Owning(td, W))

\* The stacks of all threads.
StacksType == [Threads -> Seq(StepType)]

\* The places of the steps in W are those of each thread.
LEMMA OwningIs ==
  ASSUME NEW td, NEW W
  PROVE  Owning(td, W) = UNION {{t} \X Depths(td[t], W) : t \in Threads}
  <1>1. ASSUME NEW p \in Owning(td, W) PROVE p \in UNION {{t} \X Depths(td[t], W) : t \in Threads}
    BY DEF Owning, Depths
  <1>2. ASSUME NEW t \in Threads, NEW d \in Depths(td[t], W) PROVE <<t, d>> \in Owning(td, W)
    BY DEF Owning, Depths
  <1> QED BY <1>1, <1>2

\* They are finitely many.
LEMMA TotalNat ==
  ASSUME NEW td \in StacksType, NEW W
  PROVE  IsFiniteSet(Owning(td, W)) /\ Total(td, W) \in Nat
  <1> DEFINE F == {{t} \X Depths(td[t], W) : t \in Threads}
  <1>1. \A t \in Threads : IsFiniteSet(Depths(td[t], W))
    BY NumNat DEF StacksType
  <1>2. \A t \in Threads : IsFiniteSet({t} \X Depths(td[t], W))
    BY <1>1, FS_Singleton, FS_Product
  <1>3. IsFiniteSet(F)
    <2> DEFINE f == [t \in Threads |-> {t} \X Depths(td[t], W)]
    <2>1. F = {f[t] : t \in Threads}
      OBVIOUS
    <2>2. f \in Surjection(Threads, F)
      BY <2>1 DEF Surjection
    <2> HIDE DEF f, F
    <2> QED BY <2>2, ObjectAssumption, FS_Surjection
  <1>4. IsFiniteSet(UNION F)
    BY <1>2, <1>3, FS_UNION
  <1>5. IsFiniteSet(Owning(td, W))
    BY <1>4, OwningIs
  <1> QED BY <1>5, FS_CardinalityType DEF Total

\* Those of t, and those of the others.
LEMMA TotalSplit ==
  ASSUME NEW td \in StacksType, NEW W, NEW t \in Threads
  PROVE  LET rest == {p \in Owning(td, W) : p[1] # t}
         IN  IsFiniteSet(rest) /\ Total(td, W) = Cardinality(rest) + Num(td[t], W)
  <1> DEFINE rest == {p \in Owning(td, W) : p[1] # t}
             own == {t} \X Depths(td[t], W)
  <1>1. IsFiniteSet(rest) /\ Cardinality(rest) \in Nat
    <2>1. rest \in SUBSET Owning(td, W)
      OBVIOUS
    <2> QED BY <2>1, TotalNat, FS_Subset, FS_CardinalityType
  <1>2. IsFiniteSet(own) /\ Cardinality(own) = Num(td[t], W) /\ Num(td[t], W) \in Nat
    <2>1. IsFiniteSet({t}) /\ Cardinality({t}) = 1
      BY FS_Singleton
    <2>2. IsFiniteSet(Depths(td[t], W)) /\ Num(td[t], W) \in Nat
      BY NumNat DEF StacksType
    <2>3. Cardinality(own) = 1 * Cardinality(Depths(td[t], W)) /\ IsFiniteSet(own)
      BY <2>1, <2>2, FS_Product
    <2> QED BY <2>2, <2>3 DEF Num
  <1>3. rest \cap own = {}
    OBVIOUS
  <1>4. Owning(td, W) = rest \cup own
    BY OwningIs
  <1> HIDE DEF rest, own
  <1>5. Cardinality(rest \cup own) = Cardinality(rest) + Cardinality(own) - Cardinality(rest \cap own)
    BY <1>1, <1>2, FS_Union
  <1>6. Cardinality(rest \cap own) = 0
    BY <1>3, FS_EmptySet
  <1>7. IsFiniteSet(rest) /\ Total(td, W) = Cardinality(rest) + Num(td[t], W)
    BY <1>1, <1>2, <1>4, <1>5, <1>6 DEF Total
  <1> QED BY <1>7 DEF rest

\* When only the stack of t changes, the total changes as its number does.
LEMMA TotalChange ==
  ASSUME NEW td \in StacksType, NEW te \in StacksType, NEW t \in Threads,
         \A u \in Threads \ {t} : te[u] = td[u], NEW W
  PROVE  Total(te, W) = Total(td, W) + Num(te[t], W) - Num(td[t], W)
  <1>1. {p \in Owning(te, W) : p[1] # t} = {p \in Owning(td, W) : p[1] # t}
    BY OwningIs
  <1>2. Cardinality({p \in Owning(td, W) : p[1] # t}) \in Nat
    BY TotalSplit, FS_CardinalityType
  <1>3. Num(te[t], W) \in Nat /\ Num(td[t], W) \in Nat
    BY NumNat DEF StacksType
  <1> DEFINE c == Cardinality({p \in Owning(td, W) : p[1] # t})
  <1>4. Total(td, W) = c + Num(td[t], W)
    BY TotalSplit
  <1>5. Total(te, W) = Cardinality({p \in Owning(te, W) : p[1] # t}) + Num(te[t], W)
    BY TotalSplit
  <1>6. Total(te, W) = c + Num(te[t], W)
    BY <1>1, <1>5
  <1> HIDE DEF c
  <1> QED BY <1>2, <1>3, <1>4, <1>6 DEF c

\* There are none if no step of any stack is in W.
LEMMA TotalZero ==
  ASSUME NEW td \in StacksType, NEW W
  PROVE  Total(td, W) = 0 <=> \A t \in Threads : \A s \in Range(td[t]) : s \notin W
  <1>1. Total(td, W) = 0 <=> Owning(td, W) = {}
    BY TotalNat, FS_EmptySet DEF Total
  <1>2. ASSUME NEW t \in Threads
        PROVE  Depths(td[t], W) = {} <=> \A s \in Range(td[t]) : s \notin W
    <2> DEFINE st == td[t]
    <2>1. Len(st) \in Nat /\ DOMAIN st = 1 .. Len(st)
      BY LenProperties DEF StacksType
    <2> HIDE DEF st
    <2>2. ASSUME NEW i \in 1 .. Len(st) PROVE Len(st) + 1 - i \in 1 .. Len(st) /\ Len(st) + 1 - (Len(st) + 1 - i) = i
      BY <2>1
    <2>3. ASSUME Depths(st, W) = {}, NEW i \in 1 .. Len(st) PROVE st[i] \notin W
      <3>1. Len(st) + 1 - i \notin Depths(st, W)
        BY <2>3
      <3>2. Len(st) + 1 - i \in 1 .. Len(st) /\ Len(st) + 1 - (Len(st) + 1 - i) = i
        BY <2>2
      <3> QED BY <3>1, <3>2 DEF Depths
    <2>4. ASSUME \A i \in 1 .. Len(st) : st[i] \notin W PROVE Depths(st, W) = {}
      BY <2>2, <2>4 DEF Depths
    <2> QED BY <2>1, <2>3, <2>4 DEF Range, st
  <1>3. Owning(td, W) = {} <=> \A t \in Threads : Depths(td[t], W) = {}
    <2>1. Owning(td, W) = UNION {{t} \X Depths(td[t], W) : t \in Threads}
      BY OwningIs
    <2>2. ASSUME NEW t \in Threads, NEW d \in Depths(td[t], W) PROVE <<t, d>> \in Owning(td, W)
      BY <2>1
    <2>3. ASSUME NEW p \in Owning(td, W) PROVE \E t \in Threads : \E d : d \in Depths(td[t], W)
      BY <2>1
    <2> QED BY <2>2, <2>3
  <1> QED BY <1>1, <1>2, <1>3

-----------------------------------------------------------------------------
\* What is reached is an object.
LEMMA ReachIn ==
  ASSUME NEW nx, NEW b PROVE Reach(nx, b) \subseteq Objects
  BY DEF Reach

\* Nothing is reached from the ends of the list, 0 and 1.
LEMMA ReachNull ==
  ASSUME NEW nx PROVE Reach(nx, NULL) = {} /\ Reach(nx, 1) = {}
  <1>1. {} \in SUBSET Objects /\ NULL \in {} \cup {NULL, 1} /\ 1 \in {} \cup {NULL, 1}
    OBVIOUS
  <1> QED BY <1>1 DEF Reach

\* Where an object that is reached is linked to is reached, or an end.
LEMMA ReachNext ==
  ASSUME NEW nx \in Links, NEW b \in Link, NEW c \in Reach(nx, b)
  PROVE  nx[c] \in Reach(nx, b) \cup {NULL, 1}
  <1> SUFFICES ASSUME nx[c] \notin {NULL, 1} PROVE nx[c] \in Reach(nx, b)
    OBVIOUS
  <1>1. c \in Objects /\ nx[c] \in Objects
    BY ReachIn DEF Links, Link
  <1>2. ASSUME NEW T \in SUBSET Objects, b \in T \cup {NULL, 1},
               \A d \in T : nx[d] \in T \cup {NULL, 1}
        PROVE  nx[c] \in T
    <2>1. c \in T
      BY <1>2 DEF Reach
    <2> QED BY <1>2, <2>1
  <1> QED BY <1>1, <1>2 DEF Reach

\* From an object b one reaches b and what is reached from its link.
LEMMA ReachStep ==
  ASSUME NEW nx \in Links, NEW b \in Objects
  PROVE  Reach(nx, b) = {b} \cup Reach(nx, nx[b])
  <1>0. b \notin {NULL, 1} /\ nx[b] \in Link
    BY ObjectAssumption DEF Links
  <1>1. b \in Reach(nx, b)
    BY <1>0 DEF Reach
  <1>2. ASSUME NEW c \in Reach(nx, nx[b]) PROVE c \in Reach(nx, b)
    <2>1. ASSUME NEW T \in SUBSET Objects, b \in T \cup {NULL, 1},
                 \A d \in T : nx[d] \in T \cup {NULL, 1}
          PROVE  c \in T
      <3>1. b \in T
        BY <1>0, <2>1
      <3>2. nx[b] \in T \cup {NULL, 1}
        BY <2>1, <3>1
      <3> QED BY <2>1, <3>2 DEF Reach
    <2> QED BY <2>1, ReachIn DEF Reach
  <1>3. ASSUME NEW c \in Reach(nx, b), c # b PROVE c \in Reach(nx, nx[b])
    <2>1. ASSUME NEW T \in SUBSET Objects, nx[b] \in T \cup {NULL, 1},
                 \A d \in T : nx[d] \in T \cup {NULL, 1}
          PROVE  c \in T
      <3>1. /\ T \cup {b} \in SUBSET Objects /\ b \in (T \cup {b}) \cup {NULL, 1}
            /\ \A d \in T \cup {b} : nx[d] \in (T \cup {b}) \cup {NULL, 1}
        BY <2>1
      <3>2. c \in T \cup {b}
        BY <3>1 DEF Reach
      <3> QED BY <1>3, <3>2
    <2> QED BY <2>1, ReachIn DEF Reach
  <1> QED BY <1>1, <1>2, <1>3

\* What is reached further on is reached.
LEMMA ReachSub ==
  ASSUME NEW nx \in Links, NEW b \in Link, NEW c \in Reach(nx, b)
  PROVE  Reach(nx, nx[c]) \subseteq Reach(nx, b)
  <1>1. nx[c] \in Reach(nx, b) \cup {NULL, 1}
    BY ReachNext
  <1>2. Reach(nx, b) \in SUBSET Objects /\ \A d \in Reach(nx, b) : nx[d] \in Reach(nx, b) \cup {NULL, 1}
    BY ReachIn, ReachNext
  <1> QED BY <1>1, <1>2 DEF Reach

\* Links that agree on what is reached reach the same.
LEMMA ReachSame ==
  ASSUME NEW m \in Links, NEW n \in Links, NEW b \in Link,
         \A c \in Reach(m, b) : n[c] = m[c]
  PROVE  Reach(n, b) = Reach(m, b)
  <1>1. ASSUME NEW c \in Reach(m, b) PROVE c \in Reach(n, b)
    <2>1. ASSUME NEW T \in SUBSET Objects, b \in T \cup {NULL, 1},
                 \A d \in T : n[d] \in T \cup {NULL, 1}
          PROVE  c \in T
      <3> DEFINE U == T \cap Reach(m, b)
      <3>1. U \in SUBSET Objects /\ b \in U \cup {NULL, 1}
        <4>1. b \notin {NULL, 1} => b \in Reach(m, b)
          BY ReachStep DEF Link
        <4> QED BY <2>1, <4>1
      <3>2. \A d \in U : m[d] \in U \cup {NULL, 1}
        BY <2>1, ReachNext
      <3>3. c \in U
        BY <3>1, <3>2 DEF Reach
      <3> QED BY <3>3
    <2> QED BY <2>1, ReachIn DEF Reach
  <1>2. ASSUME NEW c \in Reach(n, b) PROVE c \in Reach(m, b)
    <2>1. Reach(m, b) \in SUBSET Objects /\ b \in Reach(m, b) \cup {NULL, 1}
      BY ReachIn, ReachStep DEF Link
    <2>2. \A d \in Reach(m, b) : n[d] \in Reach(m, b) \cup {NULL, 1}
      BY ReachNext
    <2> QED BY <2>1, <2>2 DEF Reach
  <1> QED BY <1>1, <1>2

\* Then neither has a loop, or both.
LEMMA LooplessSame ==
  ASSUME NEW m \in Links, NEW n \in Links, NEW b \in Link,
         \A c \in Reach(m, b) : n[c] = m[c], Loopless(m, b)
  PROVE  Loopless(n, b)
  <1>1. Reach(n, b) = Reach(m, b)
    BY ReachSame
  <1>2. ASSUME NEW c \in Reach(m, b) PROVE c \notin Reach(n, n[c])
    <2>1. n[c] = m[c] /\ m[c] \in Link
      BY ReachIn DEF Links, Link
    <2>2. Reach(m, m[c]) \subseteq Reach(m, b)
      BY ReachSub
    <2>3. Reach(n, n[c]) = Reach(m, m[c])
      BY <2>1, <2>2, ReachSame
    <2> QED BY <2>3 DEF Loopless
  <1> QED BY <1>1, <1>2 DEF Loopless

\* The list after its first object has no loop, nor that object.
LEMMA LooplessTail ==
  ASSUME NEW nx \in Links, NEW b \in Objects, Loopless(nx, b)
  PROVE  b \notin Reach(nx, nx[b]) /\ Loopless(nx, nx[b])
  BY ReachStep DEF Loopless

\* An object put before a list without it makes no loop.
LEMMA LooplessHead ==
  ASSUME NEW nx \in Links, NEW b \in Objects, b \notin Reach(nx, nx[b]), Loopless(nx, nx[b])
  PROVE  Loopless(nx, b)
  BY ReachStep DEF Loopless

-----------------------------------------------------------------------------
\* The references, handles and query references that a step has.
OwnsQuery(s, o) == (s.op \in {"derefname", "namedelete"} /\ s.obj = o) \/ OwnsContext(s, o)

Ref(a, o) == (IF OwnsReference(a, o) THEN 1 ELSE 0) + (IF OwnsContext(a, o) THEN 1 ELSE 0)
Hnd(a, o) == IF OwnsHandle(a, o) THEN 1 ELSE 0
Qry(a, o) == IF OwnsQuery(a, o) THEN 1 ELSE 0

\* The steps that have a reference, a context, a handle or a query reference
\* of o.
Owners(o) == {s \in StepType : OwnsReference(s, o)}
Lookups(o) == {s \in StepType : OwnsContext(s, o)}
Handlers(o) == {s \in StepType : OwnsHandle(s, o)}
Queriers(o) == {s \in StepType : OwnsQuery(s, o)}

\* Those of a stack, and of all stacks.
RefN(st, o) == Num(st, Owners(o)) + Num(st, Lookups(o))
HndN(st, o) == Num(st, Handlers(o))
QryN(st, o) == Num(st, Queriers(o))
RefT(td, o) == Total(td, Owners(o)) + Total(td, Lookups(o))
HndT(td, o) == Total(td, Handlers(o))
QryT(td, o) == Total(td, Queriers(o))

\* The two counts of every object that is allocated.
Counts ==
    \A o \in live :
        /\ PointerCount[o] = handles[o] + Entered(o) + skipped[o] + RefT(todo, o)
        /\ HandleCount[o] = handles[o] + HndT(todo, o)

\* The steps of a thread that found the object on a list, and the one that
\* does not look at it any more.
Passing == {"deref", "readhandles", "readpointers", "dec", "queue"}

\* An object that is in the directory has its name, and one query reference
\* besides those of calls in progress; one that is to be inserted is in nobody
\* else's hands but for those that found it on a list.
Naming ==
    /\ \A n \in Names : entry[n] # NULL =>
           /\ Name[entry[n]] = n
           /\ Directory[entry[n]]
           /\ QueryReferences[entry[n]] = 1 + QryT(todo, entry[n])
    /\ \A o \in Objects : Directory[o] => Name[o] \in Names
    /\ \A t \in Threads : \A s \in Range(todo[t]) :
           /\ s.op \in {"insert", "namedelete"} => Name[s.obj] \in Names
           /\ s.op = "insert" =>
                  /\ Entered(s.obj) = 0 /\ handles[s.obj] = 0 /\ QueryReferences[s.obj] = 2
                  /\ \A u \in Threads : \A r \in Range(todo[u]) : Has(r, s.obj) =>
                         u = t \/ r.op \in Passing

\* The inductive invariant.
Inv == /\ TypeOK /\ Stacks /\ Counts /\ Gone
       /\ Deaths /\ Lists /\ Reaping
       /\ Naming /\ NoOrphanName

-----------------------------------------------------------------------------
\* A step is counted in the sets it is in.
LEMMA Weights ==
  ASSUME NEW a \in StepType, NEW o
  PROVE  /\ Ref(a, o) = In(a, Owners(o)) + In(a, Lookups(o)) /\ Ref(a, o) \in 0 .. 2
         /\ Hnd(a, o) = In(a, Handlers(o)) /\ Hnd(a, o) \in 0 .. 1
         /\ Qry(a, o) = In(a, Queriers(o)) /\ Qry(a, o) \in 0 .. 1
         /\ In(a, Owners(o)) \in 0 .. 1 /\ In(a, Lookups(o)) \in 0 .. 1
  <1>1. Ref(a, o) = In(a, Owners(o)) + In(a, Lookups(o)) /\ Ref(a, o) \in 0 .. 2
    BY DEF Ref, In, Owners, Lookups
  <1>2. Hnd(a, o) = In(a, Handlers(o)) /\ Hnd(a, o) \in 0 .. 1
    BY DEF Hnd, In, Handlers
  <1>3. Qry(a, o) = In(a, Queriers(o)) /\ Qry(a, o) \in 0 .. 1
    BY DEF Qry, In, Queriers
  <1>4. In(a, Owners(o)) \in 0 .. 1 /\ In(a, Lookups(o)) \in 0 .. 1
    BY DEF In
  <1> QED BY <1>1, <1>2, <1>3, <1>4

\* The numbers of a stack are natural.
LEMMA SoundCounts ==
  ASSUME NEW st, Sound(st), NEW o
  PROVE  RefN(st, o) \in Nat /\ HndN(st, o) \in Nat /\ QryN(st, o) \in Nat
  <1>1. \A W : Num(st, W) \in Nat
    BY NumNat DEF Sound
  <1> QED BY <1>1 DEF RefN, HndN, QryN

\* A push adds what the step has.
LEMMA PushStep ==
  ASSUME NEW q, Sound(q), NEW a \in StepType, Backed(a, Range(q))
  PROVE  LET st == <<a>> \o q
         IN  /\ Sound(st) /\ st # << >> /\ Head(st) = a
             /\ Range(st) = {a} \cup Range(q)
             /\ \A o : /\ RefN(st, o) = RefN(q, o) + Ref(a, o)
                      /\ HndN(st, o) = HndN(q, o) + Hnd(a, o)
                      /\ QryN(st, o) = QryN(q, o) + Qry(a, o)
  <1> DEFINE st == <<a>> \o q
  <1>1. /\ Sound(st) /\ st # << >> /\ Head(st) = a /\ Range(st) = {a} \cup Range(q)
        /\ \A W : Num(st, W) = Num(q, W) + In(a, W)
    BY Push
  <1> HIDE DEF st
  <1>2. ASSUME NEW o
        PROVE  /\ RefN(st, o) = RefN(q, o) + Ref(a, o)
               /\ HndN(st, o) = HndN(q, o) + Hnd(a, o)
               /\ QryN(st, o) = QryN(q, o) + Qry(a, o)
    <2>1. \A W : Num(q, W) \in Nat
      BY NumNat DEF Sound
    <2>2. RefN(st, o) = RefN(q, o) + Ref(a, o)
      BY <1>1, <2>1, Weights DEF RefN
    <2>3. HndN(st, o) = HndN(q, o) + Hnd(a, o) /\ QryN(st, o) = QryN(q, o) + Qry(a, o)
      BY <1>1, <2>1, Weights DEF HndN, QryN
    <2> QED BY <2>2, <2>3
  <1> QED BY <1>1, <1>2 DEF st

\* A pop takes it away.
LEMMA PopStep ==
  ASSUME NEW st, Sound(st), st # << >>
  PROVE  /\ Head(st) \in StepType /\ Sound(Tail(st)) /\ Backed(Head(st), Range(Tail(st)))
         /\ Range(st) = {Head(st)} \cup Range(Tail(st))
         /\ \A o : /\ RefN(st, o) = RefN(Tail(st), o) + Ref(Head(st), o)
                  /\ HndN(st, o) = HndN(Tail(st), o) + Hnd(Head(st), o)
                  /\ QryN(st, o) = QryN(Tail(st), o) + Qry(Head(st), o)
  <1> DEFINE a == Head(st)  q == Tail(st)
  <1>1. a \in StepType /\ Sound(q) /\ Backed(a, Range(q)) /\ Range(st) = {a} \cup Range(q)
    BY Pop
  <1>2. st = <<a>> \o q
    BY HeadTail DEF Sound
  <1> HIDE DEF a, q
  <1>3. \A o : /\ RefN(st, o) = RefN(q, o) + Ref(a, o)
              /\ HndN(st, o) = HndN(q, o) + Hnd(a, o)
              /\ QryN(st, o) = QryN(q, o) + Qry(a, o)
    BY <1>1, <1>2, PushStep
  <1> QED BY <1>1, <1>3 DEF a, q

\* The totals are natural.
LEMMA TotalsNat ==
  ASSUME NEW td \in StacksType, NEW o
  PROVE  RefT(td, o) \in Nat /\ HndT(td, o) \in Nat /\ QryT(td, o) \in Nat
  BY TotalNat DEF RefT, HndT, QryT

\* When only the stack of t changes, the totals change as its numbers do.
LEMMA TotalsChange ==
  ASSUME NEW td \in StacksType, NEW te \in StacksType, NEW t \in Threads,
         \A u \in Threads \ {t} : te[u] = td[u], NEW o
  PROVE  /\ RefT(te, o) = RefT(td, o) + RefN(te[t], o) - RefN(td[t], o)
         /\ HndT(te, o) = HndT(td, o) + HndN(te[t], o) - HndN(td[t], o)
         /\ QryT(te, o) = QryT(td, o) + QryN(te[t], o) - QryN(td[t], o)
  <1>1. \A W : Total(te, W) = Total(td, W) + Num(te[t], W) - Num(td[t], W)
    BY TotalChange
  <1>2. \A W : Total(td, W) \in Nat
    BY TotalNat
  <1>3. \A W : Num(te[t], W) \in Nat /\ Num(td[t], W) \in Nat
    BY NumNat DEF StacksType
  <1>4. RefT(te, o) = RefT(td, o) + RefN(te[t], o) - RefN(td[t], o)
    BY <1>1, <1>2, <1>3 DEF RefT, RefN
  <1> QED BY <1>1, <1>4 DEF HndT, HndN, QryT, QryN

\* No references: no step has one.
LEMMA NoReferences ==
  ASSUME NEW td \in StacksType, NEW o
  PROVE  RefT(td, o) = 0 <=>
             \A t \in Threads : \A s \in Range(td[t]) : ~OwnsReference(s, o) /\ ~OwnsContext(s, o)
  <1>1. /\ Total(td, Owners(o)) = 0 <=> \A t \in Threads : \A s \in Range(td[t]) : s \notin Owners(o)
        /\ Total(td, Lookups(o)) = 0 <=> \A t \in Threads : \A s \in Range(td[t]) : s \notin Lookups(o)
    BY TotalZero
  <1>2. Total(td, Owners(o)) \in Nat /\ Total(td, Lookups(o)) \in Nat
    BY TotalNat
  <1>3. RefT(td, o) = 0 <=> Total(td, Owners(o)) = 0 /\ Total(td, Lookups(o)) = 0
    BY <1>2 DEF RefT
  <1>4. \A t \in Threads : \A s \in Range(td[t]) : s \in StepType
    BY RangeOfSeq DEF StacksType
  <1> QED BY <1>1, <1>3, <1>4 DEF Owners, Lookups

\* No query references: no step has one.
LEMMA NoQueries ==
  ASSUME NEW td \in StacksType, NEW o
  PROVE  QryT(td, o) = 0 <=> \A t \in Threads : \A s \in Range(td[t]) : ~OwnsQuery(s, o)
  <1>1. Total(td, Queriers(o)) = 0 <=> \A t \in Threads : \A s \in Range(td[t]) : s \notin Queriers(o)
    BY TotalZero
  <1>4. \A t \in Threads : \A s \in Range(td[t]) : s \in StepType
    BY RangeOfSeq DEF StacksType
  <1> QED BY <1>1, <1>4 DEF Queriers, QryT

-----------------------------------------------------------------------------
\* 1 if b.
One(b) == IF b THEN 1 ELSE 0

\* The steps that remember nothing.
PlainOps == {"insert", "deref", "derefname", "dechandle", "temporary", "namecheck", "namedelete",
             "dec", "deferdelete", "delete", "defer", "queue"}

\* What a step is made of.
LEMMA StepKinds ==
  ASSUME NEW a \in StepType
  PROVE  /\ a.obj \in Objects
         /\ a.op \in PlainOps \cup {"counthandle", "grant", "exhandle", "readhandles", "readpointers", "push"}
         /\ a.op \in {"counthandle", "grant", "exhandle"} => a.arg \in HandleArg
         /\ a.op = "push" => a.arg \in Link
  BY DEF StepType, PlainOps

\* A step that remembers nothing,
LEMMA PlainStep ==
  ASSUME NEW op \in PlainOps, NEW o \in Objects
  PROVE  Step(op, o) \in StepType /\ Step(op, o).op = op /\ Step(op, o).obj = o
  BY DEF Step, StepWith, StepType, PlainOps

\* one of a handle being made,
LEMMA HandleStep ==
  ASSUME NEW op \in {"counthandle", "grant", "exhandle"}, NEW o \in Objects, NEW h \in HandleArg
  PROVE  /\ StepWith(op, o, h) \in StepType /\ StepWith(op, o, h).op = op
         /\ StepWith(op, o, h).obj = o /\ StepWith(op, o, h).arg = h
  BY DEF StepWith, StepType

\* and what it remembers.
LEMMA HandleArgs ==
  ASSUME NEW new \in BOOLEAN, NEW c \in Objects \cup {NULL}, NEW i \in Objects \cup {NULL}
  PROVE  LET h == [new |-> new, context |-> c, inserted |-> i]
         IN  h \in HandleArg /\ h.new = new /\ h.context = c /\ h.inserted = i
  BY DEF HandleArg

\* What the steps have, by kind.
LEMMA OpWeights ==
  ASSUME NEW a, NEW x
  PROVE  /\ a.op \in {"insert", "deref", "readhandles", "readpointers", "dec", "deferdelete", "exhandle"}
               => Ref(a, x) = One(a.obj = x)
         /\ a.op \in {"derefname", "namecheck", "namedelete", "temporary", "dechandle", "delete", "defer",
                      "push", "queue"} => Ref(a, x) = 0
         /\ a.op \in {"counthandle", "grant"}
               => Ref(a, x) = One(a.obj = x /\ ~a.arg.new) + One(a.arg.context = x)
         /\ a.op \in {"grant", "exhandle", "dechandle"} => Hnd(a, x) = One(a.obj = x)
         /\ a.op \notin {"grant", "exhandle", "dechandle"} => Hnd(a, x) = 0
         /\ a.op \in {"derefname", "namedelete"} => Qry(a, x) = One(a.obj = x)
         /\ a.op \in {"counthandle", "grant"} => Qry(a, x) = One(a.arg.context = x)
         /\ a.op \notin {"derefname", "namedelete", "counthandle", "grant"} => Qry(a, x) = 0
  <1>1. a.op \in {"insert", "deref", "readhandles", "readpointers", "dec", "deferdelete", "exhandle"}
            => Ref(a, x) = One(a.obj = x)
    BY DEF Ref, One, OwnsReference, OwnsContext
  <1>2. a.op \in {"derefname", "namecheck", "namedelete", "temporary", "dechandle", "delete", "defer",
                  "push", "queue"} => Ref(a, x) = 0
    BY DEF Ref, One, OwnsReference, OwnsContext
  <1>3. a.op \in {"counthandle", "grant"}
            => Ref(a, x) = One(a.obj = x /\ ~a.arg.new) + One(a.arg.context = x)
    BY DEF Ref, One, OwnsReference, OwnsContext
  <1>4. /\ a.op \in {"grant", "exhandle", "dechandle"} => Hnd(a, x) = One(a.obj = x)
        /\ a.op \notin {"grant", "exhandle", "dechandle"} => Hnd(a, x) = 0
    BY DEF Hnd, One, OwnsHandle
  <1>5. /\ a.op \in {"derefname", "namedelete"} => Qry(a, x) = One(a.obj = x)
        /\ a.op \in {"counthandle", "grant"} => Qry(a, x) = One(a.arg.context = x)
        /\ a.op \notin {"derefname", "namedelete", "counthandle", "grant"} => Qry(a, x) = 0
    BY DEF Qry, One, OwnsQuery, OwnsContext
  <1> QED BY <1>1, <1>2, <1>3, <1>4, <1>5

\* Three steps before a stack are one, then two.
Spread(a, b, c, q) == <<a, b, c>> \o q = <<a>> \o (<<b, c>> \o q)

\* Stacks that are put together differently are the same.
LEMMA Unfold ==
  ASSUME NEW S, NEW q \in Seq(S), NEW a \in S, NEW b \in S, NEW c \in S
  PROVE  /\ << >> \o q = q
         /\ <<a, b>> \o q = <<a>> \o (<<b>> \o q)
         /\ Spread(a, b, c, q)
  <1>1. /\ << >> \o q = q /\ <<a>> \in Seq(S) /\ <<b>> \in Seq(S) /\ <<c>> \in Seq(S)
        /\ <<b, c>> \in Seq(S)
    BY ConcatEmptySeq
  <1>2. <<a, b>> = <<a>> \o <<b>> /\ <<b, c>> = <<b>> \o <<c>>
    <2>1. ASSUME NEW x \in S, NEW y \in S PROVE <<x, y>> = <<x>> \o <<y>>
      <3>1. /\ <<x>> \in Seq(S) /\ <<y>> \in Seq(S) /\ Len(<<x>>) = 1 /\ Len(<<y>>) = 1
            /\ <<x>>[1] = x /\ <<y>>[1] = y
        OBVIOUS
      <3> DEFINE u == <<x>> \o <<y>>
      <3>2. /\ u \in Seq(S) /\ Len(u) = 1 + 1
            /\ \A i \in 1 .. 1 + 1 : u[i] = IF i <= 1 THEN <<x>>[i] ELSE <<y>>[i - 1]
        BY <3>1, ConcatProperties
      <3> HIDE DEF u
      <3>3. u \in Seq(S) /\ Len(u) = 2 /\ u[1] = x /\ u[2] = y
        BY <3>1, <3>2
      <3>4. <<x, y>> \in Seq(S) /\ Len(<<x, y>>) = 2
        OBVIOUS
      <3>5. u = <<x, y>>
        BY <3>3, <3>4, SeqEqual
      <3> QED BY <3>5 DEF u
    <2> QED BY <2>1
  <1>6. <<a, b, c>> = <<a>> \o <<b, c>>
    <2>1. /\ <<a>> \o <<b, c>> \in Seq(S) /\ Len(<<a>> \o <<b, c>>) = 3
          /\ \A i \in 1 .. 3 : (<<a>> \o <<b, c>>)[i] = IF i <= 1 THEN <<a>>[i] ELSE <<b, c>>[i - 1]
      BY <1>1, ConcatProperties
    <2> DEFINE u == <<a>> \o <<b, c>>
    <2>2. <<a>>[1] = a /\ <<b, c>>[1] = b /\ <<b, c>>[2] = c
      OBVIOUS
    <2> HIDE DEF u
    <2>3. u \in Seq(S) /\ Len(u) = 3 /\ u[1] = a /\ u[2] = b /\ u[3] = c
      BY <2>1, <2>2 DEF u
    <2>4. <<a, b, c>> \in Seq(S) /\ Len(<<a, b, c>>) = 3
      OBVIOUS
    <2>5. u = <<a, b, c>>
      BY <2>3, <2>4, SeqEqual
    <2> QED BY <2>5 DEF u
  <1>3. (<<a>> \o <<b>>) \o q = <<a>> \o (<<b>> \o q)
    BY <1>1, ConcatAssociative
  <1>4. (<<a>> \o <<b, c>>) \o q = <<a>> \o (<<b, c>> \o q)
    BY <1>1, ConcatAssociative
  <1> QED BY <1>1, <1>2, <1>3, <1>4, <1>6 DEF Spread

-----------------------------------------------------------------------------
\* All stacks are sound.
Sounds == todo \in StacksType /\ \A t \in Threads : Sound(todo[t])

\* TypeOK and Stacks in other words.
LEMMA SoundsIs == TypeOK /\ Stacks <=> Types /\ Sounds
  BY DEF TypeOK, Stacks, Sounds, StacksType, Sound

\* When t gets a sound stack, all stacks are sound and the others' are what
\* they were.
LEMMA StackTo ==
  ASSUME Sounds, NEW t \in Threads, NEW st, Sound(st), todo' = [todo EXCEPT ![t] = st]
  PROVE  Sounds' /\ todo' \in StacksType /\ todo'[t] = st /\ \A u \in Threads \ {t} : todo'[u] = todo[u]
  <1>1. todo' \in StacksType /\ todo'[t] = st /\ \A u \in Threads \ {t} : todo'[u] = todo[u]
    BY DEF Sounds, StacksType, Sound
  <1>2. \A u \in Threads : Sound(todo'[u])
    BY <1>1 DEF Sounds
  <1> QED BY <1>1, <1>2 DEF Sounds

\* The totals then change as t's numbers do.
LEMMA StackTotals ==
  ASSUME Sounds, NEW t \in Threads, NEW st, Sound(st), todo' = [todo EXCEPT ![t] = st], NEW o
  PROVE  /\ RefT(todo', o) = RefT(todo, o) + RefN(st, o) - RefN(todo[t], o)
         /\ HndT(todo', o) = HndT(todo, o) + HndN(st, o) - HndN(todo[t], o)
         /\ QryT(todo', o) = QryT(todo, o) + QryN(st, o) - QryN(todo[t], o)
  <1> DEFINE td == todo  te == todo'
  <1>3. td \in StacksType /\ te \in StacksType /\ te[t] = st /\ \A u \in Threads \ {t} : te[u] = td[u]
    BY StackTo DEF Sounds
  <1> HIDE DEF td, te
  <1>4. /\ RefT(te, o) = RefT(td, o) + RefN(te[t], o) - RefN(td[t], o)
        /\ HndT(te, o) = HndT(td, o) + HndN(te[t], o) - HndN(td[t], o)
        /\ QryT(te, o) = QryT(td, o) + QryN(te[t], o) - QryN(td[t], o)
    BY <1>3, TotalsChange
  <1> QED BY <1>3, <1>4 DEF td, te

\* The stack of t becomes st, and no other changes.
Moves(t, st) == Sound(st) /\ todo' = [todo EXCEPT ![t] = st]

\* The same, with Moves.
LEMMA MoveTotals ==
  ASSUME Sounds, NEW t \in Threads, NEW st, Moves(t, st), NEW o
  PROVE  /\ RefT(todo', o) = RefT(todo, o) + RefN(st, o) - RefN(todo[t], o)
         /\ HndT(todo', o) = HndT(todo, o) + HndN(st, o) - HndN(todo[t], o)
         /\ QryT(todo', o) = QryT(todo, o) + QryN(st, o) - QryN(todo[t], o)
  BY StackTotals DEF Moves

-----------------------------------------------------------------------------
\* Entered is 0 or 1,
LEMMA EnteredIs ==
  ASSUME NEW o
  PROVE  Entered(o) \in {0, 1} /\ (Entered(o) = 1 <=> \E n \in Names : entry[n] = o)
  BY DEF Entered

\* also after a step.
LEMMA EnteredWillBe ==
  ASSUME NEW o
  PROVE  Entered(o)' \in {0, 1} /\ (Entered(o)' = 1 <=> \E n \in Names : entry'[n] = o)
  BY DEF Entered

\* What is in a stack, a directory or a handle table is allocated.
LEMMA LiveObjects ==
  ASSUME Inv
  PROVE  /\ \A t \in Threads : \A s \in Range(todo[t]) :
               s.op # "queue" => s.obj \in live /\ \A o \in Objects : OwnsContext(s, o) => o \in live
         /\ \A n \in Names : entry[n] # NULL => entry[n] \in live
         /\ \A o \in Objects : handles[o] > 0 => o \in live
  <1>1. ASSUME NEW t \in Threads, NEW s \in Range(todo[t]), s.op # "queue"
        PROVE  s.obj \in live /\ \A o \in Objects : OwnsContext(s, o) => o \in live
    <2>1. s \in StepType
      BY RangeOfSeq DEF Inv, TypeOK
    <2>2. s.obj \in Objects
      BY <2>1, StepKinds
    <2> QED BY <1>1, <2>2 DEF Inv, Gone, Has
  <1>2. \A n \in Names : entry[n] # NULL => entry[n] \in live
    <2>1. \A n \in Names : entry[n] # NULL => entry[n] \in Objects /\ Entered(entry[n]) = 1
      BY EnteredIs DEF Inv, TypeOK, Types
    <2> QED BY <2>1 DEF Inv, Gone
  <1>3. \A o \in Objects : handles[o] > 0 => o \in live
    BY DEF Inv, Gone
  <1> QED BY <1>1, <1>2, <1>3

\* It has a reference, if the holder has one.
LEMMA Referenced ==
  ASSUME Inv, NEW o \in live,
         \/ handles[o] > 0 \/ Entered(o) = 1
         \/ \E t \in Threads : \E s \in Range(todo[t]) : OwnsReference(s, o) \/ OwnsContext(s, o)
  PROVE  PointerCount[o] >= 1
  <1>1. /\ PointerCount[o] = handles[o] + Entered(o) + skipped[o] + RefT(todo, o)
        /\ o \in Objects
    BY DEF Inv, Counts, TypeOK, Types
  <1>2. handles[o] \in Nat /\ skipped[o] \in Nat /\ Entered(o) \in {0, 1}
    BY <1>1, EnteredIs DEF Inv, TypeOK, Types
  <1>3. todo \in StacksType
    BY DEF Inv, TypeOK, StacksType
  <1>4. RefT(todo, o) \in Nat
    BY <1>3, TotalsNat
  <1>5. handles[o] > 0 \/ Entered(o) = 1 \/ RefT(todo, o) # 0
    BY <1>3, NoReferences
  <1> QED BY <1>1, <1>2, <1>4, <1>5

\* Nobody has a reference to an object without references.
LEMMA Unreferenced ==
  ASSUME Inv, NEW o \in live, PointerCount[o] = 0
  PROVE  /\ handles[o] = 0 /\ Entered(o) = 0
         /\ \A t \in Threads : \A s \in Range(todo[t]) : ~OwnsReference(s, o) /\ ~OwnsContext(s, o)
  <1>1. o \in Objects /\ PointerCount[o] \in Int
    BY DEF Inv, TypeOK, Types
  <1>2. handles[o] \in Nat /\ Entered(o) \in {0, 1}
    BY <1>1, EnteredIs DEF Inv, TypeOK, Types
  <1>3. ~(PointerCount[o] >= 1)
    BY <1>1
  <1>4. ~(handles[o] > 0) /\ Entered(o) # 1
    BY <1>3, Referenced
  <1>5. \A t \in Threads : \A s \in Range(todo[t]) : ~OwnsReference(s, o) /\ ~OwnsContext(s, o)
    BY <1>3, Referenced
  <1> QED BY <1>2, <1>4, <1>5

\* The counts change with what the handle tables, the directory, the skipped
\* references and t's stack change by.
CountsStep(t, st) ==
    \A o \in live :
        /\ PointerCount'[o] - PointerCount[o] =
             (handles'[o] - handles[o]) + (Entered(o)' - Entered(o)) + (skipped'[o] - skipped[o])
             + (RefN(st, o) - RefN(todo[t], o))
        /\ HandleCount'[o] - HandleCount[o] =
             (handles'[o] - handles[o]) + (HndN(st, o) - HndN(todo[t], o))

\* Then they are right again.
LEMMA CountsKept ==
  ASSUME Inv, Types', NEW t \in Threads, NEW st, Moves(t, st), CountsStep(t, st)
  PROVE  \A o \in live :
            /\ PointerCount'[o] = handles'[o] + Entered(o)' + skipped'[o] + RefT(todo', o)
            /\ HandleCount'[o] = handles'[o] + HndT(todo', o)
  <1>0. Types /\ Sounds /\ Counts
    BY SoundsIs DEF Inv
  <1>2. ASSUME NEW o \in live
        PROVE  /\ PointerCount'[o] = handles'[o] + Entered(o)' + skipped'[o] + RefT(todo', o)
               /\ HandleCount'[o] = handles'[o] + HndT(todo', o)
    <2>1. o \in live /\ o \in Objects
      BY <1>0 DEF Types
    <2>2. /\ PointerCount[o] = handles[o] + Entered(o) + skipped[o] + RefT(todo, o)
          /\ HandleCount[o] = handles[o] + HndT(todo, o)
      BY <1>0, <2>1 DEF Counts
    <2>3. /\ handles[o] \in Nat /\ handles'[o] \in Nat /\ skipped[o] \in Nat /\ skipped'[o] \in Nat
          /\ PointerCount'[o] \in Int /\ HandleCount'[o] \in Int
          /\ PointerCount[o] \in Int /\ HandleCount[o] \in Int
      BY <1>0, <2>1 DEF Types
    <2>4. Entered(o) \in Int /\ Entered(o)' \in Int
      BY EnteredIs, EnteredWillBe
    <2>5. RefT(todo, o) \in Nat /\ HndT(todo, o) \in Nat
      BY <1>0, TotalsNat DEF Sounds
    <2>6. RefN(st, o) \in Nat /\ HndN(st, o) \in Nat /\ RefN(todo[t], o) \in Nat /\ HndN(todo[t], o) \in Nat
      BY <1>0, SoundCounts DEF Sounds, Moves
    <2>7. /\ PointerCount'[o] - PointerCount[o] =
                 (handles'[o] - handles[o]) + (Entered(o)' - Entered(o)) + (skipped'[o] - skipped[o])
                 + (RefN(st, o) - RefN(todo[t], o))
          /\ HandleCount'[o] - HandleCount[o] =
                 (handles'[o] - handles[o]) + (HndN(st, o) - HndN(todo[t], o))
      BY DEF CountsStep
    <2>8. /\ RefT(todo', o) = RefT(todo, o) + RefN(st, o) - RefN(todo[t], o)
          /\ HndT(todo', o) = HndT(todo, o) + HndN(st, o) - HndN(todo[t], o)
          /\ QryT(todo', o) = QryT(todo, o) + QryN(st, o) - QryN(todo[t], o)
      BY <1>0, MoveTotals
    <2> DEFINE p == PointerCount[o]  pp == PointerCount'[o]  c == HandleCount[o]  cc == HandleCount'[o]
               h == handles[o]  hh == handles'[o]  k == skipped[o]  kk == skipped'[o]
               e == Entered(o)  ee == Entered(o)'
               r == RefT(todo, o)  rr == RefT(todo', o)  d == HndT(todo, o)  dd == HndT(todo', o)
               m == RefN(todo[t], o)  mm == RefN(st, o)  n == HndN(todo[t], o)  nn == HndN(st, o)
    <2>9. /\ h \in Nat /\ hh \in Nat /\ k \in Nat /\ kk \in Nat /\ p \in Int /\ pp \in Int
          /\ c \in Int /\ cc \in Int /\ e \in Int /\ ee \in Int /\ r \in Nat /\ d \in Nat
          /\ m \in Nat /\ mm \in Nat /\ n \in Nat /\ nn \in Nat
          /\ p = h + e + k + r /\ c = h + d /\ rr = r + mm - m /\ dd = d + nn - n
          /\ pp - p = (hh - h) + (ee - e) + (kk - k) + (mm - m) /\ cc - c = (hh - h) + (nn - n)
      BY <2>2, <2>3, <2>4, <2>5, <2>6, <2>7, <2>8
    <2> HIDE DEF p, pp, c, cc, h, hh, k, kk, e, ee, r, rr, d, dd, m, mm, n, nn
    <2>10. pp = hh + ee + kk + rr /\ cc = hh + dd
      BY <2>9
    <2> QED BY <2>10 DEF pp, hh, ee, kk, rr, cc, dd
  <1> QED BY <1>2

\* t's new stack, and the directory, have only what is allocated.
GoneStep(t, st) ==
    /\ live' = live
    /\ \A o \in Objects \ live : handles'[o] = handles[o]
    /\ \A n \in Names : entry'[n] # NULL => entry'[n] \in live
    /\ \A s \in Range(st) : s.op # "queue" => \A o \in Objects : Has(s, o) => o \in live

\* Then nobody has a deleted object.
LEMMA GoneKept ==
  ASSUME Inv, NEW t \in Threads, NEW st, Moves(t, st), GoneStep(t, st)
  PROVE  Gone'
  <1>0. Types /\ Sounds /\ Gone
    BY SoundsIs DEF Inv
  <1>1. todo'[t] = st /\ \A u \in Threads \ {t} : todo'[u] = todo[u]
    BY <1>0, StackTo DEF Moves
  <1>2. ASSUME NEW o \in Objects \ live
        PROVE  /\ handles'[o] = 0 /\ Entered(o)' = 0
               /\ \A u \in Threads : \A s \in Range(todo'[u]) : s.op # "queue" => ~Has(s, o)
    <2>1. handles'[o] = 0
      BY <1>0 DEF Gone, GoneStep
    <2>2. Entered(o)' = 0
      BY EnteredWillBe, ObjectAssumption DEF GoneStep
    <2>3. ASSUME NEW u \in Threads, NEW s \in Range(todo'[u]), s.op # "queue" PROVE ~Has(s, o)
      <3>1. CASE u = t
        BY <1>1, <2>3, <3>1 DEF GoneStep
      <3>2. CASE u # t
        BY <1>0, <1>1, <2>3, <3>2 DEF Gone
      <3> QED BY <3>1, <3>2
    <2> QED BY <2>1, <2>2, <2>3
  <1> QED BY <1>2 DEF Gone, GoneStep

\* The steps at the end of an object's life, and a stack that is not at one.
Final == {"delete", "defer", "push", "queue"}
Living(st) == st = << >> \/ Head(st).op \notin Final

\* Nobody dies, and nothing of the reaper changes.
ListsStep(t, st) ==
    /\ live' = live
    /\ UNCHANGED <<NextToFree, ObpReaperList, reap, workItem>>
    /\ Living(todo[t]) /\ Living(st)
    /\ \A o \in live : PointerCount'[o] = 0 <=> PointerCount[o] = 0

\* Then the parts about the end of an object are kept.
LEMMA ListsKept ==
  ASSUME Inv, NEW t \in Threads, NEW st, Moves(t, st), ListsStep(t, st)
  PROVE  Deaths' /\ Lists' /\ Reaping'
  <1>0. Sounds /\ Deaths /\ Lists /\ Reaping /\ Types
    BY SoundsIs DEF Inv
  <1>1. todo'[t] = st /\ \A u \in Threads \ {t} : todo'[u] = todo[u]
    BY <1>0, StackTo DEF Moves
  <1> USE DEF ListsStep
  <1>2. ASSUME NEW u \in Threads
        PROVE  /\ Dying(u)' <=> Dying(u)
               /\ \A op \in Final : At(u, op)' <=> At(u, op)
               /\ u # t => Obj(u)' = Obj(u) /\ Arg(u)' = Arg(u)
    <2>1. CASE u = t
      <3>1. ~Dying(u) /\ \A op \in Final : ~At(u, op)
        BY <2>1 DEF Living, Dying, At, Final
      <3>2. ~Dying(u)' /\ \A op \in Final : ~At(u, op)'
        BY <1>1, <2>1 DEF Living, Dying, At, Final
      <3> QED BY <2>1, <3>1, <3>2
    <2>2. CASE u # t
      BY <1>1, <2>2 DEF Dying, At, Obj, Arg
    <2> QED BY <2>1, <2>2
  <1>3. ~Dying(t) /\ \A op \in Final : ~At(t, op)
    BY DEF Living, Dying, At, Final
  <1>4. Reapable' = Reapable
    BY DEF Reapable
  <1>5. Lists'
    BY <1>0 DEF Lists
  <1>6. Reaping'
    <2>1. \A u \in Threads : At(u, "queue")' <=> At(u, "queue")
      BY <1>2 DEF Final
    <2> QED BY <1>0, <2>1 DEF Reaping
  <1>7. Deaths'
    <2>1. ASSUME NEW u \in Threads, Dying(u)'
          PROVE  Dying(u) /\ u # t /\ Obj(u)' = Obj(u)
      BY <1>2, <1>3, <2>1
    <2>2. ASSUME NEW u \in Threads, At(u, "push")'
          PROVE  NextToFree'[Obj(u)'] = Arg(u)'
      <3>1. At(u, "push") /\ u # t /\ Obj(u)' = Obj(u) /\ Arg(u)' = Arg(u)
        BY <1>2, <1>3, <2>2 DEF Final
      <3> QED BY <1>0, <3>1 DEF Deaths
    <2>3. ASSUME NEW u \in Threads, Dying(u)'
          PROVE  Obj(u)' \in live' /\ PointerCount'[Obj(u)'] = 0 /\ Obj(u)' \notin Reapable'
      BY <1>0, <1>4, <2>1, <2>3 DEF Deaths
    <2>4. ASSUME NEW u \in Threads, NEW v \in Threads, u # v, Dying(u)', Dying(v)' PROVE Obj(u)' # Obj(v)'
      BY <1>0, <2>1, <2>4 DEF Deaths
    <2>5. ASSUME NEW o \in live', PointerCount'[o] = 0
          PROVE  o \in Reapable' \/ \E u \in Threads : Dying(u)' /\ Obj(u)' = o
      <3>1. o \in Reapable \/ \E u \in Threads : Dying(u) /\ Obj(u) = o
        BY <1>0, <2>5 DEF Deaths
      <3>2. ASSUME NEW u \in Threads, Dying(u), Obj(u) = o PROVE Dying(u)' /\ Obj(u)' = o
        BY <1>2, <1>3, <3>2
      <3> QED BY <1>4, <3>1, <3>2
    <2>6. \A o \in Reapable' : o \in live' /\ PointerCount'[o] = 0
      BY <1>0, <1>4 DEF Deaths
    <2> QED BY <2>2, <2>3, <2>4, <2>5, <2>6 DEF Deaths
  <1> QED BY <1>5, <1>6, <1>7

\* u is about to insert x.
Inserting(u, x) == \E s \in Range(todo[u]) : s.op = "insert" /\ s.obj = x

\* The query references of what is in the directory change with t's stack,
\* and nothing changes for what another thread is about to insert.
NamingStep(t, st) ==
    /\ UNCHANGED <<entry, Name>>
    /\ \A n \in Names : entry[n] # NULL =>
          /\ Directory'[entry[n]]
          /\ QueryReferences'[entry[n]] - QueryReferences[entry[n]]
               = QryN(st, entry[n]) - QryN(todo[t], entry[n])
    /\ \A o \in Objects : Directory'[o] => Directory[o]
    /\ \A s \in Range(st) : s.op # "insert" /\ (s.op = "namedelete" => Name[s.obj] \in Names)
    /\ \A x \in live, u \in Threads \ {t} : Inserting(u, x) =>
          /\ handles'[x] = handles[x] /\ QueryReferences'[x] = QueryReferences[x]
          /\ \A s \in Range(st) : Has(s, x) => s.op \in Passing

\* The same when the directory changes.
NamesStep(t, st) ==
    /\ Name' = Name
    /\ \A n \in Names : entry'[n] # NULL =>
          /\ Name[entry'[n]] = n /\ Directory'[entry'[n]]
          /\ QueryReferences'[entry'[n]] = 1 + QryT(todo', entry'[n])
    /\ \A o \in Objects : Directory'[o] => Name[o] \in Names
    /\ \A s \in Range(st) : s.op # "insert" /\ (s.op = "namedelete" => Name[s.obj] \in Names)
    /\ \A x \in live, u \in Threads \ {t} : Inserting(u, x) =>
          /\ Entered(x)' = Entered(x) /\ handles'[x] = handles[x] /\ QueryReferences'[x] = QueryReferences[x]
          /\ \A s \in Range(st) : Has(s, x) => s.op \in Passing

\* Naming is kept, if NamesStep holds,
LEMMA NamesKept ==
  ASSUME Inv, NEW t \in Threads, NEW st, Moves(t, st), NamesStep(t, st)
  PROVE  Naming'
  <1>0. Sounds /\ Naming /\ Types
    BY SoundsIs DEF Inv
  <1>1. todo'[t] = st /\ \A u \in Threads \ {t} : todo'[u] = todo[u]
    BY <1>0, StackTo DEF Moves
  <1>2. /\ Name' = Name
        /\ \A n \in Names : entry'[n] # NULL =>
              /\ Name[entry'[n]] = n /\ Directory'[entry'[n]]
              /\ QueryReferences'[entry'[n]] = 1 + QryT(todo', entry'[n])
        /\ \A o \in Objects : Directory'[o] => Name[o] \in Names
    BY DEF NamesStep
  <1>4. ASSUME NEW u \in Threads, NEW s \in Range(todo'[u])
        PROVE  /\ s.op \in {"insert", "namedelete"} => Name[s.obj] \in Names
               /\ s.op = "insert" =>
                    /\ Entered(s.obj)' = 0 /\ handles'[s.obj] = 0 /\ QueryReferences'[s.obj] = 2
                    /\ \A v \in Threads : \A r \in Range(todo'[v]) : Has(r, s.obj) => v = u \/ r.op \in Passing
    <2>1. CASE u = t
      BY <1>1, <1>4, <2>1 DEF NamesStep
    <2>2. CASE u # t
      <3>1. s \in Range(todo[u])
        BY <1>1, <1>4, <2>2
      <3>2. /\ s.op \in {"insert", "namedelete"} => Name[s.obj] \in Names
            /\ s.op = "insert" =>
                 /\ Entered(s.obj) = 0 /\ handles[s.obj] = 0 /\ QueryReferences[s.obj] = 2
                 /\ \A v \in Threads : \A r \in Range(todo[v]) : Has(r, s.obj) => v = u \/ r.op \in Passing
        BY <1>0, <3>1 DEF Naming
      <3>4. ASSUME s.op = "insert"
            PROVE  /\ Entered(s.obj)' = Entered(s.obj)
                   /\ handles'[s.obj] = handles[s.obj] /\ QueryReferences'[s.obj] = QueryReferences[s.obj]
                   /\ \A r \in Range(st) : Has(r, s.obj) => r.op \in Passing
        <4>1. Inserting(u, s.obj) /\ s.obj \in live
          BY <3>1, <3>4, LiveObjects DEF Inserting
        <4> QED BY <2>2, <4>1 DEF NamesStep
      <3>5. ASSUME s.op = "insert", NEW v \in Threads, NEW r \in Range(todo'[v]), Has(r, s.obj), v # u
            PROVE  r.op \in Passing
        <4>1. CASE v = t
          BY <1>1, <3>4, <3>5, <4>1
        <4>2. CASE v # t
          BY <1>1, <3>2, <3>5, <4>2
        <4> QED BY <4>1, <4>2
      <3> QED BY <3>2, <3>4, <3>5
    <2> QED BY <2>1, <2>2
  <1> QED BY <1>2, <1>4 DEF Naming

\* and if NamingStep does.
LEMMA NamingKept ==
  ASSUME Inv, Types', NEW t \in Threads, NEW st, Moves(t, st), NamingStep(t, st)
  PROVE  Naming'
  <1>0. Sounds /\ Naming /\ Types
    BY SoundsIs DEF Inv
  <1>1. todo'[t] = st /\ \A u \in Threads \ {t} : todo'[u] = todo[u]
    BY <1>0, StackTo DEF Moves
  <1>6. UNCHANGED <<entry, Name>>
    BY DEF NamingStep
  <1>2. ASSUME NEW n \in Names, entry[n] # NULL
        PROVE  /\ Name[entry[n]] = n /\ Directory'[entry[n]]
               /\ QueryReferences'[entry[n]] = 1 + QryT(todo', entry[n])
    <2>1. PICK o \in Objects : o = entry[n]
      BY <1>0, <1>2 DEF Types
    <2>2. Name[o] = n /\ QueryReferences[o] = 1 + QryT(todo, o)
      BY <1>0, <1>2, <2>1 DEF Naming
    <2>3. Directory'[o] /\ QueryReferences'[o] - QueryReferences[o] = QryN(st, o) - QryN(todo[t], o)
      BY <1>2, <2>1 DEF NamingStep
    <2>4. /\ QryT(todo, o) \in Nat /\ QryN(st, o) \in Nat /\ QryN(todo[t], o) \in Nat
          /\ QueryReferences'[o] \in Int /\ QueryReferences[o] \in Int
      BY <1>0, TotalsNat, SoundCounts DEF Sounds, Types, Moves
    <2>5. /\ RefT(todo', o) = RefT(todo, o) + RefN(st, o) - RefN(todo[t], o)
          /\ HndT(todo', o) = HndT(todo, o) + HndN(st, o) - HndN(todo[t], o)
          /\ QryT(todo', o) = QryT(todo, o) + QryN(st, o) - QryN(todo[t], o)
      BY <1>0, MoveTotals
    <2> DEFINE y == QueryReferences[o]  yy == QueryReferences'[o]  r == QryT(todo, o)  rr == QryT(todo', o)
               m == QryN(todo[t], o)  mm == QryN(st, o)
    <2>6. /\ y \in Int /\ yy \in Int /\ r \in Nat /\ m \in Nat /\ mm \in Nat
          /\ y = 1 + r /\ yy - y = mm - m /\ rr = r + mm - m
      BY <2>2, <2>3, <2>4, <2>5
    <2> HIDE DEF y, yy, r, rr, m, mm
    <2>7. yy = 1 + rr
      BY <2>6
    <2> QED BY <2>1, <2>2, <2>3, <2>7 DEF yy, rr
  <1>3. \A o \in Objects : Directory'[o] => Name[o] \in Names
    BY <1>0 DEF Naming, NamingStep
  <1>4. \A o : Entered(o)' = Entered(o)
    BY <1>6 DEF Entered
  <1>5. NamesStep(t, st)
    BY <1>2, <1>3, <1>4, <1>6 DEF NamesStep, NamingStep
  <1> QED BY <1>5, NamesKept

\* Step s is going to look at the name of o.
Watches(s, o) ==
    s.obj = o /\ (s.op \in {"namecheck", "namedelete"} \/ (s.op = "counthandle" /\ s.arg.inserted = o))

\* NoOrphanName in terms of Watches.
LEMMA OrphanIs ==
  NoOrphanName <=>
      \A n \in Names : entry[n] # NULL /\ HandleCount[entry[n]] = 0 /\ ~Permanent[entry[n]] =>
          \E t \in Threads : \E s \in Range(todo[t]) : Watches(s, entry[n])
  BY DEF NoOrphanName, Watches

\* A name without a watcher in t's new stack had none in t's old one, either.
OrphanStep(t, st) ==
    \A n \in Names : entry'[n] # NULL =>
        LET o == entry'[n]
        IN  \/ HandleCount'[o] # 0 \/ Permanent'[o]
            \/ \E s \in Range(st) : Watches(s, o)
            \/ /\ entry[n] = entry'[n] /\ HandleCount[o] = 0 /\ ~Permanent[o]
               /\ \A s \in Range(todo[t]) : ~Watches(s, o)

\* Then NoOrphanName is kept.
LEMMA OrphanKept ==
  ASSUME Inv, NEW t \in Threads, NEW st, Moves(t, st), OrphanStep(t, st)
  PROVE  NoOrphanName'
  <1>0. Sounds /\ NoOrphanName
    BY SoundsIs DEF Inv
  <1>1. todo'[t] = st /\ \A u \in Threads \ {t} : todo'[u] = todo[u]
    BY <1>0, StackTo DEF Moves
  <1>2. ASSUME NEW n \in Names, entry'[n] # NULL, HandleCount'[entry'[n]] = 0, ~Permanent'[entry'[n]]
        PROVE  \E u \in Threads : \E s \in Range(todo'[u]) : Watches(s, entry'[n])
    <2>1. CASE \E s \in Range(st) : Watches(s, entry'[n])
      BY <1>1, <2>1
    <2>2. CASE /\ entry[n] = entry'[n] /\ HandleCount[entry[n]] = 0 /\ ~Permanent[entry[n]]
               /\ \A s \in Range(todo[t]) : ~Watches(s, entry[n])
      <3>1. PICK u \in Threads : \E s \in Range(todo[u]) : Watches(s, entry[n])
        BY <1>0, <1>2, <2>2, OrphanIs
      <3>2. u # t
        BY <2>2, <3>1
      <3> QED BY <1>1, <2>2, <3>1, <3>2
    <2> QED BY <1>2, <2>1, <2>2 DEF OrphanStep
  <1> QED BY <1>2 DEF NoOrphanName, Watches

-----------------------------------------------------------------------------
\* The steps that may be left for later.
Patient(R) == \A s \in R : s.op \in {"deref", "derefname", "namecheck", "exhandle"}

\* What Backed asks of the steps of each kind,
LEMMA BackedIs ==
  ASSUME NEW a, NEW R
  PROVE  /\ Backed(a, R) => Patient(R)
         /\ Patient(R) /\ a.op \in {"deref", "readhandles", "readpointers", "dec", "deferdelete",
                                    "delete", "defer", "push", "queue"} => Backed(a, R)
         /\ a.op = "insert" => (Backed(a, R) <=> R = {})
         /\ a.op \in {"derefname", "namecheck", "namedelete", "temporary", "dechandle"} =>
                (Backed(a, R) <=> Patient(R) /\ Deref(a.obj) \in R)
  BY DEF Backed, Patient

\* and of those of a handle being made.
LEMMA BackedHandle ==
  ASSUME NEW a, NEW R, a.op \in {"counthandle", "grant", "exhandle"}
  PROVE  Backed(a, R) <=>
             /\ Patient(R)
             /\ a.arg.inserted # NULL => Deref(a.arg.inserted) \in R /\ DerefName(a.arg.inserted) \in R
             /\ a.arg.inserted = NULL /\ a.arg.new => Deref(a.obj) \in R
             /\ a.op # "exhandle" /\ a.arg.inserted # NULL => a.arg.new /\ a.obj \in {a.arg.context, a.arg.inserted}
  BY DEF Backed, Patient

\* t is at step a, with the steps q to follow.
Runs(t, a, q) ==
    /\ todo[t] # << >> /\ a = Head(todo[t]) /\ q = Tail(todo[t])
    /\ a \in StepType /\ Sound(q) /\ Backed(a, Range(q))
    /\ Range(todo[t]) = {a} \cup Range(q)

\* A thread with a stack is at its first step.
LEMMA Running ==
  ASSUME Inv, NEW t \in Threads, todo[t] # << >>
  PROVE  Runs(t, Head(todo[t]), Tail(todo[t]))
  <1>1. Sound(todo[t])
    BY SoundsIs DEF Inv, Sounds
  <1> QED BY <1>1, Pop DEF Runs

\* What t's references, handles and query references change by when its stack
\* becomes st.
Gains(t, st, o, r, h, y) ==
    /\ RefN(st, o) - RefN(todo[t], o) = r
    /\ HndN(st, o) - HndN(todo[t], o) = h
    /\ QryN(st, o) - QryN(todo[t], o) = y

\* A step that is over: what it has is gone.
LEMMA GainPop ==
  ASSUME Inv, NEW t \in Threads, NEW a, NEW q, Runs(t, a, q), NEW o
  PROVE  Gains(t, q, o, 0 - Ref(a, o), 0 - Hnd(a, o), 0 - Qry(a, o))
  <1>1. Sound(todo[t]) /\ todo[t] # << >> /\ a = Head(todo[t]) /\ q = Tail(todo[t]) /\ a \in StepType /\ Sound(q)
    BY SoundsIs DEF Inv, Sounds, Runs
  <1>2. \A x : /\ RefN(todo[t], x) = RefN(q, x) + Ref(a, x)
              /\ HndN(todo[t], x) = HndN(q, x) + Hnd(a, x)
              /\ QryN(todo[t], x) = QryN(q, x) + Qry(a, x)
    BY <1>1, PopStep
  <1>3. RefN(q, o) \in Nat /\ HndN(q, o) \in Nat /\ QryN(q, o) \in Nat
    BY <1>1, SoundCounts
  <1>4. Ref(a, o) \in 0 .. 2 /\ Hnd(a, o) \in 0 .. 1 /\ Qry(a, o) \in 0 .. 1
    BY <1>1, Weights
  <1> QED BY <1>2, <1>3, <1>4 DEF Gains

\* A thread that does nothing gains nothing.
LEMMA GainIdle ==
  ASSUME NEW t \in Threads, todo[t] = << >>, NEW o
  PROVE  Gains(t, << >>, o, 0, 0, 0)
  <1>1. RefN(<< >>, o) \in Nat /\ HndN(<< >>, o) \in Nat /\ QryN(<< >>, o) \in Nat
    BY SoundEmpty, SoundCounts
  <1> QED BY <1>1 DEF Gains

\* A step that is pushed: what it has is gained.
LEMMA GainPush ==
  ASSUME Inv, NEW t \in Threads, NEW q, Sound(q), NEW b \in StepType, Backed(b, Range(q)), NEW o,
         NEW r \in Int, NEW h \in Int, NEW y \in Int, Gains(t, q, o, r, h, y)
  PROVE  Gains(t, <<b>> \o q, o, r + Ref(b, o), h + Hnd(b, o), y + Qry(b, o))
  <1> DEFINE st == <<b>> \o q
  <1>1. \A x : /\ RefN(st, x) = RefN(q, x) + Ref(b, x)
              /\ HndN(st, x) = HndN(q, x) + Hnd(b, x)
              /\ QryN(st, x) = QryN(q, x) + Qry(b, x)
    BY PushStep
  <1>2. RefN(q, o) \in Nat /\ HndN(q, o) \in Nat /\ QryN(q, o) \in Nat
    BY SoundCounts
  <1>3. Ref(b, o) \in 0 .. 2 /\ Hnd(b, o) \in 0 .. 1 /\ Qry(b, o) \in 0 .. 1
    BY Weights
  <1>4. Sound(todo[t])
    BY SoundsIs DEF Inv, Sounds
  <1>5. RefN(todo[t], o) \in Nat /\ HndN(todo[t], o) \in Nat /\ QryN(todo[t], o) \in Nat
    BY <1>4, SoundCounts
  <1> HIDE DEF st
  <1>6. Gains(t, st, o, r + Ref(b, o), h + Hnd(b, o), y + Qry(b, o))
    BY <1>1, <1>2, <1>3, <1>5 DEF Gains
  <1> QED BY <1>6 DEF st

\* A live object that no other thread is about to insert.
Free(t, o) == o \in live /\ \A u \in Threads \ {t} : ~Inserting(u, o)

\* An object with a handle or a name, or that t has in its hands but for one
\* found on a list, is not about to be inserted by another thread.
LEMMA FreeIf ==
  ASSUME Inv, NEW t \in Threads, NEW o \in Objects,
         \/ handles[o] > 0 \/ Entered(o) = 1
         \/ \E s \in Range(todo[t]) : Has(s, o) /\ s.op \notin Passing
  PROVE  Free(t, o)
  <1>1. o \in live
    <2>1. CASE handles[o] > 0
      BY <2>1, LiveObjects
    <2>2. CASE Entered(o) = 1
      BY <2>2 DEF Inv, Gone
    <2>3. CASE \E s \in Range(todo[t]) : Has(s, o) /\ s.op \notin Passing
      BY <2>3 DEF Inv, Gone, Passing
    <2> QED BY <2>1, <2>2, <2>3
  <1>2. ASSUME NEW u \in Threads \ {t}, NEW s \in Range(todo[u]), s.op = "insert", s.obj = o PROVE FALSE
    <2>1. /\ Entered(o) = 0 /\ handles[o] = 0
          /\ \A v \in Threads : \A r \in Range(todo[v]) : Has(r, o) => v = u \/ r.op \in Passing
      BY <1>2 DEF Inv, Naming
    <2> QED BY <2>1
  <1> QED BY <1>1, <1>2 DEF Free, Inserting

\* A step that t may have on its stack.
Fits(t, b) ==
    /\ b.op \notin Final \cup {"insert"}
    /\ \A o \in Objects : Has(b, o) => o \in live /\ (b.op \in Passing \/ Free(t, o))
    /\ b.op = "namedelete" => Name[b.obj] \in Names

\* The steps of t's stack fit,
LEMMA OldFits ==
  ASSUME Inv, NEW t \in Threads, NEW b \in Range(todo[t]), b.op \notin Final \cup {"insert"}
  PROVE  Fits(t, b)
  <1>1. ASSUME NEW o \in Objects, Has(b, o) PROVE o \in live /\ (b.op \in Passing \/ Free(t, o))
    BY <1>1, FreeIf DEF Inv, Gone, Final
  <1>2. b.op = "namedelete" => Name[b.obj] \in Names
    BY DEF Inv, Naming
  <1> QED BY <1>1, <1>2 DEF Fits

\* also those that are left for later,
LEMMA LaterFits ==
  ASSUME Inv, NEW t \in Threads, NEW a, NEW q, Runs(t, a, q), NEW s \in Range(q)
  PROVE  Fits(t, s)
  <1>1. s \in Range(todo[t]) /\ Backed(a, Range(q))
    BY DEF Runs
  <1>2. s.op \in {"deref", "derefname", "namecheck", "exhandle"}
    BY <1>1, BackedIs DEF Patient
  <1> QED BY <1>1, <1>2, OldFits DEF Final

\* and new ones to an object that is allocated.
LEMMA PlainFits ==
  ASSUME NEW t \in Threads, NEW op \in PlainOps \ {"insert", "namedelete", "delete", "defer", "queue"}, NEW o \in Objects,
         o \in live, op \in Passing \/ Free(t, o)
  PROVE  Fits(t, Step(op, o))
  <1>1. Step(op, o).op = op /\ Step(op, o).obj = o
    BY PlainStep
  <1>2. ASSUME NEW x \in Objects, Has(Step(op, o), x) PROVE x = o
    BY <1>1, <1>2 DEF Has, OwnsContext, PlainOps
  <1> QED BY <1>1, <1>2 DEF Fits, Final, PlainOps

-----------------------------------------------------------------------------
\* A step that changes neither the directory nor anything of the reaper, nor
\* any count to or from 0.
FrameStep(t, st) ==
    /\ UNCHANGED <<live, entry, Name, NextToFree, ObpReaperList, reap, workItem>>
    /\ \A o \in Objects : Free(t, o) \/ (handles'[o] = handles[o] /\ QueryReferences'[o] = QueryReferences[o])
    /\ \A s \in Range(st) : Fits(t, s)
    /\ Living(todo[t])
    /\ \A o \in live : PointerCount'[o] = PointerCount[o] \/ (PointerCount[o] # 0 /\ PointerCount'[o] # 0)

\* The query references of what is in the directory change with t's stack.
QueryStep(t, st) ==
    /\ \A n \in Names : entry[n] # NULL =>
          /\ Directory'[entry[n]]
          /\ QueryReferences'[entry[n]] - QueryReferences[entry[n]]
               = QryN(st, entry[n]) - QryN(todo[t], entry[n])
    /\ \A o \in Objects : Directory'[o] => Directory[o]

\* Such a step keeps the invariant.
LEMMA StepKeeps ==
  ASSUME Inv, Types', NEW t \in Threads, NEW st, Moves(t, st),
         FrameStep(t, st), QueryStep(t, st), CountsStep(t, st), OrphanStep(t, st)
  PROVE  Inv'
  <1>0. Sounds /\ Types
    BY SoundsIs DEF Inv
  <1>1. TypeOK' /\ Stacks'
    <2>1. Sounds'
      BY <1>0, StackTo DEF Moves
    <2> QED BY <2>1 DEF TypeOK, Stacks, Sounds, StacksType, Sound
  <1>2. live' = live
    BY DEF FrameStep
  <1>3. Counts'
    BY <1>2, CountsKept DEF Counts
  <1>4. Living(st)
    <2>1. st # << >> => Head(st) \in Range(st)
      BY Pop DEF Moves
    <2> QED BY <2>1 DEF FrameStep, Fits, Living
  <1>5. Gone'
    <2>1. \A o \in Objects \ live : handles'[o] = handles[o]
      BY DEF FrameStep, Free
    <2>2. \A n \in Names : entry'[n] # NULL => entry'[n] \in live
      BY LiveObjects DEF FrameStep
    <2>3. \A s \in Range(st) : s.op # "queue" => \A o \in Objects : Has(s, o) => o \in live
      BY DEF FrameStep, Fits
    <2>4. GoneStep(t, st)
      BY <1>2, <2>1, <2>2, <2>3 DEF GoneStep
    <2> QED BY <2>4, GoneKept
  <1>6. Deaths' /\ Lists' /\ Reaping'
    <2>1. ListsStep(t, st)
      BY <1>4 DEF FrameStep, ListsStep
    <2> QED BY <2>1, ListsKept
  <1>7. Naming'
    <2>1. \A s \in Range(st) : s.op # "insert" /\ (s.op = "namedelete" => Name[s.obj] \in Names)
      BY DEF FrameStep, Fits
    <2>2. ASSUME NEW x \in live, NEW u \in Threads \ {t}, Inserting(u, x)
          PROVE  /\ handles'[x] = handles[x] /\ QueryReferences'[x] = QueryReferences[x]
                 /\ \A s \in Range(st) : Has(s, x) => s.op \in Passing
      <3>1. x \in Objects /\ ~Free(t, x)
        BY <1>0, <2>2 DEF Types, Free
      <3> QED BY <3>1 DEF FrameStep, Fits
    <2>3. NamingStep(t, st)
      BY <2>1, <2>2 DEF NamingStep, FrameStep, QueryStep
    <2> QED BY <2>3, NamingKept
  <1>8. NoOrphanName'
    BY OrphanKept
  <1> QED BY <1>1, <1>3, <1>5, <1>6, <1>7, <1>8 DEF Inv

\* OrphanStep for a step that watches no name, or leaves a watcher, or leaves
\* the object in use,
LEMMA OrphanRun ==
  ASSUME NEW t \in Threads, NEW a, NEW q, Runs(t, a, q), NEW st, Range(q) \subseteq Range(st), entry' = entry,
         \A n \in Names : entry[n] # NULL =>
            \/ HandleCount'[entry[n]] # 0 \/ Permanent'[entry[n]]
            \/ \E s \in Range(st) : Watches(s, entry[n])
            \/ /\ HandleCount'[entry[n]] = HandleCount[entry[n]] /\ Permanent'[entry[n]] = Permanent[entry[n]]
               /\ ~Watches(a, entry[n])
  PROVE  OrphanStep(t, st)
  <1> SUFFICES ASSUME NEW n \in Names, entry[n] # NULL,
                      ~(HandleCount'[entry[n]] # 0 \/ Permanent'[entry[n]]),
                      \A s \in Range(st) : ~Watches(s, entry[n])
               PROVE  /\ HandleCount[entry[n]] = 0 /\ ~Permanent[entry[n]]
                      /\ \A s \in Range(todo[t]) : ~Watches(s, entry[n])
    BY DEF OrphanStep
  <1>1. /\ HandleCount'[entry[n]] = HandleCount[entry[n]] /\ Permanent'[entry[n]] = Permanent[entry[n]]
        /\ ~Watches(a, entry[n])
    OBVIOUS
  <1>2. Range(todo[t]) = {a} \cup Range(q)
    BY DEF Runs
  <1> QED BY <1>1, <1>2

\* and for a call that begins.
LEMMA OrphanIdle ==
  ASSUME NEW t \in Threads, todo[t] = << >>, NEW st, entry' = entry,
         HandleCount' = HandleCount, Permanent' = Permanent
  PROVE  OrphanStep(t, st)
  <1>1. Range(todo[t]) = {}
    BY SoundEmpty
  <1> QED BY <1>1 DEF OrphanStep

\* What Add does to a count,
LEMMA AddIs ==
  ASSUME NEW f \in [Objects -> Int], NEW x \in Objects, NEW n \in Int
  PROVE  /\ Add(f, x, n) \in [Objects -> Int]
         /\ \A o \in Objects : Add(f, x, n)[o] = f[o] + (IF x = o THEN n ELSE 0)
  BY DEF Add

\* which stays natural.
LEMMA AddNat ==
  ASSUME NEW f \in [Objects -> Nat], NEW x \in Objects, NEW n \in Int, f[x] + n >= 0
  PROVE  /\ Add(f, x, n) \in [Objects -> Nat]
         /\ \A o \in Objects : Add(f, x, n)[o] = f[o] + (IF x = o THEN n ELSE 0)
  <1>1. f[x] + n \in Nat
    OBVIOUS
  <1> QED BY <1>1 DEF Add

-----------------------------------------------------------------------------
\* t may have st on its stack, for later.
Stacked(t, st) == Sound(st) /\ Patient(Range(st)) /\ \A s \in Range(st) : Fits(t, s)

\* What follows t's step may stay,
LEMMA StackedRest ==
  ASSUME Inv, NEW t \in Threads, NEW a, NEW q, Runs(t, a, q)
  PROVE  Stacked(t, q)
  BY LaterFits, BackedIs DEF Stacked, Runs

\* and so may nothing.
LEMMA StackedIdle ==
  ASSUME NEW t \in Threads PROVE Stacked(t, << >>)
  BY SoundEmpty DEF Stacked, Patient

\* A step that fits and is backed may be pushed.
LEMMA PutOne ==
  ASSUME NEW t \in Threads, NEW q, Stacked(t, q), NEW b \in StepType, Backed(b, Range(q)), Fits(t, b)
  PROVE  LET st == <<b>> \o q
         IN  /\ Sound(st) /\ st # << >> /\ Head(st) = b /\ Range(st) = {b} \cup Range(q)
             /\ \A s \in Range(st) : Fits(t, s)
             /\ b.op \in {"deref", "derefname", "namecheck", "exhandle"} => Stacked(t, st)
  <1> DEFINE st == <<b>> \o q
  <1>1. Sound(st) /\ st # << >> /\ Head(st) = b /\ Range(st) = {b} \cup Range(q)
    BY PushStep DEF Stacked
  <1> HIDE DEF st
  <1>2. \A s \in Range(st) : Fits(t, s)
    BY <1>1 DEF Stacked
  <1>3. b.op \in {"deref", "derefname", "namecheck", "exhandle"} => Stacked(t, st)
    BY <1>1, <1>2 DEF Stacked, Patient
  <1> QED BY <1>1, <1>2, <1>3 DEF st

\* ReleaseContext may be pushed:
LEMMA PutRelease ==
  ASSUME NEW t \in Threads, NEW q, Stacked(t, q), NEW c \in Objects \cup {NULL}, c # NULL => Free(t, c)
  PROVE  LET st == ReleaseContext(c) \o q
         IN  /\ Stacked(t, st) /\ Range(q) \subseteq Range(st)
             /\ c # NULL => Deref(c) \in Range(st) /\ DerefName(c) \in Range(st)
  <1>0. Sound(q) /\ Patient(Range(q)) /\ q \in Seq(StepType)
    BY DEF Stacked, Sound
  <1>1. CASE c = NULL
    <2>1. ReleaseContext(c) \o q = q
      BY <1>0, <1>1, ConcatEmptySeq DEF ReleaseContext
    <2> QED BY <1>1, <2>1
  <1>2. CASE c # NULL
    <2> DEFINE d == Deref(c)  n == DerefName(c)  p == <<d>> \o q  st == <<n>> \o p
    <2>0. c \in Objects /\ c \in live /\ Free(t, c)
      BY <1>2 DEF Free
    <2>1. d \in StepType /\ d.op = "deref" /\ n \in StepType /\ n.op = "derefname" /\ n.obj = c
      BY <2>0, PlainStep DEF PlainOps, Deref, DerefName
    <2>2. Fits(t, d) /\ Fits(t, n)
      BY <2>0, PlainFits DEF PlainOps, Passing, Deref, DerefName
    <2>3. ReleaseContext(c) \o q = st
      BY <1>0, <1>2, <2>1, Unfold DEF ReleaseContext
    <2>4. n.obj = c /\ d = Deref(n.obj)
      BY <2>1
    <2> HIDE DEF d, n
    <2>5. Backed(d, Range(q))
      BY <1>0, <2>1, BackedIs
    <2>6. Stacked(t, p) /\ Range(p) = {d} \cup Range(q)
      BY <2>1, <2>2, <2>5, PutOne
    <2> HIDE DEF p
    <2>7. Backed(n, Range(p))
      BY <2>1, <2>4, <2>6, BackedIs DEF Stacked
    <2>8. Stacked(t, st) /\ Range(st) = {n} \cup Range(p)
      BY <2>1, <2>2, <2>6, <2>7, PutOne
    <2> QED BY <2>3, <2>6, <2>8 DEF d, n
  <1> QED BY <1>1, <1>2

\* it has a reference and a query reference of the context's object.
LEMMA GainRelease ==
  ASSUME Inv, NEW t \in Threads, NEW q, Stacked(t, q), NEW c \in Objects \cup {NULL}, c # NULL => Free(t, c),
         NEW o \in Objects, NEW r \in Int, NEW h \in Int, NEW y \in Int, Gains(t, q, o, r, h, y)
  PROVE  Gains(t, ReleaseContext(c) \o q, o, r + One(c = o), h, y + One(c = o))
  <1>0. Sound(q) /\ Patient(Range(q)) /\ q \in Seq(StepType)
    BY DEF Stacked, Sound
  <1>1. CASE c = NULL
    <2>1. ReleaseContext(c) \o q = q
      BY <1>0, <1>1, ConcatEmptySeq DEF ReleaseContext
    <2>2. r + One(c = o) = r /\ y + One(c = o) = y
      BY <1>1, ObjectAssumption DEF One
    <2> QED BY <2>1, <2>2
  <1>2. CASE c # NULL
    <2> DEFINE d == Deref(c)  n == DerefName(c)  p == <<d>> \o q  st == <<n>> \o p
    <2>0. c \in Objects /\ c \in live /\ Free(t, c)
      BY <1>2 DEF Free
    <2>1. d \in StepType /\ d.op = "deref" /\ d.obj = c /\ n \in StepType /\ n.op = "derefname" /\ n.obj = c
      BY <2>0, PlainStep DEF PlainOps, Deref, DerefName
    <2>2. Fits(t, d) /\ Fits(t, n)
      BY <2>0, PlainFits DEF PlainOps, Passing, Deref, DerefName
    <2>3. ReleaseContext(c) \o q = st
      BY <1>0, <1>2, <2>1, Unfold DEF ReleaseContext
    <2>4. n.obj = c /\ d = Deref(n.obj)
      BY <2>1
    <2> HIDE DEF d, n
    <2>5. Backed(d, Range(q))
      BY <1>0, <2>1, BackedIs
    <2>6. Stacked(t, p) /\ Range(p) = {d} \cup Range(q)
      BY <2>1, <2>2, <2>5, PutOne
    <2>7. Gains(t, p, o, r + Ref(d, o), h + Hnd(d, o), y + Qry(d, o))
      BY <1>0, <2>1, <2>5, GainPush
    <2> HIDE DEF p
    <2>8. Backed(n, Range(p)) /\ Sound(p)
      BY <2>1, <2>4, <2>6, BackedIs DEF Stacked
    <2>9. Ref(d, o) = One(c = o) /\ Hnd(d, o) = 0 /\ Qry(d, o) = 0
      BY <2>1, OpWeights
    <2>10. Ref(n, o) = 0 /\ Hnd(n, o) = 0 /\ Qry(n, o) = One(c = o)
      BY <2>1, OpWeights
    <2>11. One(c = o) \in 0 .. 1
      BY DEF One
    <2>12. Gains(t, p, o, r + One(c = o), h, y)
      BY <2>7, <2>9, <2>11
    <2>13. Gains(t, st, o, r + One(c = o) + Ref(n, o), h + Hnd(n, o), y + Qry(n, o))
      BY <2>1, <2>8, <2>11, <2>12, GainPush
    <2>14. Gains(t, st, o, r + One(c = o), h, y + One(c = o))
      BY <2>10, <2>11, <2>13
    <2> QED BY <2>3, <2>14
  <1> QED BY <1>1, <1>2

-----------------------------------------------------------------------------
\* t serves step a of kind op, with the steps q to follow.
Serves(t, op, a, q) ==
    /\ Runs(t, a, q) /\ a.op = op /\ Obj(t) = a.obj /\ Arg(t) = a.arg
    /\ a \in StepType /\ a.obj \in Objects /\ Stacked(t, q)
    /\ Sound(q) /\ Patient(Range(q)) /\ Backed(a, Range(q)) /\ q \in Seq(StepType)
    /\ a \in Range(todo[t]) /\ Range(q) \subseteq Range(todo[t])
    /\ op \notin Final => Living(todo[t])
    /\ \A s : Then(t, s) => todo' = [todo EXCEPT ![t] = s \o q]

\* A thread at a step serves it.
LEMMA Current ==
  ASSUME Inv, NEW t \in Threads, NEW op, At(t, op)
  PROVE  \E a, q : Serves(t, op, a, q)
  <1> DEFINE a == Head(todo[t])  q == Tail(todo[t])
  <1>1. todo[t] # << >> /\ a.op = op /\ Obj(t) = a.obj /\ Arg(t) = a.arg
    BY DEF At, Obj, Arg
  <1>2. Runs(t, a, q)
    BY <1>1, Running
  <1>3. a \in StepType /\ a.obj \in Objects /\ Sound(q) /\ Backed(a, Range(q)) /\ Range(todo[t]) = {a} \cup Range(q)
    BY <1>2, StepKinds DEF Runs
  <1>4. Stacked(t, q) /\ Patient(Range(q)) /\ q \in Seq(StepType)
    BY <1>2, StackedRest DEF Stacked, Sound
  <1>5. op \notin Final => Living(todo[t])
    BY <1>1 DEF Living
  <1>6. \A s : Then(t, s) => todo' = [todo EXCEPT ![t] = s \o q]
    BY DEF Then
  <1> HIDE DEF a, q
  <1> QED BY <1>1, <1>2, <1>3, <1>4, <1>5, <1>6 DEF Serves

\* One step gives way to another.
LEMMA GainSwap ==
  ASSUME Inv, NEW t \in Threads, NEW a, NEW q, Runs(t, a, q), NEW b \in StepType, Backed(b, Range(q)), NEW o
  PROVE  Gains(t, <<b>> \o q, o, Ref(b, o) - Ref(a, o), Hnd(b, o) - Hnd(a, o), Qry(b, o) - Qry(a, o))
  <1>1. Sound(q) /\ a \in StepType
    BY DEF Runs
  <1>2. Ref(a, o) \in 0 .. 2 /\ Hnd(a, o) \in 0 .. 1 /\ Qry(a, o) \in 0 .. 1
    BY <1>1, Weights
  <1>3. Ref(b, o) \in 0 .. 2 /\ Hnd(b, o) \in 0 .. 1 /\ Qry(b, o) \in 0 .. 1
    BY Weights
  <1> DEFINE r == 0 - Ref(a, o)  h == 0 - Hnd(a, o)  y == 0 - Qry(a, o)
  <1>4. r \in Int /\ h \in Int /\ y \in Int
    BY <1>2
  <1>5. Gains(t, q, o, r, h, y)
    BY GainPop
  <1>6. r + Ref(b, o) = Ref(b, o) - Ref(a, o) /\ h + Hnd(b, o) = Hnd(b, o) - Hnd(a, o) /\ y + Qry(b, o) = Qry(b, o) - Qry(a, o)
    BY <1>2, <1>3
  <1> HIDE DEF r, h, y
  <1>7. Gains(t, <<b>> \o q, o, r + Ref(b, o), h + Hnd(b, o), y + Qry(b, o))
    BY <1>1, <1>4, <1>5, GainPush
  <1> QED BY <1>6, <1>7

\* The counts of o change with what t's stack, the handle tables and the
\* skipped references change by.
Books(t, st, o) ==
    /\ PointerCount'[o] = PointerCount[o] + (handles'[o] - handles[o]) + (skipped'[o] - skipped[o])
                          + (RefN(st, o) - RefN(todo[t], o))
    /\ HandleCount'[o] = HandleCount[o] + (handles'[o] - handles[o]) + (HndN(st, o) - HndN(todo[t], o))
    /\ QueryReferences'[o] = QueryReferences[o] + (QryN(st, o) - QryN(todo[t], o))

\* If the books balance the counts are right,
LEMMA BooksCounts ==
  ASSUME Inv, Types', NEW t \in Threads, NEW st, Sound(st), entry' = entry, \A o \in Objects : Books(t, st, o)
  PROVE  /\ CountsStep(t, st)
         /\ \A o \in Objects : QueryReferences'[o] - QueryReferences[o] = QryN(st, o) - QryN(todo[t], o)
  <1>0. Types /\ Sound(todo[t])
    BY SoundsIs DEF Inv, Sounds
  <1>1. ASSUME NEW o \in Objects
        PROVE  /\ PointerCount[o] \in Int /\ handles[o] \in Nat /\ skipped[o] \in Nat /\ HandleCount[o] \in Int
               /\ handles'[o] \in Nat /\ skipped'[o] \in Nat /\ QueryReferences[o] \in Int
               /\ RefN(st, o) \in Nat /\ HndN(st, o) \in Nat /\ QryN(st, o) \in Nat
               /\ RefN(todo[t], o) \in Nat /\ HndN(todo[t], o) \in Nat /\ QryN(todo[t], o) \in Nat
               /\ Entered(o)' = Entered(o) /\ Entered(o) \in Int
    <2>1. /\ PointerCount[o] \in Int /\ handles[o] \in Nat /\ skipped[o] \in Nat /\ HandleCount[o] \in Int
          /\ handles'[o] \in Nat /\ skipped'[o] \in Nat /\ QueryReferences[o] \in Int
      BY <1>0 DEF Types
    <2>2. Entered(o)' = Entered(o) /\ Entered(o) \in Int
      BY EnteredIs DEF Entered
    <2> QED BY <1>0, <2>1, <2>2, SoundCounts
  <1>2. ASSUME NEW o \in Objects
        PROVE  /\ PointerCount'[o] - PointerCount[o] =
                    (handles'[o] - handles[o]) + (Entered(o)' - Entered(o)) + (skipped'[o] - skipped[o])
                    + (RefN(st, o) - RefN(todo[t], o))
               /\ HandleCount'[o] - HandleCount[o] =
                    (handles'[o] - handles[o]) + (HndN(st, o) - HndN(todo[t], o))
               /\ QueryReferences'[o] - QueryReferences[o] = QryN(st, o) - QryN(todo[t], o)
    <2>1. Books(t, st, o)
      OBVIOUS
    <2> QED BY <1>1, <2>1 DEF Books
  <1>3. live \subseteq Objects
    BY <1>0 DEF Types
  <1> QED BY <1>2, <1>3 DEF CountsStep

\* also the query references;
LEMMA BooksQueries ==
  ASSUME Inv, Types', NEW t \in Threads, NEW st, Sound(st), entry' = entry, \A o \in Objects : Books(t, st, o),
         Directory' = Directory
  PROVE  QueryStep(t, st)
  <1>1. \A o \in Objects : QueryReferences'[o] - QueryReferences[o] = QryN(st, o) - QryN(todo[t], o)
    BY BooksCounts
  <1>2. \A n \in Names : entry[n] # NULL => entry[n] \in Objects /\ Directory[entry[n]]
    BY DEF Inv, TypeOK, Types, Naming
  <1> QED BY <1>1, <1>2 DEF QueryStep

\* and the step keeps the invariant.
LEMMA BooksKeep ==
  ASSUME Inv, Types', NEW t \in Threads, NEW st, Moves(t, st), FrameStep(t, st), OrphanStep(t, st),
         Directory' = Directory, \A o \in Objects : Books(t, st, o)
  PROVE  Inv'
  <1>1. Sound(st) /\ entry' = entry
    BY DEF Moves, FrameStep
  <1>2. CountsStep(t, st)
    BY <1>1, BooksCounts
  <1>3. QueryStep(t, st)
    BY <1>1, BooksQueries
  <1> QED BY <1>2, <1>3, StepKeeps

\* The counts Add gives.
LEMMA AddCounts ==
  ASSUME Types, NEW x \in Objects, NEW n \in Int
  PROVE  /\ Add(PointerCount, x, n) \in [Objects -> Int]
         /\ Add(HandleCount, x, n) \in [Objects -> Int]
         /\ Add(QueryReferences, x, n) \in [Objects -> Int]
         /\ \A o \in Objects :
               /\ Add(PointerCount, x, n)[o] = PointerCount[o] + (IF x = o THEN n ELSE 0)
               /\ Add(HandleCount, x, n)[o] = HandleCount[o] + (IF x = o THEN n ELSE 0)
               /\ Add(QueryReferences, x, n)[o] = QueryReferences[o] + (IF x = o THEN n ELSE 0)
  <1>1. PointerCount \in [Objects -> Int] /\ HandleCount \in [Objects -> Int] /\ QueryReferences \in [Objects -> Int]
    BY DEF Types
  <1>2. /\ Add(PointerCount, x, n) \in [Objects -> Int]
        /\ \A o \in Objects : Add(PointerCount, x, n)[o] = PointerCount[o] + (IF x = o THEN n ELSE 0)
    BY <1>1, AddIs
  <1>3. /\ Add(HandleCount, x, n) \in [Objects -> Int]
        /\ \A o \in Objects : Add(HandleCount, x, n)[o] = HandleCount[o] + (IF x = o THEN n ELSE 0)
    BY <1>1, AddIs
  <1>4. /\ Add(QueryReferences, x, n) \in [Objects -> Int]
        /\ \A o \in Objects : Add(QueryReferences, x, n)[o] = QueryReferences[o] + (IF x = o THEN n ELSE 0)
    BY <1>1, AddIs
  <1> QED BY <1>2, <1>3, <1>4

\* The counts of an object that is allocated are natural.
LEMMA CountsNat ==
  ASSUME Inv, NEW o \in live
  PROVE  PointerCount[o] \in Nat /\ HandleCount[o] \in Nat
  <1>1. /\ PointerCount[o] = handles[o] + Entered(o) + skipped[o] + RefT(todo, o)
        /\ HandleCount[o] = handles[o] + HndT(todo, o) /\ o \in Objects
    BY DEF Inv, Counts, TypeOK, Types
  <1>2. handles[o] \in Nat /\ skipped[o] \in Nat /\ Entered(o) \in {0, 1}
    BY <1>1, EnteredIs DEF Inv, TypeOK, Types
  <1>3. todo \in StacksType
    BY DEF Inv, TypeOK, StacksType
  <1>4. RefT(todo, o) \in Nat /\ HndT(todo, o) \in Nat
    BY <1>3, TotalsNat
  <1> QED BY <1>1, <1>2, <1>4

\* ObpDecrementHandleCount keeps the invariant.
LEMMA KeepDecrementHandleCount ==
  ASSUME Inv, NEW t \in Threads, ObpDecrementHandleCount(t)
  PROVE  Inv'
  <1>0. /\ At(t, "dechandle") /\ HandleCount' = Add(HandleCount, Obj(t), -1)
        /\ Then(t, <<Step("namecheck", Obj(t))>>)
        /\ UNCHANGED <<live, PointerCount, QueryReferences, name, handles, reaper, skipped>>
    BY DEF ObpDecrementHandleCount
  <1>1. PICK a, q : Serves(t, "dechandle", a, q)
    BY <1>0, Current
  <1>2. PICK x \in Objects : x = a.obj
    BY <1>1 DEF Serves
  <1> DEFINE b == Step("namecheck", x)  st == <<b>> \o q
  <1>3. Free(t, x) /\ x \in live
    BY <1>1, <1>2, FreeIf DEF Free, Has, Passing, Serves
  <1>4. b \in StepType /\ b.op = "namecheck" /\ b.obj = x /\ Fits(t, b)
    BY <1>3, PlainStep, PlainFits DEF PlainOps
  <1>5. todo' = [todo EXCEPT ![t] = st] /\ HandleCount' = Add(HandleCount, x, -1)
    BY <1>0, <1>1, <1>2 DEF Serves
  <1> HIDE DEF b
  <1>6. Backed(b, Range(q))
    BY <1>1, <1>2, <1>4, BackedIs DEF Serves
  <1>7. Sound(st) /\ Range(st) = {b} \cup Range(q) /\ \A s \in Range(st) : Fits(t, s)
    BY <1>1, <1>4, <1>6, PutOne DEF Serves
  <1>8. a.op = "dechandle" /\ Runs(t, a, q)
    BY <1>1 DEF Serves
  <1>9. ASSUME NEW o \in Objects PROVE Gains(t, st, o, 0, 0 - One(x = o), 0)
    <2>1. Gains(t, st, o, Ref(b, o) - Ref(a, o), Hnd(b, o) - Hnd(a, o), Qry(b, o) - Qry(a, o))
      BY <1>4, <1>6, <1>8, GainSwap
    <2>2. Ref(a, o) = 0 /\ Hnd(a, o) = One(x = o) /\ Qry(a, o) = 0
      BY <1>2, <1>8, OpWeights
    <2>3. Ref(b, o) = 0 /\ Hnd(b, o) = 0 /\ Qry(b, o) = 0
      BY <1>4, OpWeights
    <2> QED BY <2>1, <2>2, <2>3
  <1> HIDE DEF st
  <1>10. Types /\ -1 \in Int
    BY DEF Inv, TypeOK
  <1>11. HandleCount' \in [Objects -> Int] /\ \A o \in Objects : HandleCount'[o] = HandleCount[o] + (IF x = o THEN -1 ELSE 0)
    BY <1>5, <1>10, AddCounts
  <1>12. Types'
    BY <1>0, <1>10, <1>11 DEF Types, name, reaper
  <1>13. ASSUME NEW o \in Objects PROVE Books(t, st, o)
    BY <1>0, <1>9, <1>10, <1>11 DEF Books, Gains, Types, One
  <1>14. OrphanStep(t, st)
    <2>1. ASSUME NEW n \in Names, entry[n] # NULL
          PROVE  \/ HandleCount'[entry[n]] # 0 \/ Permanent'[entry[n]]
                 \/ \E s \in Range(st) : Watches(s, entry[n])
                 \/ /\ HandleCount'[entry[n]] = HandleCount[entry[n]] /\ Permanent'[entry[n]] = Permanent[entry[n]]
                    /\ ~Watches(a, entry[n])
      <3>1. entry[n] \in Objects
        BY <1>10, <2>1 DEF Types
      <3>2. CASE entry[n] = x
        BY <1>4, <1>7, <3>2 DEF Watches
      <3>3. CASE entry[n] # x
        BY <1>0, <1>2, <1>10, <1>11, <3>1, <3>3 DEF Watches, name, Types
      <3> QED BY <3>2, <3>3
    <2> QED BY <1>0, <1>7, <1>8, <2>1, OrphanRun DEF name
  <1>15. FrameStep(t, st) /\ Directory' = Directory
    BY <1>0, <1>1, <1>7 DEF FrameStep, name, reaper, Final, Serves
  <1>16. Moves(t, st)
    BY <1>5, <1>7 DEF Moves
  <1> QED BY <1>12, <1>13, <1>14, <1>15, <1>16, BooksKeep

\* The next step of a handle being made fits.
LEMMA HandleFits ==
  ASSUME Inv, NEW t \in Threads, NEW a \in Range(todo[t]), a \in StepType, a.op \in {"counthandle", "grant"},
         NEW op \in {"grant", "exhandle"}
  PROVE  LET b == StepWith(op, a.obj, a.arg)
         IN  /\ b \in StepType /\ b.op = op /\ b.obj = a.obj /\ b.arg = a.arg /\ Fits(t, b)
             /\ a.obj \in live /\ Free(t, a.obj)
             /\ a.arg.context \in Objects \cup {NULL} /\ a.arg.inserted \in Objects \cup {NULL} /\ a.arg.new \in BOOLEAN
             /\ a.arg.context # NULL => Free(t, a.arg.context)
  <1> DEFINE b == StepWith(op, a.obj, a.arg)
  <1>1. a.obj \in Objects /\ a.arg \in HandleArg
    BY StepKinds
  <1>2. /\ a.arg.context \in Objects \cup {NULL} /\ a.arg.inserted \in Objects \cup {NULL} /\ a.arg.new \in BOOLEAN
    BY <1>1 DEF HandleArg
  <1>3. b \in StepType /\ b.op = op /\ b.obj = a.obj /\ b.arg = a.arg
    BY <1>1, HandleStep
  <1>4. ASSUME NEW o \in Objects, a.obj = o \/ a.arg.context = o PROVE Free(t, o) /\ o \in live
    <2>1. Has(a, o) /\ a.op \notin Passing
      BY <1>4 DEF Has, OwnsContext, Passing
    <2>2. Free(t, o)
      BY <2>1, FreeIf
    <2> QED BY <2>2 DEF Free
  <1> HIDE DEF b
  <1>5. ASSUME NEW o \in Objects, Has(b, o) PROVE a.obj = o \/ a.arg.context = o
    BY <1>3, <1>5 DEF Has, OwnsContext
  <1>6. Fits(t, b)
    BY <1>3, <1>4, <1>5 DEF Fits, Final
  <1>7. a.arg.context # NULL => Free(t, a.arg.context)
    BY <1>2, <1>4
  <1> QED BY <1>1, <1>2, <1>3, <1>4, <1>6, <1>7 DEF b

\* ObpIncrementHandleCount keeps the invariant.
LEMMA KeepIncrementHandleCount ==
  ASSUME Inv, NEW t \in Threads, ObpIncrementHandleCount(t)
  PROVE  Inv'
  <1>0. /\ At(t, "counthandle") /\ HandleCount' = Add(HandleCount, Obj(t), 1)
        /\ Then(t, <<StepWith("grant", Obj(t), Arg(t))>>)
        /\ UNCHANGED <<live, PointerCount, QueryReferences, name, handles, reaper, skipped>>
    BY DEF ObpIncrementHandleCount
  <1>1. PICK a, q : Serves(t, "counthandle", a, q)
    BY <1>0, Current
  <1>2. PICK x \in Objects : x = a.obj
    BY <1>1 DEF Serves
  <1> DEFINE b == StepWith("grant", x, a.arg)  st == <<b>> \o q
  <1>3. a \in Range(todo[t]) /\ a \in StepType /\ a.op = "counthandle" /\ Runs(t, a, q) /\ Backed(a, Range(q))
    BY <1>1 DEF Serves
  <1>4. b \in StepType /\ b.op = "grant" /\ b.obj = a.obj /\ b.arg = a.arg /\ Fits(t, b) /\ x \in live /\ Free(t, x)
    BY <1>2, <1>3, HandleFits
  <1>5. todo' = [todo EXCEPT ![t] = st] /\ HandleCount' = Add(HandleCount, x, 1)
    BY <1>0, <1>1, <1>2 DEF Serves
  <1> HIDE DEF b
  <1>6. Backed(b, Range(q))
    BY <1>3, <1>4, BackedHandle
  <1>7. Sound(st) /\ Range(st) = {b} \cup Range(q) /\ \A s \in Range(st) : Fits(t, s)
    BY <1>1, <1>4, <1>6, PutOne DEF Serves
  <1>9. ASSUME NEW o \in Objects PROVE Gains(t, st, o, 0, One(x = o), 0)
    <2>1. Gains(t, st, o, Ref(b, o) - Ref(a, o), Hnd(b, o) - Hnd(a, o), Qry(b, o) - Qry(a, o))
      BY <1>3, <1>4, <1>6, GainSwap
    <2>2. Ref(b, o) = Ref(a, o) /\ Qry(b, o) = Qry(a, o) /\ Hnd(b, o) = One(x = o) /\ Hnd(a, o) = 0
      BY <1>2, <1>3, <1>4, OpWeights
    <2>3. Ref(a, o) \in 0 .. 2 /\ Qry(a, o) \in 0 .. 1 /\ One(x = o) \in 0 .. 1
      BY <1>3, Weights DEF One
    <2> QED BY <2>1, <2>2, <2>3
  <1> HIDE DEF st
  <1>10. Types /\ 1 \in Int
    BY DEF Inv, TypeOK
  <1>11. HandleCount' \in [Objects -> Int] /\ \A o \in Objects : HandleCount'[o] = HandleCount[o] + (IF x = o THEN 1 ELSE 0)
    BY <1>5, <1>10, AddCounts
  <1>12. Types'
    BY <1>0, <1>10, <1>11 DEF Types, name, reaper
  <1>13. ASSUME NEW o \in Objects PROVE Books(t, st, o)
    BY <1>0, <1>9, <1>10, <1>11 DEF Books, Gains, Types, One
  <1>14. OrphanStep(t, st)
    <2>1. ASSUME NEW n \in Names, entry[n] # NULL
          PROVE  \/ HandleCount'[entry[n]] # 0 \/ Permanent'[entry[n]]
                 \/ \E s \in Range(st) : Watches(s, entry[n])
                 \/ /\ HandleCount'[entry[n]] = HandleCount[entry[n]] /\ Permanent'[entry[n]] = Permanent[entry[n]]
                    /\ ~Watches(a, entry[n])
      <3>1. entry[n] \in Objects
        BY <1>10, <2>1 DEF Types
      <3>2. CASE entry[n] = x
        <4>1. HandleCount[x] \in Nat
          BY <1>4, CountsNat
        <4> QED BY <1>11, <3>2, <4>1
      <3>3. CASE entry[n] # x
        BY <1>0, <1>2, <1>10, <1>11, <3>1, <3>3 DEF Watches, name, Types
      <3> QED BY <3>2, <3>3
    <2> QED BY <1>0, <1>3, <1>7, <2>1, OrphanRun DEF name
  <1>15. FrameStep(t, st) /\ Directory' = Directory
    BY <1>0, <1>1, <1>7 DEF FrameStep, name, reaper, Final, Serves
  <1>16. Moves(t, st)
    BY <1>5, <1>7 DEF Moves
  <1> QED BY <1>12, <1>13, <1>14, <1>15, <1>16, BooksKeep

\* BackOut may be pushed, and has nothing.
LEMMA PutBackOut ==
  ASSUME Inv, NEW t \in Threads, NEW q, Stacked(t, q), Range(q) \subseteq Range(todo[t]),
         NEW h, h.inserted \in Objects \cup {NULL},
         h.inserted # NULL => Deref(h.inserted) \in Range(q) /\ DerefName(h.inserted) \in Range(q)
  PROVE  LET st == BackOut(h) \o q
         IN  /\ Stacked(t, st) /\ Range(q) \subseteq Range(st) /\ BackOut(h) \in Seq(StepType)
             /\ h.inserted # NULL => Step("namecheck", h.inserted) \in Range(st)
             /\ \A o, r, k, y : r \in Int /\ k \in Int /\ y \in Int /\ Gains(t, q, o, r, k, y) => Gains(t, st, o, r, k, y)
  <1>0. Sound(q) /\ Patient(Range(q)) /\ q \in Seq(StepType)
    BY DEF Stacked, Sound
  <1>1. CASE h.inserted = NULL
    <2>1. BackOut(h) = << >> /\ BackOut(h) \o q = q
      BY <1>0, <1>1, ConcatEmptySeq DEF BackOut
    <2>2. << >> \in Seq(StepType)
      BY EmptySeq
    <2> QED BY <1>1, <2>1, <2>2
  <1>2. CASE h.inserted # NULL
    <2>0. PICK i \in Objects : i = h.inserted
      BY <1>2
    <2> DEFINE b == Step("namecheck", i)  st == <<b>> \o q
    <2>1. b \in StepType /\ b.op = "namecheck" /\ b.obj = i
      BY PlainStep DEF PlainOps
    <2>2. Free(t, i) /\ i \in live
      <3>1. DerefName(i).op = "derefname" /\ DerefName(i).obj = i
        BY PlainStep DEF PlainOps, DerefName
      <3>2. Has(DerefName(i), i) /\ DerefName(i).op \notin Passing /\ DerefName(i) \in Range(todo[t])
        BY <1>2, <2>0, <3>1 DEF Has, Passing
      <3>3. Free(t, i)
        BY <3>2, FreeIf
      <3> QED BY <3>3 DEF Free
    <2>3. Fits(t, b)
      BY <2>2, PlainFits DEF PlainOps
    <2>4. BackOut(h) = <<b>>
      BY <1>2, <2>0 DEF BackOut
    <2> HIDE DEF b
    <2>5. Backed(b, Range(q))
      BY <1>0, <1>2, <2>0, <2>1, BackedIs
    <2>6. Stacked(t, st) /\ Range(st) = {b} \cup Range(q)
      BY <2>1, <2>3, <2>5, PutOne
    <2>7. ASSUME NEW o, NEW r \in Int, NEW k \in Int, NEW y \in Int, Gains(t, q, o, r, k, y)
          PROVE  Gains(t, st, o, r, k, y)
      <3>1. Gains(t, st, o, r + Ref(b, o), k + Hnd(b, o), y + Qry(b, o))
        BY <1>0, <2>1, <2>5, <2>7, GainPush
      <3>2. Ref(b, o) = 0 /\ Hnd(b, o) = 0 /\ Qry(b, o) = 0
        BY <2>1, OpWeights
      <3> QED BY <3>1, <3>2
    <2>8. <<b>> \in Seq(StepType)
      BY <2>1
    <2>9. Step("namecheck", h.inserted) \in Range(st)
      BY <2>0, <2>6 DEF b
    <2> HIDE DEF st
    <2>10. /\ Stacked(t, st) /\ Range(q) \subseteq Range(st) /\ BackOut(h) \in Seq(StepType)
           /\ h.inserted # NULL => Step("namecheck", h.inserted) \in Range(st)
           /\ \A o, r, k, y : r \in Int /\ k \in Int /\ y \in Int /\ Gains(t, q, o, r, k, y) => Gains(t, st, o, r, k, y)
      BY <2>4, <2>6, <2>7, <2>8, <2>9
    <2> QED BY <2>4, <2>10 DEF st
  <1> QED BY <1>1, <1>2

\* The object a handle is being made to has a reference.
LEMMA HandlePinned ==
  ASSUME Inv, NEW t \in Threads, NEW a, NEW q, Serves(t, a.op, a, q), a.op \in {"counthandle", "grant"}
  PROVE  PointerCount[a.obj] >= 1
  <1>1. /\ a \in Range(todo[t]) /\ Range(q) \subseteq Range(todo[t]) /\ a.obj \in Objects /\ a \in StepType
        /\ Backed(a, Range(q))
    BY DEF Serves
  <1>2. a.obj \in live
    BY <1>1, HandleFits
  <1>3. a.arg.new \in BOOLEAN
    BY <1>1, StepKinds DEF HandleArg
  <1>4. OwnsReference(Deref(a.obj), a.obj)
    <2>1. Deref(a.obj).op = "deref" /\ Deref(a.obj).obj = a.obj
      BY <1>1, PlainStep DEF PlainOps, Deref
    <2> QED BY <2>1 DEF OwnsReference
  <1>5. \E s \in Range(todo[t]) : OwnsReference(s, a.obj) \/ OwnsContext(s, a.obj)
    <2>1. CASE ~a.arg.new
      BY <1>1, <2>1 DEF OwnsReference
    <2>2. CASE a.arg.new /\ a.arg.inserted = NULL
      BY <1>1, <1>4, <2>2, BackedHandle
    <2>3. CASE a.arg.new /\ a.arg.inserted # NULL
      <3>1. a.obj = a.arg.context \/ Deref(a.obj) \in Range(q)
        BY <1>1, <2>3, BackedHandle
      <3> QED BY <1>1, <1>4, <3>1 DEF OwnsContext
    <2> QED BY <1>3, <2>1, <2>2, <2>3
  <1> QED BY <1>2, <1>5, Referenced

\* The caller's reference may be left for later.
LEMMA PutDeref ==
  ASSUME Inv, NEW t \in Threads, NEW q, Stacked(t, q), NEW x \in Objects, x \in live, NEW c \in BOOLEAN
  PROVE  LET D == IF c THEN << >> ELSE <<Deref(x)>>
             st == D \o q
         IN  /\ Stacked(t, st) /\ Range(q) \subseteq Range(st) /\ D \in Seq(StepType)
             /\ ~c => Deref(x) \in Range(st)
             /\ \A o, r, k, y : r \in Int /\ k \in Int /\ y \in Int /\ Gains(t, q, o, r, k, y)
                   => Gains(t, st, o, r + One(x = o /\ ~c), k, y)
  <1>0. Sound(q) /\ Patient(Range(q)) /\ q \in Seq(StepType)
    BY DEF Stacked, Sound
  <1> DEFINE D == IF c THEN << >> ELSE <<Deref(x)>>
  <1>1. CASE c
    <2>1. D = << >> /\ << >> \o q = q /\ << >> \in Seq(StepType)
      BY <1>0, <1>1, ConcatEmptySeq, EmptySeq
    <2>2. ASSUME NEW o, NEW r \in Int PROVE r + One(x = o /\ ~c) = r
      BY <1>1 DEF One
    <2> HIDE DEF D
    <2>3. /\ Stacked(t, D \o q) /\ Range(q) \subseteq Range(D \o q) /\ D \in Seq(StepType)
          /\ \A o, r, k, y : r \in Int /\ k \in Int /\ y \in Int /\ Gains(t, q, o, r, k, y)
                   => Gains(t, D \o q, o, r + One(x = o /\ ~c), k, y)
      BY <2>1, <2>2
    <2> QED BY <1>1, <2>3 DEF D
  <1>2. CASE ~c
    <2> DEFINE b == Deref(x)  st == <<b>> \o q
    <2>1. b \in StepType /\ b.op = "deref" /\ b.obj = x
      BY PlainStep DEF PlainOps, Deref
    <2>3. Fits(t, b)
      BY PlainFits DEF PlainOps, Passing, Deref
    <2>4. D = <<b>>
      BY <1>2
    <2> HIDE DEF b
    <2>5. Backed(b, Range(q))
      BY <1>0, <2>1, BackedIs
    <2>6. Stacked(t, st) /\ Range(st) = {b} \cup Range(q)
      BY <2>1, <2>3, <2>5, PutOne
    <2>7. ASSUME NEW o, NEW r \in Int, NEW k \in Int, NEW y \in Int, Gains(t, q, o, r, k, y)
          PROVE  Gains(t, st, o, r + One(x = o /\ ~c), k, y)
      <3>1. Gains(t, st, o, r + Ref(b, o), k + Hnd(b, o), y + Qry(b, o))
        BY <1>0, <2>1, <2>5, <2>7, GainPush
      <3>2. Ref(b, o) = One(x = o) /\ Hnd(b, o) = 0 /\ Qry(b, o) = 0
        BY <2>1, OpWeights
      <3>3. One(x = o /\ ~c) = One(x = o)
        BY <1>2 DEF One
      <3> QED BY <3>1, <3>2, <3>3
    <2>8. <<b>> \in Seq(StepType)
      BY <2>1
    <2> HIDE DEF st, D
    <2>9. /\ Stacked(t, st) /\ Range(q) \subseteq Range(st) /\ D \in Seq(StepType) /\ b \in Range(st)
          /\ \A o, r, k, y : r \in Int /\ k \in Int /\ y \in Int /\ Gains(t, q, o, r, k, y)
                   => Gains(t, st, o, r + One(x = o /\ ~c), k, y)
      BY <2>4, <2>6, <2>7, <2>8
    <2>10. st = D \o q
      BY <2>4 DEF st
    <2> QED BY <2>9, <2>10 DEF b, D
  <1> QED BY <1>1, <1>2

\* Stacks that are put together differently are the same.
Grouped(a, b, q) == (a \o b) \o q = a \o (b \o q)
GroupedThree(a, b, c, q) == (a \o b \o c) \o q = a \o (b \o (c \o q))

\* They are,
LEMMA Regroup ==
  ASSUME NEW a \in Seq(StepType), NEW b \in Seq(StepType), NEW q \in Seq(StepType)
  PROVE  Grouped(a, b, q)
  BY ConcatAssociative DEF Grouped

\* for three, too.
LEMMA RegroupThree ==
  ASSUME NEW a \in Seq(StepType), NEW b \in Seq(StepType), NEW c \in Seq(StepType), NEW q \in Seq(StepType)
  PROVE  GroupedThree(a, b, c, q)
  <1>1. a \o b \in Seq(StepType) /\ c \o q \in Seq(StepType)
    BY ConcatProperties
  <1>2. (a \o b \o c) \o q = (a \o b) \o (c \o q)
    BY <1>1, ConcatAssociative
  <1>4. PICK d \in Seq(StepType) : d = c \o q
    BY <1>1
  <1>5. (a \o b) \o d = a \o (b \o d)
    BY ConcatAssociative
  <1> QED BY <1>2, <1>4, <1>5 DEF GroupedThree

\* ReleaseContext is a stack of steps.
LEMMA ReleaseSteps ==
  ASSUME NEW c \in Objects \cup {NULL} PROVE ReleaseContext(c) \in Seq(StepType)
  <1>1. CASE c = NULL
    BY <1>1, EmptySeq DEF ReleaseContext
  <1>2. CASE c # NULL
    <2>1. Deref(c) \in StepType /\ DerefName(c) \in StepType
      BY <1>2, PlainStep DEF Deref, DerefName, PlainOps
    <2> QED BY <1>2, <2>1 DEF ReleaseContext
  <1> QED BY <1>1, <1>2

\* A handle that is denied keeps the invariant.
LEMMA KeepHandleDenied ==
  ASSUME Inv, NEW t \in Threads, HandleDenied(t)
  PROVE  Inv'
  <1>0. /\ At(t, "counthandle")
        /\ Then(t, ReleaseContext(Arg(t).context) \o (IF Arg(t).new THEN << >> ELSE <<Deref(Obj(t))>>) \o BackOut(Arg(t)))
    BY DEF HandleDenied, Unlock
  <1>u. /\ UNCHANGED <<live, counts, Name, Permanent, Directory, entry, handles, reaper, skipped>>
        /\ dirLock' = (IF dirLock = t THEN NULL ELSE dirLock)
    BY DEF HandleDenied, Unlock
  <1>1. PICK a, q : Serves(t, "counthandle", a, q)
    BY <1>0, Current
  <1>2. PICK x \in Objects : x = a.obj
    BY <1>1 DEF Serves
  <1>3. /\ a \in Range(todo[t]) /\ a \in StepType /\ a.op = "counthandle" /\ Runs(t, a, q) /\ Backed(a, Range(q))
        /\ Stacked(t, q) /\ q \in Seq(StepType) /\ Range(q) \subseteq Range(todo[t])
    BY <1>1 DEF Serves
  <1>4. PICK c \in Objects \cup {NULL}, new \in BOOLEAN, i \in Objects \cup {NULL} :
           /\ c = a.arg.context /\ new = a.arg.new /\ i = a.arg.inserted
           /\ x \in live /\ Free(t, x) /\ (c # NULL => Free(t, c))
    BY <1>2, <1>3, HandleFits
  <1> DEFINE p1 == BackOut(a.arg) \o q
             D == IF new THEN << >> ELSE <<Deref(x)>>
             p2 == D \o p1
             st == ReleaseContext(c) \o p2
  <1>5. i # NULL => Deref(i) \in Range(q) /\ DerefName(i) \in Range(q)
    BY <1>3, <1>4, BackedHandle
  <1>6. /\ Stacked(t, p1) /\ Range(q) \subseteq Range(p1) /\ BackOut(a.arg) \in Seq(StepType)
        /\ i # NULL => Step("namecheck", i) \in Range(p1)
        /\ \A o, r, k, y : r \in Int /\ k \in Int /\ y \in Int /\ Gains(t, q, o, r, k, y) => Gains(t, p1, o, r, k, y)
    BY <1>3, <1>4, <1>5, PutBackOut
  <1>7. todo' = [todo EXCEPT ![t] = (ReleaseContext(c) \o D \o BackOut(a.arg)) \o q]
    BY <1>0, <1>1, <1>2, <1>4 DEF Serves
  <1>8. D \in Seq(StepType)
    <2>1. Deref(x) \in StepType
      BY PlainStep DEF PlainOps, Deref
    <2> QED BY <2>1, EmptySeq
  <1>9. todo' = [todo EXCEPT ![t] = st]
    <2>1. ReleaseContext(c) \in Seq(StepType)
      BY ReleaseSteps
    <2>2. GroupedThree(ReleaseContext(c), D, BackOut(a.arg), q)
      BY <1>3, <1>6, <1>8, <2>1, RegroupThree
    <2> QED BY <1>7, <2>2 DEF GroupedThree
  <1> HIDE DEF p1
  <1>10. /\ Stacked(t, p2) /\ Range(p1) \subseteq Range(p2)
         /\ \A o, r, k, y : r \in Int /\ k \in Int /\ y \in Int /\ Gains(t, p1, o, r, k, y)
                   => Gains(t, p2, o, r + One(x = o /\ ~new), k, y)
    BY <1>4, <1>6, PutDeref
  <1> HIDE DEF p2, D
  <1>11. Stacked(t, st) /\ Range(p2) \subseteq Range(st)
    BY <1>4, <1>10, PutRelease
  <1>12. ASSUME NEW o \in Objects PROVE Gains(t, st, o, 0, 0, 0)
    <2>1. Gains(t, q, o, 0 - Ref(a, o), 0 - Hnd(a, o), 0 - Qry(a, o))
      BY <1>3, GainPop
    <2>2. Ref(a, o) = One(x = o /\ ~new) + One(c = o) /\ Hnd(a, o) = 0 /\ Qry(a, o) = One(c = o)
      BY <1>2, <1>3, <1>4, OpWeights
    <2>3. One(x = o /\ ~new) \in Int /\ One(c = o) \in Int
      BY DEF One
    <2> DEFINE u == One(x = o /\ ~new)  v == One(c = o)
    <2> HIDE DEF u, v
    <2>4. u \in Int /\ v \in Int /\ 0 - (u + v) \in Int /\ 0 - v \in Int /\ 0 - (u + v) + u = 0 - v /\ 0 - v + v = 0
      BY <2>3 DEF u, v
    <2>5. Gains(t, q, o, 0 - (u + v), 0, 0 - v)
      BY <2>1, <2>2, <2>3 DEF u, v
    <2>6. Gains(t, p1, o, 0 - (u + v), 0, 0 - v)
      BY <1>6, <2>4, <2>5
    <2>7. Gains(t, p2, o, 0 - (u + v) + u, 0, 0 - v)
      BY <1>10, <2>4, <2>6 DEF u
    <2>8. Gains(t, p2, o, 0 - v, 0, 0 - v)
      BY <2>4, <2>7
    <2>9. PICK w \in Int : w = 0 - v
      BY <2>4
    <2>10. Gains(t, st, o, w + One(c = o), 0, w + One(c = o))
      BY <1>4, <1>10, <2>8, <2>9, GainRelease
    <2>11. w + One(c = o) = 0
      BY <2>4, <2>9 DEF v
    <2> QED BY <2>10, <2>11
  <1> HIDE DEF st
  <1>13. Types
    BY DEF Inv, TypeOK
  <1>14. Types'
    BY <1>u, <1>13 DEF Types, counts, reaper
  <1>15. ASSUME NEW o \in Objects PROVE Books(t, st, o)
    BY <1>u, <1>12, <1>13 DEF Books, Gains, Types, counts
  <1>16. OrphanStep(t, st)
    <2>1. ASSUME NEW n \in Names, entry[n] # NULL
          PROVE  \/ HandleCount'[entry[n]] # 0 \/ Permanent'[entry[n]]
                 \/ \E s \in Range(st) : Watches(s, entry[n])
                 \/ /\ HandleCount'[entry[n]] = HandleCount[entry[n]] /\ Permanent'[entry[n]] = Permanent[entry[n]]
                    /\ ~Watches(a, entry[n])
      <3>1. entry[n] \in Objects
        BY <1>13, <2>1 DEF Types
      <3>2. CASE entry[n] = i
        <4>1. Step("namecheck", i) \in Range(st)
          BY <1>6, <1>10, <1>11, <2>1, <3>2
        <4>2. Watches(Step("namecheck", i), i)
          BY <3>1, <3>2, PlainStep DEF PlainOps, Watches
        <4> QED BY <3>2, <4>1, <4>2
      <3>3. CASE entry[n] # i
        BY <1>u, <1>3, <1>4, <3>3 DEF Watches, counts
      <3> QED BY <3>2, <3>3
    <2>2. Range(q) \subseteq Range(st) /\ entry' = entry
      BY <1>u, <1>6, <1>10, <1>11
    <2> QED BY <1>3, <2>1, <2>2, OrphanRun
  <1>17. FrameStep(t, st) /\ Directory' = Directory
    BY <1>u, <1>1, <1>11 DEF FrameStep, counts, reaper, Final, Serves, Stacked
  <1>18. Moves(t, st)
    BY <1>9, <1>11 DEF Moves, Stacked
  <1> QED BY <1>14, <1>15, <1>16, <1>17, <1>18, BooksKeep

\* The reference of a new handle keeps the invariant.
LEMMA KeepGrantHandle ==
  ASSUME Inv, NEW t \in Threads, GrantHandle(t)
  PROVE  Inv'
  <1>0. /\ At(t, "grant") /\ PointerCount' = Add(PointerCount, Obj(t), IF Arg(t).new THEN 1 ELSE 0)
        /\ Then(t, ReleaseContext(Arg(t).context) \o <<StepWith("exhandle", Obj(t), Arg(t))>>)
    BY DEF GrantHandle
  <1>u. /\ UNCHANGED <<live, HandleCount, QueryReferences, Name, Permanent, Directory, entry, handles, reaper, skipped>>
        /\ dirLock' = (IF dirLock = t THEN NULL ELSE dirLock)
    BY DEF GrantHandle, Unlock
  <1>1. PICK a, q : Serves(t, "grant", a, q)
    BY <1>0, Current
  <1>2. PICK x \in Objects : x = a.obj
    BY <1>1 DEF Serves
  <1>3. /\ a \in Range(todo[t]) /\ a \in StepType /\ a.op = "grant" /\ Runs(t, a, q) /\ Backed(a, Range(q))
        /\ Stacked(t, q) /\ q \in Seq(StepType)
    BY <1>1 DEF Serves
  <1> DEFINE b == StepWith("exhandle", x, a.arg)
  <1>4. /\ b \in StepType /\ b.op = "exhandle" /\ b.obj = a.obj /\ b.arg = a.arg /\ Fits(t, b)
        /\ x \in live /\ Free(t, x)
    BY <1>2, <1>3, HandleFits
  <1>5. PICK c \in Objects \cup {NULL}, new \in BOOLEAN :
           c = a.arg.context /\ new = a.arg.new /\ (c # NULL => Free(t, c))
    BY <1>2, <1>3, HandleFits
  <1> DEFINE p == <<b>> \o q  st == ReleaseContext(c) \o p
  <1>6. todo' = [todo EXCEPT ![t] = st]
    <2>1. todo' = [todo EXCEPT ![t] = (ReleaseContext(c) \o <<b>>) \o q]
      BY <1>0, <1>1, <1>2, <1>5 DEF Serves
    <2>2. ReleaseContext(c) \in Seq(StepType) /\ <<b>> \in Seq(StepType)
      BY <1>4, ReleaseSteps
    <2>3. Grouped(ReleaseContext(c), <<b>>, q)
      BY <1>3, <2>2, Regroup
    <2> QED BY <2>1, <2>3 DEF Grouped
  <1> HIDE DEF b
  <1>7. Backed(b, Range(q))
    BY <1>3, <1>4, BackedHandle
  <1>8. Stacked(t, p) /\ Range(p) = {b} \cup Range(q)
    BY <1>3, <1>4, <1>7, PutOne
  <1>9. ASSUME NEW o \in Objects PROVE Gains(t, st, o, One(x = o) - One(x = o /\ ~new), 0, 0)
    <2>1. Gains(t, p, o, Ref(b, o) - Ref(a, o), Hnd(b, o) - Hnd(a, o), Qry(b, o) - Qry(a, o))
      BY <1>3, <1>4, <1>7, GainSwap
    <2>2. Ref(a, o) = One(x = o /\ ~new) + One(c = o) /\ Hnd(a, o) = One(x = o) /\ Qry(a, o) = One(c = o)
      BY <1>2, <1>3, <1>5, OpWeights
    <2>3. Ref(b, o) = One(x = o) /\ Hnd(b, o) = One(x = o) /\ Qry(b, o) = 0
      BY <1>2, <1>4, OpWeights
    <2>4. One(x = o) \in Int /\ One(x = o /\ ~new) \in Int /\ One(c = o) \in Int
      BY DEF One
    <2> DEFINE u == One(x = o)  v == One(x = o /\ ~new)  w == One(c = o)
    <2>5. Gains(t, p, o, u - (v + w), u - u, 0 - w)
      BY <2>1, <2>2, <2>3
    <2>6. u \in Int /\ v \in Int /\ w \in Int
      BY <2>4
    <2> HIDE DEF u, v, p, st
    <2>7. PICK r \in Int, y \in Int : r = u - (v + w) /\ y = 0 - w
      BY <2>6
    <2>8. Gains(t, p, o, r, 0, y)
      BY <2>5, <2>6, <2>7
    <2>9. Gains(t, st, o, r + One(c = o), 0, y + One(c = o))
      BY <1>5, <1>8, <2>8, GainRelease DEF st
    <2>10. r + w = u - v /\ y + w = 0
      <3> HIDE DEF w
      <3> QED BY <2>6, <2>7
    <2> QED BY <2>9, <2>10 DEF u, v
  <1> HIDE DEF p
  <1>10. Stacked(t, st) /\ Range(p) \subseteq Range(st)
    BY <1>5, <1>8, PutRelease
  <1> HIDE DEF st
  <1>11. Types
    BY DEF Inv, TypeOK
  <1>12. PICK d \in Int : d = IF new THEN 1 ELSE 0
    OBVIOUS
  <1>13. PointerCount' = Add(PointerCount, x, d)
    BY <1>0, <1>1, <1>2, <1>5, <1>12 DEF Serves
  <1>14. PointerCount' \in [Objects -> Int] /\ \A o \in Objects : PointerCount'[o] = PointerCount[o] + (IF x = o THEN d ELSE 0)
    BY <1>11, <1>13, AddCounts
  <1>15. Types'
    BY <1>u, <1>11, <1>14 DEF Types, reaper
  <1>16. ASSUME NEW o \in Objects PROVE Books(t, st, o)
    BY <1>u, <1>9, <1>11, <1>12, <1>14 DEF Books, Gains, Types, One
  <1>17. OrphanStep(t, st)
    <2>1. \A n \in Names : ~Watches(a, entry[n])
      BY <1>3 DEF Watches
    <2> QED BY <1>u, <1>3, <1>8, <1>10, <2>1, OrphanRun
  <1>18. FrameStep(t, st) /\ Directory' = Directory
    <2>1. PointerCount[x] >= 1
      BY <1>1, <1>2, <1>3, HandlePinned
    <2>2. ASSUME NEW o \in live
          PROVE  PointerCount'[o] = PointerCount[o] \/ (PointerCount[o] # 0 /\ PointerCount'[o] # 0)
      <3>1. o \in Objects /\ PointerCount[o] \in Int
        BY <1>11 DEF Types
      <3> QED BY <1>12, <1>14, <2>1, <3>1
    <2> QED BY <1>u, <1>1, <1>10, <2>2 DEF FrameStep, reaper, Final, Serves, Stacked
  <1>19. Moves(t, st)
    BY <1>6, <1>10 DEF Moves, Stacked
  <1> QED BY <1>15, <1>16, <1>17, <1>18, <1>19, BooksKeep

\* ExCreateHandle keeps the invariant.
LEMMA KeepExCreateHandle ==
  ASSUME Inv, NEW t \in Threads, ExCreateHandle(t)
  PROVE  Inv'
  <1>0. At(t, "exhandle") /\ handles' = Add(handles, Obj(t), 1) /\ Then(t, << >>)
    BY DEF ExCreateHandle
  <1>u. UNCHANGED <<live, counts, name, reaper, skipped>>
    BY DEF ExCreateHandle
  <1>1. PICK a, q : Serves(t, "exhandle", a, q)
    BY <1>0, Current
  <1>2. PICK x \in Objects : x = a.obj
    BY <1>1 DEF Serves
  <1>3. /\ a \in Range(todo[t]) /\ a \in StepType /\ a.op = "exhandle" /\ Runs(t, a, q)
        /\ Stacked(t, q) /\ q \in Seq(StepType)
    BY <1>1 DEF Serves
  <1>4. Free(t, x) /\ x \in live
    BY <1>2, <1>3, FreeIf DEF Free, Has, Passing
  <1>5. todo' = [todo EXCEPT ![t] = q] /\ handles' = Add(handles, x, 1)
    <2>1. << >> \o q = q
      BY <1>3, ConcatEmptySeq
    <2> QED BY <1>0, <1>1, <1>2, <2>1 DEF Serves
  <1>6. ASSUME NEW o \in Objects PROVE Gains(t, q, o, 0 - One(x = o), 0 - One(x = o), 0)
    <2>1. Gains(t, q, o, 0 - Ref(a, o), 0 - Hnd(a, o), 0 - Qry(a, o))
      BY <1>3, GainPop
    <2>2. Ref(a, o) = One(x = o) /\ Hnd(a, o) = One(x = o) /\ Qry(a, o) = 0
      BY <1>2, <1>3, OpWeights
    <2> QED BY <2>1, <2>2
  <1>7. Types /\ handles \in [Objects -> Nat] /\ handles[x] + 1 >= 0 /\ 1 \in Int
    <2>1. Types /\ handles \in [Objects -> Nat]
      BY DEF Inv, TypeOK, Types
    <2> QED BY <2>1
  <1>8. handles' \in [Objects -> Nat] /\ \A o \in Objects : handles'[o] = handles[o] + (IF x = o THEN 1 ELSE 0)
    <2>1. /\ Add(handles, x, 1) \in [Objects -> Nat]
          /\ \A o \in Objects : Add(handles, x, 1)[o] = handles[o] + (IF x = o THEN 1 ELSE 0)
      BY <1>7, AddNat
    <2> QED BY <1>5, <2>1
  <1>9. Types'
    BY <1>u, <1>7, <1>8 DEF Types, counts, name, reaper
  <1>10. ASSUME NEW o \in Objects PROVE Books(t, q, o)
    BY <1>u, <1>6, <1>7, <1>8 DEF Books, Gains, Types, One, counts
  <1>11. OrphanStep(t, q)
    <2>1. \A n \in Names : ~Watches(a, entry[n])
      BY <1>3 DEF Watches
    <2> QED BY <1>u, <1>3, <2>1, OrphanRun DEF counts, name
  <1>12. FrameStep(t, q) /\ Directory' = Directory
    <2>1. \A o \in Objects : Free(t, o) \/ (handles'[o] = handles[o] /\ QueryReferences'[o] = QueryReferences[o])
      BY <1>u, <1>4, <1>7, <1>8 DEF counts
    <2> QED BY <1>u, <1>1, <2>1 DEF FrameStep, counts, name, reaper, Final, Serves, Stacked
  <1>13. Moves(t, q)
    BY <1>3, <1>5 DEF Moves, Stacked
  <1> QED BY <1>9, <1>10, <1>11, <1>12, <1>13, BooksKeep

\* An object a later step has a reference to has not lost its last one.
LEMMA StillReferenced ==
  ASSUME Inv, Types', NEW t \in Threads, NEW st, Moves(t, st), CountsStep(t, st), NEW x \in live,
         \E s \in Range(st) : OwnsReference(s, x)
  PROVE  PointerCount'[x] >= 1
  <1>0. Types /\ Sounds
    BY SoundsIs DEF Inv
  <1>1. todo' \in StacksType /\ todo'[t] = st
    BY <1>0, StackTo DEF Moves
  <1>2. PointerCount'[x] = handles'[x] + Entered(x)' + skipped'[x] + RefT(todo', x)
    BY CountsKept
  <1>3. RefT(todo', x) # 0
    BY <1>1, NoReferences
  <1>4. RefT(todo', x) \in Nat
    BY <1>1, TotalsNat
  <1>5. x \in Objects /\ handles'[x] \in Nat /\ skipped'[x] \in Nat /\ Entered(x)' \in {0, 1}
    BY <1>0, EnteredWillBe DEF Types
  <1> QED BY <1>2, <1>3, <1>4, <1>5

\* ExCreateHandle without memory keeps the invariant.
LEMMA KeepExCreateHandleFails ==
  ASSUME Inv, NEW t \in Threads, ExCreateHandleFails(t)
  PROVE  Inv'
  <1>1. PICK a, q : Serves(t, "exhandle", a, q)
    BY Current DEF ExCreateHandleFails
  <1>2. PICK x \in Objects : x = a.obj
    BY <1>1 DEF Serves
  <1>3. /\ a \in Range(todo[t]) /\ a \in StepType /\ a.op = "exhandle" /\ Runs(t, a, q) /\ Backed(a, Range(q))
        /\ Stacked(t, q) /\ q \in Seq(StepType) /\ Range(q) \subseteq Range(todo[t]) /\ Obj(t) = a.obj /\ Arg(t) = a.arg
    BY <1>1 DEF Serves
  <1>4. PICK i \in Objects \cup {NULL}, new \in BOOLEAN : i = a.arg.inserted /\ new = a.arg.new
    BY <1>3, StepKinds DEF HandleArg
  <1>5. PICK un \in BOOLEAN : un = (new /\ i = NULL)
    OBVIOUS
  <1> DEFINE D == IF un THEN << >> ELSE <<Deref(x)>>  b == Step("dechandle", x)
             p1 == BackOut(a.arg) \o q
             p2 == D \o p1
             st == <<b>> \o p2
  <1>0. /\ PointerCount' = Add(PointerCount, x, IF un THEN -1 ELSE 0)
        /\ Then(t, <<b>> \o D \o BackOut(a.arg))
    BY <1>2, <1>3, <1>4, <1>5 DEF ExCreateHandleFails
  <1>u. UNCHANGED <<live, HandleCount, QueryReferences, name, handles, reaper, skipped>>
    BY DEF ExCreateHandleFails
  <1>6. Free(t, x) /\ x \in live
    BY <1>2, <1>3, FreeIf DEF Free, Has, Passing
  <1>7. b \in StepType /\ b.op = "dechandle" /\ b.obj = x /\ Fits(t, b) /\ <<b>> \in Seq(StepType)
    BY <1>6, PlainStep, PlainFits DEF PlainOps
  <1>8. i # NULL => Deref(i) \in Range(q) /\ DerefName(i) \in Range(q)
    BY <1>3, <1>4, BackedHandle
  <1>9. /\ Stacked(t, p1) /\ Range(q) \subseteq Range(p1) /\ BackOut(a.arg) \in Seq(StepType)
        /\ i # NULL => Step("namecheck", i) \in Range(p1)
        /\ \A o, r, k, y : r \in Int /\ k \in Int /\ y \in Int /\ Gains(t, q, o, r, k, y) => Gains(t, p1, o, r, k, y)
    BY <1>3, <1>4, <1>8, PutBackOut
  <1>10. D \in Seq(StepType)
    <2>1. Deref(x) \in StepType
      BY PlainStep DEF PlainOps, Deref
    <2> QED BY <2>1, EmptySeq
  <1>11. todo' = [todo EXCEPT ![t] = st]
    <2>1. todo' = [todo EXCEPT ![t] = (<<b>> \o D \o BackOut(a.arg)) \o q]
      BY <1>0, <1>1 DEF Serves
    <2>2. GroupedThree(<<b>>, D, BackOut(a.arg), q)
      BY <1>3, <1>7, <1>9, <1>10, RegroupThree
    <2> QED BY <2>1, <2>2 DEF GroupedThree
  <1> HIDE DEF p1
  <1>12. /\ Stacked(t, p2) /\ Range(p1) \subseteq Range(p2) /\ (~un => Deref(x) \in Range(p2))
         /\ \A o, r, k, y : r \in Int /\ k \in Int /\ y \in Int /\ Gains(t, p1, o, r, k, y)
                   => Gains(t, p2, o, r + One(x = o /\ ~un), k, y)
    BY <1>6, <1>9, PutDeref
  <1> HIDE DEF p2, D, b
  <1>13. Deref(x) \in Range(p2)
    <2>1. ASSUME un PROVE Deref(x) \in Range(q)
      <3>1. a.arg.inserted = NULL /\ a.arg.new
        BY <1>4, <1>5, <2>1
      <3>2. a.op = "exhandle" /\ Backed(a, Range(q))
        BY <1>3
      <3> QED BY <1>2, <3>1, <3>2, BackedHandle
    <2> QED BY <1>9, <1>12, <2>1
  <1>14. Backed(b, Range(p2)) /\ Sound(p2)
    BY <1>7, <1>12, <1>13, BackedIs DEF Stacked
  <1>15. Sound(st) /\ Range(st) = {b} \cup Range(p2) /\ \A s \in Range(st) : Fits(t, s)
    BY <1>7, <1>12, <1>14, PutOne
  <1>16. ASSUME NEW o \in Objects PROVE Gains(t, st, o, One(x = o /\ ~un) - One(x = o), 0, 0)
    <2>1. Gains(t, q, o, 0 - Ref(a, o), 0 - Hnd(a, o), 0 - Qry(a, o))
      BY <1>3, GainPop
    <2>2. Ref(a, o) = One(x = o) /\ Hnd(a, o) = One(x = o) /\ Qry(a, o) = 0
      BY <1>2, <1>3, OpWeights
    <2>3. Ref(b, o) = 0 /\ Hnd(b, o) = One(x = o) /\ Qry(b, o) = 0
      BY <1>7, OpWeights
    <2>4. PICK u \in Int, v \in Int, w \in Int : u = One(x = o) /\ v = One(x = o /\ ~un) /\ w = 0 - u
      BY DEF One
    <2>5. Gains(t, q, o, w, w, 0)
      BY <2>1, <2>2, <2>4
    <2>6. Gains(t, p1, o, w, w, 0)
      BY <1>9, <2>5
    <2>7. Gains(t, p2, o, w + v, w, 0)
      BY <1>12, <2>4, <2>6
    <2>8. PICK z \in Int : z = w + v
      BY <2>4
    <2>9. Gains(t, st, o, z + Ref(b, o), w + Hnd(b, o), 0 + Qry(b, o))
      BY <1>7, <1>14, <2>7, <2>8, GainPush
    <2>10. z + Ref(b, o) = v - u /\ w + Hnd(b, o) = 0 /\ 0 + Qry(b, o) = 0
      BY <2>3, <2>4, <2>8
    <2> QED BY <2>4, <2>9, <2>10
  <1> HIDE DEF st
  <1>17. Types
    BY DEF Inv, TypeOK
  <1>18. PICK d \in Int : d = IF un THEN -1 ELSE 0
    OBVIOUS
  <1>19. PointerCount' \in [Objects -> Int] /\ \A o \in Objects : PointerCount'[o] = PointerCount[o] + (IF x = o THEN d ELSE 0)
    <2>1. PointerCount' = Add(PointerCount, x, d)
      BY <1>0, <1>18
    <2> QED BY <1>17, <2>1, AddCounts
  <1>20. Types'
    BY <1>u, <1>17, <1>19 DEF Types, name, reaper
  <1>21. ASSUME NEW o \in Objects PROVE Books(t, st, o)
    BY <1>u, <1>16, <1>17, <1>18, <1>19 DEF Books, Gains, Types, One
  <1>22. OrphanStep(t, st)
    <2>1. \A n \in Names : ~Watches(a, entry[n])
      BY <1>3 DEF Watches
    <2>2. Range(q) \subseteq Range(st)
      BY <1>9, <1>12, <1>15
    <2> QED BY <1>u, <1>3, <2>1, <2>2, OrphanRun DEF name
  <1>23. Moves(t, st)
    BY <1>11, <1>15 DEF Moves
  <1>24. PointerCount'[x] >= 1 /\ PointerCount[x] >= 1
    <2>1. OwnsReference(Deref(x), x) /\ OwnsReference(a, x)
      <3>1. Deref(x).op = "deref" /\ Deref(x).obj = x
        BY PlainStep DEF PlainOps, Deref
      <3> QED BY <1>2, <1>3, <3>1 DEF OwnsReference
    <2>2. CountsStep(t, st)
      BY <1>u, <1>15, <1>20, <1>21, BooksCounts DEF name
    <2>3. PointerCount'[x] >= 1
      BY <1>6, <1>13, <1>15, <1>20, <1>23, <2>1, <2>2, StillReferenced
    <2>4. PointerCount[x] >= 1
      BY <1>3, <1>6, <2>1, Referenced
    <2> QED BY <2>3, <2>4
  <1>25. FrameStep(t, st) /\ Directory' = Directory
    <2>1. ASSUME NEW o \in live
          PROVE  PointerCount'[o] = PointerCount[o] \/ (PointerCount[o] # 0 /\ PointerCount'[o] # 0)
      <3>1. o \in Objects /\ PointerCount[o] \in Int
        BY <1>17 DEF Types
      <3> QED BY <1>19, <1>24, <3>1
    <2> QED BY <1>u, <1>1, <1>15, <2>1 DEF FrameStep, name, reaper, Final, Serves
  <1> QED BY <1>20, <1>21, <1>22, <1>23, <1>25, BooksKeep

-----------------------------------------------------------------------------
\* A call begins with one step,
LEMMA BeginOne ==
  ASSUME Inv, NEW t \in Threads, todo[t] = << >>, NEW b \in StepType, Backed(b, {}), Fits(t, b)
  PROVE  /\ Sound(<<b>>) /\ Range(<<b>>) = {b} /\ \A s \in Range(<<b>>) : Fits(t, s)
         /\ \A o : Gains(t, <<b>>, o, Ref(b, o), Hnd(b, o), Qry(b, o))
         /\ b.op \in {"deref", "derefname", "namecheck", "exhandle"} => Stacked(t, <<b>>)
  <1>1. <<b>> \o << >> = <<b>>
    <2>1. <<b>> \in Seq(StepType)
      OBVIOUS
    <2> QED BY <2>1, ConcatEmptySeq
  <1>2. Stacked(t, << >>) /\ Sound(<< >>) /\ Range(<< >>) = {} /\ Backed(b, Range(<< >>))
    BY StackedIdle, SoundEmpty
  <1> DEFINE e == << >>  st == <<b>> \o e
  <1>3. /\ Sound(st) /\ Range(st) = {b} \cup Range(e) /\ \A s \in Range(st) : Fits(t, s)
        /\ b.op \in {"deref", "derefname", "namecheck", "exhandle"} => Stacked(t, st)
    BY <1>2, PutOne
  <1>4. ASSUME NEW o PROVE Gains(t, st, o, Ref(b, o), Hnd(b, o), Qry(b, o))
    <2>1. Gains(t, e, o, 0, 0, 0) /\ Sound(e) /\ Backed(b, Range(e))
      BY <1>2, GainIdle
    <2> HIDE DEF e
    <2>0. PICK z \in Int : z = 0
      OBVIOUS
    <2>2. Gains(t, st, o, z + Ref(b, o), z + Hnd(b, o), z + Qry(b, o))
      BY <2>0, <2>1, GainPush
    <2>3. Ref(b, o) \in 0 .. 2 /\ Hnd(b, o) \in 0 .. 1 /\ Qry(b, o) \in 0 .. 1
      BY Weights
    <2>4. z + Ref(b, o) = Ref(b, o) /\ z + Hnd(b, o) = Hnd(b, o) /\ z + Qry(b, o) = Qry(b, o)
      BY <2>0, <2>3
    <2> QED BY <2>2, <2>4
  <1> QED BY <1>1, <1>2, <1>3, <1>4

\* or with one and the dropping of its reference.
LEMMA BeginTwo ==
  ASSUME Inv, NEW t \in Threads, todo[t] = << >>, NEW x \in Objects, x \in live,
         NEW b \in StepType, Backed(b, {Deref(x)}), Fits(t, b)
  PROVE  LET st == <<b, Deref(x)>>
         IN  /\ Sound(st) /\ Range(st) = {b, Deref(x)} /\ \A s \in Range(st) : Fits(t, s)
             /\ \A o : Gains(t, st, o, One(x = o) + Ref(b, o), Hnd(b, o), Qry(b, o))
  <1> DEFINE c == Deref(x)  st == <<b, c>>  p == <<c>>  pp == <<b>> \o p
  <1>1. c \in StepType /\ c.op = "deref" /\ c.obj = x /\ Fits(t, c)
    BY PlainStep, PlainFits DEF PlainOps, Deref, Passing
  <1> HIDE DEF c
  <1>2. pp = st
    <2>1. << >> \in Seq(StepType)
      BY EmptySeq
    <2>2. p \in Seq(StepType) /\ st \in Seq(StepType)
      BY <1>1
    <2>3. <<b, c>> \o << >> = <<b>> \o (<<c>> \o << >>)
      BY <1>1, <2>1, Unfold
    <2>4. <<b, c>> \o << >> = <<b, c>> /\ <<c>> \o << >> = <<c>>
      BY <2>2, ConcatEmptySeq
    <2> QED BY <2>3, <2>4
  <1>3. Backed(c, {})
    BY <1>1, BackedIs DEF Patient
  <1>4. Sound(p) /\ Range(p) = {c} /\ Stacked(t, p) /\ \A o : Gains(t, p, o, Ref(c, o), Hnd(c, o), Qry(c, o))
    BY <1>1, <1>3, BeginOne
  <1> HIDE DEF p, st
  <1>5. Backed(b, Range(p))
    BY <1>4 DEF c
  <1>6. Sound(pp) /\ Range(pp) = {b} \cup Range(p) /\ \A s \in Range(pp) : Fits(t, s)
    BY <1>4, <1>5, PutOne
  <1>7. ASSUME NEW o PROVE Gains(t, pp, o, One(x = o) + Ref(b, o), Hnd(b, o), Qry(b, o))
    <2>1. Ref(c, o) = One(x = o) /\ Hnd(c, o) = 0 /\ Qry(c, o) = 0
      BY <1>1, OpWeights
    <2>2. PICK u \in Int : u = One(x = o)
      BY DEF One
    <2>0. PICK z \in Int : z = 0
      OBVIOUS
    <2>3. Gains(t, p, o, u, z, z)
      BY <1>4, <2>0, <2>1, <2>2
    <2>4. Gains(t, pp, o, u + Ref(b, o), z + Hnd(b, o), z + Qry(b, o))
      BY <1>4, <1>5, <2>3, GainPush
    <2>5. Ref(b, o) \in 0 .. 2 /\ Hnd(b, o) \in 0 .. 1 /\ Qry(b, o) \in 0 .. 1
      BY Weights
    <2>6. z + Hnd(b, o) = Hnd(b, o) /\ z + Qry(b, o) = Qry(b, o)
      BY <2>0, <2>5
    <2> QED BY <2>2, <2>4, <2>6
  <1> HIDE DEF pp
  <1>8. Range(pp) = {b, c}
    BY <1>4, <1>6
  <1> QED BY <1>2, <1>6, <1>7, <1>8 DEF st, c

\* A call that takes n references and m query references, for its steps to
\* drop, keeps the invariant.
LEMMA BeginKeeps ==
  ASSUME Inv, NEW t \in Threads, todo[t] = << >>, NEW st, Sound(st), \A s \in Range(st) : Fits(t, s),
         todo' = [todo EXCEPT ![t] = st], NEW x \in Objects, x \in live, PointerCount[x] >= 1,
         NEW n \in Nat, NEW m \in Nat, m = 0 \/ Free(t, x),
         PointerCount' = Add(PointerCount, x, n), QueryReferences' = Add(QueryReferences, x, m),
         UNCHANGED <<live, HandleCount, name, handles, reaper, skipped>>,
         \A o \in Objects : Gains(t, st, o, IF x = o THEN n ELSE 0, 0, IF x = o THEN m ELSE 0)
  PROVE  Inv'
  <1>1. Types /\ n \in Int /\ m \in Int
    BY DEF Inv, TypeOK
  <1>2. PointerCount' \in [Objects -> Int] /\ \A o \in Objects : PointerCount'[o] = PointerCount[o] + (IF x = o THEN n ELSE 0)
    BY <1>1, AddCounts
  <1>3. QueryReferences' \in [Objects -> Int] /\ \A o \in Objects : QueryReferences'[o] = QueryReferences[o] + (IF x = o THEN m ELSE 0)
    BY <1>1, AddCounts
  <1>4. Types'
    BY <1>1, <1>2, <1>3 DEF Types, name, reaper
  <1>5. ASSUME NEW o \in Objects PROVE Books(t, st, o)
    <2>1. Gains(t, st, o, IF x = o THEN n ELSE 0, 0, IF x = o THEN m ELSE 0)
      OBVIOUS
    <2>2. /\ PointerCount[o] \in Int /\ HandleCount[o] \in Int /\ QueryReferences[o] \in Int
          /\ handles[o] \in Nat /\ skipped[o] \in Nat
      BY <1>1 DEF Types
    <2> QED BY <1>2, <1>3, <2>1, <2>2 DEF Books, Gains
  <1>6. OrphanStep(t, st)
    BY OrphanIdle DEF name
  <1>7. FrameStep(t, st) /\ Directory' = Directory
    <2>1. ASSUME NEW o \in live
          PROVE  PointerCount'[o] = PointerCount[o] \/ (PointerCount[o] # 0 /\ PointerCount'[o] # 0)
      <3>1. o \in Objects /\ PointerCount[o] \in Int
        BY <1>1 DEF Types
      <3> QED BY <1>2, <3>1
    <2>2. ASSUME NEW o \in Objects PROVE Free(t, o) \/ (handles'[o] = handles[o] /\ QueryReferences'[o] = QueryReferences[o])
      <3>1. QueryReferences[o] \in Int
        BY <1>1 DEF Types
      <3> QED BY <1>3, <3>1
    <2>3. Living(todo[t])
      BY DEF Living
    <2> QED BY <2>1, <2>2, <2>3 DEF FrameStep, name, reaper
  <1>8. Moves(t, st)
    BY DEF Moves
  <1> QED BY <1>4, <1>5, <1>6, <1>7, <1>8, BooksKeep

\* A handle to be made.
LEMMA NewHandleStep ==
  ASSUME NEW t \in Threads, NEW x \in Objects, x \in live, Free(t, x), NEW new \in BOOLEAN,
         NEW c \in Objects \cup {NULL}, c # NULL => Free(t, c), NEW i \in Objects \cup {NULL}
  PROVE  LET b == CountHandle(x, new, c, i)
         IN  /\ b \in StepType /\ b.op = "counthandle" /\ b.obj = x /\ Fits(t, b)
             /\ b.arg.new = new /\ b.arg.context = c /\ b.arg.inserted = i
             /\ \A o : /\ Ref(b, o) = One(x = o /\ ~new) + One(c = o)
                      /\ Hnd(b, o) = 0 /\ Qry(b, o) = One(c = o)
  <1> DEFINE h == [new |-> new, context |-> c, inserted |-> i]  b == StepWith("counthandle", x, h)
  <1>1. h \in HandleArg /\ h.new = new /\ h.context = c /\ h.inserted = i
    BY HandleArgs
  <1> HIDE DEF h
  <1>2. b \in StepType /\ b.op = "counthandle" /\ b.obj = x /\ b.arg = h
    BY <1>1, HandleStep
  <1>3. b = CountHandle(x, new, c, i)
    BY DEF CountHandle, h
  <1> HIDE DEF b
  <1>4. ASSUME NEW o \in Objects, Has(b, o) PROVE o \in live /\ Free(t, o)
    <2>1. o = x \/ o = c
      BY <1>1, <1>2, <1>4 DEF Has, OwnsContext
    <2>2. Free(t, o)
      BY <2>1, ObjectAssumption
    <2> QED BY <2>2 DEF Free
  <1>5. Fits(t, b)
    BY <1>2, <1>4 DEF Fits, Final
  <1>6. ASSUME NEW o
        PROVE  Ref(b, o) = One(x = o /\ ~new) + One(c = o) /\ Hnd(b, o) = 0 /\ Qry(b, o) = One(c = o)
    BY <1>1, <1>2, OpWeights
  <1> QED BY <1>1, <1>2, <1>3, <1>5, <1>6

\* ObOpenObjectByName keeps the invariant.
LEMMA KeepOpenObjectByName ==
  ASSUME Inv, NEW t \in Threads, NEW n \in Names, ObOpenObjectByName(t, n)
  PROVE  Inv'
  <1>1. PICK x \in Objects : x = entry[n]
    BY DEF ObOpenObjectByName, Inv, TypeOK, Types
  <1>2. Entered(x) = 1
    BY <1>1, EnteredIs
  <1>3. Free(t, x) /\ x \in live
    <2>1. Free(t, x)
      BY <1>2, FreeIf
    <2> QED BY <2>1 DEF Free
  <1>4. PointerCount[x] >= 1
    BY <1>2, <1>3, Referenced
  <1> DEFINE b == CountHandle(x, FALSE, x, NULL)
  <1>f. PICK f \in BOOLEAN, z \in Objects \cup {NULL} : f = FALSE /\ z = NULL
    OBVIOUS
  <1>5. /\ b \in StepType /\ b.op = "counthandle" /\ b.obj = x /\ Fits(t, b)
        /\ b.arg.new = FALSE /\ b.arg.context = x /\ b.arg.inserted = NULL
        /\ \A o : /\ Ref(b, o) = One(x = o /\ ~FALSE) + One(x = o)
                 /\ Hnd(b, o) = 0 /\ Qry(b, o) = One(x = o)
    <2>1. LET bb == CountHandle(x, f, x, z)
          IN  /\ bb \in StepType /\ bb.op = "counthandle" /\ bb.obj = x /\ Fits(t, bb)
              /\ bb.arg.new = f /\ bb.arg.context = x /\ bb.arg.inserted = z
              /\ \A o : /\ Ref(bb, o) = One(x = o /\ ~f) + One(x = o)
                       /\ Hnd(bb, o) = 0 /\ Qry(bb, o) = One(x = o)
      BY <1>3, NewHandleStep
    <2> QED BY <1>f, <2>1
  <1>6. todo' = [todo EXCEPT ![t] = <<b>>] /\ todo[t] = << >>
    BY <1>1 DEF ObOpenObjectByName
  <1>7. /\ PointerCount' = Add(PointerCount, x, 2) /\ QueryReferences' = Add(QueryReferences, x, 1)
        /\ UNCHANGED <<live, HandleCount, name, handles, reaper, skipped>>
    BY <1>1 DEF ObOpenObjectByName
  <1> HIDE DEF b
  <1>8. Backed(b, {})
    BY <1>5, BackedHandle DEF Patient
  <1>9. Sound(<<b>>) /\ \A s \in Range(<<b>>) : Fits(t, s)
    BY <1>5, <1>6, <1>8, BeginOne
  <1>10. \A o : Gains(t, <<b>>, o, Ref(b, o), Hnd(b, o), Qry(b, o))
    BY <1>5, <1>6, <1>8, BeginOne
  <1> DEFINE st == <<b>>
  <1>11. \A o \in Objects : Gains(t, st, o, IF x = o THEN 2 ELSE 0, 0, IF x = o THEN 1 ELSE 0)
    BY <1>5, <1>10 DEF One
  <1>12. Sound(st) /\ (\A s \in Range(st) : Fits(t, s)) /\ todo' = [todo EXCEPT ![t] = st]
    BY <1>6, <1>9
  <1> HIDE DEF st
  <1>13. PICK k \in Nat, m \in Nat : k = 2 /\ m = 1
    OBVIOUS
  <1>14. /\ PointerCount' = Add(PointerCount, x, k) /\ QueryReferences' = Add(QueryReferences, x, m)
         /\ \A o \in Objects : Gains(t, st, o, IF x = o THEN k ELSE 0, 0, IF x = o THEN m ELSE 0)
    BY <1>7, <1>11, <1>13
  <1> QED BY <1>3, <1>4, <1>6, <1>7, <1>12, <1>14, BeginKeeps

\* Nothing is added.
LEMMA AddZero ==
  ASSUME Types, NEW x \in Objects
  PROVE  Add(QueryReferences, x, 0) = QueryReferences
  BY DEF Types, Add

\* ObReferenceObjectSafe keeps the invariant.
LEMMA KeepReferenceObjectSafe ==
  ASSUME Inv, NEW t \in Threads, NEW x \in Objects, ObReferenceObjectSafe(t, x)
  PROVE  Inv'
  <1> DEFINE b == Deref(x)  st == <<b>>
  <1>1. /\ todo[t] = << >> /\ x \in live /\ PointerCount[x] # 0
        /\ PointerCount' = Add(PointerCount, x, 1) /\ todo' = [todo EXCEPT ![t] = st]
        /\ UNCHANGED <<live, HandleCount, QueryReferences, name, handles, reaper, skipped>>
    BY DEF ObReferenceObjectSafe
  <1>2. QueryReferences' = Add(QueryReferences, x, 0)
    BY <1>1, AddZero DEF Inv, TypeOK
  <1>3. PointerCount[x] >= 1
    BY <1>1, CountsNat
  <1>4. b \in StepType /\ b.op = "deref" /\ b.obj = x /\ Fits(t, b)
    BY <1>1, PlainStep, PlainFits DEF PlainOps, Deref, Passing
  <1> HIDE DEF b
  <1>5. Backed(b, {})
    BY <1>4, BackedIs DEF Patient
  <1>6. Sound(st) /\ \A s \in Range(st) : Fits(t, s)
    BY <1>1, <1>4, <1>5, BeginOne
  <1>7. \A o : Gains(t, st, o, Ref(b, o), Hnd(b, o), Qry(b, o))
    BY <1>1, <1>4, <1>5, BeginOne
  <1>8. \A o \in Objects : Gains(t, st, o, IF x = o THEN 1 ELSE 0, 0, IF x = o THEN 0 ELSE 0)
    BY <1>4, <1>7, OpWeights DEF One
  <1> HIDE DEF st
  <1>9. 0 \in Nat /\ 1 \in Nat
    OBVIOUS
  <1> QED BY <1>1, <1>2, <1>3, <1>6, <1>8, <1>9, BeginKeeps

\* ObReferenceObjectByHandle keeps the invariant.
LEMMA KeepReferenceByHandle ==
  ASSUME Inv, NEW t \in Threads, NEW x \in Objects, NEW then \in {"drop", "open", "temporary", "defer"},
         ReferenceByHandle(t, x, then)
  PROVE  Inv'
  <1>1. /\ todo[t] = << >> /\ handles[x] > 0
        /\ PointerCount' = Add(PointerCount, x, IF then = "open" THEN 2 ELSE 1)
        /\ UNCHANGED <<live, HandleCount, QueryReferences, name, handles, reaper, skipped>>
    BY DEF ReferenceByHandle
  <1>2. Free(t, x)
    BY <1>1, FreeIf
  <1>3. x \in live /\ PointerCount[x] >= 1
    BY <1>1, <1>2, Referenced DEF Free
  <1>4. QueryReferences' = Add(QueryReferences, x, 0)
    BY <1>1, AddZero DEF Inv, TypeOK
  <1>5. ASSUME NEW st, Sound(st), \A s \in Range(st) : Fits(t, s), todo' = [todo EXCEPT ![t] = st],
               NEW n \in Nat, PointerCount' = Add(PointerCount, x, n),
               \A o \in Objects : Gains(t, st, o, IF x = o THEN n ELSE 0, 0, 0)
        PROVE  Inv'
    <2>1. PICK m \in Nat : m = 0
      OBVIOUS
    <2>2. \A o \in Objects : Gains(t, st, o, IF x = o THEN n ELSE 0, 0, IF x = o THEN m ELSE 0)
      BY <1>5, <2>1
    <2>3. QueryReferences' = Add(QueryReferences, x, m)
      BY <1>4, <2>1
    <2>4. todo[t] = << >> /\ (m = 0 \/ Free(t, x)) /\ UNCHANGED <<live, HandleCount, name, handles, reaper, skipped>>
      BY <1>1, <1>2
    <2> QED BY <1>3, <1>5, <2>2, <2>3, <2>4, BeginKeeps
  <1> DEFINE d == Deref(x)
  <1>6. d \in StepType /\ d.op = "deref" /\ d.obj = x /\ Fits(t, d)
    BY <1>3, PlainStep, PlainFits DEF PlainOps, Deref, Passing
  <1>7. Backed(d, {})
    BY <1>6, BackedIs DEF Patient
  <1>8. CASE then = "drop"
    <2> DEFINE st == <<d>>
    <2>1. todo' = [todo EXCEPT ![t] = st] /\ PointerCount' = Add(PointerCount, x, 1)
      BY <1>1, <1>8 DEF ReferenceByHandle
    <2> HIDE DEF d
    <2>2. /\ Sound(st) /\ (\A s \in Range(st) : Fits(t, s))
          /\ \A o : Gains(t, st, o, Ref(d, o), Hnd(d, o), Qry(d, o))
      BY <1>1, <1>6, <1>7, BeginOne
    <2>3. \A o \in Objects : Gains(t, st, o, IF x = o THEN 1 ELSE 0, 0, 0)
      BY <1>6, <2>2, OpWeights DEF One
    <2> HIDE DEF st
    <2> QED BY <1>5, <2>1, <2>2, <2>3
  <1>9. CASE then = "defer"
    <2> DEFINE b == Step("deferdelete", x)  st == <<b>>
    <2>0. b \in StepType /\ b.op = "deferdelete" /\ b.obj = x /\ Fits(t, b)
      BY <1>2, <1>3, PlainStep, PlainFits DEF PlainOps
    <2>1. todo' = [todo EXCEPT ![t] = st] /\ PointerCount' = Add(PointerCount, x, 1)
      BY <1>1, <1>9 DEF ReferenceByHandle
    <2> HIDE DEF b
    <2>2. Backed(b, {})
      BY <2>0, BackedIs DEF Patient
    <2>3. /\ Sound(st) /\ (\A s \in Range(st) : Fits(t, s))
          /\ \A o : Gains(t, st, o, Ref(b, o), Hnd(b, o), Qry(b, o))
      BY <1>1, <2>0, <2>2, BeginOne
    <2>4. \A o \in Objects : Gains(t, st, o, IF x = o THEN 1 ELSE 0, 0, 0)
      BY <2>0, <2>3, OpWeights DEF One
    <2> HIDE DEF st
    <2> QED BY <1>5, <2>1, <2>3, <2>4
  <1>10. CASE then = "temporary"
    <2> DEFINE b == Step("temporary", x)  st == <<b, d>>
    <2>0. b \in StepType /\ b.op = "temporary" /\ b.obj = x /\ Fits(t, b)
      BY <1>2, <1>3, PlainStep, PlainFits DEF PlainOps
    <2>1. todo' = [todo EXCEPT ![t] = st] /\ PointerCount' = Add(PointerCount, x, 1)
      BY <1>1, <1>10 DEF ReferenceByHandle
    <2> HIDE DEF b
    <2>2. Backed(b, {d})
      BY <1>6, <2>0, BackedIs DEF Patient
    <2>3. /\ Sound(st) /\ (\A s \in Range(st) : Fits(t, s))
          /\ \A o : Gains(t, st, o, One(x = o) + Ref(b, o), Hnd(b, o), Qry(b, o))
      BY <1>1, <1>3, <2>0, <2>2, BeginTwo
    <2> HIDE DEF st, d
    <2>4. \A o \in Objects : Gains(t, st, o, IF x = o THEN 1 ELSE 0, 0, 0)
      BY <2>0, <2>3, OpWeights DEF One
    <2> QED BY <1>5, <2>1, <2>3, <2>4
  <1>11. CASE then = "open"
    <2> DEFINE b == CountHandle(x, FALSE, NULL, NULL)  st == <<b, d>>
    <2>f. PICK f \in BOOLEAN, z \in Objects \cup {NULL} : f = FALSE /\ z = NULL
      OBVIOUS
    <2>0. /\ b \in StepType /\ b.op = "counthandle" /\ b.obj = x /\ Fits(t, b)
          /\ b.arg.new = FALSE /\ b.arg.context = NULL /\ b.arg.inserted = NULL
          /\ \A o : /\ Ref(b, o) = One(x = o /\ ~FALSE) + One(NULL = o)
                   /\ Hnd(b, o) = 0 /\ Qry(b, o) = One(NULL = o)
      <3>1. LET bb == CountHandle(x, f, z, z)
            IN  /\ bb \in StepType /\ bb.op = "counthandle" /\ bb.obj = x /\ Fits(t, bb)
                /\ bb.arg.new = f /\ bb.arg.context = z /\ bb.arg.inserted = z
                /\ \A o : /\ Ref(bb, o) = One(x = o /\ ~f) + One(z = o)
                         /\ Hnd(bb, o) = 0 /\ Qry(bb, o) = One(z = o)
        BY <1>2, <1>3, <2>f, NewHandleStep
      <3> QED BY <2>f, <3>1
    <2>1. todo' = [todo EXCEPT ![t] = st] /\ PointerCount' = Add(PointerCount, x, 2)
      BY <1>1, <1>11 DEF ReferenceByHandle
    <2> HIDE DEF b
    <2>2. Backed(b, {d})
      BY <1>6, <2>0, BackedHandle DEF Patient
    <2>3. /\ Sound(st) /\ (\A s \in Range(st) : Fits(t, s))
          /\ \A o : Gains(t, st, o, One(x = o) + Ref(b, o), Hnd(b, o), Qry(b, o))
      BY <1>1, <1>3, <2>0, <2>2, BeginTwo
    <2> HIDE DEF st, d
    <2>4. \A o \in Objects : Gains(t, st, o, IF x = o THEN 2 ELSE 0, 0, 0)
      BY <2>0, <2>3, ObjectAssumption DEF One
    <2> QED BY <1>5, <2>1, <2>3, <2>4
  <1> QED BY <1>8, <1>9, <1>10, <1>11

\* ObpCloseHandle keeps the invariant.
LEMMA KeepCloseHandle ==
  ASSUME Inv, NEW t \in Threads, NEW x \in Objects, ObpCloseHandle(t, x)
  PROVE  Inv'
  <1> DEFINE d == Deref(x)  b == Step("dechandle", x)  st == <<b, d>>
  <1>1. /\ todo[t] = << >> /\ handles[x] > 0 /\ handles' = Add(handles, x, -1)
        /\ todo' = [todo EXCEPT ![t] = st] /\ UNCHANGED <<live, counts, name, reaper, skipped>>
    BY DEF ObpCloseHandle
  <1>2. Free(t, x)
    BY <1>1, FreeIf
  <1>3. x \in live
    BY <1>2 DEF Free
  <1>4. b \in StepType /\ b.op = "dechandle" /\ b.obj = x /\ Fits(t, b)
    BY <1>2, <1>3, PlainStep, PlainFits DEF PlainOps
  <1>5. d.op = "deref"
    BY PlainStep DEF PlainOps, Deref
  <1> HIDE DEF b
  <1>6. Backed(b, {d})
    BY <1>4, <1>5, BackedIs DEF Patient
  <1>7. /\ Sound(st) /\ (\A s \in Range(st) : Fits(t, s))
        /\ \A o : Gains(t, st, o, One(x = o) + Ref(b, o), Hnd(b, o), Qry(b, o))
    BY <1>1, <1>3, <1>4, <1>6, BeginTwo
  <1> HIDE DEF st, d
  <1>8. \A o \in Objects : Gains(t, st, o, One(x = o), One(x = o), 0)
    BY <1>4, <1>7, OpWeights DEF One
  <1>9. Types /\ handles \in [Objects -> Nat]
    BY DEF Inv, TypeOK, Types
  <1>10. handles' \in [Objects -> Nat] /\ \A o \in Objects : handles'[o] = handles[o] + (IF x = o THEN -1 ELSE 0)
    <2>1. handles[x] + -1 >= 0 /\ -1 \in Int
      BY <1>1, <1>9
    <2>2. /\ Add(handles, x, -1) \in [Objects -> Nat]
          /\ \A o \in Objects : Add(handles, x, -1)[o] = handles[o] + (IF x = o THEN -1 ELSE 0)
      BY <1>9, <2>1, AddNat
    <2> QED BY <1>1, <2>2
  <1>u. UNCHANGED <<live, counts, name, reaper, skipped>>
    BY <1>1
  <1>11. Types'
    BY <1>u, <1>9, <1>10 DEF Types, counts, name, reaper
  <1>12. ASSUME NEW o \in Objects PROVE Books(t, st, o)
    <2>1. Gains(t, st, o, One(x = o), One(x = o), 0)
      BY <1>8
    <2> QED BY <1>u, <1>9, <1>10, <2>1 DEF Books, Gains, Types, One, counts
  <1>13. OrphanStep(t, st)
    BY <1>1, OrphanIdle DEF name, counts
  <1>14. FrameStep(t, st) /\ Directory' = Directory
    <2>1. \A o \in Objects : Free(t, o) \/ (handles'[o] = handles[o] /\ QueryReferences'[o] = QueryReferences[o])
      BY <1>u, <1>2, <1>9, <1>10 DEF counts
    <2>2. Living(todo[t])
      BY <1>1 DEF Living
    <2> QED BY <1>u, <1>7, <2>1, <2>2 DEF FrameStep, name, reaper, counts
  <1>15. Moves(t, st)
    BY <1>1, <1>7 DEF Moves
  <1> QED BY <1>11, <1>12, <1>13, <1>14, <1>15, BooksKeep

-----------------------------------------------------------------------------
\* ObMakeTemporaryObject keeps the invariant.
LEMMA KeepMakeTemporaryObject ==
  ASSUME Inv, NEW t \in Threads, ObMakeTemporaryObject(t)
  PROVE  Inv'
  <1>0. /\ At(t, "temporary") /\ Permanent' = [Permanent EXCEPT ![Obj(t)] = FALSE]
        /\ Then(t, <<Step("namecheck", Obj(t))>>)
    BY DEF ObMakeTemporaryObject
  <1>u. UNCHANGED <<live, counts, Name, Directory, entry, dirLock, handles, reaper, skipped>>
    BY DEF ObMakeTemporaryObject
  <1>1. PICK a, q : Serves(t, "temporary", a, q)
    BY <1>0, Current
  <1>2. PICK x \in Objects : x = a.obj
    BY <1>1 DEF Serves
  <1> DEFINE b == Step("namecheck", x)  st == <<b>> \o q
  <1>3. Free(t, x) /\ x \in live
    BY <1>1, <1>2, FreeIf DEF Free, Has, Passing, Serves
  <1>4. b \in StepType /\ b.op = "namecheck" /\ b.obj = x /\ Fits(t, b)
    BY <1>3, PlainStep, PlainFits DEF PlainOps
  <1>5. todo' = [todo EXCEPT ![t] = st] /\ Permanent' = [Permanent EXCEPT ![x] = FALSE]
    BY <1>0, <1>1, <1>2 DEF Serves
  <1> HIDE DEF b
  <1>6. Backed(b, Range(q))
    BY <1>1, <1>2, <1>4, BackedIs DEF Serves
  <1>7. Sound(st) /\ Range(st) = {b} \cup Range(q) /\ \A s \in Range(st) : Fits(t, s)
    BY <1>1, <1>4, <1>6, PutOne DEF Serves
  <1>8. a.op = "temporary" /\ Runs(t, a, q)
    BY <1>1 DEF Serves
  <1>9. ASSUME NEW o \in Objects PROVE Gains(t, st, o, 0, 0, 0)
    <2>1. Gains(t, st, o, Ref(b, o) - Ref(a, o), Hnd(b, o) - Hnd(a, o), Qry(b, o) - Qry(a, o))
      BY <1>4, <1>6, <1>8, GainSwap
    <2>2. Ref(a, o) = 0 /\ Hnd(a, o) = 0 /\ Qry(a, o) = 0
      BY <1>2, <1>8, OpWeights
    <2>3. Ref(b, o) = 0 /\ Hnd(b, o) = 0 /\ Qry(b, o) = 0
      BY <1>4, OpWeights
    <2> QED BY <2>1, <2>2, <2>3
  <1> HIDE DEF st
  <1>10. Types
    BY DEF Inv, TypeOK
  <1>11. Permanent' \in [Objects -> BOOLEAN] /\ \A o \in Objects \ {x} : Permanent'[o] = Permanent[o]
    BY <1>5, <1>10 DEF Types
  <1>12. Types'
    BY <1>u, <1>10, <1>11 DEF Types, counts, reaper
  <1>13. ASSUME NEW o \in Objects PROVE Books(t, st, o)
    BY <1>u, <1>9, <1>10 DEF Books, Gains, Types, counts
  <1>14. OrphanStep(t, st)
    <2>1. ASSUME NEW n \in Names, entry[n] # NULL
          PROVE  \/ HandleCount'[entry[n]] # 0 \/ Permanent'[entry[n]]
                 \/ \E s \in Range(st) : Watches(s, entry[n])
                 \/ /\ HandleCount'[entry[n]] = HandleCount[entry[n]] /\ Permanent'[entry[n]] = Permanent[entry[n]]
                    /\ ~Watches(a, entry[n])
      <3>1. entry[n] \in Objects
        BY <1>10, <2>1 DEF Types
      <3>2. CASE entry[n] = x
        BY <1>4, <1>7, <3>2 DEF Watches
      <3>3. CASE entry[n] # x
        BY <1>u, <1>2, <1>11, <3>1, <3>3 DEF Watches, counts
      <3> QED BY <3>2, <3>3
    <2> QED BY <1>u, <1>7, <1>8, <2>1, OrphanRun
  <1>15. FrameStep(t, st) /\ Directory' = Directory
    BY <1>u, <1>1, <1>7 DEF FrameStep, counts, reaper, Final, Serves
  <1>16. Moves(t, st)
    BY <1>5, <1>7 DEF Moves
  <1> QED BY <1>12, <1>13, <1>14, <1>15, <1>16, BooksKeep

\* The step of a thread changes nothing but its stack and the skipped
\* references: one step goes, and perhaps another comes.
LEMMA SwapKeeps ==
  ASSUME Inv, NEW t \in Threads, NEW op, NEW a, NEW q, Serves(t, op, a, q), op \in Passing \ {"queue"},
         NEW b \in StepType, b.op \in Passing \ {"queue"}, b.obj = a.obj,
         todo' = [todo EXCEPT ![t] = <<b>> \o q],
         UNCHANGED <<live, counts, name, handles, reaper, skipped>>
  PROVE  Inv'
  <1> DEFINE st == <<b>> \o q
  <1>1. PICK x \in Objects : x = a.obj
    BY DEF Serves
  <1>2. /\ Runs(t, a, q) /\ a.op = op /\ a \in StepType /\ a \in Range(todo[t]) /\ Stacked(t, q) /\ Patient(Range(q))
        /\ Living(todo[t])
    BY DEF Serves, Final, Passing
  <1>3. x \in live
    BY <1>1, <1>2, LiveObjects DEF Passing
  <1>4. Fits(t, b)
    <2>1. \A o \in Objects : Has(b, o) => o = x
      BY <1>1 DEF Has, OwnsContext, Passing
    <2> QED BY <1>3, <2>1 DEF Fits, Final, Passing
  <1>5. Backed(b, Range(q))
    BY <1>2, BackedIs DEF Passing
  <1>6. Sound(st) /\ Range(st) = {b} \cup Range(q) /\ \A s \in Range(st) : Fits(t, s)
    BY <1>2, <1>4, <1>5, PutOne
  <1>7. ASSUME NEW o \in Objects PROVE Gains(t, st, o, 0, 0, 0)
    <2>1. Gains(t, st, o, Ref(b, o) - Ref(a, o), Hnd(b, o) - Hnd(a, o), Qry(b, o) - Qry(a, o))
      BY <1>2, <1>5, GainSwap
    <2>2. Ref(a, o) = One(x = o) /\ Hnd(a, o) = 0 /\ Qry(a, o) = 0
      BY <1>1, <1>2, OpWeights DEF Passing
    <2>3. Ref(b, o) = One(x = o) /\ Hnd(b, o) = 0 /\ Qry(b, o) = 0
      BY <1>1, OpWeights DEF Passing
    <2>4. One(x = o) \in 0 .. 1
      BY DEF One
    <2> QED BY <2>1, <2>2, <2>3, <2>4
  <1> HIDE DEF st
  <1>8. Types
    BY DEF Inv, TypeOK
  <1>9. Types'
    BY <1>8 DEF Types, counts, name, reaper
  <1>10. ASSUME NEW o \in Objects PROVE Books(t, st, o)
    BY <1>7, <1>8 DEF Books, Gains, Types, counts
  <1>11. OrphanStep(t, st)
    <2>1. \A n \in Names : ~Watches(a, entry[n])
      BY <1>2 DEF Watches, Passing
    <2> QED BY <1>2, <1>6, <2>1, OrphanRun DEF counts, name
  <1>12. FrameStep(t, st) /\ Directory' = Directory
    BY <1>2, <1>6 DEF FrameStep, counts, name, reaper
  <1>13. Moves(t, st)
    BY <1>6 DEF Moves, st
  <1> QED BY <1>9, <1>10, <1>11, <1>12, <1>13, BooksKeep

\* The reading of one count keeps the invariant.
LEMMA KeepReadOneCount ==
  ASSUME Inv, NEW t \in Threads, ReadOneCount(t)
  PROVE  Inv'
  <1>0. /\ At(t, "deref")
        /\ \/ Then(t, <<StepWith("readhandles", Obj(t), PointerCount[Obj(t)])>>)
           \/ Then(t, <<StepWith("readpointers", Obj(t), HandleCount[Obj(t)])>>)
    BY DEF ReadOneCount
  <1>u. UNCHANGED <<live, counts, name, handles, reaper, skipped>>
    BY DEF ReadOneCount
  <1>1. PICK a, q : Serves(t, "deref", a, q)
    BY <1>0, Current
  <1>2. PICK x \in Objects : x = a.obj
    BY <1>1 DEF Serves
  <1>3. PointerCount[x] \in Int /\ HandleCount[x] \in Int
    BY DEF Inv, TypeOK, Types
  <1> DEFINE p == StepWith("readhandles", x, PointerCount[x])  h == StepWith("readpointers", x, HandleCount[x])
  <1>4. /\ p \in StepType /\ p.op = "readhandles" /\ p.obj = x
        /\ h \in StepType /\ h.op = "readpointers" /\ h.obj = x
    BY <1>3 DEF StepWith, StepType
  <1>5. todo' = [todo EXCEPT ![t] = <<p>> \o q] \/ todo' = [todo EXCEPT ![t] = <<h>> \o q]
    BY <1>0, <1>1, <1>2 DEF Serves
  <1> HIDE DEF p, h
  <1>6. PICK b : (b = p \/ b = h) /\ todo' = [todo EXCEPT ![t] = <<b>> \o q]
    BY <1>5
  <1>7. b \in StepType /\ b.op \in Passing \ {"queue"} /\ b.obj = a.obj /\ "deref" \in Passing \ {"queue"}
    BY <1>2, <1>4, <1>6 DEF Passing
  <1> QED BY <1>u, <1>1, <1>6, <1>7, SwapKeeps

\* The comparison of the two counts keeps the invariant.
LEMMA KeepCompareCounts ==
  ASSUME Inv, NEW t \in Threads, CompareCounts(t)
  PROVE  Inv'
  <1>u. UNCHANGED <<live, counts, name, handles, reaper>>
    BY DEF CompareCounts
  <1>0. PICK op \in {"readhandles", "readpointers"} : At(t, op)
    BY DEF CompareCounts
  <1>1. PICK a, q : Serves(t, op, a, q)
    BY <1>0, Current
  <1>2. PICK x \in Objects : x = a.obj
    BY <1>1 DEF Serves
  <1>3. CASE ~Misbehaving(t)
    <2> DEFINE b == Step("dec", x)
    <2>1. b \in StepType /\ b.op = "dec" /\ b.obj = x
      BY PlainStep DEF PlainOps
    <2>2. Then(t, <<Step("dec", Obj(t))>>) /\ skipped' = skipped
      BY <1>3 DEF CompareCounts
    <2>3. todo' = [todo EXCEPT ![t] = <<b>> \o q]
      BY <1>1, <1>2, <2>2 DEF Serves
    <2> HIDE DEF b
    <2>4. b.op \in Passing \ {"queue"} /\ b.obj = a.obj /\ op \in Passing \ {"queue"}
      BY <1>2, <2>1 DEF Passing
    <2>5. UNCHANGED <<live, counts, name, handles, reaper, skipped>>
      BY <1>u, <2>2
    <2> QED BY <1>1, <2>1, <2>3, <2>4, <2>5, SwapKeeps
  <1>4. CASE Misbehaving(t)
    <2>1. Then(t, << >>) /\ skipped' = Add(skipped, Obj(t), 1)
      BY <1>4 DEF CompareCounts
    <2>2. /\ Runs(t, a, q) /\ a.op = op /\ a \in StepType /\ a \in Range(todo[t]) /\ Stacked(t, q) /\ q \in Seq(StepType)
          /\ Living(todo[t])
      BY <1>0, <1>1 DEF Serves, Final
    <2>3. todo' = [todo EXCEPT ![t] = q] /\ skipped' = Add(skipped, x, 1)
      <3>1. << >> \o q = q
        BY <2>2, ConcatEmptySeq
      <3> QED BY <1>1, <1>2, <2>1, <3>1 DEF Serves
    <2>4. ASSUME NEW o \in Objects PROVE Gains(t, q, o, 0 - One(x = o), 0, 0)
      <3>1. Gains(t, q, o, 0 - Ref(a, o), 0 - Hnd(a, o), 0 - Qry(a, o))
        BY <2>2, GainPop
      <3>2. Ref(a, o) = One(x = o) /\ Hnd(a, o) = 0 /\ Qry(a, o) = 0
        BY <1>0, <1>2, <2>2, OpWeights
      <3> QED BY <3>1, <3>2
    <2>5. Types /\ skipped \in [Objects -> Nat]
      BY DEF Inv, TypeOK, Types
    <2>6. skipped' \in [Objects -> Nat] /\ \A o \in Objects : skipped'[o] = skipped[o] + (IF x = o THEN 1 ELSE 0)
      <3>1. skipped[x] + 1 >= 0 /\ 1 \in Int
        BY <2>5
      <3>2. /\ Add(skipped, x, 1) \in [Objects -> Nat]
            /\ \A o \in Objects : Add(skipped, x, 1)[o] = skipped[o] + (IF x = o THEN 1 ELSE 0)
        BY <2>5, <3>1, AddNat
      <3> QED BY <2>3, <3>2
    <2>7. Types'
      BY <1>u, <2>5, <2>6 DEF Types, counts, name, reaper
    <2>8. ASSUME NEW o \in Objects PROVE Books(t, q, o)
      BY <1>u, <2>4, <2>5, <2>6 DEF Books, Gains, Types, One, counts
    <2>9. OrphanStep(t, q)
      <3>1. \A n \in Names : ~Watches(a, entry[n])
        BY <1>0, <2>2 DEF Watches
      <3> QED BY <1>u, <2>2, <3>1, OrphanRun DEF counts, name
    <2>10. FrameStep(t, q) /\ Directory' = Directory
      BY <1>u, <2>2 DEF FrameStep, counts, name, reaper, Stacked
    <2>11. Moves(t, q)
      BY <2>2, <2>3 DEF Moves, Stacked
    <2> QED BY <2>7, <2>8, <2>9, <2>10, <2>11, BooksKeep
  <1> QED BY <1>3, <1>4

\* An object in the directory has a query reference for its name, and one more
\* for each call in progress that took one.
LEMMA NamedQueries ==
  ASSUME Inv, NEW n \in Names, entry[n] # NULL
  PROVE  /\ entry[n] \in Objects /\ QueryReferences[entry[n]] >= 1
         /\ \A t \in Threads : \A s \in Range(todo[t]) : OwnsQuery(s, entry[n]) => QueryReferences[entry[n]] >= 2
  <1>1. entry[n] \in Objects /\ QueryReferences[entry[n]] = 1 + QryT(todo, entry[n]) /\ todo \in StacksType
    BY DEF Inv, TypeOK, Types, Naming, StacksType
  <1>2. QryT(todo, entry[n]) \in Nat
    BY <1>1, TotalsNat
  <1>3. (\E t \in Threads : \E s \in Range(todo[t]) : OwnsQuery(s, entry[n])) => QryT(todo, entry[n]) # 0
    BY <1>1, NoQueries
  <1> QED BY <1>1, <1>2, <1>3

\* ObpDeleteNameCheck keeps the invariant.
LEMMA KeepDeleteNameCheck ==
  ASSUME Inv, NEW t \in Threads, ObpDeleteNameCheck(t)
  PROVE  Inv'
  <1>u. At(t, "namecheck") /\ UNCHANGED <<live, PointerCount, HandleCount, name, handles, reaper, skipped>>
    BY DEF ObpDeleteNameCheck
  <1>1. PICK a, q : Serves(t, "namecheck", a, q)
    BY <1>u, Current
  <1>2. PICK x \in Objects : x = a.obj
    BY <1>1 DEF Serves
  <1>3. /\ Runs(t, a, q) /\ a.op = "namecheck" /\ a \in StepType /\ a \in Range(todo[t]) /\ Stacked(t, q) /\ q \in Seq(StepType)
        /\ Living(todo[t]) /\ Backed(a, Range(q)) /\ Obj(t) = a.obj
    BY <1>1 DEF Serves, Final
  <1>4. Free(t, x) /\ x \in live
    BY <1>2, <1>3, FreeIf DEF Free, Has, Passing
  <1>5. Types
    BY DEF Inv, TypeOK
  <1>6. CASE QueryReferences[x] = 0
    <2>1. Then(t, << >>) /\ QueryReferences' = QueryReferences
      BY <1>2, <1>3, <1>6 DEF ObpDeleteNameCheck
    <2>2. todo' = [todo EXCEPT ![t] = q]
      <3>1. << >> \o q = q
        BY <1>3, ConcatEmptySeq
      <3> QED BY <1>1, <2>1, <3>1 DEF Serves
    <2>3. Types'
      BY <1>u, <1>5, <2>1 DEF Types, name, reaper
    <2>4. ASSUME NEW o \in Objects PROVE Books(t, q, o)
      <3>1. Gains(t, q, o, 0 - Ref(a, o), 0 - Hnd(a, o), 0 - Qry(a, o))
        BY <1>3, GainPop
      <3>2. Ref(a, o) = 0 /\ Hnd(a, o) = 0 /\ Qry(a, o) = 0
        BY <1>3, OpWeights
      <3>3. Gains(t, q, o, 0, 0, 0)
        BY <3>1, <3>2
      <3> QED BY <1>u, <1>5, <2>1, <3>3 DEF Books, Gains, Types
    <2>5. OrphanStep(t, q)
      <3>1. ASSUME NEW n \in Names, entry[n] # NULL PROVE ~Watches(a, entry[n])
        <4>1. entry[n] # x
          BY <1>6, <3>1, NamedQueries
        <4> QED BY <1>2, <4>1 DEF Watches
      <3> QED BY <1>u, <1>3, <3>1, OrphanRun DEF name
    <2>6. FrameStep(t, q) /\ Directory' = Directory
      BY <1>u, <1>3, <2>1 DEF FrameStep, name, reaper, Stacked
    <2>7. Moves(t, q)
      BY <1>3, <2>2 DEF Moves, Stacked
    <2> QED BY <2>3, <2>4, <2>5, <2>6, <2>7, BooksKeep
  <1>7. CASE QueryReferences[x] # 0
    <2>0. PICK op \in {"namedelete", "derefname"} :
              op = IF HandleCount[x] = 0 /\ Directory[x] /\ ~Permanent[x] THEN "namedelete" ELSE "derefname"
      OBVIOUS
    <2> DEFINE b == Step(op, x)  st == <<b>> \o q
    <2>1. Then(t, <<b>>) /\ QueryReferences' = Add(QueryReferences, x, 1)
      BY <1>2, <1>3, <1>7, <2>0 DEF ObpDeleteNameCheck, DerefName
    <2>2. b \in StepType /\ b.op = op /\ b.obj = x
      BY PlainStep DEF PlainOps
    <2>3. todo' = [todo EXCEPT ![t] = st]
      BY <1>1, <2>1 DEF Serves
    <2> HIDE DEF b
    <2>4. Fits(t, b)
      <3>1. \A o \in Objects : Has(b, o) => o = x
        BY <2>0, <2>2 DEF Has, OwnsContext
      <3>2. b.op = "namedelete" => Name[b.obj] \in Names
        BY <2>0, <2>2 DEF Inv, Naming
      <3> QED BY <1>4, <2>2, <3>1, <3>2 DEF Fits, Final
    <2>5. Backed(b, Range(q))
      BY <1>2, <1>3, <2>2, BackedIs
    <2>6. Sound(st) /\ Range(st) = {b} \cup Range(q) /\ \A s \in Range(st) : Fits(t, s)
      BY <1>3, <2>2, <2>4, <2>5, PutOne
    <2>7. ASSUME NEW o \in Objects PROVE Gains(t, st, o, 0, 0, One(x = o))
      <3>1. Gains(t, st, o, Ref(b, o) - Ref(a, o), Hnd(b, o) - Hnd(a, o), Qry(b, o) - Qry(a, o))
        BY <1>3, <2>2, <2>5, GainSwap
      <3>2. Ref(a, o) = 0 /\ Hnd(a, o) = 0 /\ Qry(a, o) = 0
        BY <1>3, OpWeights
      <3>3. Ref(b, o) = 0 /\ Hnd(b, o) = 0 /\ Qry(b, o) = One(x = o)
        BY <2>0, <2>2, OpWeights
      <3>4. One(x = o) \in Int
        BY DEF One
      <3> QED BY <3>1, <3>2, <3>3, <3>4
    <2> HIDE DEF st
    <2>8. QueryReferences' \in [Objects -> Int] /\ \A o \in Objects : QueryReferences'[o] = QueryReferences[o] + (IF x = o THEN 1 ELSE 0)
      <3>1. 1 \in Int
        OBVIOUS
      <3> QED BY <1>5, <2>1, <3>1, AddCounts
    <2>9. Types'
      BY <1>u, <1>5, <2>8 DEF Types, name, reaper
    <2>10. ASSUME NEW o \in Objects PROVE Books(t, st, o)
      BY <1>u, <1>5, <2>7, <2>8 DEF Books, Gains, Types, One
    <2>11. OrphanStep(t, st)
      <3>1. ASSUME NEW n \in Names, entry[n] # NULL
            PROVE  \/ HandleCount'[entry[n]] # 0 \/ Permanent'[entry[n]]
                   \/ \E s \in Range(st) : Watches(s, entry[n])
                   \/ ~Watches(a, entry[n])
        <4>1. CASE entry[n] = x
          <5>1. Directory[x]
            BY <3>1, <4>1 DEF Inv, Naming
          <5>2. HandleCount[x] # 0 \/ Permanent[x] \/ b.op = "namedelete"
            BY <2>0, <2>2, <5>1
          <5> QED BY <1>u, <2>2, <2>6, <4>1, <5>2 DEF Watches, name
        <4>2. CASE entry[n] # x
          BY <1>2, <4>2 DEF Watches
        <4> QED BY <4>1, <4>2
      <3> QED BY <1>u, <1>3, <2>6, <3>1, OrphanRun DEF name
    <2>12. FrameStep(t, st) /\ Directory' = Directory
      <3>1. \A o \in Objects : Free(t, o) \/ (handles'[o] = handles[o] /\ QueryReferences'[o] = QueryReferences[o])
        BY <1>u, <1>4, <1>5, <2>8 DEF Types
      <3> QED BY <1>u, <1>3, <2>6, <3>1 DEF FrameStep, name, reaper
    <2>13. Moves(t, st)
      BY <2>3, <2>6 DEF Moves
    <2> QED BY <2>9, <2>10, <2>11, <2>12, <2>13, BooksKeep
  <1> QED BY <1>6, <1>7

\* ObpDereferenceNameInfo keeps the invariant.
LEMMA KeepDereferenceNameInfo ==
  ASSUME Inv, NEW t \in Threads, ObpDereferenceNameInfo(t)
  PROVE  Inv'
  <1>0. At(t, "derefname") /\ Then(t, << >>) /\ QueryReferences' = Add(QueryReferences, Obj(t), -1)
    BY DEF ObpDereferenceNameInfo
  <1>u. UNCHANGED <<live, PointerCount, HandleCount, Name, Permanent, entry, dirLock, handles, reaper, skipped>>
    BY DEF ObpDereferenceNameInfo
  <1>1. PICK a, q : Serves(t, "derefname", a, q)
    BY <1>0, Current
  <1>2. PICK x \in Objects : x = a.obj
    BY <1>1 DEF Serves
  <1>3. /\ Runs(t, a, q) /\ a.op = "derefname" /\ a \in StepType /\ a \in Range(todo[t]) /\ Stacked(t, q) /\ q \in Seq(StepType)
        /\ Living(todo[t]) /\ Obj(t) = a.obj
    BY <1>1 DEF Serves, Final
  <1>4. Free(t, x) /\ x \in live
    BY <1>2, <1>3, FreeIf DEF Free, Has, Passing
  <1>5. Types
    BY DEF Inv, TypeOK
  <1>6. todo' = [todo EXCEPT ![t] = q] /\ QueryReferences' = Add(QueryReferences, x, -1)
    <2>1. << >> \o q = q
      BY <1>3, ConcatEmptySeq
    <2> QED BY <1>0, <1>1, <1>2, <2>1 DEF Serves
  <1>7. ASSUME NEW o \in Objects PROVE Gains(t, q, o, 0, 0, 0 - One(x = o))
    <2>1. Gains(t, q, o, 0 - Ref(a, o), 0 - Hnd(a, o), 0 - Qry(a, o))
      BY <1>3, GainPop
    <2>2. Ref(a, o) = 0 /\ Hnd(a, o) = 0 /\ Qry(a, o) = One(x = o)
      BY <1>2, <1>3, OpWeights
    <2> QED BY <2>1, <2>2
  <1>8. QueryReferences' \in [Objects -> Int] /\ \A o \in Objects : QueryReferences'[o] = QueryReferences[o] + (IF x = o THEN -1 ELSE 0)
    <2>1. -1 \in Int
      OBVIOUS
    <2> QED BY <1>5, <1>6, <2>1, AddCounts
  <1>9. /\ Directory' \in [Objects -> BOOLEAN] /\ \A o \in Objects : Directory'[o] => Directory[o]
        /\ \A o \in Objects : o # x \/ QueryReferences[x] # 1 => Directory'[o] = Directory[o]
    <2>1. Directory' = IF QueryReferences[x] = 1 THEN [Directory EXCEPT ![x] = FALSE] ELSE Directory
      BY <1>2, <1>3 DEF ObpDereferenceNameInfo
    <2>2. Directory \in [Objects -> BOOLEAN]
      BY <1>5 DEF Types
    <2> QED BY <2>1, <2>2
  <1>10. Types'
    BY <1>u, <1>5, <1>8, <1>9 DEF Types, reaper
  <1>11. ASSUME NEW o \in Objects PROVE Books(t, q, o)
    BY <1>u, <1>5, <1>7, <1>8 DEF Books, Gains, Types, One
  <1>12. Moves(t, q) /\ Sound(q)
    BY <1>3, <1>6 DEF Moves, Stacked
  <1>13. /\ CountsStep(t, q)
         /\ \A o \in Objects : QueryReferences'[o] - QueryReferences[o] = QryN(q, o) - QryN(todo[t], o)
    BY <1>u, <1>10, <1>11, <1>12, BooksCounts
  <1>14. QueryStep(t, q)
    <2>1. ASSUME NEW n \in Names, entry[n] # NULL PROVE Directory'[entry[n]] /\ entry[n] \in Objects
      <3>1. entry[n] \in Objects /\ Directory[entry[n]]
        BY <1>5, <2>1 DEF Types, Inv, Naming
      <3>2. entry[n] = x => QueryReferences[x] >= 2
        <4>1. OwnsQuery(a, x)
          BY <1>2, <1>3 DEF OwnsQuery
        <4> QED BY <1>3, <2>1, <4>1, NamedQueries
      <3> QED BY <1>9, <3>1, <3>2
    <2> QED BY <1>9, <1>13, <2>1 DEF QueryStep
  <1>15. OrphanStep(t, q)
    <2>1. \A n \in Names : ~Watches(a, entry[n])
      BY <1>3 DEF Watches
    <2> QED BY <1>u, <1>3, <2>1, OrphanRun
  <1>16. FrameStep(t, q)
    <2>1. \A o \in Objects : Free(t, o) \/ (handles'[o] = handles[o] /\ QueryReferences'[o] = QueryReferences[o])
      BY <1>u, <1>4, <1>5, <1>8 DEF Types
    <2> QED BY <1>u, <1>3, <2>1 DEF FrameStep, reaper, Stacked
  <1> QED BY <1>10, <1>12, <1>13, <1>14, <1>15, <1>16, StepKeeps

-----------------------------------------------------------------------------
\* As FrameStep, when the directory changes.
EntryStep(t, st) ==
    /\ UNCHANGED <<live, Name, handles, NextToFree, ObpReaperList, reap, workItem>>
    /\ \A o \in Objects : Free(t, o) \/ (Entered(o)' = Entered(o) /\ QueryReferences'[o] = QueryReferences[o])
    /\ \A n \in Names : entry'[n] # NULL =>
          /\ entry'[n] \in live /\ Name[entry'[n]] = n /\ Directory'[entry'[n]]
          /\ QueryReferences'[entry'[n]] = 1 + QryT(todo', entry'[n])
    /\ \A o \in Objects : Directory'[o] => Name[o] \in Names
    /\ \A s \in Range(st) : Fits(t, s)
    /\ Living(todo[t])
    /\ \A o \in live : PointerCount'[o] = PointerCount[o] \/ (PointerCount[o] # 0 /\ PointerCount'[o] # 0)

\* Such a step keeps the invariant.
LEMMA EntryKeeps ==
  ASSUME Inv, Types', NEW t \in Threads, NEW st, Moves(t, st),
         EntryStep(t, st), CountsStep(t, st), OrphanStep(t, st)
  PROVE  Inv'
  <1>0. Sounds /\ Types
    BY SoundsIs DEF Inv
  <1>1. TypeOK' /\ Stacks'
    <2>1. Sounds'
      BY <1>0, StackTo DEF Moves
    <2> QED BY <2>1 DEF TypeOK, Stacks, Sounds, StacksType, Sound
  <1>2. live' = live
    BY DEF EntryStep
  <1>3. Counts'
    BY <1>2, CountsKept DEF Counts
  <1>4. Living(st)
    <2>1. st # << >> => Head(st) \in Range(st)
      BY Pop DEF Moves
    <2> QED BY <2>1 DEF EntryStep, Fits, Living
  <1>5. Gone'
    <2>3. \A s \in Range(st) : s.op # "queue" => \A o \in Objects : Has(s, o) => o \in live
      BY DEF EntryStep, Fits
    <2>4. GoneStep(t, st)
      BY <1>2, <2>3 DEF GoneStep, EntryStep
    <2> QED BY <2>4, GoneKept
  <1>6. Deaths' /\ Lists' /\ Reaping'
    <2>1. ListsStep(t, st)
      BY <1>4 DEF EntryStep, ListsStep
    <2> QED BY <2>1, ListsKept
  <1>7. Naming'
    <2>1. \A s \in Range(st) : s.op # "insert" /\ (s.op = "namedelete" => Name[s.obj] \in Names)
      BY DEF EntryStep, Fits
    <2>2. ASSUME NEW x \in live, NEW u \in Threads \ {t}, Inserting(u, x)
          PROVE  /\ Entered(x)' = Entered(x) /\ handles'[x] = handles[x] /\ QueryReferences'[x] = QueryReferences[x]
                 /\ \A s \in Range(st) : Has(s, x) => s.op \in Passing
      <3>1. x \in Objects /\ ~Free(t, x)
        BY <1>0, <2>2 DEF Types, Free
      <3> QED BY <3>1 DEF EntryStep, Fits
    <2>3. NamesStep(t, st)
      BY <2>1, <2>2 DEF NamesStep, EntryStep
    <2> QED BY <2>3, NamesKept
  <1>8. NoOrphanName'
    BY OrphanKept
  <1> QED BY <1>1, <1>3, <1>5, <1>6, <1>7, <1>8 DEF Inv

\* What an insertion starts from: the object of the step at hand is t's own
\* and not in the directory, and nothing is left for later.
LEMMA Insertion ==
  ASSUME Inv, NEW t \in Threads, NEW a, NEW q, Serves(t, "insert", a, q), NEW x \in Objects, x = a.obj
  PROVE  /\ Free(t, x) /\ x \in live /\ Name[x] \in Names /\ Entered(x) = 0 /\ QueryReferences[x] = 2
         /\ PointerCount[x] >= 1 /\ Range(q) = {} /\ QryT(todo, x) = 0
         /\ \A o \in Objects : Ref(a, o) = One(x = o) /\ Hnd(a, o) = 0 /\ Qry(a, o) = 0
         /\ \A n \in Names : ~Watches(a, entry[n])
  <1>1. a.op = "insert" /\ a \in StepType /\ a \in Range(todo[t]) /\ Backed(a, Range(q)) /\ Runs(t, a, q)
    BY DEF Serves
  <1>2. Free(t, x) /\ x \in live
    BY <1>1, FreeIf DEF Free, Has, Passing
  <1>3. /\ Name[x] \in Names /\ Entered(x) = 0 /\ QueryReferences[x] = 2
        /\ \A u \in Threads : \A r \in Range(todo[u]) : Has(r, x) => u = t \/ r.op \in Passing
    BY <1>1 DEF Inv, Naming
  <1>4. Range(q) = {} /\ Range(todo[t]) = {a}
    BY <1>1, BackedIs DEF Runs
  <1>5. PointerCount[x] >= 1
    <2>1. OwnsReference(a, x)
      BY <1>1 DEF OwnsReference
    <2> QED BY <1>1, <1>2, <2>1, Referenced
  <1>6. QryT(todo, x) = 0
    <2>1. ASSUME NEW u \in Threads, NEW r \in Range(todo[u]) PROVE ~OwnsQuery(r, x)
      BY <1>1, <1>3, <1>4 DEF OwnsQuery, OwnsContext, Has, Passing
    <2>2. todo \in StacksType
      BY DEF Inv, TypeOK, StacksType
    <2> QED BY <2>1, <2>2, NoQueries
  <1>7. \A o \in Objects : Ref(a, o) = One(x = o) /\ Hnd(a, o) = 0 /\ Qry(a, o) = 0
    BY <1>1, OpWeights
  <1>8. \A n \in Names : ~Watches(a, entry[n])
    BY <1>1 DEF Watches
  <1> QED BY <1>2, <1>3, <1>4, <1>5, <1>6, <1>7, <1>8

\* The references of a new object are left for later: DerefName and Deref.
LEMMA PutOwn ==
  ASSUME Inv, NEW t \in Threads, NEW a, NEW q, Serves(t, "insert", a, q), NEW x \in Objects, x = a.obj
  PROVE  LET p == ReleaseContext(x) \o q
         IN  /\ Stacked(t, p) /\ Range(q) \subseteq Range(p) /\ Deref(x) \in Range(p) /\ DerefName(x) \in Range(p)
             /\ ReleaseContext(x) = <<DerefName(x), Deref(x)>>
             /\ \A o \in Objects : Gains(t, p, o, 0, 0, One(x = o))
  <1> DEFINE p == ReleaseContext(x) \o q
  <1>1. x # NULL /\ x \in Objects \cup {NULL}
    BY ObjectAssumption
  <1>2. Stacked(t, q) /\ Runs(t, a, q)
    BY DEF Serves
  <1>3. Free(t, x)
    BY Insertion
  <1>4. Stacked(t, p) /\ Range(q) \subseteq Range(p) /\ Deref(x) \in Range(p) /\ DerefName(x) \in Range(p)
    BY <1>1, <1>2, <1>3, PutRelease
  <1>5. ReleaseContext(x) = <<DerefName(x), Deref(x)>>
    BY <1>1 DEF ReleaseContext
  <1>6. ASSUME NEW o \in Objects PROVE Gains(t, p, o, 0, 0, One(x = o))
    <2>1. Gains(t, q, o, 0 - Ref(a, o), 0 - Hnd(a, o), 0 - Qry(a, o))
      BY <1>2, GainPop
    <2>2. Ref(a, o) = One(x = o) /\ Hnd(a, o) = 0 /\ Qry(a, o) = 0
      BY Insertion
    <2>3. PICK u \in Int, v \in Int, z \in Int : u = One(x = o) /\ v = 0 - u /\ z = 0
      BY DEF One
    <2>4. Gains(t, q, o, v, z, z)
      BY <2>1, <2>2, <2>3
    <2>5. Gains(t, p, o, v + One(x = o), z, z + One(x = o))
      BY <1>1, <1>2, <1>3, <2>4, GainRelease
    <2>6. v + One(x = o) = 0 /\ z + One(x = o) = One(x = o)
      BY <2>3
    <2> QED BY <2>3, <2>5, <2>6
  <1> QED BY <1>4, <1>5, <1>6

\* The counts g are the counts f with one more for e.
Raised(f, g, e) == g \in [Objects -> Int] /\ \A o \in Objects : g[o] = f[o] + One(e = o)

\* One is added for an object,
LEMMA RaisedOne ==
  ASSUME NEW f \in [Objects -> Int], NEW e \in Objects PROVE Raised(f, Add(f, e, 1), e)
  BY DEF Raised, Add, One

\* and none for NULL.
LEMMA RaisedNone ==
  ASSUME NEW f \in [Objects -> Int] PROVE Raised(f, f, NULL)
  BY ObjectAssumption DEF Raised, One

\* The stack st has what an insertion of x that found e leaves to be dropped.
InsertGains(t, st, x, e) ==
    \A o \in Objects : Gains(t, st, o, One(e = o), 0, One(x = o) + One(e = o))

\* The stack st, with q left for later, may be t's.
Ready(t, q, st) == Sound(st) /\ (\A s \in Range(st) : Fits(t, s)) /\ Range(q) \subseteq Range(st)

\* An insertion that finds another object e, or no memory (e = NULL).
LEMMA InsertKeeps ==
  ASSUME Inv, NEW t \in Threads, NEW a, NEW q, Serves(t, "insert", a, q), NEW x \in Objects, x = a.obj,
         NEW e, e = entry[Name[x]],
         NEW st, Ready(t, q, st), todo' = [todo EXCEPT ![t] = st], InsertGains(t, st, x, e),
         Raised(PointerCount, PointerCount', e), Raised(QueryReferences, QueryReferences', e),
         UNCHANGED <<live, HandleCount, Name, Permanent, Directory, entry, handles, reaper, skipped>>,
         dirLock' \in Threads \cup {NULL}
  PROVE  Inv'
  <1>0. Types
    BY DEF Inv, TypeOK
  <1>1. /\ Types /\ PointerCount' \in [Objects -> Int] /\ QueryReferences' \in [Objects -> Int]
        /\ \A o \in Objects : PointerCount'[o] = PointerCount[o] + One(e = o) /\ QueryReferences'[o] = QueryReferences[o] + One(e = o)
    BY <1>0 DEF Raised
  <1>2. /\ Free(t, x) /\ x \in live /\ Name[x] \in Names /\ Entered(x) = 0 /\ \A n \in Names : ~Watches(a, entry[n])
    BY Insertion
  <1>3. ASSUME e \in Objects PROVE Free(t, e) /\ e \in live /\ PointerCount[e] >= 1
    <2>1. Entered(e) = 1
      BY <1>2, EnteredIs
    <2>2. Free(t, e)
      BY <1>3, <2>1, FreeIf
    <2>3. e \in live
      BY <2>2 DEF Free
    <2> QED BY <2>1, <2>2, <2>3, Referenced
  <1>4. Types'
    BY <1>1 DEF Types, reaper
  <1>5. ASSUME NEW o \in Objects
        PROVE  /\ PointerCount'[o] - PointerCount[o] = One(e = o)
               /\ QueryReferences'[o] - QueryReferences[o] = One(e = o)
               /\ handles'[o] - handles[o] = 0 /\ skipped'[o] - skipped[o] = 0 /\ HandleCount'[o] - HandleCount[o] = 0
               /\ Entered(o)' - Entered(o) = 0 /\ One(e = o) \in Int /\ One(x = o) \in Int
    <2>1. /\ PointerCount[o] \in Int /\ QueryReferences[o] \in Int /\ handles[o] \in Int /\ skipped[o] \in Int
          /\ HandleCount[o] \in Int
      BY <1>0 DEF Types
    <2>2. Entered(o)' = Entered(o) /\ Entered(o) \in Int
      BY EnteredIs DEF Entered
    <2>3. One(e = o) \in Int /\ One(x = o) \in Int
      BY DEF One
    <2>4. PointerCount'[o] = PointerCount[o] + One(e = o) /\ QueryReferences'[o] = QueryReferences[o] + One(e = o)
      BY <1>1
    <2> QED BY <2>1, <2>2, <2>3, <2>4
  <1>6. ASSUME NEW o \in Objects
        PROVE  /\ RefN(st, o) - RefN(todo[t], o) = One(e = o) /\ HndN(st, o) - HndN(todo[t], o) = 0
               /\ QryN(st, o) - QryN(todo[t], o) = One(x = o) + One(e = o)
    <2>1. Gains(t, st, o, One(e = o), 0, One(x = o) + One(e = o))
      BY DEF InsertGains
    <2> QED BY <2>1 DEF Gains
  <1>7. CountsStep(t, st)
    <2>1. live \subseteq Objects
      BY <1>0 DEF Types
    <2>2. ASSUME NEW o \in Objects
          PROVE  /\ PointerCount'[o] - PointerCount[o] =
                      (handles'[o] - handles[o]) + (Entered(o)' - Entered(o)) + (skipped'[o] - skipped[o])
                      + (RefN(st, o) - RefN(todo[t], o))
                 /\ HandleCount'[o] - HandleCount[o] =
                      (handles'[o] - handles[o]) + (HndN(st, o) - HndN(todo[t], o))
      BY <1>5, <1>6
    <2> QED BY <2>1, <2>2 DEF CountsStep
  <1>8. QueryStep(t, st)
    <2>1. ASSUME NEW n \in Names, entry[n] # NULL
          PROVE  /\ Directory'[entry[n]]
                 /\ QueryReferences'[entry[n]] - QueryReferences[entry[n]]
                      = QryN(st, entry[n]) - QryN(todo[t], entry[n])
      <3>1. PICK o \in Objects : o = entry[n]
        BY <1>0, <2>1 DEF Types
      <3>2. Directory[o]
        BY <2>1, <3>1 DEF Inv, Naming
      <3>3. o # x
        BY <1>2, <3>1, EnteredIs
      <3>4. One(x = o) = 0
        BY <3>3 DEF One
      <3>5. QueryReferences'[o] - QueryReferences[o] = QryN(st, o) - QryN(todo[t], o)
        BY <1>5, <1>6, <3>4
      <3> QED BY <3>1, <3>2, <3>5
    <2> QED BY <2>1 DEF QueryStep
  <1>9. OrphanStep(t, st)
    <2>1. Runs(t, a, q)
      BY DEF Serves
    <2> QED BY <1>2, <2>1, OrphanRun DEF Ready
  <1>10. FrameStep(t, st)
    <2>1. ASSUME NEW o \in live
          PROVE  PointerCount'[o] = PointerCount[o] \/ (PointerCount[o] # 0 /\ PointerCount'[o] # 0)
      <3>1. o \in Objects /\ PointerCount[o] \in Int
        BY <1>0 DEF Types
      <3>2. CASE e = o
        <4>1. PointerCount[o] >= 1 /\ PointerCount'[o] = PointerCount[o] + 1
          BY <1>1, <1>3, <3>1, <3>2 DEF One
        <4> QED BY <3>1, <4>1
      <3>3. CASE e # o
        <4>1. PointerCount'[o] = PointerCount[o] + 0
          BY <1>1, <3>1, <3>3 DEF One
        <4> QED BY <3>1, <4>1
      <3> QED BY <3>2, <3>3
    <2>2. ASSUME NEW o \in Objects PROVE Free(t, o) \/ (handles'[o] = handles[o] /\ QueryReferences'[o] = QueryReferences[o])
      <3>1. QueryReferences[o] \in Int
        BY <1>0 DEF Types
      <3>2. e # o => QueryReferences'[o] = QueryReferences[o] + 0
        BY <1>1 DEF One
      <3> QED BY <1>3, <3>1, <3>2
    <2>3. Living(todo[t])
      BY DEF Serves, Final
    <2> QED BY <2>1, <2>2, <2>3 DEF FrameStep, reaper, Ready
  <1>11. Moves(t, st)
    BY DEF Moves, Ready
  <1> QED BY <1>4, <1>7, <1>8, <1>9, <1>10, <1>11, StepKeeps

\* An insertion that fails keeps the invariant.
LEMMA KeepInsertFails ==
  ASSUME Inv, NEW t \in Threads, InsertFails(t)
  PROVE  Inv'
  <1>1. PICK a, q : Serves(t, "insert", a, q)
    BY Current DEF InsertFails
  <1>2. PICK x \in Objects : x = a.obj
    BY <1>1 DEF Serves
  <1>3. Obj(t) = x /\ Stacked(t, q) /\ q \in Seq(StepType)
    BY <1>1, <1>2 DEF Serves
  <1>4. Types /\ Name[x] \in Names
    BY <1>1, <1>2, Insertion DEF Inv, TypeOK
  <1>5. PICK e \in Objects \cup {NULL} : e = entry[Name[x]]
    BY <1>4 DEF Types
  <1> DEFINE p == ReleaseContext(x) \o q  st == ReleaseContext(e) \o p
  <1>u. UNCHANGED <<live, HandleCount, name, handles, reaper, skipped>>
    BY DEF InsertFails
  <1>6. IF e = NULL
        THEN UNCHANGED <<PointerCount, QueryReferences>>
        ELSE /\ PointerCount' = Add(PointerCount, e, 1)
             /\ QueryReferences' = Add(QueryReferences, e, 1)
    BY <1>3, <1>5 DEF InsertFails
  <1>7. /\ Stacked(t, p) /\ Range(q) \subseteq Range(p)
        /\ ReleaseContext(x) = <<DerefName(x), Deref(x)>>
        /\ \A o \in Objects : Gains(t, p, o, 0, 0, One(x = o))
    BY <1>1, <1>2, PutOwn
  <1>8. todo' = [todo EXCEPT ![t] = st]
    <2>1. Then(t, ReleaseContext(e) \o <<DerefName(x), Deref(x)>>)
      BY <1>3, <1>5 DEF InsertFails
    <2>2. todo' = [todo EXCEPT ![t] = (ReleaseContext(e) \o ReleaseContext(x)) \o q]
      BY <1>1, <1>7, <2>1 DEF Serves
    <2>3. ReleaseContext(e) \in Seq(StepType) /\ ReleaseContext(x) \in Seq(StepType)
      BY ReleaseSteps
    <2>4. Grouped(ReleaseContext(e), ReleaseContext(x), q)
      BY <1>3, <2>3, Regroup
    <2> QED BY <2>2, <2>4 DEF Grouped
  <1>9. e # NULL => Free(t, e)
    <2>1. e # NULL => e \in Objects /\ Entered(e) = 1
      BY <1>4, <1>5, EnteredIs
    <2> QED BY <2>1, FreeIf
  <1> HIDE DEF p
  <1>10. Stacked(t, st) /\ Range(p) \subseteq Range(st)
    BY <1>7, <1>9, PutRelease
  <1>11. ASSUME NEW o \in Objects PROVE Gains(t, st, o, One(e = o), 0, One(x = o) + One(e = o))
    <2>1. PICK z \in Int, v \in Int, w \in Int : z = 0 /\ v = One(x = o) /\ w = One(e = o)
      BY DEF One
    <2>2. Gains(t, p, o, z, z, v)
      BY <1>7, <2>1
    <2>3. Gains(t, st, o, z + One(e = o), z, v + One(e = o))
      BY <1>7, <1>9, <2>2, GainRelease
    <2>4. z + One(e = o) = One(e = o)
      BY <2>1
    <2> QED BY <2>1, <2>3, <2>4
  <1> HIDE DEF st
  <1>12. Raised(PointerCount, PointerCount', e) /\ Raised(QueryReferences, QueryReferences', e)
    <2>0. PointerCount \in [Objects -> Int] /\ QueryReferences \in [Objects -> Int]
      BY <1>4 DEF Types
    <2>1. CASE e = NULL
      BY <1>6, <2>0, <2>1, RaisedNone
    <2>2. CASE e # NULL
      BY <1>6, <2>0, <2>2, RaisedOne
    <2> QED BY <2>1, <2>2
  <1>13. /\ UNCHANGED <<live, HandleCount, Name, Permanent, Directory, entry, handles, reaper, skipped>>
         /\ dirLock' \in Threads \cup {NULL}
    BY <1>u, <1>4 DEF name, Types
  <1>14. Ready(t, q, st) /\ InsertGains(t, st, x, e)
    BY <1>7, <1>10, <1>11 DEF Stacked, Ready, InsertGains
  <1> QED BY <1>1, <1>2, <1>5, <1>8, <1>12, <1>13, <1>14, InsertKeeps

\* An insertion that opens another object keeps the invariant.
LEMMA KeepInsertOpens ==
  ASSUME Inv, NEW t \in Threads, InsertOpens(t)
  PROVE  Inv'
  <1>1. PICK a, q : Serves(t, "insert", a, q)
    BY Current DEF InsertOpens
  <1>2. PICK x \in Objects : x = a.obj
    BY <1>1 DEF Serves
  <1>3. Obj(t) = x /\ Stacked(t, q) /\ q \in Seq(StepType)
    BY <1>1, <1>2 DEF Serves
  <1>4. Types /\ Name[x] \in Names
    BY <1>1, <1>2, Insertion DEF Inv, TypeOK
  <1>5. PICK e \in Objects : e = entry[Name[x]]
    BY <1>3, <1>4 DEF Types, InsertOpens
  <1>f. PICK f \in BOOLEAN : f = TRUE
    OBVIOUS
  <1> DEFINE b == CountHandle(e, f, e, x)  p == ReleaseContext(x) \o q  st == <<b>> \o p
  <1>u. UNCHANGED <<live, HandleCount, Name, Permanent, Directory, entry, handles, reaper, skipped>> /\ dirLock' = t
    BY DEF InsertOpens
  <1>6. PointerCount' = Add(PointerCount, e, 1) /\ QueryReferences' = Add(QueryReferences, e, 1)
    BY <1>3, <1>5 DEF InsertOpens
  <1>7. /\ Stacked(t, p) /\ Range(q) \subseteq Range(p) /\ Deref(x) \in Range(p) /\ DerefName(x) \in Range(p)
        /\ ReleaseContext(x) = <<DerefName(x), Deref(x)>>
        /\ \A o \in Objects : Gains(t, p, o, 0, 0, One(x = o))
    BY <1>1, <1>2, PutOwn
  <1>9. Free(t, e) /\ e \in live
    <2>1. Entered(e) = 1
      BY <1>4, <1>5, EnteredIs
    <2>2. Free(t, e)
      BY <2>1, FreeIf
    <2> QED BY <2>2 DEF Free
  <1>10. /\ b \in StepType /\ b.op = "counthandle" /\ b.obj = e /\ Fits(t, b)
         /\ b.arg.new = f /\ b.arg.context = e /\ b.arg.inserted = x
         /\ \A o : /\ Ref(b, o) = One(e = o /\ ~f) + One(e = o)
                  /\ Hnd(b, o) = 0 /\ Qry(b, o) = One(e = o)
    BY <1>9, NewHandleStep
  <1>8. todo' = [todo EXCEPT ![t] = st]
    <2>0. DerefName(x) \in StepType /\ Deref(x) \in StepType
      BY PlainStep DEF PlainOps, Deref, DerefName
    <2>1. Then(t, <<b, DerefName(x), Deref(x)>>)
      BY <1>3, <1>5, <1>f DEF InsertOpens
    <2>2. todo' = [todo EXCEPT ![t] = <<b, DerefName(x), Deref(x)>> \o q]
      BY <1>1, <2>1 DEF Serves
    <2> HIDE DEF b
    <2>3. Spread(b, DerefName(x), Deref(x), q)
      BY <1>3, <1>10, <2>0, Unfold
    <2> QED BY <1>7, <2>2, <2>3 DEF Spread
  <1> HIDE DEF b, p
  <1>11. Backed(b, Range(p)) /\ Sound(p)
    <2>1. Patient(Range(p)) /\ Sound(p)
      BY <1>7 DEF Stacked
    <2>2. b.arg.inserted = x /\ b.arg.new /\ b.obj = b.arg.context /\ x # NULL
      BY <1>f, <1>10, ObjectAssumption
    <2>3. b.op \in {"counthandle", "grant", "exhandle"}
      BY <1>10
    <2> QED BY <1>7, <2>1, <2>2, <2>3, BackedHandle
  <1>12. Sound(st) /\ Range(st) = {b} \cup Range(p) /\ \A s \in Range(st) : Fits(t, s)
    BY <1>7, <1>10, <1>11, PutOne
  <1>13. ASSUME NEW o \in Objects PROVE Gains(t, st, o, One(e = o), 0, One(x = o) + One(e = o))
    <2>1. PICK z \in Int, v \in Int, w \in Int : z = 0 /\ v = One(x = o) /\ w = One(e = o)
      BY DEF One
    <2>2. Gains(t, p, o, z, z, v)
      BY <1>7, <2>1
    <2>3. Gains(t, st, o, z + Ref(b, o), z + Hnd(b, o), v + Qry(b, o))
      BY <1>10, <1>11, <2>2, GainPush
    <2>5. One(e = o /\ ~f) = 0
      BY <1>f DEF One
    <2>4. z + Ref(b, o) = One(e = o) /\ z + Hnd(b, o) = 0 /\ v + Qry(b, o) = One(x = o) + One(e = o)
      BY <1>10, <2>1, <2>5
    <2> QED BY <2>3, <2>4
  <1> HIDE DEF st
  <1>14. Raised(PointerCount, PointerCount', e) /\ Raised(QueryReferences, QueryReferences', e)
    <2>1. PointerCount \in [Objects -> Int] /\ QueryReferences \in [Objects -> Int]
      BY <1>4 DEF Types
    <2> QED BY <1>6, <2>1, RaisedOne
  <1>15. Ready(t, q, st) /\ InsertGains(t, st, x, e) /\ dirLock' \in Threads \cup {NULL}
    BY <1>u, <1>7, <1>12, <1>13 DEF Ready, InsertGains
  <1> QED BY <1>u, <1>1, <1>2, <1>5, <1>8, <1>14, <1>15, InsertKeeps

\* How the query references of calls in progress change.
LEMMA QueriesMove ==
  ASSUME Inv, NEW t \in Threads, NEW st, Moves(t, st), NEW o, NEW r, NEW h, NEW y \in Int, Gains(t, st, o, r, h, y)
  PROVE  QryT(todo, o) \in Nat /\ QryT(todo', o) = QryT(todo, o) + y
  <1>0. Sounds /\ Sound(st) /\ Sound(todo[t]) /\ todo \in StacksType
    BY SoundsIs DEF Inv, Sounds, Moves
  <1>1. QryT(todo', o) = QryT(todo, o) + QryN(st, o) - QryN(todo[t], o)
    BY <1>0, MoveTotals
  <1>2. QryT(todo, o) \in Nat
    BY <1>0, TotalsNat
  <1>3. QryN(st, o) \in Nat /\ QryN(todo[t], o) \in Nat
    BY <1>0, SoundCounts
  <1>4. QryN(st, o) - QryN(todo[t], o) = y
    BY DEF Gains
  <1> QED BY <1>1, <1>2, <1>3, <1>4

\* An insertion keeps the invariant.
LEMMA KeepInsertNew ==
  ASSUME Inv, NEW t \in Threads, InsertNew(t)
  PROVE  Inv'
  <1>1. PICK a, q : Serves(t, "insert", a, q)
    BY Current DEF InsertNew
  <1>2. PICK x \in Objects : x = a.obj
    BY <1>1 DEF Serves
  <1>3. /\ Obj(t) = x /\ Stacked(t, q) /\ q \in Seq(StepType) /\ Runs(t, a, q) /\ Living(todo[t])
        /\ Range(todo[t]) = {a} \cup Range(q)
    BY <1>1, <1>2 DEF Serves, Runs, Final
  <1>4. /\ Free(t, x) /\ x \in live /\ Name[x] \in Names /\ Entered(x) = 0 /\ QueryReferences[x] = 2
        /\ PointerCount[x] >= 1 /\ Range(q) = {} /\ QryT(todo, x) = 0 /\ \A n \in Names : ~Watches(a, entry[n])
    BY <1>1, <1>2, Insertion
  <1>5. Types
    BY DEF Inv, TypeOK
  <1>f. PICK f \in BOOLEAN, z \in Objects \cup {NULL}, i \in Objects \cup {NULL} : f = TRUE /\ z = NULL /\ i = x
    OBVIOUS
  <1> DEFINE b == CountHandle(x, f, z, i)  p == ReleaseContext(x) \o q  st == <<b>> \o p
  <1>u. /\ UNCHANGED <<live, HandleCount, QueryReferences, Name, Permanent, handles, reaper, skipped>>
        /\ dirLock' = t
    BY DEF InsertNew
  <1>6. PointerCount' = Add(PointerCount, x, 1) /\ Directory' = [Directory EXCEPT ![x] = TRUE]
    BY <1>3 DEF InsertNew
  <1>e. entry[Name[x]] = NULL /\ entry' = [entry EXCEPT ![Name[x]] = x]
    BY <1>3 DEF InsertNew
  <1>7. /\ Stacked(t, p) /\ Range(q) \subseteq Range(p) /\ Deref(x) \in Range(p) /\ DerefName(x) \in Range(p)
        /\ ReleaseContext(x) = <<DerefName(x), Deref(x)>>
        /\ \A o \in Objects : Gains(t, p, o, 0, 0, One(x = o))
    BY <1>1, <1>2, PutOwn
  <1>8. /\ b \in StepType /\ b.op = "counthandle" /\ b.obj = x /\ Fits(t, b)
        /\ b.arg.new = f /\ b.arg.context = z /\ b.arg.inserted = i
        /\ \A o : /\ Ref(b, o) = One(x = o /\ ~f) + One(z = o)
                 /\ Hnd(b, o) = 0 /\ Qry(b, o) = One(z = o)
    <2>1. x \in live /\ Free(t, x) /\ (z # NULL => Free(t, z))
      BY <1>f, <1>4
    <2> QED BY <2>1, NewHandleStep
  <1>9. todo' = [todo EXCEPT ![t] = st]
    <2>0. DerefName(x) \in StepType /\ Deref(x) \in StepType
      BY PlainStep DEF PlainOps, Deref, DerefName
    <2>1. Then(t, <<b, DerefName(x), Deref(x)>>)
      BY <1>3, <1>f DEF InsertNew
    <2>2. todo' = [todo EXCEPT ![t] = <<b, DerefName(x), Deref(x)>> \o q]
      BY <1>1, <2>1 DEF Serves
    <2> HIDE DEF b
    <2>3. Spread(b, DerefName(x), Deref(x), q)
      BY <1>3, <1>8, <2>0, Unfold
    <2> QED BY <1>7, <2>2, <2>3 DEF Spread
  <1> HIDE DEF b, p
  <1>10. Backed(b, Range(p)) /\ Sound(p)
    <2>1. Patient(Range(p)) /\ Sound(p)
      BY <1>7 DEF Stacked
    <2>2. b.arg.inserted = x /\ b.arg.new /\ b.obj = b.arg.inserted /\ x # NULL
      BY <1>f, <1>8, ObjectAssumption
    <2>3. b.op \in {"counthandle", "grant", "exhandle"}
      BY <1>8
    <2> QED BY <1>7, <2>1, <2>2, <2>3, BackedHandle
  <1>11. Sound(st) /\ Range(st) = {b} \cup Range(p) /\ \A s \in Range(st) : Fits(t, s)
    BY <1>7, <1>8, <1>10, PutOne
  <1>12. ASSUME NEW o \in Objects PROVE Gains(t, st, o, 0, 0, One(x = o))
    <2>1. PICK k \in Int, v \in Int : k = 0 /\ v = One(x = o)
      BY DEF One
    <2>2. Gains(t, p, o, k, k, v)
      BY <1>7, <2>1
    <2>3. Gains(t, st, o, k + Ref(b, o), k + Hnd(b, o), v + Qry(b, o))
      BY <1>8, <1>10, <2>2, GainPush
    <2>4. One(x = o /\ ~f) = 0 /\ One(z = o) = 0
      BY <1>f, ObjectAssumption DEF One
    <2>5. k + Ref(b, o) = 0 /\ k + Hnd(b, o) = 0 /\ v + Qry(b, o) = One(x = o)
      BY <1>8, <2>1, <2>4
    <2> QED BY <2>3, <2>5
  <1> HIDE DEF st
  <1>13. Raised(PointerCount, PointerCount', x)
    BY <1>5, <1>6, RaisedOne DEF Types
  <1>14. /\ entry' \in [Names -> Objects \cup {NULL}] /\ entry'[Name[x]] = x
         /\ \A n \in Names \ {Name[x]} : entry'[n] = entry[n] /\ entry[n] # x
    <2>1. entry \in [Names -> Objects \cup {NULL}]
      BY <1>5 DEF Types
    <2>2. \A n \in Names : entry[n] # x
      BY <1>4, EnteredIs
    <2> QED BY <1>4, <1>e, <2>1, <2>2
  <1>15. Directory' \in [Objects -> BOOLEAN] /\ Directory'[x] /\ \A o \in Objects \ {x} : Directory'[o] = Directory[o]
    <2>1. Directory \in [Objects -> BOOLEAN]
      BY <1>5 DEF Types
    <2> QED BY <1>6, <2>1
  <1>16. Types'
    BY <1>u, <1>5, <1>13, <1>14, <1>15 DEF Types, reaper, Raised
  <1>17. Moves(t, st)
    BY <1>9, <1>11 DEF Moves
  <1>18. ASSUME NEW o \in Objects PROVE Entered(o)' = Entered(o) + One(x = o)
    <2>1. CASE o = x
      <3>1. Entered(o)' = 1
        BY <1>4, <1>14, <2>1, EnteredWillBe
      <3> QED BY <1>4, <2>1, <3>1 DEF One
    <2>2. CASE o # x
      <3>1. \A n \in Names : entry'[n] = o <=> entry[n] = o
        BY <1>e, <1>14, <2>2, ObjectAssumption
      <3>2. Entered(o)' = Entered(o)
        BY <3>1 DEF Entered
      <3>3. Entered(o) \in {0, 1} /\ One(x = o) = 0
        BY <2>2, EnteredIs DEF One
      <3> QED BY <3>2, <3>3
    <2> QED BY <2>1, <2>2
  <1>19. CountsStep(t, st)
    <2>1. live \subseteq Objects
      BY <1>5 DEF Types
    <2>2. ASSUME NEW o \in Objects
          PROVE  /\ PointerCount'[o] - PointerCount[o] =
                      (handles'[o] - handles[o]) + (Entered(o)' - Entered(o)) + (skipped'[o] - skipped[o])
                      + (RefN(st, o) - RefN(todo[t], o))
                 /\ HandleCount'[o] - HandleCount[o] =
                      (handles'[o] - handles[o]) + (HndN(st, o) - HndN(todo[t], o))
      <3>1. RefN(st, o) - RefN(todo[t], o) = 0 /\ HndN(st, o) - HndN(todo[t], o) = 0
        BY <1>12 DEF Gains
      <3>2. PointerCount'[o] = PointerCount[o] + One(x = o) /\ PointerCount[o] \in Int /\ One(x = o) \in Int
        BY <1>5, <1>13 DEF Raised, One, Types
      <3>3. /\ handles[o] \in Int /\ skipped[o] \in Int /\ HandleCount[o] \in Int
            /\ handles' = handles /\ skipped' = skipped /\ HandleCount' = HandleCount
        BY <1>u, <1>5 DEF Types
      <3>4. Entered(o)' = Entered(o) + One(x = o) /\ Entered(o) \in Int
        BY <1>18, EnteredIs
      <3> DEFINE e == Entered(o)  ee == Entered(o)'
      <3>5. ee = e + One(x = o) /\ e \in Int
        BY <3>4
      <3> HIDE DEF e, ee
      <3>6. /\ PointerCount'[o] - PointerCount[o] =
                 (handles'[o] - handles[o]) + (ee - e) + (skipped'[o] - skipped[o])
                 + (RefN(st, o) - RefN(todo[t], o))
        BY <3>1, <3>2, <3>3, <3>5
      <3>7. HandleCount'[o] - HandleCount[o] = (handles'[o] - handles[o]) + (HndN(st, o) - HndN(todo[t], o))
        BY <3>1, <3>3
      <3> QED BY <3>6, <3>7 DEF e, ee
    <2> QED BY <2>1, <2>2 DEF CountsStep
  <1>20. EntryStep(t, st)
    <2>1. ASSUME NEW o \in Objects
          PROVE  Free(t, o) \/ (Entered(o)' = Entered(o) /\ QueryReferences'[o] = QueryReferences[o])
      <3>1. o # x => Entered(o)' = Entered(o)
        <4>1. o # x => One(x = o) = 0
          BY DEF One
        <4>2. Entered(o) \in {0, 1}
          BY EnteredIs
        <4> QED BY <1>18, <4>1, <4>2
      <3> QED BY <1>u, <1>4, <3>1
    <2>2. ASSUME NEW n \in Names, entry'[n] # NULL
          PROVE  /\ entry'[n] \in live /\ Name[entry'[n]] = n /\ Directory'[entry'[n]]
                 /\ QueryReferences'[entry'[n]] = 1 + QryT(todo', entry'[n])
      <3>1. CASE n = Name[x]
        <4>1. PICK y \in Int : y = 1
          OBVIOUS
        <4>2. Gains(t, st, x, 0, 0, y)
          BY <1>12, <4>1 DEF One
        <4>3. QryT(todo', x) = QryT(todo, x) + y
          BY <1>17, <4>2, QueriesMove
        <4> QED BY <1>u, <1>4, <1>14, <1>15, <3>1, <4>1, <4>3
      <3>2. CASE n # Name[x]
        <4>1. PICK o \in Objects : o = entry'[n] /\ o = entry[n] /\ o # x
          BY <1>14, <2>2, <3>2
        <4>2. o \in live /\ Name[o] = n /\ Directory[o] /\ QueryReferences[o] = 1 + QryT(todo, o)
          BY <2>2, <4>1, LiveObjects DEF Inv, Naming
        <4>3. PICK y \in Int : y = 0
          OBVIOUS
        <4>4. Gains(t, st, o, 0, 0, y)
          BY <1>12, <4>1, <4>3 DEF One
        <4>5. QryT(todo, o) \in Nat /\ QryT(todo', o) = QryT(todo, o) + y
          BY <1>17, <4>4, QueriesMove
        <4> QED BY <1>u, <1>15, <4>1, <4>2, <4>3, <4>5
      <3> QED BY <3>1, <3>2
    <2>3. \A o \in Objects : Directory'[o] => Name[o] \in Names
      BY <1>4, <1>15 DEF Inv, Naming
    <2>4. ASSUME NEW o \in live
          PROVE  PointerCount'[o] = PointerCount[o] \/ (PointerCount[o] # 0 /\ PointerCount'[o] # 0)
      <3>1. o \in Objects /\ PointerCount[o] \in Int /\ PointerCount'[o] = PointerCount[o] + One(x = o)
        BY <1>5, <1>13 DEF Types, Raised
      <3> QED BY <1>4, <3>1 DEF One
    <2> QED BY <1>u, <1>3, <1>11, <2>1, <2>2, <2>3, <2>4 DEF EntryStep, reaper
  <1>21. OrphanStep(t, st)
    <2>1. Watches(b, x) /\ b \in Range(st)
      BY <1>f, <1>8, <1>11 DEF Watches
    <2>2. \A n \in Names : \A s \in Range(todo[t]) : ~Watches(s, entry[n])
      BY <1>3, <1>4
    <2>3. ASSUME NEW n \in Names, entry'[n] # NULL
          PROVE  \/ HandleCount'[entry'[n]] # 0 \/ Permanent'[entry'[n]]
                 \/ \E s \in Range(st) : Watches(s, entry'[n])
                 \/ /\ entry[n] = entry'[n] /\ HandleCount[entry'[n]] = 0 /\ ~Permanent[entry'[n]]
                    /\ \A s \in Range(todo[t]) : ~Watches(s, entry'[n])
      BY <1>u, <1>14, <2>1, <2>2
    <2> QED BY <2>3 DEF OrphanStep
  <1> QED BY <1>16, <1>17, <1>19, <1>20, <1>21, EntryKeeps

\* A name's query reference may be left for later.
LEMMA PutDerefName ==
  ASSUME Inv, NEW t \in Threads, NEW q, Stacked(t, q), NEW x \in Objects, Free(t, x), Deref(x) \in Range(q)
  PROVE  LET st == <<DerefName(x)>> \o q
         IN  /\ Stacked(t, st) /\ Range(q) \subseteq Range(st) /\ <<DerefName(x)>> \in Seq(StepType)
             /\ \A o, r, k, y : r \in Int /\ k \in Int /\ y \in Int /\ Gains(t, q, o, r, k, y)
                   => Gains(t, st, o, r, k, y + One(x = o))
  <1>0. Sound(q) /\ Patient(Range(q)) /\ x \in live
    BY DEF Stacked, Free
  <1> DEFINE b == DerefName(x)  st == <<b>> \o q
  <1>1. b \in StepType /\ b.op = "derefname" /\ b.obj = x /\ Fits(t, b)
    BY <1>0, PlainStep, PlainFits DEF PlainOps, DerefName
  <1> HIDE DEF b
  <1>2. Backed(b, Range(q))
    BY <1>0, <1>1, BackedIs
  <1>3. Stacked(t, st) /\ Range(st) = {b} \cup Range(q)
    BY <1>1, <1>2, PutOne
  <1>4. ASSUME NEW o, NEW r \in Int, NEW k \in Int, NEW y \in Int, Gains(t, q, o, r, k, y)
        PROVE  Gains(t, st, o, r, k, y + One(x = o))
    <2>1. Gains(t, st, o, r + Ref(b, o), k + Hnd(b, o), y + Qry(b, o))
      BY <1>0, <1>1, <1>2, <1>4, GainPush
    <2>2. Ref(b, o) = 0 /\ Hnd(b, o) = 0 /\ Qry(b, o) = One(x = o)
      BY <1>1, OpWeights
    <2> QED BY <2>1, <2>2
  <1>5. <<b>> \in Seq(StepType)
    BY <1>1
  <1> HIDE DEF st
  <1>6. /\ Stacked(t, st) /\ Range(q) \subseteq Range(st) /\ <<b>> \in Seq(StepType)
        /\ \A o, r, k, y : r \in Int /\ k \in Int /\ y \in Int /\ Gains(t, q, o, r, k, y)
              => Gains(t, st, o, r, k, y + One(x = o))
    BY <1>3, <1>4, <1>5
  <1> QED BY <1>6 DEF b, st

\* What the deletion of a name starts from.
LEMMA NameDeletion ==
  ASSUME Inv, NEW t \in Threads, NEW a, NEW q, Serves(t, "namedelete", a, q), NEW x \in Objects, x = a.obj
  PROVE  /\ Free(t, x) /\ x \in live /\ Name[x] \in Names /\ Deref(x) \in Range(q)
         /\ \A o \in Objects : Gains(t, q, o, 0, 0, 0 - One(x = o))
         /\ \A n \in Names : entry[n] = x => n = Name[x]
         /\ \A n \in Names : entry[n] # x => ~Watches(a, entry[n])
  <1>1. a.op = "namedelete" /\ a \in StepType /\ a \in Range(todo[t]) /\ Backed(a, Range(q)) /\ Runs(t, a, q)
    BY DEF Serves
  <1>2. Free(t, x) /\ x \in live
    BY <1>1, FreeIf DEF Free, Has, Passing
  <1>3. Name[x] \in Names /\ \A n \in Names : entry[n] = x => n = Name[x]
    BY <1>1, ObjectAssumption DEF Inv, Naming
  <1>4. Deref(x) \in Range(q)
    BY <1>1, BackedIs
  <1>5. ASSUME NEW o \in Objects PROVE Gains(t, q, o, 0, 0, 0 - One(x = o))
    <2>1. Gains(t, q, o, 0 - Ref(a, o), 0 - Hnd(a, o), 0 - Qry(a, o))
      BY <1>1, GainPop
    <2>2. Ref(a, o) = 0 /\ Hnd(a, o) = 0 /\ Qry(a, o) = One(x = o)
      BY <1>1, OpWeights
    <2> QED BY <2>1, <2>2
  <1>6. \A n \in Names : entry[n] # x => ~Watches(a, entry[n])
    BY DEF Watches
  <1> QED BY <1>2, <1>3, <1>4, <1>5, <1>6

\* The name is gone, or it is found and the object is in use again.
LEMMA NameStays ==
  ASSUME Inv, NEW t \in Threads, NEW a, NEW q, Serves(t, "namedelete", a, q), NEW x \in Objects, x = a.obj,
         NEW e \in Objects \cup {NULL}, e = entry[Name[x]], e = x => HandleCount[x] # 0 \/ Permanent[x],
         todo' = [todo EXCEPT ![t] = ReleaseContext(e) \o (<<DerefName(x)>> \o q)],
         Raised(PointerCount, PointerCount', e), Raised(QueryReferences, QueryReferences', e),
         UNCHANGED <<live, HandleCount, name, handles, reaper, skipped>>
  PROVE  Inv'
  <1> DEFINE p == <<DerefName(x)>> \o q  st == ReleaseContext(e) \o p
  <1>1. Types
    BY DEF Inv, TypeOK
  <1>2. /\ Free(t, x) /\ x \in live /\ Name[x] \in Names /\ Deref(x) \in Range(q)
        /\ \A n \in Names : entry[n] = x => n = Name[x]
        /\ \A n \in Names : entry[n] # x => ~Watches(a, entry[n])
    BY NameDeletion
  <1>3. Stacked(t, q) /\ Runs(t, a, q) /\ Living(todo[t])
    BY DEF Serves, Final
  <1>4. ASSUME e \in Objects PROVE Free(t, e) /\ e \in live /\ PointerCount[e] >= 1
    <2>1. Entered(e) = 1
      BY <1>2, EnteredIs
    <2>2. Free(t, e)
      BY <1>4, <2>1, FreeIf
    <2>3. e \in live
      BY <2>2 DEF Free
    <2> QED BY <2>1, <2>2, <2>3, Referenced
  <1>5. /\ Stacked(t, p) /\ Range(q) \subseteq Range(p)
        /\ \A o, r, k, y : r \in Int /\ k \in Int /\ y \in Int /\ Gains(t, q, o, r, k, y)
              => Gains(t, p, o, r, k, y + One(x = o))
    BY <1>2, <1>3, PutDerefName
  <1> HIDE DEF p
  <1>6. Stacked(t, st) /\ Range(p) \subseteq Range(st)
    BY <1>4, <1>5, PutRelease
  <1>7. ASSUME NEW o \in Objects PROVE Gains(t, st, o, One(e = o), 0, One(e = o))
    <2>1. PICK z \in Int, u \in Int, v \in Int, w \in Int : z = 0 /\ u = One(x = o) /\ v = 0 - u /\ w = One(e = o)
      BY DEF One
    <2>2. Gains(t, q, o, z, z, v)
      BY <2>1, NameDeletion
    <2>3. Gains(t, p, o, z, z, v + One(x = o))
      BY <1>5, <2>2
    <2>4. Gains(t, p, o, z, z, z)
      BY <2>1, <2>3
    <2>5. e # NULL => Free(t, e)
      BY <1>4
    <2>6. Gains(t, st, o, z + One(e = o), z, z + One(e = o))
      BY <1>5, <2>4, <2>5, GainRelease
    <2>7. z + One(e = o) = One(e = o)
      BY <2>1
    <2> QED BY <2>1, <2>6, <2>7
  <1>0. todo' = [todo EXCEPT ![t] = st]
    BY DEF p
  <1> HIDE DEF st
  <1>8. Types'
    BY <1>1 DEF Types, name, reaper, Raised
  <1>9. ASSUME NEW o \in Objects PROVE Books(t, st, o)
    <2>1. RefN(st, o) - RefN(todo[t], o) = One(e = o) /\ HndN(st, o) - HndN(todo[t], o) = 0
             /\ QryN(st, o) - QryN(todo[t], o) = One(e = o)
      BY <1>7 DEF Gains
    <2>2. PointerCount'[o] = PointerCount[o] + One(e = o) /\ QueryReferences'[o] = QueryReferences[o] + One(e = o)
      BY DEF Raised
    <2>3. /\ PointerCount[o] \in Int /\ QueryReferences[o] \in Int /\ HandleCount[o] \in Int
          /\ handles[o] \in Int /\ skipped[o] \in Int /\ One(e = o) \in Int
      BY <1>1 DEF Types, One
    <2> QED BY <2>1, <2>2, <2>3 DEF Books
  <1>10. OrphanStep(t, st)
    <2>1. ASSUME NEW n \in Names, entry[n] # NULL
          PROVE  HandleCount'[entry[n]] # 0 \/ Permanent'[entry[n]] \/ ~Watches(a, entry[n])
      BY <1>2 DEF name
    <2>2. Range(q) \subseteq Range(st)
      BY <1>5, <1>6
    <2> QED BY <1>3, <2>1, <2>2, OrphanRun DEF name
  <1>11. FrameStep(t, st) /\ Directory' = Directory
    <2>1. ASSUME NEW o \in live
          PROVE  PointerCount'[o] = PointerCount[o] \/ (PointerCount[o] # 0 /\ PointerCount'[o] # 0)
      <3>1. o \in Objects /\ PointerCount[o] \in Int /\ PointerCount'[o] = PointerCount[o] + One(e = o)
        BY <1>1 DEF Types, Raised
      <3> QED BY <1>4, <3>1 DEF One
    <2>2. ASSUME NEW o \in Objects PROVE Free(t, o) \/ (handles'[o] = handles[o] /\ QueryReferences'[o] = QueryReferences[o])
      <3>1. QueryReferences[o] \in Int /\ QueryReferences'[o] = QueryReferences[o] + One(e = o)
        BY <1>1 DEF Types, Raised
      <3> QED BY <1>4, <3>1 DEF One
    <2> QED BY <1>3, <1>6, <2>1, <2>2 DEF FrameStep, name, reaper, Stacked
  <1>12. Moves(t, st)
    BY <1>0, <1>6 DEF Moves, Stacked
  <1> QED BY <1>8, <1>9, <1>10, <1>11, <1>12, BooksKeep

\* The name is found and the object is not in use: the entry is deleted.
LEMMA NameGoes ==
  ASSUME Inv, NEW t \in Threads, NEW a, NEW q, Serves(t, "namedelete", a, q), NEW x \in Objects, x = a.obj,
         NEW e \in Objects, e = entry[Name[x]],
         todo' = [todo EXCEPT ![t] =
             ReleaseContext(e) \o (<<DerefName(x)>> \o (<<DerefName(x)>> \o (<<Deref(e)>> \o q)))],
         Raised(PointerCount, PointerCount', e), Raised(QueryReferences, QueryReferences', e),
         entry' = [entry EXCEPT ![Name[x]] = NULL],
         UNCHANGED <<live, HandleCount, Name, Permanent, Directory, dirLock, handles, reaper, skipped>>
  PROVE  Inv'
  <1> DEFINE p1 == <<Deref(e)>> \o q  p2 == <<DerefName(x)>> \o p1  p3 == <<DerefName(x)>> \o p2
             st == ReleaseContext(e) \o p3
  <1>1. Types
    BY DEF Inv, TypeOK
  <1>2. /\ Free(t, x) /\ x \in live /\ Name[x] \in Names /\ Deref(x) \in Range(q)
        /\ \A n \in Names : entry[n] = x => n = Name[x]
        /\ \A n \in Names : entry[n] # x => ~Watches(a, entry[n])
    BY NameDeletion
  <1>3. Stacked(t, q) /\ Runs(t, a, q) /\ Living(todo[t])
    BY DEF Serves, Final
  <1>4. Free(t, e) /\ e \in live /\ PointerCount[e] >= 1 /\ Entered(e) = 1
    <2>1. Entered(e) = 1
      BY <1>2, EnteredIs
    <2>2. Free(t, e)
      BY <2>1, FreeIf
    <2>3. e \in live
      BY <2>2 DEF Free
    <2> QED BY <2>1, <2>2, <2>3, Referenced
  <1>c. PICK c \in BOOLEAN : c = FALSE
    OBVIOUS
  <1>5. /\ Stacked(t, p1) /\ Range(q) \subseteq Range(p1)
        /\ \A o, r, k, y : r \in Int /\ k \in Int /\ y \in Int /\ Gains(t, q, o, r, k, y)
              => Gains(t, p1, o, r + One(e = o), k, y)
    <2> DEFINE D == IF c THEN << >> ELSE <<Deref(e)>>
    <2>1. /\ Stacked(t, D \o q) /\ Range(q) \subseteq Range(D \o q)
          /\ \A o, r, k, y : r \in Int /\ k \in Int /\ y \in Int /\ Gains(t, q, o, r, k, y)
                => Gains(t, D \o q, o, r + One(e = o /\ ~c), k, y)
      BY <1>3, <1>4, PutDeref
    <2>2. D = <<Deref(e)>> /\ \A o : One(e = o /\ ~c) = One(e = o)
      BY <1>c DEF One
    <2> HIDE DEF D
    <2> QED BY <2>1, <2>2
  <1> HIDE DEF p1
  <1>6. /\ Stacked(t, p2) /\ Range(p1) \subseteq Range(p2)
        /\ \A o, r, k, y : r \in Int /\ k \in Int /\ y \in Int /\ Gains(t, p1, o, r, k, y)
              => Gains(t, p2, o, r, k, y + One(x = o))
    BY <1>2, <1>5, PutDerefName
  <1> HIDE DEF p2
  <1>7. /\ Stacked(t, p3) /\ Range(p2) \subseteq Range(p3)
        /\ \A o, r, k, y : r \in Int /\ k \in Int /\ y \in Int /\ Gains(t, p2, o, r, k, y)
              => Gains(t, p3, o, r, k, y + One(x = o))
    BY <1>2, <1>5, <1>6, PutDerefName
  <1> HIDE DEF p3
  <1>n. e \in Objects \cup {NULL}
    OBVIOUS
  <1>8. Stacked(t, st) /\ Range(p3) \subseteq Range(st)
    BY <1>n, <1>4, <1>7, PutRelease
  <1>r. Range(q) \subseteq Range(st)
    <2>1. Range(q) \subseteq Range(p1)
      BY <1>5
    <2>2. Range(p1) \subseteq Range(p2)
      BY <1>6
    <2>3. Range(p2) \subseteq Range(p3)
      BY <1>7
    <2>4. Range(p3) \subseteq Range(st)
      BY <1>8
    <2> HIDE DEF st
    <2> QED BY <2>1, <2>2, <2>3, <2>4
  <1>9. ASSUME NEW o \in Objects PROVE Gains(t, st, o, One(e = o) + One(e = o), 0, One(x = o) + One(e = o))
    <2>1. PICK z \in Int, u \in Int, v \in Int, w \in Int : z = 0 /\ u = One(x = o) /\ v = 0 - u /\ w = One(e = o)
      BY DEF One
    <2>2. Gains(t, q, o, z, z, v)
      BY <2>1, NameDeletion
    <2>3. Gains(t, p1, o, z + One(e = o), z, v)
      BY <1>5, <2>2
    <2>4. Gains(t, p1, o, w, z, v)
      BY <2>1, <2>3
    <2>5. Gains(t, p2, o, w, z, v + One(x = o))
      BY <1>6, <2>4
    <2>6. Gains(t, p2, o, w, z, z)
      BY <2>1, <2>5
    <2>7. Gains(t, p3, o, w, z, z + One(x = o))
      BY <1>7, <2>6
    <2>8. Gains(t, p3, o, w, z, u)
      BY <2>1, <2>7
    <2>9. Gains(t, st, o, w + One(e = o), z, u + One(e = o))
      BY <1>n, <1>4, <1>7, <2>8, GainRelease
    <2> QED BY <2>1, <2>9
  <1>0. todo' = [todo EXCEPT ![t] = st]
    BY DEF p1, p2, p3
  <1> HIDE DEF st
  <1>10. Moves(t, st)
    BY <1>0, <1>8 DEF Moves, Stacked
  <1>11. /\ entry' \in [Names -> Objects \cup {NULL}] /\ entry'[Name[x]] = NULL
         /\ \A n \in Names \ {Name[x]} : entry'[n] = entry[n] /\ entry[n] # x /\ entry[n] # e
    <2>1. entry \in [Names -> Objects \cup {NULL}]
      BY <1>1 DEF Types
    <2>2. \A n \in Names : entry[n] # NULL => Name[entry[n]] = n
      BY DEF Inv, Naming
    <2>3. \A n \in Names \ {Name[x]} : entry[n] # e
      BY <1>2, <2>2, ObjectAssumption
    <2> QED BY <1>2, <2>1, <2>3
  <1>12. Types'
    BY <1>1, <1>11 DEF Types, reaper, Raised
  <1>13. ASSUME NEW o \in Objects PROVE Entered(o)' = Entered(o) - One(e = o)
    <2>1. CASE o = e
      <3>1. Entered(o)' # 1
        BY <1>11, <2>1, EnteredWillBe, ObjectAssumption
      <3>2. Entered(o)' = 0
        BY <3>1, EnteredWillBe
      <3> QED BY <1>4, <2>1, <3>2 DEF One
    <2>2. CASE o # e
      <3>1. \A n \in Names : entry'[n] = o <=> entry[n] = o
        BY <1>11, <2>2, ObjectAssumption
      <3>2. Entered(o)' = Entered(o)
        BY <3>1 DEF Entered
      <3>3. Entered(o) \in {0, 1} /\ One(e = o) = 0
        BY <2>2, EnteredIs DEF One
      <3> QED BY <3>2, <3>3
    <2> QED BY <2>1, <2>2
  <1>14. CountsStep(t, st)
    <2>1. live \subseteq Objects
      BY <1>1 DEF Types
    <2>2. ASSUME NEW o \in Objects
          PROVE  /\ PointerCount'[o] - PointerCount[o] =
                      (handles'[o] - handles[o]) + (Entered(o)' - Entered(o)) + (skipped'[o] - skipped[o])
                      + (RefN(st, o) - RefN(todo[t], o))
                 /\ HandleCount'[o] - HandleCount[o] =
                      (handles'[o] - handles[o]) + (HndN(st, o) - HndN(todo[t], o))
      <3>1. RefN(st, o) - RefN(todo[t], o) = One(e = o) + One(e = o) /\ HndN(st, o) - HndN(todo[t], o) = 0
        BY <1>9 DEF Gains
      <3>2. PointerCount'[o] = PointerCount[o] + One(e = o) /\ PointerCount[o] \in Int /\ One(e = o) \in Int
        BY <1>1 DEF Raised, One, Types
      <3>3. /\ handles[o] \in Int /\ skipped[o] \in Int /\ HandleCount[o] \in Int
            /\ handles' = handles /\ skipped' = skipped /\ HandleCount' = HandleCount
        BY <1>1 DEF Types
      <3>4. Entered(o)' = Entered(o) - One(e = o) /\ Entered(o) \in Int
        BY <1>13, EnteredIs
      <3> DEFINE k == One(e = o)  d == Entered(o)  dd == Entered(o)'  p == PointerCount[o]  pp == PointerCount'[o]
                 g == RefN(st, o) - RefN(todo[t], o)  h == handles'[o] - handles[o]  y == skipped'[o] - skipped[o]
      <3>5. dd = d - k /\ d \in Int /\ k \in Int /\ p \in Int /\ pp = p + k /\ g = k + k /\ h = 0 /\ y = 0
        BY <3>1, <3>2, <3>3, <3>4
      <3> HIDE DEF k, d, dd, p, pp, g, h, y
      <3>6. pp - p = h + (dd - d) + y + g
        BY <3>5
      <3>7. HandleCount'[o] - HandleCount[o] = (handles'[o] - handles[o]) + (HndN(st, o) - HndN(todo[t], o))
        BY <3>1, <3>3
      <3> QED BY <3>6, <3>7 DEF d, dd, p, pp, g, h, y
    <2> QED BY <2>1, <2>2 DEF CountsStep
  <1>15. EntryStep(t, st)
    <2>1. ASSUME NEW o \in Objects
          PROVE  Free(t, o) \/ (Entered(o)' = Entered(o) /\ QueryReferences'[o] = QueryReferences[o])
      <3>1. QueryReferences[o] \in Int /\ QueryReferences'[o] = QueryReferences[o] + One(e = o)
        BY <1>1 DEF Types, Raised
      <3>2. e # o => One(e = o) = 0
        BY DEF One
      <3>3. Entered(o) \in {0, 1}
        BY EnteredIs
      <3> QED BY <1>4, <1>13, <3>1, <3>2, <3>3
    <2>2. ASSUME NEW n \in Names, entry'[n] # NULL
          PROVE  /\ entry'[n] \in live /\ Name[entry'[n]] = n /\ Directory'[entry'[n]]
                 /\ QueryReferences'[entry'[n]] = 1 + QryT(todo', entry'[n])
      <3>1. PICK o \in Objects : o = entry'[n] /\ o = entry[n] /\ o # x /\ o # e
        BY <1>11, <2>2
      <3>2. o \in live /\ Name[o] = n /\ Directory[o] /\ QueryReferences[o] = 1 + QryT(todo, o)
        BY <2>2, <3>1, LiveObjects DEF Inv, Naming
      <3>3. PICK y \in Int : y = 0
        OBVIOUS
      <3>4. One(x = o) = 0 /\ One(e = o) = 0
        BY <3>1 DEF One
      <3>5. Gains(t, st, o, 0, 0, y)
        BY <1>9, <3>3, <3>4
      <3>6. QryT(todo, o) \in Nat /\ QryT(todo', o) = QryT(todo, o) + y
        BY <1>10, <3>5, QueriesMove
      <3>7. QueryReferences'[o] = QueryReferences[o] + 0
        BY <3>4 DEF Raised
      <3> QED BY <3>1, <3>2, <3>3, <3>6, <3>7
    <2>3. \A o \in Objects : Directory'[o] => Name[o] \in Names
      BY DEF Inv, Naming
    <2>4. ASSUME NEW o \in live
          PROVE  PointerCount'[o] = PointerCount[o] \/ (PointerCount[o] # 0 /\ PointerCount'[o] # 0)
      <3>1. o \in Objects /\ PointerCount[o] \in Int /\ PointerCount'[o] = PointerCount[o] + One(e = o)
        BY <1>1 DEF Types, Raised
      <3> QED BY <1>4, <3>1 DEF One
    <2> QED BY <1>3, <1>8, <2>1, <2>2, <2>3, <2>4 DEF EntryStep, reaper, Stacked
  <1>16. OrphanStep(t, st)
    <2>1. ASSUME NEW n \in Names, entry'[n] # NULL
          PROVE  \/ HandleCount'[entry'[n]] # 0 \/ Permanent'[entry'[n]]
                 \/ \E s \in Range(st) : Watches(s, entry'[n])
                 \/ /\ entry[n] = entry'[n] /\ HandleCount[entry'[n]] = 0 /\ ~Permanent[entry'[n]]
                    /\ \A s \in Range(todo[t]) : ~Watches(s, entry'[n])
      <3>1. entry'[n] = entry[n] /\ entry[n] # x
        BY <1>11, <2>1
      <3>2. Range(todo[t]) = {a} \cup Range(q)
        BY <1>3, Zenon DEF Runs
      <3>3. ~Watches(a, entry[n])
        BY <1>2, <3>1
      <3>4. (\E s \in Range(st) : Watches(s, entry[n])) \/ \A s \in Range(todo[t]) : ~Watches(s, entry[n])
        BY <1>r, <3>2, <3>3, Zenon
      <3> QED BY <3>1, <3>4
    <2> QED BY <2>1 DEF OrphanStep
  <1> QED BY <1>10, <1>12, <1>14, <1>15, <1>16, EntryKeeps

\* The deletion of a name keeps the invariant.
LEMMA KeepNameDelete ==
  ASSUME Inv, NEW t \in Threads, NameDelete(t)
  PROVE  Inv'
  <1>1. PICK a, q : Serves(t, "namedelete", a, q)
    BY Current DEF NameDelete
  <1>2. PICK x \in Objects : x = a.obj
    BY <1>1 DEF Serves
  <1>3. Obj(t) = x /\ q \in Seq(StepType)
    BY <1>1, <1>2 DEF Serves
  <1>4. PICK e \in Objects \cup {NULL} : e = entry[Name[x]]
    <2>1. Types /\ Name[x] \in Names
      BY <1>1, <1>2, NameDeletion DEF Inv, TypeOK
    <2> QED BY <2>1 DEF Types
  <1>5. PointerCount \in [Objects -> Int] /\ QueryReferences \in [Objects -> Int]
    BY DEF Inv, TypeOK, Types
  <1>6. <<DerefName(x)>> \in Seq(StepType) /\ ReleaseContext(e) \in Seq(StepType) /\ << >> \in Seq(StepType)
    <2>1. DerefName(x) \in StepType
      BY PlainStep DEF PlainOps, DerefName
    <2> QED BY <2>1, ReleaseSteps, EmptySeq
  <1>u. UNCHANGED <<live, HandleCount, Name, Permanent, Directory, dirLock, handles, reaper, skipped>>
    BY DEF NameDelete
  <1>7. CASE e = NULL
    <2>1. Then(t, <<DerefName(x)>>) /\ UNCHANGED <<PointerCount, QueryReferences, entry>>
      BY <1>3, <1>4, <1>7 DEF NameDelete
    <2>2. todo' = [todo EXCEPT ![t] = <<DerefName(x)>> \o q]
      BY <1>1, <2>1 DEF Serves
    <2>3. ReleaseContext(e) \o (<<DerefName(x)>> \o q) = <<DerefName(x)>> \o q
      <3>1. PICK p \in Seq(StepType) : p = <<DerefName(x)>> \o q
        BY <1>3, <1>6, ConcatProperties
      <3>2. << >> \o p = p
        BY ConcatEmptySeq
      <3> QED BY <1>7, <3>1, <3>2 DEF ReleaseContext
    <2>4. Raised(PointerCount, PointerCount', e) /\ Raised(QueryReferences, QueryReferences', e)
      BY <1>5, <1>7, <2>1, RaisedNone
    <2>5. UNCHANGED <<live, HandleCount, name, handles, reaper, skipped>>
      BY <1>u, <2>1 DEF name
    <2>6. todo' = [todo EXCEPT ![t] = ReleaseContext(e) \o (<<DerefName(x)>> \o q)] /\ e # x
      BY <1>7, <2>2, <2>3, ObjectAssumption
    <2> QED BY <1>1, <1>2, <1>4, <2>4, <2>5, <2>6, NameStays
  <1>8. CASE e # NULL /\ ~(HandleCount[x] = 0 /\ ~Permanent[x])
    <2>1. /\ PointerCount' = Add(PointerCount, e, 1) /\ QueryReferences' = Add(QueryReferences, e, 1)
          /\ entry' = entry
      BY <1>3, <1>4, <1>8 DEF NameDelete
    <2>2. Then(t, ReleaseContext(e) \o <<DerefName(x)>> \o << >>)
      BY <1>3, <1>4, <1>8 DEF NameDelete
    <2>3. todo' = [todo EXCEPT ![t] = (ReleaseContext(e) \o <<DerefName(x)>> \o << >>) \o q]
      BY <1>1, <2>2 DEF Serves
    <2>4. GroupedThree(ReleaseContext(e), <<DerefName(x)>>, << >>, q)
      BY <1>3, <1>6, RegroupThree
    <2>5. << >> \o q = q
      BY <1>3, ConcatEmptySeq
    <2>6. todo' = [todo EXCEPT ![t] = ReleaseContext(e) \o (<<DerefName(x)>> \o q)]
      BY <2>3, <2>4, <2>5 DEF GroupedThree
    <2>7. Raised(PointerCount, PointerCount', e) /\ Raised(QueryReferences, QueryReferences', e)
      BY <1>5, <1>8, <2>1, RaisedOne
    <2>8. UNCHANGED <<live, HandleCount, name, handles, reaper, skipped>>
      BY <1>u, <2>1 DEF name
    <2>9. e = x => HandleCount[x] # 0 \/ Permanent[x]
      BY <1>8
    <2> QED BY <1>1, <1>2, <1>4, <2>6, <2>7, <2>8, <2>9, NameStays
  <1>9. CASE e # NULL /\ HandleCount[x] = 0 /\ ~Permanent[x]
    <2>1. /\ PointerCount' = Add(PointerCount, e, 1) /\ QueryReferences' = Add(QueryReferences, e, 1)
          /\ entry' = [entry EXCEPT ![Name[x]] = NULL]
      BY <1>3, <1>4, <1>9 DEF NameDelete
    <2>2. Then(t, ReleaseContext(e) \o <<DerefName(x)>> \o <<DerefName(x), Deref(e)>>)
      BY <1>3, <1>4, <1>9 DEF NameDelete
    <2>3. todo' = [todo EXCEPT ![t] = (ReleaseContext(e) \o <<DerefName(x)>> \o <<DerefName(x), Deref(e)>>) \o q]
      BY <1>1, <2>2 DEF Serves
    <2>4. DerefName(x) \in StepType /\ Deref(e) \in StepType /\ <<DerefName(x), Deref(e)>> \in Seq(StepType)
      BY <1>9, PlainStep DEF PlainOps, DerefName, Deref
    <2>5. GroupedThree(ReleaseContext(e), <<DerefName(x)>>, <<DerefName(x), Deref(e)>>, q)
      BY <1>3, <1>6, <2>4, RegroupThree
    <2>6. <<DerefName(x), Deref(e)>> \o q = <<DerefName(x)>> \o (<<Deref(e)>> \o q)
      BY <1>3, <2>4, Unfold
    <2>7. todo' = [todo EXCEPT ![t] =
             ReleaseContext(e) \o (<<DerefName(x)>> \o (<<DerefName(x)>> \o (<<Deref(e)>> \o q)))]
      BY <2>3, <2>5, <2>6 DEF GroupedThree
    <2>8. Raised(PointerCount, PointerCount', e) /\ Raised(QueryReferences, QueryReferences', e) /\ e \in Objects
      BY <1>5, <1>9, <2>1, RaisedOne
    <2>9. entry' = [entry EXCEPT ![Name[x]] = NULL]
      BY <2>1
    <2> QED BY <1>u, <1>1, <1>2, <1>4, <2>7, <2>8, <2>9, NameGoes
  <1> QED BY <1>7, <1>8, <1>9

-----------------------------------------------------------------------------
\* What t's new stack means for t, and for the others: nothing.
LEMMA OtherThreads ==
  ASSUME Inv, NEW t \in Threads, NEW st, Moves(t, st)
  PROVE  /\ \A u \in Threads \ {t} :
               /\ Dying(u)' <=> Dying(u)
               /\ At(u, "push")' <=> At(u, "push")
               /\ At(u, "queue")' <=> At(u, "queue")
               /\ Obj(u)' = Obj(u) /\ Arg(u)' = Arg(u)
         /\ Dying(t)' <=> st # << >> /\ Head(st).op \in {"delete", "defer", "push"}
         /\ At(t, "push")' <=> st # << >> /\ Head(st).op = "push"
         /\ At(t, "queue")' <=> st # << >> /\ Head(st).op = "queue"
         /\ Obj(t)' = Head(st).obj /\ Arg(t)' = Head(st).arg
  <1>0. Sounds
    BY SoundsIs DEF Inv
  <1>1. todo'[t] = st /\ \A u \in Threads \ {t} : todo'[u] = todo[u]
    BY <1>0, StackTo DEF Moves
  <1> QED BY <1>1 DEF Dying, At, Obj, Arg

\* A step that keeps the parts about the end of an object by itself keeps the
\* invariant.
LEMMA SpecialKeeps ==
  ASSUME Inv, Types', NEW t \in Threads, NEW st, Moves(t, st),
         CountsStep(t, st), GoneStep(t, st), NamingStep(t, st), OrphanStep(t, st),
         Deaths', Lists', Reaping'
  PROVE  Inv'
  <1>0. Sounds /\ Types
    BY SoundsIs DEF Inv
  <1>1. TypeOK' /\ Stacks'
    <2>1. Sounds'
      BY <1>0, StackTo DEF Moves
    <2> QED BY <2>1 DEF TypeOK, Stacks, Sounds, StacksType, Sound
  <1>2. live' = live
    BY DEF GoneStep
  <1>3. Counts'
    BY <1>2, CountsKept DEF Counts
  <1>4. Gone'
    BY GoneKept
  <1>5. Naming'
    BY NamingKept
  <1>6. NoOrphanName'
    BY OrphanKept
  <1> QED BY <1>1, <1>3, <1>4, <1>5, <1>6 DEF Inv

\* The step a of the end of an object is over, or b of them comes next.
Ends(a, q, st) ==
    st = q \/ \E b \in StepType : /\ Backed(b, Range(q)) /\ b.op \in Final /\ b.obj = a.obj
                                  /\ st = <<b>> \o q

\* The steps of the end of an object.
Ending == Final \cup {"dec", "deferdelete"}

\* What such a step had is gone,
LEMMA LastGains ==
  ASSUME Inv, NEW t \in Threads, NEW a, NEW q, Runs(t, a, q), a.op \in Ending, NEW st, Ends(a, q, st), NEW o
  PROVE  Gains(t, st, o, 0 - Ref(a, o), 0, 0)
  <1>1. Hnd(a, o) = 0 /\ Qry(a, o) = 0 /\ Ref(a, o) \in 0 .. 2
    BY OpWeights, Weights DEF Ending, Final, Runs
  <1>2. CASE st = q
    <2>1. Gains(t, q, o, 0 - Ref(a, o), 0 - Hnd(a, o), 0 - Qry(a, o))
      BY GainPop
    <2> QED BY <1>1, <1>2, <2>1
  <1>3. ASSUME NEW b \in StepType, Backed(b, Range(q)), b.op \in Final, st = <<b>> \o q
        PROVE  Gains(t, st, o, 0 - Ref(a, o), 0, 0)
    <2>1. Gains(t, st, o, Ref(b, o) - Ref(a, o), Hnd(b, o) - Hnd(a, o), Qry(b, o) - Qry(a, o))
      BY <1>3, GainSwap
    <2>2. Ref(b, o) = 0 /\ Hnd(b, o) = 0 /\ Qry(b, o) = 0
      BY <1>3, OpWeights DEF Final
    <2> QED BY <1>1, <2>1, <2>2
  <1> QED BY <1>2, <1>3 DEF Ends

\* as the counts say,
LEMMA LastCounts ==
  ASSUME Inv, Types', NEW t \in Threads, NEW a, NEW q, Runs(t, a, q), a.op \in Ending,
         NEW st, Moves(t, st), Ends(a, q, st),
         UNCHANGED <<HandleCount, QueryReferences, name, handles, skipped>>,
         \A o \in Objects : PointerCount'[o] = PointerCount[o] - Ref(a, o)
  PROVE  /\ CountsStep(t, st)
         /\ \A o \in Objects : QueryReferences'[o] - QueryReferences[o] = QryN(st, o) - QryN(todo[t], o)
  <1>1. Types /\ Sound(st) /\ entry' = entry
    BY DEF Inv, TypeOK, Moves, name
  <1>2. ASSUME NEW o \in Objects PROVE Books(t, st, o)
    <2>1. Gains(t, st, o, 0 - Ref(a, o), 0, 0)
      BY LastGains
    <2>2. Ref(a, o) \in 0 .. 2
      BY Weights DEF Runs
    <2>3. /\ PointerCount[o] \in Int /\ HandleCount[o] \in Int /\ QueryReferences[o] \in Int
          /\ handles[o] \in Nat /\ skipped[o] \in Nat
      BY <1>1 DEF Types
    <2> QED BY <2>1, <2>2, <2>3 DEF Books, Gains
  <1> QED BY <1>1, <1>2, BooksCounts

\* and the invariant is kept, if the parts about the end are.
LEMMA LastWords ==
  ASSUME Inv, Types', NEW t \in Threads, NEW a, NEW q, Runs(t, a, q), a.op \in Ending,
         NEW st, Moves(t, st), Ends(a, q, st),
         st = q \/ Head(st).op = "queue" \/ Free(t, a.obj),
         UNCHANGED <<live, HandleCount, QueryReferences, name, handles, skipped>>,
         \A o \in Objects : PointerCount'[o] = PointerCount[o] - Ref(a, o),
         Deaths', Lists', Reaping'
  PROVE  Inv'
  <1>0. Types
    BY DEF Inv, TypeOK
  <1>u. UNCHANGED <<live, HandleCount, Permanent, entry, Name, Directory, handles, QueryReferences>>
    BY DEF name
  <1>1. /\ CountsStep(t, st)
        /\ \A o \in Objects : QueryReferences'[o] - QueryReferences[o] = QryN(st, o) - QryN(todo[t], o)
    BY LastCounts
  <1>2. ASSUME NEW s \in Range(st)
        PROVE  Fits(t, s) \/ (s.op \in Final /\ s.obj = a.obj /\ (s.op = "queue" \/ Free(t, a.obj)))
    <2>1. CASE s \in Range(q)
      BY <2>1, LaterFits
    <2>2. ASSUME NEW b \in StepType, Backed(b, Range(q)), b.op \in Final, b.obj = a.obj, st = <<b>> \o q
          PROVE  Fits(t, s) \/ (s.op \in Final /\ s.obj = a.obj /\ (s.op = "queue" \/ Free(t, a.obj)))
      <3>1. Head(st) = b /\ Range(st) = {b} \cup Range(q) /\ st # << >>
        BY <2>2, PushStep DEF Runs
      <3>2. CASE st = q
        BY <2>1, <3>2
      <3>3. CASE st # q
        BY <2>1, <2>2, <3>1, <3>3
      <3> QED BY <3>2, <3>3
    <2> QED BY <2>1, <2>2 DEF Ends
  <1>3. Range(q) \subseteq Range(st)
    <2>1. ASSUME NEW b \in StepType, Backed(b, Range(q)), st = <<b>> \o q
          PROVE  Range(q) \subseteq Range(st)
      BY <2>1, PushStep DEF Runs
    <2> QED BY <2>1 DEF Ends
  <1>4. ASSUME NEW s \in Range(st)
        PROVE  /\ s.op # "insert" /\ (s.op = "namedelete" => Name[s.obj] \in Names)
               /\ \A o \in Objects : Has(s, o) => s.op = "queue" \/ (o \in live /\ (s.op \in Passing \/ Free(t, o)))
    <2>1. s.op \in Final => \A o : Has(s, o) => o = s.obj
      BY DEF Final, Has, OwnsContext
    <2> QED BY <1>2, <2>1 DEF Fits, Final, Free
  <1>5. GoneStep(t, st)
    <2>1. \A n \in Names : entry[n] # NULL => entry[n] \in live
      BY LiveObjects
    <2> QED BY <1>u, <1>4, <2>1 DEF GoneStep
  <1>6. NamingStep(t, st)
    <2>1. \A n \in Names : entry[n] # NULL => entry[n] \in Objects /\ Directory[entry[n]]
      BY <1>0 DEF Types, Inv, Naming
    <2>2. ASSUME NEW x \in live, NEW u \in Threads \ {t}, Inserting(u, x), NEW s \in Range(st), Has(s, x)
          PROVE  s.op \in Passing
      <3>1. x \in Objects /\ ~Free(t, x)
        BY <1>0, <2>2 DEF Types, Free
      <3> QED BY <1>4, <2>2, <3>1 DEF Passing
    <2> QED BY <1>u, <1>1, <1>4, <2>1, <2>2 DEF NamingStep
  <1>7. OrphanStep(t, st)
    <2>1. \A n \in Names : ~Watches(a, entry[n])
      BY DEF Watches, Ending, Final
    <2> QED BY <1>u, <1>3, <2>1, OrphanRun
  <1> QED BY <1>1, <1>5, <1>6, <1>7, SpecialKeeps

\* The thread that drops the last reference is the only one to delete the
\* object.
LEMMA DeathBegins ==
  ASSUME Inv, NEW t \in Threads, NEW st, Moves(t, st), Living(todo[t]), st # << >>,
         Head(st).op \in {"delete", "defer"}, NEW x \in live, Head(st).obj = x,
         PointerCount[x] # 0, PointerCount'[x] = 0,
         \A o \in live \ {x} : PointerCount'[o] = PointerCount[o],
         UNCHANGED <<live, NextToFree, ObpReaperList, workItem, reap>>
  PROVE  Deaths' /\ Lists' /\ Reaping'
  <1>0. Deaths /\ Lists /\ Reaping
    BY DEF Inv
  <1>1. ~Dying(t) /\ ~At(t, "queue") /\ ~At(t, "push")
    BY DEF Living, Final, Dying, At
  <1>2. /\ \A u \in Threads \ {t} :
              /\ Dying(u)' <=> Dying(u)
              /\ At(u, "push")' <=> At(u, "push")
              /\ At(u, "queue")' <=> At(u, "queue")
              /\ Obj(u)' = Obj(u) /\ Arg(u)' = Arg(u)
        /\ Dying(t)' /\ ~At(t, "push")' /\ ~At(t, "queue")' /\ Obj(t)' = x
    BY OtherThreads
  <1>3. Reapable' = Reapable /\ x \notin Reapable
    BY <1>0 DEF Deaths, Reapable
  <1>4. Lists'
    BY <1>0 DEF Lists
  <1>5. Reaping'
    <2>1. \A u \in Threads : At(u, "queue")' <=> At(u, "queue")
      BY <1>1, <1>2
    <2> QED BY <1>0, <2>1 DEF Reaping
  <1>6. ASSUME NEW u \in Threads, u # t, Dying(u)'
        PROVE  Dying(u) /\ Obj(u)' = Obj(u) /\ Obj(u) \in live \ {x}
    BY <1>0, <1>2, <1>6 DEF Deaths
  <1>7. Deaths'
    <2>1. ASSUME NEW u \in Threads, Dying(u)'
          PROVE  Obj(u)' \in live' /\ PointerCount'[Obj(u)'] = 0 /\ Obj(u)' \notin Reapable'
      <3>1. CASE u = t
        BY <1>2, <1>3, <3>1
      <3>2. CASE u # t
        BY <1>0, <1>3, <1>6, <2>1, <3>2 DEF Deaths
      <3> QED BY <3>1, <3>2
    <2>2. ASSUME NEW u \in Threads, NEW v \in Threads, u # v, Dying(u)', Dying(v)' PROVE Obj(u)' # Obj(v)'
      BY <1>0, <1>2, <1>6, <2>2 DEF Deaths
    <2>3. ASSUME NEW u \in Threads, At(u, "push")' PROVE NextToFree'[Obj(u)'] = Arg(u)'
      BY <1>0, <1>2, <2>3 DEF Deaths
    <2>4. \A o \in Reapable' : o \in live' /\ PointerCount'[o] = 0
      BY <1>0, <1>3 DEF Deaths
    <2>5. ASSUME NEW o \in live', PointerCount'[o] = 0
          PROVE  o \in Reapable' \/ \E u \in Threads : Dying(u)' /\ Obj(u)' = o
      <3>1. CASE o = x
        BY <1>2, <3>1
      <3>2. CASE o # x
        BY <1>0, <1>1, <1>2, <1>3, <2>5, <3>2 DEF Deaths
      <3> QED BY <3>1, <3>2
    <2> QED BY <2>1, <2>2, <2>3, <2>4, <2>5 DEF Deaths
  <1> QED BY <1>4, <1>5, <1>7

\* The dropping of a reference keeps the invariant.
LEMMA KeepDecrement ==
  ASSUME Inv, NEW t \in Threads, Decrement(t)
  PROVE  Inv'
  <1>0. /\ At(t, "dec") \/ At(t, "deferdelete")
        /\ PointerCount' = Add(PointerCount, Obj(t), -1)
        /\ IF PointerCount[Obj(t)] # 1 THEN Then(t, << >>)
           ELSE Then(t, <<Step("delete", Obj(t))>>) \/ Then(t, <<Step("defer", Obj(t))>>)
    BY DEF Decrement
  <1>u. UNCHANGED <<live, HandleCount, QueryReferences, name, handles, reaper, skipped>>
    BY DEF Decrement
  <1>1. PICK op \in {"dec", "deferdelete"} : \E a, q : Serves(t, op, a, q)
    BY <1>0, Current
  <1>2. PICK a, q : Serves(t, op, a, q)
    BY <1>1
  <1>3. /\ Runs(t, a, q) /\ a.op = op /\ a \in StepType /\ a \in Range(todo[t]) /\ Sound(q) /\ Patient(Range(q))
        /\ Living(todo[t]) /\ q \in Seq(StepType) /\ Obj(t) = a.obj /\ Stacked(t, q)
    BY <1>2 DEF Serves, Final
  <1>4. PICK x \in Objects : x = a.obj
    BY <1>2 DEF Serves
  <1>5. x \in live /\ a.op \in Ending
    BY <1>3, <1>4, LiveObjects DEF Ending
  <1>6. OwnsReference(a, x)
    BY <1>3, <1>4 DEF OwnsReference
  <1>7. PointerCount[x] >= 1
    BY <1>3, <1>5, <1>6, Referenced
  <1>8. Types /\ -1 \in Int
    BY DEF Inv, TypeOK
  <1>9. PointerCount' \in [Objects -> Int] /\ \A o \in Objects : PointerCount'[o] = PointerCount[o] + (IF x = o THEN -1 ELSE 0)
    <2>1. PointerCount' = Add(PointerCount, x, -1)
      BY <1>0, <1>3, <1>4
    <2> QED BY <1>8, <2>1, AddCounts
  <1>10. Types'
    BY <1>u, <1>8, <1>9 DEF Types, name, reaper
  <1>11. \A o \in Objects : PointerCount'[o] = PointerCount[o] - Ref(a, o)
    <2>1. \A o \in Objects : Ref(a, o) = One(x = o)
      BY <1>3, <1>4, OpWeights
    <2> QED BY <1>8, <1>9, <2>1 DEF One, Types
  <1>12. UNCHANGED <<live, HandleCount, QueryReferences, name, handles, skipped>> /\ UNCHANGED <<NextToFree, ObpReaperList, reap, workItem>>
    BY <1>u DEF reaper
  <1>13. CASE PointerCount[x] # 1
    <2>1. Then(t, << >>)
      BY <1>0, <1>3, <1>4, <1>13
    <2>2. todo' = [todo EXCEPT ![t] = << >> \o q]
      BY <1>2, <2>1 DEF Serves
    <2>3. << >> \o q = q
      BY <1>3, ConcatEmptySeq
    <2>4. Moves(t, q) /\ Ends(a, q, q)
      BY <1>3, <2>2, <2>3 DEF Moves, Ends
    <2>5. Living(q)
      <3>1. \A s \in Range(q) : Fits(t, s)
        BY <1>3 DEF Stacked
      <3>2. q # << >> => Head(q) \in Range(q)
        BY <1>3, Pop
      <3> QED BY <3>1, <3>2 DEF Fits, Living
    <2>6. \A o \in live : PointerCount'[o] = 0 <=> PointerCount[o] = 0
      <3>1. \A o \in live : o \in Objects /\ PointerCount[o] \in Int
        BY <1>8 DEF Types
      <3> QED BY <1>7, <1>9, <1>13, <3>1
    <2>7. ListsStep(t, q)
      BY <1>3, <1>12, <2>5, <2>6 DEF ListsStep
    <2>8. Deaths' /\ Lists' /\ Reaping'
      BY <2>4, <2>7, ListsKept
    <2> QED BY <1>3, <1>5, <1>10, <1>11, <1>12, <2>4, <2>8, LastWords
  <1>14. CASE PointerCount[x] = 1
    <2>1. PICK k \in {"delete", "defer"} : Then(t, <<Step(k, x)>>)
      BY <1>0, <1>3, <1>4, <1>14
    <2> DEFINE b == Step(k, x)  st == <<b>> \o q
    <2>2. todo' = [todo EXCEPT ![t] = st]
      BY <1>2, <2>1 DEF Serves
    <2>3. b \in StepType /\ b.op = k /\ b.obj = x
      BY PlainStep DEF PlainOps
    <2> HIDE DEF b
    <2>4. Backed(b, Range(q))
      BY <1>3, <2>3, BackedIs
    <2>5. Sound(st) /\ st # << >> /\ Head(st) = b
      BY <1>3, <2>3, <2>4, PushStep
    <2>6. Ends(a, q, st)
      BY <1>4, <2>3, <2>4 DEF Ends, Final
    <2> HIDE DEF st
    <2>7. Moves(t, st)
      BY <2>2, <2>5 DEF Moves
    <2>8. PointerCount'[x] = 0
      BY <1>9, <1>14
    <2>9. Deaths' /\ Lists' /\ Reaping'
      <3>1. \A o \in live \ {x} : PointerCount'[o] = PointerCount[o]
        BY <1>8, <1>9 DEF Types
      <3> QED BY <1>3, <1>5, <1>12, <1>14, <2>3, <2>5, <2>7, <2>8, <3>1, DeathBegins
    <2>10. Free(t, x)
      <3>1. CountsStep(t, st)
        BY <1>3, <1>5, <1>10, <1>11, <1>12, <2>6, <2>7, LastCounts
      <3>2. PointerCount'[x] = handles'[x] + Entered(x)' + skipped'[x] + RefT(todo', x)
        BY <1>5, <1>10, <2>7, <3>1, CountsKept
      <3>3. handles'[x] \in Nat /\ skipped'[x] \in Nat /\ Entered(x)' \in {0, 1}
        BY <1>10, EnteredWillBe DEF Types
      <3>4. Sounds
        BY SoundsIs DEF Inv
      <3>5. todo' \in StacksType /\ \A u \in Threads \ {t} : todo'[u] = todo[u]
        BY <2>7, <3>4, StackTo DEF Moves
      <3>6. RefT(todo', x) \in Nat
        BY <3>5, TotalsNat
      <3>7. RefT(todo', x) = 0
        <4> DEFINE r == RefT(todo', x)  h == handles'[x]  v == skipped'[x]  e == Entered(x)'
        <4>1. h \in Nat /\ v \in Nat /\ e \in Nat /\ r \in Nat /\ 0 = h + e + v + r
          BY <2>8, <3>2, <3>3, <3>6
        <4> HIDE DEF r, h, v, e
        <4>2. r = 0
          BY <4>1
        <4> QED BY <4>2 DEF r
      <3>8. \A u \in Threads : \A s \in Range(todo'[u]) : ~OwnsReference(s, x)
        BY <3>5, <3>7, NoReferences
      <3>9. \A s : s.op = "insert" /\ s.obj = x => OwnsReference(s, x)
        BY DEF OwnsReference
      <3> QED BY <1>5, <3>5, <3>8, <3>9 DEF Free, Inserting
    <2> QED BY <1>3, <1>4, <1>5, <1>10, <1>11, <1>12, <2>6, <2>7, <2>9, <2>10, LastWords
  <1> QED BY <1>13, <1>14

\* What is left for later does not begin with the end of an object.
LEMMA LivingRest ==
  ASSUME NEW t \in Threads, NEW q, Stacked(t, q)
  PROVE  Living(q)
  <1>1. \A s \in Range(q) : Fits(t, s)
    BY DEF Stacked
  <1>2. q # << >> => Head(q) \in Range(q)
    BY Pop DEF Stacked
  <1> QED BY <1>1, <1>2 DEF Fits, Living

\* ObpDeferObjectDeletion and the queueing of the work item change no count.
LEMMA QuietKeeps ==
  ASSUME Inv, Types', NEW t \in Threads, NEW op \in {"defer", "push", "queue"}, NEW a, NEW q, Serves(t, op, a, q),
         NEW st, Moves(t, st), Ends(a, q, st), op = "queue" => st = q,
         UNCHANGED <<live, counts, name, handles, skipped>>, Deaths', Lists', Reaping'
  PROVE  Inv'
  <1>1. Runs(t, a, q) /\ a.op = op /\ a \in StepType /\ a \in Range(todo[t]) /\ a.obj \in Objects
    BY DEF Serves
  <1>2. a.op \in Ending
    BY <1>1 DEF Ending, Final
  <1>3. op # "queue" => Free(t, a.obj)
    <2>1. Has(a, a.obj)
      BY DEF Has
    <2>2. op # "queue" => a.op \notin Passing
      BY <1>1 DEF Passing
    <2> QED BY <1>1, <2>1, <2>2, FreeIf
  <1>4. \A o \in Objects : PointerCount'[o] = PointerCount[o] - Ref(a, o)
    <2>1. \A o \in Objects : Ref(a, o) = 0
      BY <1>1, OpWeights
    <2>2. PointerCount' = PointerCount /\ PointerCount \in [Objects -> Int]
      BY DEF counts, Inv, TypeOK, Types
    <2> QED BY <2>1, <2>2
  <1>5. UNCHANGED <<live, HandleCount, QueryReferences, name, handles, skipped>>
    BY DEF counts
  <1>6. st = q \/ Free(t, a.obj)
    BY <1>3
  <1> QED BY <1>1, <1>2, <1>4, <1>5, <1>6, LastWords

\* A link of an object that is on no list is written.
LEMMA ListsSame ==
  ASSUME Inv, Types', NEW x, x \notin Reapable, \A o \in Objects \ {x} : NextToFree'[o] = NextToFree[o],
         UNCHANGED <<ObpReaperList, reap>>
  PROVE  Lists' /\ Reapable' = Reapable
  <1>0. Lists /\ Types
    BY DEF Inv, TypeOK
  <1>3. NextToFree \in Links /\ NextToFree' \in Links /\ ObpReaperList \in Link /\ reap.obj \in Link
    BY <1>0 DEF Types, Link
  <1>4. /\ \A c \in Reach(NextToFree, ObpReaperList) : NextToFree'[c] = NextToFree[c]
        /\ \A c \in Reach(NextToFree, reap.obj) : NextToFree'[c] = NextToFree[c]
    <2>1. \A c \in Reapable : c \in Objects \ {x}
      BY DEF Reapable, Reach
    <2> QED BY <2>1 DEF Reapable
  <1> DEFINE m == NextToFree  n == NextToFree'  l == ObpReaperList  r == reap.obj
  <1>5. m \in Links /\ n \in Links /\ l \in Link /\ r \in Link /\ (\A c \in Reach(m, l) : n[c] = m[c]) /\ \A c \in Reach(m, r) : n[c] = m[c]
    BY <1>3, <1>4
  <1>6. Loopless(m, l) /\ Loopless(m, r) /\ Reach(m, l) \cap Reach(m, r) = {}
    BY <1>0 DEF Lists
  <1> HIDE DEF m, n, l, r
  <1>7. Reach(n, l) = Reach(m, l) /\ Reach(n, r) = Reach(m, r)
    BY <1>5, ReachSame
  <1>8. Loopless(n, l) /\ Loopless(n, r)
    BY <1>5, <1>6, LooplessSame
  <1>9. Lists'
    BY <1>6, <1>7, <1>8 DEF Lists, m, n, l, r
  <1>10. Reapable' = Reapable
    BY <1>7 DEF Reapable, m, n, l, r
  <1> QED BY <1>9, <1>10

\* The object is linked to the head, or the head has changed and the loop
\* goes on: it is still its thread's.
LEMMA DeathGoesOn ==
  ASSUME Inv, Types', NEW t \in Threads, NEW st, Moves(t, st), Dying(t), st # << >>,
         Head(st).op \in {"defer", "push"}, NEW x, x = Obj(t), Head(st).obj = x,
         Head(st).op = "push" => NextToFree'[x] = Head(st).arg,
         \A o \in Objects \ {x} : NextToFree'[o] = NextToFree[o],
         UNCHANGED <<live, PointerCount, ObpReaperList, workItem, reap>>
  PROVE  Deaths' /\ Lists' /\ Reaping'
  <1>0. Deaths /\ Lists /\ Reaping /\ Types
    BY DEF Inv, TypeOK
  <1>1. ~At(t, "queue") /\ x \in live /\ x \in Objects /\ PointerCount[x] = 0 /\ x \notin Reapable
    BY <1>0 DEF Dying, At, Deaths, Types
  <1>2. /\ \A u \in Threads \ {t} :
              /\ Dying(u)' <=> Dying(u)
              /\ At(u, "push")' <=> At(u, "push")
              /\ At(u, "queue")' <=> At(u, "queue")
              /\ Obj(u)' = Obj(u) /\ Arg(u)' = Arg(u)
        /\ Dying(t)' /\ ~At(t, "queue")' /\ Obj(t)' = x /\ (At(t, "push")' => Head(st).op = "push") /\ Arg(t)' = Head(st).arg
    BY OtherThreads
  <1>9. Lists' /\ Reapable' = Reapable
    BY <1>1, ListsSame
  <1>11. Reaping'
    <2>1. \A u \in Threads : At(u, "queue")' <=> At(u, "queue")
      BY <1>1, <1>2
    <2> QED BY <1>0, <2>1 DEF Reaping
  <1>12. ASSUME NEW u \in Threads, Dying(u)'
        PROVE  Dying(u) /\ Obj(u)' = Obj(u)
    BY <1>2, <1>12
  <1>13. Deaths'
    <2>1. ASSUME NEW u \in Threads, Dying(u)'
          PROVE  Obj(u)' \in live' /\ PointerCount'[Obj(u)'] = 0 /\ Obj(u)' \notin Reapable'
      BY <1>0, <1>9, <1>12, <2>1 DEF Deaths
    <2>2. ASSUME NEW u \in Threads, NEW v \in Threads, u # v, Dying(u)', Dying(v)' PROVE Obj(u)' # Obj(v)'
      BY <1>0, <1>12, <2>2 DEF Deaths
    <2>3. ASSUME NEW u \in Threads, At(u, "push")' PROVE NextToFree'[Obj(u)'] = Arg(u)'
      <3>1. CASE u = t
        BY <1>2, <2>3, <3>1
      <3>2. CASE u # t
        <4>1. At(u, "push") /\ Obj(u)' = Obj(u) /\ Arg(u)' = Arg(u)
          BY <1>2, <2>3, <3>2
        <4>2. Dying(u)
          BY <4>1 DEF Dying, At
        <4>3. Obj(u) # x /\ Obj(u) \in Objects /\ NextToFree[Obj(u)] = Arg(u)
          BY <1>0, <3>2, <4>1, <4>2 DEF Deaths, Types
        <4> QED BY <4>1, <4>3
      <3> QED BY <3>1, <3>2
    <2>4. \A o \in Reapable' : o \in live' /\ PointerCount'[o] = 0
      BY <1>0, <1>9 DEF Deaths
    <2>5. ASSUME NEW o \in live', PointerCount'[o] = 0
          PROVE  o \in Reapable' \/ \E u \in Threads : Dying(u)' /\ Obj(u)' = o
      BY <1>0, <1>2, <1>9, <2>5 DEF Deaths
    <2> QED BY <2>1, <2>2, <2>3, <2>4, <2>5 DEF Deaths
  <1> QED BY <1>9, <1>11, <1>13

\* The linking of a deferred object keeps the invariant.
LEMMA KeepDeferLink ==
  ASSUME Inv, NEW t \in Threads, DeferLink(t)
  PROVE  Inv'
  <1>0. /\ At(t, "defer") /\ NextToFree' = [NextToFree EXCEPT ![Obj(t)] = ObpReaperList]
        /\ Then(t, <<StepWith("push", Obj(t), ObpReaperList)>>)
    BY DEF DeferLink
  <1>u. UNCHANGED <<live, counts, name, handles, ObpReaperList, workItem, reap, skipped>>
    BY DEF DeferLink
  <1>1. PICK a, q : Serves(t, "defer", a, q)
    BY <1>0, Current
  <1>2. /\ Runs(t, a, q) /\ a.op = "defer" /\ a \in StepType /\ Sound(q) /\ Patient(Range(q)) /\ Obj(t) = a.obj
    BY <1>1 DEF Serves
  <1>3. PICK x \in Objects : x = a.obj
    BY <1>1 DEF Serves
  <1>4. Types
    BY DEF Inv, TypeOK
  <1>5. NextToFree' \in Links /\ NextToFree'[x] = ObpReaperList /\ \A o \in Objects \ {x} : NextToFree'[o] = NextToFree[o]
    BY <1>0, <1>2, <1>3, <1>4 DEF Types, Links
  <1>6. Types'
    BY <1>u, <1>4, <1>5 DEF Types, counts, name
  <1> DEFINE b == StepWith("push", x, ObpReaperList)  st == <<b>> \o q
  <1>7. b \in StepType /\ b.op = "push" /\ b.obj = x /\ b.arg = ObpReaperList
    BY <1>4 DEF StepWith, StepType, Types
  <1>8. todo' = [todo EXCEPT ![t] = st]
    BY <1>0, <1>1, <1>2, <1>3 DEF Serves
  <1> HIDE DEF b
  <1>9. Backed(b, Range(q))
    BY <1>2, <1>7, BackedIs
  <1>10. Sound(st) /\ st # << >> /\ Head(st) = b
    BY <1>2, <1>7, <1>9, PushStep
  <1>11. Ends(a, q, st)
    BY <1>3, <1>7, <1>9 DEF Ends, Final
  <1> HIDE DEF st
  <1>12. Moves(t, st) /\ Dying(t) /\ x = Obj(t)
    BY <1>0, <1>2, <1>3, <1>8, <1>10 DEF Moves, Dying, At
  <1>13. UNCHANGED <<live, PointerCount, ObpReaperList, workItem, reap>>
    BY <1>u DEF counts
  <1>14. Deaths' /\ Lists' /\ Reaping'
    BY <1>5, <1>6, <1>7, <1>10, <1>12, <1>13, DeathGoesOn
  <1> QED BY <1>u, <1>1, <1>6, <1>11, <1>12, <1>14, QuietKeeps

\* The object is the new head of the list: it is the reaper's, and the thread
\* that found the list empty queues the work item.
LEMMA DeathPassesOn ==
  ASSUME Inv, NEW t \in Threads, NEW st, Moves(t, st), At(t, "push"), NEW x, x = Obj(t),
         Arg(t) = ObpReaperList, ObpReaperList' = x,
         IF ObpReaperList = NULL THEN st # << >> /\ Head(st).op = "queue" ELSE Living(st),
         UNCHANGED <<live, PointerCount, NextToFree, workItem, reap>>
  PROVE  Deaths' /\ Lists' /\ Reaping'
  <1>0. Deaths /\ Lists /\ Reaping /\ Types
    BY DEF Inv, TypeOK
  <1>1. /\ ~At(t, "queue") /\ Dying(t) /\ x \in live /\ x \in Objects /\ PointerCount[x] = 0 /\ x \notin Reapable
        /\ NextToFree[x] = ObpReaperList
    BY <1>0 DEF Dying, At, Deaths, Types
  <1>2. /\ \A u \in Threads \ {t} :
              /\ Dying(u)' <=> Dying(u)
              /\ At(u, "push")' <=> At(u, "push")
              /\ At(u, "queue")' <=> At(u, "queue")
              /\ Obj(u)' = Obj(u) /\ Arg(u)' = Arg(u)
        /\ ~Dying(t)' /\ ~At(t, "push")' /\ (At(t, "queue")' <=> ObpReaperList = NULL)
    BY OtherThreads DEF Living, Final
  <1> DEFINE m == NextToFree  l == ObpReaperList  r == reap.obj
  <1>3. m \in Links /\ l \in Link /\ r \in Link /\ m[x] = l /\ x \in Objects
    BY <1>0, <1>1 DEF Types, Link
  <1>4. /\ Loopless(m, l) /\ Loopless(m, r) /\ Reach(m, l) \cap Reach(m, r) = {}
        /\ x \notin Reach(m, l) /\ x \notin Reach(m, r)
    BY <1>0, <1>1 DEF Lists, Reapable
  <1> HIDE DEF m, l, r
  <1>5. Reach(m, x) = {x} \cup Reach(m, l)
    BY <1>3, ReachStep
  <1>6. Loopless(m, x)
    BY <1>3, <1>4, LooplessHead
  <1>7. Lists'
    BY <1>4, <1>5, <1>6 DEF Lists, m, l, r
  <1>8. Reapable' = Reapable \cup {x}
    BY <1>5 DEF Reapable, m, l, r
  <1>9. Reaping'
    <2>1. reap.pc \in {"idle", "take", "delete", "leave"} /\ ObpReaperList \in Objects \cup {NULL, 1}
      BY <1>0 DEF Types, Link
    <2>2. NULL \notin Objects /\ 1 \notin Objects /\ NULL # 1 /\ x \notin {NULL, 1}
      BY <1>1, ObjectAssumption
    <2>3. CASE ObpReaperList = NULL
      <3>1. ~workItem /\ reap.pc = "idle" /\ \A u \in Threads : ~At(u, "queue")
        BY <1>0, <2>1, <2>2, <2>3 DEF Reaping
      <3>2. At(t, "queue")' /\ \A u \in Threads \ {t} : ~At(u, "queue")'
        BY <1>2, <2>3, <3>1
      <3> QED BY <1>0, <1>1, <2>2, <3>1, <3>2 DEF Reaping
    <2>4. CASE ObpReaperList # NULL
      <3>1. \A u \in Threads : At(u, "queue")' <=> At(u, "queue")
        BY <1>1, <1>2, <2>4
      <3>2. ObpReaperList = 1 => reap.pc # "idle"
        BY <1>0 DEF Reaping
      <3> QED BY <1>0, <1>1, <2>1, <2>2, <2>4, <3>1, <3>2 DEF Reaping
    <2> QED BY <2>3, <2>4
  <1>10. ASSUME NEW u \in Threads, Dying(u)'
        PROVE  u # t /\ Dying(u) /\ Obj(u)' = Obj(u) /\ Obj(u) # x
    BY <1>0, <1>1, <1>2, <1>10 DEF Deaths
  <1>11. Deaths'
    <2>1. ASSUME NEW u \in Threads, Dying(u)'
          PROVE  Obj(u)' \in live' /\ PointerCount'[Obj(u)'] = 0 /\ Obj(u)' \notin Reapable'
      BY <1>0, <1>8, <1>10, <2>1 DEF Deaths
    <2>2. ASSUME NEW u \in Threads, NEW v \in Threads, u # v, Dying(u)', Dying(v)' PROVE Obj(u)' # Obj(v)'
      BY <1>0, <1>10, <2>2 DEF Deaths
    <2>3. ASSUME NEW u \in Threads, At(u, "push")' PROVE NextToFree'[Obj(u)'] = Arg(u)'
      BY <1>0, <1>2, <2>3 DEF Deaths
    <2>4. \A o \in Reapable' : o \in live' /\ PointerCount'[o] = 0
      BY <1>0, <1>1, <1>8 DEF Deaths
    <2>5. ASSUME NEW o \in live', PointerCount'[o] = 0
          PROVE  o \in Reapable' \/ \E u \in Threads : Dying(u)' /\ Obj(u)' = o
      BY <1>0, <1>2, <1>8, <2>5 DEF Deaths
    <2> QED BY <2>1, <2>2, <2>3, <2>4, <2>5 DEF Deaths
  <1> QED BY <1>7, <1>9, <1>11

\* The exchange of the list's head keeps the invariant.
LEMMA KeepDeferPush ==
  ASSUME Inv, NEW t \in Threads, DeferPush(t)
  PROVE  Inv'
  <1>0. /\ At(t, "push")
        /\ \/ /\ ObpReaperList = Arg(t) /\ ObpReaperList' = Obj(t) /\ Arg(t) = NULL
              /\ Then(t, <<Step("queue", Obj(t))>>)
           \/ /\ ObpReaperList = Arg(t) /\ ObpReaperList' = Obj(t) /\ Arg(t) # NULL
              /\ Then(t, << >>)
           \/ ObpReaperList' = ObpReaperList /\ Then(t, <<Step("defer", Obj(t))>>)
    BY DEF DeferPush
  <1>u. UNCHANGED <<live, counts, name, handles, NextToFree, workItem, reap, skipped>>
    BY DEF DeferPush
  <1>1. PICK a, q : Serves(t, "push", a, q)
    BY <1>0, Current
  <1>2. /\ Runs(t, a, q) /\ a.op = "push" /\ a \in StepType /\ Sound(q) /\ Patient(Range(q)) /\ Obj(t) = a.obj
        /\ Stacked(t, q) /\ q \in Seq(StepType)
    BY <1>1 DEF Serves
  <1>3. PICK x \in Objects : x = a.obj
    BY <1>1 DEF Serves
  <1>4. Types
    BY DEF Inv, TypeOK
  <1>5. Types'
    <2>1. ObpReaperList' \in Link
      BY <1>0, <1>2, <1>3, <1>4 DEF Types, Link
    <2> QED BY <1>u, <1>4, <2>1 DEF Types, counts, name
  <1>6. x = Obj(t) /\ Dying(t) /\ UNCHANGED <<live, PointerCount, NextToFree, workItem, reap>>
    BY <1>u, <1>0, <1>2, <1>3 DEF counts, Dying, At
  <1>7. ASSUME NEW op \in {"queue", "defer"}, Then(t, <<Step(op, x)>>)
        PROVE  \E st : Moves(t, st) /\ Ends(a, q, st) /\ st # << >> /\ Head(st).op = op /\ Head(st).obj = x
    <2> DEFINE b == Step(op, x)  st == <<b>> \o q
    <2>1. todo' = [todo EXCEPT ![t] = st]
      BY <1>1, <1>7 DEF Serves
    <2>2. b \in StepType /\ b.op = op /\ b.obj = x
      BY PlainStep DEF PlainOps
    <2> HIDE DEF b
    <2>3. Backed(b, Range(q))
      BY <1>2, <2>2, BackedIs
    <2>4. Sound(st) /\ st # << >> /\ Head(st) = b
      BY <1>2, <2>2, <2>3, PushStep
    <2>5. Ends(a, q, st)
      BY <1>3, <2>2, <2>3 DEF Ends, Final
    <2> HIDE DEF st
    <2>6. Moves(t, st)
      BY <2>1, <2>4 DEF Moves
    <2> QED BY <2>2, <2>4, <2>5, <2>6
  <1>8. CASE ObpReaperList = Arg(t) /\ ObpReaperList' = Obj(t) /\ Arg(t) = NULL /\ Then(t, <<Step("queue", Obj(t))>>)
    <2>1. PICK st : Moves(t, st) /\ Ends(a, q, st) /\ st # << >> /\ Head(st).op = "queue"
      BY <1>6, <1>7, <1>8
    <2>2. At(t, "push") /\ Arg(t) = ObpReaperList /\ ObpReaperList' = x /\ ObpReaperList = NULL
      BY <1>0, <1>6, <1>8
    <2>3. Deaths' /\ Lists' /\ Reaping'
      BY <1>6, <2>1, <2>2, DeathPassesOn
    <2> QED BY <1>u, <1>1, <1>5, <2>1, <2>3, QuietKeeps
  <1>9. CASE ObpReaperList = Arg(t) /\ ObpReaperList' = Obj(t) /\ Arg(t) # NULL /\ Then(t, << >>)
    <2>1. todo' = [todo EXCEPT ![t] = << >> \o q]
      BY <1>1, <1>9 DEF Serves
    <2>2. << >> \o q = q
      BY <1>2, ConcatEmptySeq
    <2>3. Moves(t, q) /\ Ends(a, q, q) /\ Living(q)
      BY <1>2, <2>1, <2>2, LivingRest DEF Moves, Ends
    <2>4. At(t, "push") /\ Arg(t) = ObpReaperList /\ ObpReaperList' = x /\ ObpReaperList # NULL
      BY <1>0, <1>6, <1>9
    <2>5. Deaths' /\ Lists' /\ Reaping'
      BY <1>6, <2>3, <2>4, DeathPassesOn
    <2> QED BY <1>u, <1>1, <1>5, <2>3, <2>5, QuietKeeps
  <1>10. CASE ObpReaperList' = ObpReaperList /\ Then(t, <<Step("defer", Obj(t))>>)
    <2>1. PICK st : Moves(t, st) /\ Ends(a, q, st) /\ st # << >> /\ Head(st).op = "defer" /\ Head(st).obj = x
      BY <1>6, <1>7, <1>10
    <2>2. UNCHANGED <<live, PointerCount, ObpReaperList, workItem, reap>> /\ \A o \in Objects \ {x} : NextToFree'[o] = NextToFree[o]
      BY <1>6, <1>10
    <2>3. Deaths' /\ Lists' /\ Reaping'
      BY <1>5, <1>6, <2>1, <2>2, DeathGoesOn
    <2> QED BY <1>u, <1>1, <1>5, <2>1, <2>3, QuietKeeps
  <1> QED BY <1>0, <1>8, <1>9, <1>10

\* The queueing of the work item keeps the invariant.
LEMMA KeepQueueWorkItem ==
  ASSUME Inv, NEW t \in Threads, QueueWorkItem(t)
  PROVE  Inv'
  <1>0. At(t, "queue") /\ workItem' = TRUE /\ Then(t, << >>)
    BY DEF QueueWorkItem
  <1>u. UNCHANGED <<live, counts, name, handles, NextToFree, ObpReaperList, reap, skipped>>
    BY DEF QueueWorkItem
  <1>1. PICK a, q : Serves(t, "queue", a, q)
    BY <1>0, Current
  <1>2. Runs(t, a, q) /\ Sound(q) /\ Stacked(t, q) /\ q \in Seq(StepType)
    BY <1>1 DEF Serves
  <1>4. Types /\ Deaths /\ Lists /\ Reaping
    BY DEF Inv, TypeOK
  <1>5. Types'
    BY <1>0, <1>u, <1>4 DEF Types, counts, name
  <1>6. todo' = [todo EXCEPT ![t] = << >> \o q]
    BY <1>0, <1>1 DEF Serves
  <1>7. << >> \o q = q
    BY <1>2, ConcatEmptySeq
  <1>8. Moves(t, q) /\ Ends(a, q, q) /\ Living(q)
    BY <1>2, <1>6, <1>7, LivingRest DEF Moves, Ends
  <1>9. /\ \A u \in Threads \ {t} :
              /\ Dying(u)' <=> Dying(u)
              /\ At(u, "push")' <=> At(u, "push")
              /\ At(u, "queue")' <=> At(u, "queue")
              /\ Obj(u)' = Obj(u) /\ Arg(u)' = Arg(u)
        /\ ~Dying(t)' /\ ~At(t, "push")' /\ ~At(t, "queue")' /\ ~Dying(t)
    BY <1>0, <1>8, OtherThreads DEF Living, Final, At, Dying
  <1>10. UNCHANGED <<live, PointerCount, NextToFree, ObpReaperList, reap>>
    BY <1>u DEF counts
  <1>11. Lists' /\ Reapable' = Reapable
    BY <1>4, <1>10 DEF Lists, Reapable
  <1>12. Reaping'
    <2>1. reap.pc = "idle" /\ ObpReaperList \in Objects /\ \A u \in Threads \ {t} : ~At(u, "queue")
      BY <1>0, <1>4 DEF Reaping
    <2>2. \A u \in Threads : ~At(u, "queue")'
      BY <1>9, <2>1
    <2> QED BY <1>0, <1>4, <1>10, <2>1, <2>2 DEF Reaping
  <1>13. Deaths'
    <2>1. ASSUME NEW u \in Threads, Dying(u)'
          PROVE  Obj(u)' \in live' /\ PointerCount'[Obj(u)'] = 0 /\ Obj(u)' \notin Reapable'
      BY <1>4, <1>9, <1>10, <1>11, <2>1 DEF Deaths
    <2>2. ASSUME NEW u \in Threads, NEW v \in Threads, u # v, Dying(u)', Dying(v)' PROVE Obj(u)' # Obj(v)'
      BY <1>4, <1>9, <2>2 DEF Deaths
    <2>3. ASSUME NEW u \in Threads, At(u, "push")' PROVE NextToFree'[Obj(u)'] = Arg(u)'
      BY <1>4, <1>9, <1>10, <2>3 DEF Deaths
    <2>4. \A o \in Reapable' : o \in live' /\ PointerCount'[o] = 0
      BY <1>4, <1>10, <1>11 DEF Deaths
    <2>5. ASSUME NEW o \in live', PointerCount'[o] = 0
          PROVE  o \in Reapable' \/ \E u \in Threads : Dying(u)' /\ Obj(u)' = o
      BY <1>4, <1>9, <1>10, <1>11, <2>5 DEF Deaths
    <2> QED BY <2>1, <2>2, <2>3, <2>4, <2>5 DEF Deaths
  <1>14. UNCHANGED <<live, counts, name, handles, skipped>>
    BY <1>u
  <1> QED BY <1>1, <1>5, <1>8, <1>11, <1>12, <1>13, <1>14, QuietKeeps

-----------------------------------------------------------------------------
\* A step of the reaper that deletes nothing keeps the invariant.
LEMMA ReaperKeeps ==
  ASSUME Inv, Types', UNCHANGED <<live, counts, name, handles, todo, skipped>>, NextToFree' = NextToFree,
         Reapable' = Reapable, Lists', Reaping'
  PROVE  Inv'
  <1>1. UNCHANGED <<live, PointerCount, HandleCount, QueryReferences, Name, Permanent, Directory, entry, handles,
                    todo, skipped>>
    BY DEF counts, name
  <1>2. TypeOK' /\ Stacks'
    BY <1>1 DEF Inv, TypeOK, Stacks
  <1>3. \A o : Entered(o)' = Entered(o)
    BY <1>1 DEF Entered
  <1>4. Counts'
    BY <1>1, <1>3 DEF Inv, Counts
  <1>5. Gone'
    BY <1>1, <1>3 DEF Inv, Gone
  <1>6. Deaths'
    <2>1. \A t \in Threads : /\ Dying(t)' <=> Dying(t)
                             /\ At(t, "push")' <=> At(t, "push")
                             /\ Obj(t)' = Obj(t) /\ Arg(t)' = Arg(t)
      BY <1>1 DEF Dying, At, Obj, Arg
    <2> QED BY <1>1, <2>1 DEF Inv, Deaths
  <1>7. Naming'
    BY <1>1, <1>3 DEF Inv, Naming
  <1>8. NoOrphanName'
    BY <1>1 DEF Inv, NoOrphanName
  <1> QED BY <1>2, <1>4, <1>5, <1>6, <1>7, <1>8 DEF Inv

\* The start of ObpReapObject keeps the invariant.
LEMMA KeepReaperStarts ==
  ASSUME Inv, ReaperStarts
  PROVE  Inv'
  <1>0. /\ workItem /\ reap.pc = "idle" /\ workItem' = FALSE /\ reap' = [pc |-> "take", obj |-> NULL]
        /\ UNCHANGED <<live, counts, name, handles, todo, skipped>> /\ NextToFree' = NextToFree
        /\ ObpReaperList' = ObpReaperList
    BY DEF ReaperStarts
  <1>1. Types /\ Lists /\ Reaping
    BY DEF Inv, TypeOK
  <1>2. Types'
    BY <1>0, <1>1 DEF Types, counts, name
  <1>3. reap.obj = NULL /\ reap'.obj = NULL /\ reap'.pc = "take"
    BY <1>0, <1>1 DEF Types, Reaping
  <1>4. Lists' /\ Reapable' = Reapable
    BY <1>0, <1>1, <1>3 DEF Lists, Reapable
  <1>5. Reaping'
    <2>1. \A t \in Threads : ~At(t, "queue")
      BY <1>0, <1>1 DEF Reaping
    <2>2. \A t \in Threads : ~At(t, "queue")'
      BY <1>0, <2>1 DEF At
    <2>3. ObpReaperList \in Objects /\ ObpReaperList # 1 /\ NULL \notin Objects
      BY <1>0, <1>1, ObjectAssumption DEF Reaping
    <2> QED BY <1>0, <1>3, <2>2, <2>3 DEF Reaping
  <1> QED BY <1>0, <1>2, <1>4, <1>5, ReaperKeeps

\* The taking of the list keeps the invariant.
LEMMA KeepReaperTakes ==
  ASSUME Inv, ReaperTakes
  PROVE  Inv'
  <1>0. /\ reap.pc = "take" /\ reap' = [pc |-> "delete", obj |-> ObpReaperList] /\ ObpReaperList' = 1
        /\ UNCHANGED <<live, counts, name, handles, todo, skipped>> /\ NextToFree' = NextToFree
        /\ workItem' = workItem
    BY DEF ReaperTakes
  <1>1. Types /\ Lists /\ Reaping
    BY DEF Inv, TypeOK
  <1>2. ObpReaperList \in Objects /\ NULL \notin Objects /\ 1 \notin Objects /\ NULL # 1
    BY <1>0, <1>1, ObjectAssumption DEF Reaping
  <1>3. Types'
    BY <1>0, <1>1, <1>2 DEF Types, counts, name, Link
  <1>4. reap.obj = NULL /\ reap'.obj = ObpReaperList /\ reap'.pc = "delete"
    BY <1>0, <1>1 DEF Types, Reaping
  <1>5. Reach(NextToFree, NULL) = {} /\ Reach(NextToFree, 1) = {}
    BY ReachNull
  <1>6. Lists' /\ Reapable' = Reapable
    BY <1>0, <1>1, <1>4, <1>5 DEF Lists, Reapable, Loopless
  <1>7. Reaping'
    <2>1. ~workItem /\ \A t \in Threads : ~At(t, "queue")
      BY <1>0, <1>1 DEF Reaping
    <2>2. \A t \in Threads : ~At(t, "queue")'
      BY <1>0, <2>1 DEF At
    <2> QED BY <1>0, <1>2, <1>4, <2>1, <2>2 DEF Reaping
  <1> QED BY <1>0, <1>3, <1>6, <1>7, ReaperKeeps

\* The end of ObpReapObject, or another round, keeps the invariant.
LEMMA KeepReaperLeaves ==
  ASSUME Inv, ReaperLeaves
  PROVE  Inv'
  <1>0. /\ reap.pc = "leave"
        /\ IF ObpReaperList = 1 THEN ObpReaperList' = NULL /\ reap' = [reap EXCEPT !.pc = "idle"]
           ELSE ObpReaperList' = ObpReaperList /\ reap' = [reap EXCEPT !.pc = "take"]
        /\ UNCHANGED <<live, counts, name, handles, todo, skipped>> /\ NextToFree' = NextToFree
        /\ workItem' = workItem
    BY DEF ReaperLeaves
  <1>1. Types /\ Lists /\ Reaping
    BY DEF Inv, TypeOK
  <1>2. NULL \notin Objects /\ 1 \notin Objects /\ NULL # 1
    BY ObjectAssumption
  <1>3. Types'
    BY <1>0, <1>1 DEF Types, counts, name, Link
  <1>4. /\ reap.obj = NULL /\ reap'.obj = NULL /\ ObpReaperList # NULL /\ ObpReaperList \in Link
        /\ reap'.pc = IF ObpReaperList = 1 THEN "idle" ELSE "take"
    BY <1>0, <1>1 DEF Types, Reaping
  <1>5. Reach(NextToFree, NULL) = {} /\ Reach(NextToFree, 1) = {}
    BY ReachNull
  <1>6. Lists' /\ Reapable' = Reapable
    BY <1>0, <1>1, <1>4, <1>5 DEF Lists, Reapable, Loopless
  <1>7. Reaping'
    <2>1. ~workItem /\ \A t \in Threads : ~At(t, "queue")
      BY <1>0, <1>1 DEF Reaping
    <2>2. \A t \in Threads : ~At(t, "queue")'
      BY <1>0, <2>1 DEF At
    <2> QED BY <1>0, <1>2, <1>4, <2>1, <2>2 DEF Reaping, Link
  <1> QED BY <1>0, <1>3, <1>6, <1>7, ReaperKeeps

-----------------------------------------------------------------------------
\* Every step of a sound stack is backed by steps of the stack.
LEMMA BackedThere ==
  ASSUME NEW st, Sound(st), NEW s \in Range(st)
  PROVE  \E R \in SUBSET Range(st) : Backed(s, R)
  <1>1. PICK i \in 1 .. Len(st) : s = st[i]
    BY DEF Sound, Range
  <1>2. Backed(s, {st[j] : j \in i + 1 .. Len(st)})
    BY <1>1 DEF Sound, Ordered
  <1>3. {st[j] : j \in i + 1 .. Len(st)} \subseteq Range(st)
    BY <1>1 DEF Sound, Range
  <1> QED BY <1>2, <1>3

\* Deref has a reference.
LEMMA DerefOwns ==
  ASSUME NEW x PROVE OwnsReference(Deref(x), x)
  BY DEF OwnsReference, Deref, Step, StepWith

\* An object without references is in the hands of the thread that deletes it
\* only: any other step to it is backed by a reference.
LEMMA NobodyHas ==
  ASSUME Inv, NEW x \in live, PointerCount[x] = 0,
         NEW u \in Threads, NEW s \in Range(todo[u]), s.op # "queue", Has(s, x)
  PROVE  Dying(u) /\ Obj(u) = x
  <1>0. Sound(todo[u]) /\ x # NULL
    <2>1. x \in Objects
      BY DEF Inv, TypeOK, Types
    <2> QED BY <2>1, SoundsIs, ObjectAssumption DEF Inv, Sounds
  <1>1. \A r \in Range(todo[u]) : ~OwnsReference(r, x) /\ ~OwnsContext(r, x)
    BY Unreferenced
  <1>2. Deref(x) \notin Range(todo[u])
    BY <1>1, DerefOwns
  <1>3. s.obj = x /\ ~OwnsReference(s, x) /\ ~OwnsContext(s, x)
    BY <1>1 DEF Has
  <1>4. PICK R \in SUBSET Range(todo[u]) : Backed(s, R)
    BY <1>0, BackedThere
  <1>5. Deref(x) \notin R
    BY <1>2
  <1>6. s \in StepType
    BY RangeOfSeq DEF Inv, TypeOK
  <1>7. s.op \notin {"derefname", "namecheck", "namedelete", "temporary", "dechandle"}
    BY <1>3, <1>4, <1>5, BackedIs
  <1>8. s.op \notin {"insert", "deref", "readhandles", "readpointers", "dec", "deferdelete", "exhandle"}
    BY <1>3 DEF OwnsReference
  <1>9. ASSUME s.op \in {"counthandle", "grant"} PROVE FALSE
    <2>1. s.arg.new /\ s.arg.context # x
      BY <1>3, <1>9 DEF OwnsReference, OwnsContext
    <2>2. /\ s.arg.inserted # NULL => Deref(s.arg.inserted) \in R
          /\ s.arg.inserted = NULL /\ s.arg.new => Deref(s.obj) \in R
          /\ s.op # "exhandle" /\ s.arg.inserted # NULL => s.arg.new /\ s.obj \in {s.arg.context, s.arg.inserted}
      BY <1>4, <1>9, BackedHandle
    <2> QED BY <1>3, <1>5, <1>9, <2>1, <2>2
  <1>10. s.op \in {"delete", "defer", "push"}
    BY <1>6, <1>7, <1>8, <1>9, StepKinds DEF PlainOps
  <1>11. todo[u] # << >>
    BY SoundEmpty
  <1>12. Runs(u, Head(todo[u]), Tail(todo[u]))
    BY <1>11, Running
  <1>13. s = Head(todo[u]) \/ s \in Range(Tail(todo[u]))
    BY <1>12 DEF Runs
  <1>14. s \notin Range(Tail(todo[u]))
    BY <1>10, <1>12, BackedIs DEF Runs, Patient
  <1> QED BY <1>3, <1>10, <1>11, <1>13, <1>14 DEF Dying, Obj

\* The steps t's stack loses do not matter to any other object.
Forgets(x) ==
    /\ \A o \in Objects : RefT(todo', o) = RefT(todo, o) /\ HndT(todo', o) = HndT(todo, o)
                          /\ QryT(todo', o) = QryT(todo, o)
    /\ \A u \in Threads : /\ Range(todo'[u]) \subseteq Range(todo[u])
                          /\ \A s \in Range(todo[u]) : s \in Range(todo'[u]) \/ \A o : ~Watches(s, o)
                          /\ \A s \in Range(todo'[u]) : s.op # "queue" => ~Has(s, x)

\* The deletion of an object nobody has keeps the invariant.
LEMMA DeleteKeeps ==
  ASSUME Inv, NEW x \in live, PointerCount[x] = 0, ObpDeleteObject(x), Types', Sounds', Forgets(x),
         UNCHANGED <<PointerCount, HandleCount, entry, handles, skipped>>,
         Deaths', Lists', Reaping'
  PROVE  Inv'
  <1>0. Types /\ Counts /\ Gone /\ Naming /\ NoOrphanName /\ x \in Objects /\ live \subseteq Objects
    BY DEF Inv, TypeOK, Types
  <1>1. /\ live' = live \ {x} /\ ~Directory'[x]
        /\ \A o \in Objects \ {x} : Name'[o] = Name[o] /\ QueryReferences'[o] = QueryReferences[o]
              /\ Directory'[o] = Directory[o] /\ Permanent'[o] = Permanent[o]
    BY <1>0 DEF ObpDeleteObject, Types
  <1>2. handles[x] = 0 /\ Entered(x) = 0 /\ \A o : Entered(o)' = Entered(o)
    <2>1. \A o : Entered(o)' = Entered(o)
      BY DEF Entered
    <2> QED BY <2>1, Unreferenced
  <1>3. \A n \in Names : entry[n] # NULL => entry[n] \in Objects \ {x}
    BY <1>0, <1>2, EnteredIs DEF Types
  <1>4. TypeOK' /\ Stacks'
    BY DEF TypeOK, Stacks, Sounds, StacksType, Sound
  <1>5. Counts'
    BY <1>0, <1>1, <1>2 DEF Counts, Forgets
  <1>6. Gone'
    <2>1. ASSUME NEW o \in Objects \ live'
          PROVE  /\ handles'[o] = 0 /\ Entered(o)' = 0
                 /\ \A t \in Threads : \A s \in Range(todo'[t]) : s.op # "queue" => ~Has(s, o)
      <3>1. CASE o = x
        BY <1>2, <3>1 DEF Forgets
      <3>2. CASE o # x
        BY <1>0, <1>1, <1>2, <3>2 DEF Gone, Forgets
      <3> QED BY <3>1, <3>2
    <2> QED BY <2>1 DEF Gone
  <1>7. Naming'
    <2>1. ASSUME NEW n \in Names, entry'[n] # NULL
          PROVE  /\ Name'[entry'[n]] = n /\ Directory'[entry'[n]]
                 /\ QueryReferences'[entry'[n]] = 1 + QryT(todo', entry'[n])
      <3>1. PICK o \in Objects \ {x} : o = entry[n]
        BY <1>3, <2>1
      <3>2. Name[o] = n /\ Directory[o] /\ QueryReferences[o] = 1 + QryT(todo, o)
        BY <1>0, <2>1, <3>1 DEF Naming
      <3>3. Name'[o] = n /\ Directory'[o] /\ QueryReferences'[o] = 1 + QryT(todo', o)
        BY <1>1, <3>2 DEF Forgets
      <3> QED BY <3>1, <3>3
    <2>2. \A o \in Objects : Directory'[o] => Name'[o] \in Names
      BY <1>0, <1>1 DEF Naming
    <2>3. ASSUME NEW t \in Threads, NEW s \in Range(todo'[t]), s.op \in {"insert", "namedelete"}
          PROVE  /\ Name'[s.obj] \in Names
                 /\ s.op = "insert" =>
                      /\ Entered(s.obj)' = 0 /\ handles'[s.obj] = 0 /\ QueryReferences'[s.obj] = 2
                      /\ \A u \in Threads : \A r \in Range(todo'[u]) : Has(r, s.obj) => u = t \/ r.op \in Passing
      <3>1. s \in Range(todo[t]) /\ s \in StepType
        BY <2>3, RangeOfSeq DEF Forgets, Inv, TypeOK
      <3>2. PICK o \in Objects \ {x} : o = s.obj
        BY <2>3, <3>1, StepKinds DEF Forgets, Has
      <3>3. /\ Name[o] \in Names
            /\ s.op = "insert" =>
                 /\ Entered(o) = 0 /\ handles[o] = 0 /\ QueryReferences[o] = 2
                 /\ \A u \in Threads : \A r \in Range(todo[u]) : Has(r, o) => u = t \/ r.op \in Passing
        BY <1>0, <2>3, <3>1, <3>2 DEF Naming
      <3>4. /\ Name'[o] \in Names
            /\ s.op = "insert" => Entered(o)' = 0 /\ handles'[o] = 0 /\ QueryReferences'[o] = 2
        BY <1>1, <1>2, <3>3
      <3>5. s.op = "insert" => \A u \in Threads : \A r \in Range(todo'[u]) : Has(r, o) => u = t \/ r.op \in Passing
        BY <3>3 DEF Forgets
      <3> QED BY <3>2, <3>4, <3>5
    <2> QED BY <2>1, <2>2, <2>3 DEF Naming
  <1>8. NoOrphanName'
    <2>1. ASSUME NEW n \in Names, entry'[n] # NULL, HandleCount'[entry'[n]] = 0, ~Permanent'[entry'[n]]
          PROVE  \E u \in Threads : \E s \in Range(todo'[u]) : Watches(s, entry'[n])
      <3>1. entry[n] \in Objects \ {x} /\ HandleCount[entry[n]] = 0 /\ ~Permanent[entry[n]]
        BY <1>1, <1>3, <2>1
      <3>2. PICK u \in Threads : \E s \in Range(todo[u]) : Watches(s, entry[n])
        BY <1>0, <2>1, <3>1, OrphanIs
      <3> QED BY <3>2 DEF Forgets
    <2> QED BY <2>1 DEF NoOrphanName, Watches
  <1> QED BY <1>4, <1>5, <1>6, <1>7, <1>8 DEF Inv

\* What ObpDeleteObject leaves.
LEMMA DeletedTypes ==
  ASSUME Types, NEW x \in Objects, ObpDeleteObject(x),
         UNCHANGED <<PointerCount, HandleCount, entry, dirLock, handles, skipped, ObpReaperList, workItem>>,
         reap' \in [pc : {"idle", "take", "delete", "leave"}, obj : Objects \cup {NULL}]
  PROVE  Types' /\ NextToFree' \in Links /\ NextToFree'[x] = NULL /\ \A o \in Objects \ {x} : NextToFree'[o] = NextToFree[o]
  <1>1. NextToFree' \in Links /\ NextToFree'[x] = NULL /\ \A o \in Objects \ {x} : NextToFree'[o] = NextToFree[o]
    BY DEF ObpDeleteObject, Types, Links, Link
  <1>2. /\ live' \in SUBSET Objects /\ Name' \in [Objects -> Names \cup {NULL}] /\ Permanent' \in [Objects -> BOOLEAN]
        /\ QueryReferences' \in [Objects -> Int] /\ Directory' \in [Objects -> BOOLEAN]
    BY DEF ObpDeleteObject, Types
  <1> QED BY <1>1, <1>2 DEF Types

\* ObpDeleteObject in the thread that dropped the last reference keeps the
\* invariant.
LEMMA KeepDeleteHere ==
  ASSUME Inv, NEW t \in Threads, DeleteHere(t)
  PROVE  Inv'
  <1>0. At(t, "delete") /\ ObpDeleteObject(Obj(t)) /\ Then(t, << >>)
    BY DEF DeleteHere
  <1>u. UNCHANGED <<PointerCount, HandleCount, entry, dirLock, handles, ObpReaperList, workItem, reap, skipped>>
    BY DEF DeleteHere
  <1>1. PICK a, q : Serves(t, "delete", a, q)
    BY <1>0, Current
  <1>2. /\ Runs(t, a, q) /\ Sound(q) /\ Stacked(t, q) /\ q \in Seq(StepType) /\ a.op = "delete" /\ Obj(t) = a.obj
        /\ Patient(Range(q))
    BY <1>1 DEF Serves
  <1>3. PICK x \in Objects : x = a.obj
    BY <1>1 DEF Serves
  <1>4. Types /\ Deaths /\ Lists /\ Reaping /\ Sounds
    BY SoundsIs DEF Inv
  <1>5. x = Obj(t) /\ Dying(t) /\ x \in live /\ PointerCount[x] = 0 /\ x \notin Reapable /\ ObpDeleteObject(x)
        /\ ~At(t, "queue")
    BY <1>0, <1>2, <1>3, <1>4 DEF Dying, At, Deaths
  <1>6. Types' /\ NextToFree' \in Links /\ \A o \in Objects \ {x} : NextToFree'[o] = NextToFree[o]
    <2>1. reap' \in [pc : {"idle", "take", "delete", "leave"}, obj : Objects \cup {NULL}]
      BY <1>u, <1>4 DEF Types
    <2> QED BY <1>u, <1>4, <1>5, <2>1, DeletedTypes
  <1>7. Moves(t, q) /\ Living(q)
    <2>1. todo' = [todo EXCEPT ![t] = << >> \o q]
      BY <1>0, <1>1 DEF Serves
    <2>2. << >> \o q = q
      BY <1>2, ConcatEmptySeq
    <2> QED BY <1>2, <2>1, <2>2, LivingRest DEF Moves
  <1>8. Sounds' /\ todo'[t] = q /\ \A u \in Threads \ {t} : todo'[u] = todo[u]
    BY <1>4, <1>7, StackTo DEF Moves
  <1>9. Forgets(x)
    <2>1. ASSUME NEW o \in Objects
          PROVE  RefT(todo', o) = RefT(todo, o) /\ HndT(todo', o) = HndT(todo, o) /\ QryT(todo', o) = QryT(todo, o)
      <3>1. Gains(t, q, o, 0 - Ref(a, o), 0, 0)
        BY <1>2, LastGains DEF Ending, Final, Ends
      <3>2. Ref(a, o) = 0
        BY <1>2, OpWeights
      <3>3. RefN(q, o) - RefN(todo[t], o) = 0 /\ HndN(q, o) - HndN(todo[t], o) = 0 /\ QryN(q, o) - QryN(todo[t], o) = 0
        BY <3>1, <3>2 DEF Gains
      <3>4. /\ RefT(todo', o) = RefT(todo, o) + RefN(q, o) - RefN(todo[t], o)
            /\ HndT(todo', o) = HndT(todo, o) + HndN(q, o) - HndN(todo[t], o)
            /\ QryT(todo', o) = QryT(todo, o) + QryN(q, o) - QryN(todo[t], o)
        BY <1>4, <1>7, MoveTotals
      <3>5. RefT(todo, o) \in Nat /\ HndT(todo, o) \in Nat /\ QryT(todo, o) \in Nat
        BY <1>4, TotalsNat DEF Sounds
      <3>6. /\ RefN(q, o) \in Nat /\ HndN(q, o) \in Nat /\ QryN(q, o) \in Nat
            /\ RefN(todo[t], o) \in Nat /\ HndN(todo[t], o) \in Nat /\ QryN(todo[t], o) \in Nat
        BY <1>2, <1>4, SoundCounts DEF Sounds
      <3> QED BY <3>3, <3>4, <3>5, <3>6
    <2>2. ASSUME NEW u \in Threads
          PROVE  /\ Range(todo'[u]) \subseteq Range(todo[u])
                 /\ \A s \in Range(todo[u]) : s \in Range(todo'[u]) \/ \A o : ~Watches(s, o)
      <3>1. Range(todo[t]) = {a} \cup Range(q)
        BY <1>2 DEF Runs
      <3>2. \A o : ~Watches(a, o)
        BY <1>2 DEF Watches
      <3> QED BY <1>8, <3>1, <3>2
    <2>3. ASSUME NEW u \in Threads, NEW s \in Range(todo'[u]), s.op # "queue", Has(s, x) PROVE FALSE
      <3>1. s \in Range(todo[u])
        BY <2>2, <2>3
      <3>2. Dying(u) /\ Obj(u) = x
        BY <1>5, <2>3, <3>1, NobodyHas
      <3>3. u = t
        BY <1>4, <1>5, <3>2 DEF Deaths
      <3>4. s \in Range(q)
        BY <1>8, <2>3, <3>3
      <3>5. s.op \in {"deref", "derefname", "namecheck", "exhandle"}
        BY <1>2, <3>4 DEF Patient
      <3>6. PICK R \in SUBSET Range(todo[u]) : Backed(s, R)
        BY <1>4, <3>1, BackedThere DEF Sounds
      <3>7. \A r \in Range(todo[u]) : ~OwnsReference(r, x) /\ ~OwnsContext(r, x)
        BY <1>5, Unreferenced
      <3>8. s.obj = x /\ ~OwnsReference(s, x)
        BY <2>3, <3>1, <3>7 DEF Has
      <3>9. Deref(x) \notin R
        BY <3>7, DerefOwns
      <3> QED BY <3>5, <3>6, <3>8, <3>9, BackedIs DEF OwnsReference
    <2> QED BY <2>1, <2>2, <2>3 DEF Forgets
  <1>10. /\ \A u \in Threads \ {t} :
              /\ Dying(u)' <=> Dying(u)
              /\ At(u, "push")' <=> At(u, "push")
              /\ At(u, "queue")' <=> At(u, "queue")
              /\ Obj(u)' = Obj(u) /\ Arg(u)' = Arg(u)
        /\ ~Dying(t)' /\ ~At(t, "push")' /\ ~At(t, "queue")'
    BY <1>7, OtherThreads DEF Living, Final
  <1>11. Lists' /\ Reapable' = Reapable
    BY <1>u, <1>5, <1>6, ListsSame
  <1>12. Reaping'
    <2>1. \A u \in Threads : At(u, "queue")' <=> At(u, "queue")
      BY <1>5, <1>10
    <2> QED BY <1>u, <1>4, <2>1 DEF Reaping
  <1>13. live' = live \ {x}
    BY <1>5 DEF ObpDeleteObject
  <1>14. ASSUME NEW u \in Threads, Dying(u)'
         PROVE  u # t /\ Dying(u) /\ Obj(u)' = Obj(u) /\ Obj(u) \in live \ {x}
    BY <1>4, <1>5, <1>10, <1>14 DEF Deaths
  <1>15. Deaths'
    <2>1. ASSUME NEW u \in Threads, Dying(u)'
          PROVE  Obj(u)' \in live' /\ PointerCount'[Obj(u)'] = 0 /\ Obj(u)' \notin Reapable'
      BY <1>u, <1>4, <1>11, <1>13, <1>14, <2>1 DEF Deaths
    <2>2. ASSUME NEW u \in Threads, NEW v \in Threads, u # v, Dying(u)', Dying(v)' PROVE Obj(u)' # Obj(v)'
      BY <1>4, <1>14, <2>2 DEF Deaths
    <2>3. ASSUME NEW u \in Threads, At(u, "push")' PROVE NextToFree'[Obj(u)'] = Arg(u)'
      <3>1. Dying(u)'
        BY <2>3 DEF Dying, At
      <3>2. At(u, "push") /\ Obj(u)' = Obj(u) /\ Arg(u)' = Arg(u) /\ Obj(u) \in Objects \ {x}
        BY <1>4, <1>10, <1>14, <2>3, <3>1 DEF Types
      <3> QED BY <1>4, <1>6, <3>2 DEF Deaths
    <2>4. \A o \in Reapable' : o \in live' /\ PointerCount'[o] = 0
      BY <1>u, <1>4, <1>5, <1>11, <1>13 DEF Deaths
    <2>5. ASSUME NEW o \in live', PointerCount'[o] = 0
          PROVE  o \in Reapable' \/ \E u \in Threads : Dying(u)' /\ Obj(u)' = o
      BY <1>u, <1>4, <1>5, <1>10, <1>11, <1>13, <2>5 DEF Deaths
    <2> QED BY <2>1, <2>2, <2>3, <2>4, <2>5 DEF Deaths
  <1> QED BY <1>u, <1>5, <1>6, <1>8, <1>9, <1>11, <1>12, <1>15, DeleteKeeps

\* ObpDeleteObject in the reaper keeps the invariant.
LEMMA KeepReaperDeletes ==
  ASSUME Inv, ReaperDeletes
  PROVE  Inv'
  <1> DEFINE x == reap.obj  m == NextToFree  next == NextToFree[reap.obj]
  <1>0. /\ reap.pc = "delete" /\ ObpDeleteObject(x)
        /\ reap' = IF next \in Objects THEN [pc |-> "delete", obj |-> next] ELSE [pc |-> "leave", obj |-> NULL]
    BY DEF ReaperDeletes
  <1>u. UNCHANGED <<PointerCount, HandleCount, entry, dirLock, handles, ObpReaperList, workItem, todo, skipped>>
    BY DEF ReaperDeletes
  <1>1. Types /\ Deaths /\ Lists /\ Reaping /\ Sounds
    BY SoundsIs DEF Inv
  <1>2. x \in Objects /\ NULL \notin Objects /\ 1 \notin Objects
    BY <1>0, <1>1, ObjectAssumption DEF Reaping
  <1>3. reap' \in [pc : {"idle", "take", "delete", "leave"}, obj : Objects \cup {NULL}]
    BY <1>0
  <1>4. /\ reap'.pc = IF next \in Objects THEN "delete" ELSE "leave"
        /\ reap'.obj = IF next \in Objects THEN next ELSE NULL
    BY <1>0
  <1>5. m \in Links /\ next \in Link /\ m[x] = next /\ ObpReaperList \in Link
    BY <1>1, <1>2 DEF Types, Links
  <1>l. Loopless(m, x) /\ Loopless(m, ObpReaperList) /\ Reach(m, ObpReaperList) \cap Reach(m, x) = {}
        /\ Reapable = Reach(m, ObpReaperList) \cup Reach(m, x)
    BY <1>1 DEF Lists, Reapable
  <1> HIDE DEF x, m, next
  <1>6. Types' /\ NextToFree' \in Links /\ \A o \in Objects \ {x} : NextToFree'[o] = NextToFree[o]
    BY <1>u, <1>0, <1>1, <1>2, <1>3, DeletedTypes
  <1> DEFINE n == NextToFree'  l == ObpReaperList  r == reap'.obj
  <1>7. Reach(m, x) = {x} \cup Reach(m, next) /\ x \notin Reach(m, next) /\ Loopless(m, next)
    BY <1>2, <1>5, <1>l, ReachStep, LooplessTail
  <1>8. n \in Links /\ l \in Link /\ \A o \in Objects \ {x} : n[o] = m[o]
    BY <1>5, <1>6 DEF m
  <1>9. Reach(m, l) \subseteq Objects \ {x} /\ Reach(m, next) \subseteq Objects \ {x}
    BY <1>l, <1>7 DEF Reach
  <1>10. r = IF next \in Objects THEN next ELSE NULL
    BY <1>4
  <1> HIDE DEF n, l, r
  <1>11. Reach(n, l) = Reach(m, l) /\ Reach(n, next) = Reach(m, next)
    BY <1>5, <1>8, <1>9, ReachSame
  <1>12. Loopless(n, l) /\ Loopless(n, next)
    BY <1>5, <1>7, <1>8, <1>9, <1>l, LooplessSame DEF l
  <1>13. Reach(n, r) = Reach(m, next) /\ Loopless(n, r)
    <2>1. CASE next \in Objects
      BY <1>10, <1>11, <1>12, <2>1
    <2>2. CASE next \notin Objects
      <3>1. next \in {NULL, 1} /\ r = NULL
        BY <1>5, <1>10, <2>2 DEF Link
      <3>2. Reach(n, NULL) = {} /\ Reach(m, NULL) = {} /\ Reach(m, 1) = {}
        BY ReachNull
      <3> QED BY <3>1, <3>2 DEF Loopless
    <2> QED BY <2>1, <2>2
  <1>14. Lists'
    <2>1. Loopless(n, l) /\ Loopless(n, r) /\ Reach(n, l) \cap Reach(n, r) = {}
      BY <1>l, <1>7, <1>11, <1>12, <1>13 DEF l
    <2> QED BY <1>u, <2>1 DEF Lists, n, l, r
  <1>15. Reapable' = Reapable \ {x} /\ x \in Reapable
    <2>1. Reapable' = Reach(n, l) \cup Reach(n, r)
      BY <1>u DEF Reapable, n, l, r
    <2> QED BY <1>l, <1>7, <1>9, <1>11, <1>13, <2>1 DEF l
  <1>16. x \in live /\ PointerCount[x] = 0 /\ live' = live \ {x}
    BY <1>0, <1>1, <1>15 DEF Deaths, ObpDeleteObject
  <1>17. \A u \in Threads : /\ Dying(u)' <=> Dying(u)
                            /\ At(u, "push")' <=> At(u, "push")
                            /\ At(u, "queue")' <=> At(u, "queue")
                            /\ Obj(u)' = Obj(u) /\ Arg(u)' = Arg(u)
    BY <1>u DEF Dying, At, Obj, Arg
  <1>18. Reaping'
    <2>1. ~workItem /\ ObpReaperList # NULL /\ \A u \in Threads : ~At(u, "queue")
      BY <1>0, <1>1 DEF Reaping
    <2> QED BY <1>u, <1>2, <1>4, <1>17, <2>1 DEF Reaping
  <1>19. \A u \in Threads : Dying(u) => Obj(u) \in live /\ Obj(u) # x
    BY <1>1, <1>15 DEF Deaths
  <1>20. Deaths'
    <2>1. ASSUME NEW u \in Threads, Dying(u)'
          PROVE  Obj(u)' \in live' /\ PointerCount'[Obj(u)'] = 0 /\ Obj(u)' \notin Reapable'
      BY <1>u, <1>1, <1>15, <1>16, <1>17, <1>19, <2>1 DEF Deaths
    <2>2. ASSUME NEW u \in Threads, NEW v \in Threads, u # v, Dying(u)', Dying(v)' PROVE Obj(u)' # Obj(v)'
      BY <1>1, <1>17, <2>2 DEF Deaths
    <2>3. ASSUME NEW u \in Threads, At(u, "push")' PROVE NextToFree'[Obj(u)'] = Arg(u)'
      <3>1. At(u, "push") /\ Obj(u)' = Obj(u) /\ Arg(u)' = Arg(u)
        BY <1>17, <2>3
      <3>2. Dying(u)
        BY <3>1 DEF Dying, At
      <3>3. Obj(u) \in Objects \ {x}
        BY <1>1, <1>19, <3>2 DEF Types
      <3> QED BY <1>1, <1>6, <3>1, <3>3 DEF Deaths
    <2>4. \A o \in Reapable' : o \in live' /\ PointerCount'[o] = 0
      BY <1>u, <1>1, <1>15, <1>16 DEF Deaths
    <2>5. ASSUME NEW o \in live', PointerCount'[o] = 0
          PROVE  o \in Reapable' \/ \E u \in Threads : Dying(u)' /\ Obj(u)' = o
      BY <1>u, <1>1, <1>15, <1>16, <1>17, <2>5 DEF Deaths
    <2> QED BY <2>1, <2>2, <2>3, <2>4, <2>5 DEF Deaths
  <1>21. Sounds' /\ Forgets(x)
    <2>1. ASSUME NEW u \in Threads, NEW s \in Range(todo[u]), s.op # "queue", Has(s, x) PROVE FALSE
      BY <1>16, <1>19, <2>1, NobodyHas
    <2>2. Sounds'
      BY <1>u, <1>1 DEF Sounds
    <2> QED BY <1>u, <2>1, <2>2 DEF Forgets
  <1> QED BY <1>u, <1>0, <1>6, <1>14, <1>16, <1>18, <1>20, <1>21, DeleteKeeps

-----------------------------------------------------------------------------
\* The steps that begin the life of x: it has one reference, and no other
\* object is concerned.
Begins(x, n, st) ==
    /\ Sound(st) /\ Living(st)
    /\ \A o \in Objects : RefN(st, o) = One(x = o) /\ HndN(st, o) = 0 /\ QryN(st, o) = 0
    /\ \A s \in Range(st) : /\ s.op \notin {"namedelete", "queue"} /\ (s.op = "insert" => n # NULL)
                            /\ s.obj = x /\ \A o \in Objects : Has(s, o) => o = x

\* The first steps of an object with a name,
LEMMA NewNamed ==
  ASSUME NEW x \in Objects, NEW n, n # NULL
  PROVE  Begins(x, n, <<Step("insert", x)>>)
  <1> DEFINE b == Step("insert", x)  e == << >>  st == <<b>> \o e
  <1>1. b \in StepType /\ b.op = "insert" /\ b.obj = x
    BY PlainStep DEF PlainOps
  <1>2. Sound(e) /\ Range(e) = {} /\ \A W : Num(e, W) = 0
    BY SoundEmpty
  <1>3. \A o : RefN(e, o) = 0 /\ HndN(e, o) = 0 /\ QryN(e, o) = 0
    BY <1>2 DEF RefN, HndN, QryN
  <1>4. <<b>> \o e = <<b>>
    BY <1>1, ConcatEmptySeq
  <1> HIDE DEF b, e
  <1>5. Backed(b, Range(e))
    BY <1>1, <1>2, BackedIs
  <1>6. /\ Sound(st) /\ st # << >> /\ Head(st) = b /\ Range(st) = {b} \cup Range(e)
        /\ \A o : /\ RefN(st, o) = RefN(e, o) + Ref(b, o) /\ HndN(st, o) = HndN(e, o) + Hnd(b, o)
                 /\ QryN(st, o) = QryN(e, o) + Qry(b, o)
    BY <1>1, <1>2, <1>5, PushStep
  <1> HIDE DEF st
  <1>7. ASSUME NEW o \in Objects PROVE RefN(st, o) = One(x = o) /\ HndN(st, o) = 0 /\ QryN(st, o) = 0
    <2>1. Ref(b, o) = One(x = o) /\ Hnd(b, o) = 0 /\ Qry(b, o) = 0
      BY <1>1, OpWeights
    <2>2. One(x = o) \in Int
      BY DEF One
    <2> QED BY <1>3, <1>6, <2>1, <2>2
  <1>8. \A s \in Range(st) : s = b
    BY <1>2, <1>6
  <1>9. \A o \in Objects : Has(b, o) => o = x
    BY <1>1 DEF Has, OwnsContext
  <1>10. Living(st)
    BY <1>1, <1>6 DEF Living, Final
  <1>11. Begins(x, n, st)
    BY <1>1, <1>6, <1>7, <1>8, <1>9, <1>10 DEF Begins
  <1> QED BY <1>4, <1>11 DEF st, b

\* (two steps are one before another)
LEMMA Pair ==
  ASSUME NEW S, NEW a \in S, NEW b \in S
  PROVE  <<a, b>> = <<a>> \o (<<b>> \o << >>)
  <1>1. << >> \in Seq(S) /\ <<a, b>> \in Seq(S)
    OBVIOUS
  <1>2. \A e \in Seq(S) : <<a, b>> \o e = <<a>> \o (<<b>> \o e)
    BY Unfold
  <1>3. <<a, b>> \o << >> = <<a, b>>
    BY <1>1, ConcatEmptySeq
  <1>4. <<a, b>> \o << >> = <<a>> \o (<<b>> \o << >>)
    BY <1>1, <1>2, Zenon
  <1> QED BY <1>3, <1>4, Zenon

\* and of one without.
LEMMA NewUnnamed ==
  ASSUME NEW x \in Objects, NEW n, n = NULL
  PROVE  Begins(x, n, <<CountHandle(x, TRUE, NULL, NULL), Deref(x)>>)
  <1> DEFINE c == CountHandle(x, TRUE, NULL, NULL)  b == Deref(x)  e == << >>  d == <<b>> \o e  st == <<c>> \o d
  <1>0. NULL \notin Objects
    BY ObjectAssumption
  <1>1. b \in StepType /\ b.op = "deref" /\ b.obj = x
    BY PlainStep DEF PlainOps, Deref
  <1>2. /\ c \in StepType /\ c.op = "counthandle" /\ c.obj = x
        /\ c.arg.new = TRUE /\ c.arg.context = NULL /\ c.arg.inserted = NULL
    BY DEF CountHandle, StepWith, StepType, HandleArg
  <1>3. Sound(e) /\ Range(e) = {} /\ \A W : Num(e, W) = 0
    BY SoundEmpty
  <1>4. \A o : RefN(e, o) = 0 /\ HndN(e, o) = 0 /\ QryN(e, o) = 0
    BY <1>3 DEF RefN, HndN, QryN
  <1>5. <<c, b>> = <<c>> \o (<<b>> \o << >>)
    BY <1>1, <1>2, Pair
  <1> HIDE DEF c, b, e
  <1>6. Backed(b, Range(e))
    BY <1>1, <1>3, BackedIs DEF Patient
  <1>7. /\ Sound(d) /\ d # << >> /\ Range(d) = {b} \cup Range(e)
        /\ \A o : /\ RefN(d, o) = RefN(e, o) + Ref(b, o) /\ HndN(d, o) = HndN(e, o) + Hnd(b, o)
                 /\ QryN(d, o) = QryN(e, o) + Qry(b, o)
    BY <1>1, <1>3, <1>6, PushStep
  <1> HIDE DEF d
  <1>8. Backed(c, Range(d))
    <2>1. Range(d) = {b}
      BY <1>3, <1>7
    <2>2. Patient(Range(d))
      BY <1>1, <2>1 DEF Patient
    <2>3. Deref(c.obj) \in Range(d)
      BY <1>2, <2>1 DEF b
    <2> QED BY <1>2, <2>2, <2>3, BackedHandle
  <1>9. /\ Sound(st) /\ st # << >> /\ Head(st) = c /\ Range(st) = {c} \cup Range(d)
        /\ \A o : /\ RefN(st, o) = RefN(d, o) + Ref(c, o) /\ HndN(st, o) = HndN(d, o) + Hnd(c, o)
                 /\ QryN(st, o) = QryN(d, o) + Qry(c, o)
    BY <1>2, <1>7, <1>8, PushStep
  <1> HIDE DEF st
  <1>10. ASSUME NEW o \in Objects PROVE RefN(st, o) = One(x = o) /\ HndN(st, o) = 0 /\ QryN(st, o) = 0
    <2>1. Ref(b, o) = One(x = o) /\ Hnd(b, o) = 0 /\ Qry(b, o) = 0
      BY <1>1, OpWeights
    <2>2. Ref(c, o) = 0 /\ Hnd(c, o) = 0 /\ Qry(c, o) = 0
      <3>1. Ref(c, o) = One(c.obj = o /\ ~c.arg.new) + One(c.arg.context = o) /\ Hnd(c, o) = 0 /\ Qry(c, o) = One(c.arg.context = o)
        BY <1>2, OpWeights
      <3> QED BY <1>0, <1>2, <3>1 DEF One
    <2>3. One(x = o) \in Int
      BY DEF One
    <2> QED BY <1>4, <1>7, <1>9, <2>1, <2>2, <2>3
  <1>11. \A s \in Range(st) : s = c \/ s = b
    BY <1>3, <1>7, <1>9
  <1>12. \A o \in Objects : (Has(b, o) => o = x) /\ (Has(c, o) => o = x)
    BY <1>0, <1>1, <1>2 DEF Has, OwnsContext
  <1>13. Living(st)
    BY <1>2, <1>9 DEF Living, Final
  <1>14. Begins(x, n, st)
    BY <1>1, <1>2, <1>9, <1>10, <1>11, <1>12, <1>13 DEF Begins
  <1>15. st = <<c, b>>
    BY <1>5 DEF st, d, e
  <1> QED BY <1>14, <1>15 DEF c, b

\* No handles in the making: no step has one.
LEMMA NoHandlers ==
  ASSUME NEW td \in StacksType, NEW o
  PROVE  HndT(td, o) = 0 <=> \A t \in Threads : \A s \in Range(td[t]) : ~OwnsHandle(s, o)
  <1>1. Total(td, Handlers(o)) = 0 <=> \A t \in Threads : \A s \in Range(td[t]) : s \notin Handlers(o)
    BY TotalZero
  <1>2. \A t \in Threads : \A s \in Range(td[t]) : s \in StepType
    BY RangeOfSeq DEF StacksType
  <1> QED BY <1>1, <1>2 DEF Handlers, HndT

\* Nothing is left of an object that is not allocated, on the reaper's list
\* either.
LEMMA NothingGone ==
  ASSUME Inv, NEW x \in Objects \ live
  PROVE  /\ handles[x] = 0 /\ Entered(x) = 0 /\ RefT(todo, x) = 0 /\ HndT(todo, x) = 0 /\ x \notin Reapable
         /\ \A t \in Threads : \A s \in Range(todo[t]) : Has(s, x) => s.op = "queue"
  <1>1. handles[x] = 0 /\ Entered(x) = 0 /\ \A t \in Threads : \A s \in Range(todo[t]) : Has(s, x) => s.op = "queue"
    BY DEF Inv, Gone
  <1>2. \A s : OwnsReference(s, x) \/ OwnsContext(s, x) \/ OwnsHandle(s, x) => Has(s, x) /\ s.op # "queue"
    BY DEF OwnsReference, OwnsContext, OwnsHandle, Has
  <1>3. todo \in StacksType
    BY SoundsIs DEF Inv, Sounds
  <1>4. RefT(todo, x) = 0
    BY <1>1, <1>2, <1>3, NoReferences
  <1>5. HndT(todo, x) = 0
    BY <1>1, <1>2, <1>3, NoHandlers
  <1>6. x \notin Reapable
    BY DEF Inv, Deaths
  <1> QED BY <1>1, <1>4, <1>5, <1>6

\* What becomes of the variables but todo when x is allocated.
Created(x, n) ==
    /\ live' = live \cup {x} /\ PointerCount'[x] = 1 /\ HandleCount'[x] = 0 /\ Name'[x] = n /\ ~Directory'[x]
    /\ skipped'[x] = 0 /\ (n # NULL => QueryReferences'[x] = 2)
    /\ \A o \in Objects \ {x} :
          /\ PointerCount'[o] = PointerCount[o] /\ HandleCount'[o] = HandleCount[o] /\ Name'[o] = Name[o]
          /\ Directory'[o] = Directory[o] /\ skipped'[o] = skipped[o] /\ QueryReferences'[o] = QueryReferences[o]
          /\ Permanent'[o] = Permanent[o]
    /\ UNCHANGED <<entry, handles, NextToFree, ObpReaperList, workItem, reap>>

\* The allocation of an object keeps the invariant.
LEMMA CreateKeeps ==
  ASSUME Inv, Types', NEW t \in Threads, todo[t] = << >>, NEW x \in Objects, x \notin live, NEW n,
         NEW st, Begins(x, n, st), todo' = [todo EXCEPT ![t] = st], n # NULL => n \in Names, Created(x, n)
  PROVE  Inv'
  <1>0. /\ Types /\ Sounds /\ Counts /\ Gone /\ Deaths /\ Lists /\ Reaping /\ Naming /\ NoOrphanName
        /\ live \subseteq Objects
    BY SoundsIs DEF Inv, Types
  <1>w. live' = live \cup {x} /\ UNCHANGED <<entry, handles, NextToFree, ObpReaperList, workItem, reap>>
    BY DEF Created
  <1>1. /\ handles[x] = 0 /\ Entered(x) = 0 /\ RefT(todo, x) = 0 /\ HndT(todo, x) = 0 /\ x \notin Reapable
        /\ \A u \in Threads : \A s \in Range(todo[u]) : Has(s, x) => s.op = "queue"
    BY NothingGone
  <1>2. /\ Moves(t, st) /\ Living(st)
        /\ \A s \in Range(st) : /\ s.op \notin {"namedelete", "queue"} /\ (s.op = "insert" => n # NULL)
                                /\ s.obj = x /\ \A o \in Objects : Has(s, o) => o = x
    BY DEF Begins, Moves
  <1>3. Sounds' /\ todo'[t] = st /\ \A u \in Threads \ {t} : todo'[u] = todo[u]
    BY <1>0, <1>2, StackTo DEF Moves
  <1>4. ASSUME NEW o \in Objects
        PROVE  RefT(todo', o) = RefT(todo, o) + One(x = o) /\ HndT(todo', o) = HndT(todo, o) /\ QryT(todo', o) = QryT(todo, o)
    <2>1. RefN(st, o) = One(x = o) /\ HndN(st, o) = 0 /\ QryN(st, o) = 0
      BY DEF Begins
    <2>2. RefN(todo[t], o) = 0 /\ HndN(todo[t], o) = 0 /\ QryN(todo[t], o) = 0
      BY SoundEmpty DEF RefN, HndN, QryN
    <2>3. /\ RefT(todo', o) = RefT(todo, o) + RefN(st, o) - RefN(todo[t], o)
          /\ HndT(todo', o) = HndT(todo, o) + HndN(st, o) - HndN(todo[t], o)
          /\ QryT(todo', o) = QryT(todo, o) + QryN(st, o) - QryN(todo[t], o)
      BY <1>0, <1>2, MoveTotals
    <2>4. RefT(todo, o) \in Nat /\ HndT(todo, o) \in Nat /\ QryT(todo, o) \in Nat
      BY <1>0, TotalsNat DEF Sounds
    <2>5. One(x = o) \in Int
      BY DEF One
    <2> QED BY <2>1, <2>2, <2>3, <2>4, <2>5
  <1>5. TypeOK' /\ Stacks'
    BY <1>3 DEF TypeOK, Stacks, Sounds, StacksType, Sound
  <1>6. \A o : Entered(o)' = Entered(o)
    BY <1>w DEF Entered
  <1>7. Counts'
    <2>1. ASSUME NEW o \in live'
          PROVE  /\ PointerCount'[o] = handles'[o] + Entered(o)' + skipped'[o] + RefT(todo', o)
                 /\ HandleCount'[o] = handles'[o] + HndT(todo', o)
      <3>1. CASE o = x
        <4>0. RefT(todo', x) = RefT(todo, x) + One(x = x) /\ HndT(todo', x) = HndT(todo, x)
          BY <1>4
        <4>1. RefT(todo', x) = 1 /\ HndT(todo', x) = 0
          BY <1>1, <4>0 DEF One
        <4>2. PointerCount'[x] = 1 /\ HandleCount'[x] = 0 /\ skipped'[x] = 0
          BY DEF Created
        <4> QED BY <1>w, <1>1, <1>6, <3>1, <4>1, <4>2
      <3>2. CASE o # x
        <4>1. o \in live /\ o \in Objects \ {x}
          BY <1>w, <1>0, <3>2
        <4>2. RefT(todo, o) \in Nat
          BY <1>0, TotalsNat DEF Sounds
        <4>5. RefT(todo', o) = RefT(todo, o) + One(x = o) /\ HndT(todo', o) = HndT(todo, o)
          BY <1>4, <4>1
        <4>3. RefT(todo', o) = RefT(todo, o) /\ HndT(todo', o) = HndT(todo, o)
          BY <4>1, <4>2, <4>5 DEF One
        <4>4. PointerCount'[o] = PointerCount[o] /\ HandleCount'[o] = HandleCount[o] /\ skipped'[o] = skipped[o]
          BY <4>1 DEF Created
        <4> QED BY <1>w, <1>0, <1>6, <4>1, <4>3, <4>4 DEF Counts
      <3> QED BY <3>1, <3>2
    <2> QED BY <2>1 DEF Counts
  <1>8. Gone'
    <2>1. ASSUME NEW o \in Objects \ live'
          PROVE  /\ handles'[o] = 0 /\ Entered(o)' = 0
                 /\ \A u \in Threads : \A s \in Range(todo'[u]) : s.op # "queue" => ~Has(s, o)
      <3>1. o \in Objects \ live /\ o # x
        BY <1>w
      <3>2. handles'[o] = 0 /\ Entered(o)' = 0
        BY <1>w, <1>0, <1>6, <3>1 DEF Gone
      <3>3. ASSUME NEW u \in Threads, NEW s \in Range(todo'[u]), s.op # "queue" PROVE ~Has(s, o)
        <4>1. CASE u = t
          BY <1>2, <1>3, <3>1, <3>3, <4>1
        <4>2. CASE u # t
          BY <1>0, <1>3, <3>1, <3>3, <4>2 DEF Gone
        <4> QED BY <4>1, <4>2
      <3> QED BY <3>2, <3>3
    <2> QED BY <2>1 DEF Gone
  <1>9. /\ \A u \in Threads \ {t} :
              /\ Dying(u)' <=> Dying(u)
              /\ At(u, "push")' <=> At(u, "push")
              /\ At(u, "queue")' <=> At(u, "queue")
              /\ Obj(u)' = Obj(u) /\ Arg(u)' = Arg(u)
        /\ ~Dying(t)' /\ ~At(t, "push")' /\ ~At(t, "queue")'
        /\ ~Dying(t) /\ ~At(t, "push") /\ ~At(t, "queue")
    BY <1>2, OtherThreads DEF Living, Final, Dying, At
  <1>10. Lists' /\ Reapable' = Reapable
    BY <1>w, <1>0 DEF Lists, Reapable
  <1>11. Reaping'
    <2>1. \A u \in Threads : At(u, "queue")' <=> At(u, "queue")
      BY <1>9
    <2> QED BY <1>w, <1>0, <2>1 DEF Reaping
  <1>12. \A o \in live : o \in Objects \ {x} /\ o \in live' /\ PointerCount'[o] = PointerCount[o]
    BY <1>w, <1>0 DEF Created
  <1>13. Deaths'
    <2>1. ASSUME NEW u \in Threads, Dying(u)'
          PROVE  Obj(u)' \in live' /\ PointerCount'[Obj(u)'] = 0 /\ Obj(u)' \notin Reapable'
      BY <1>0, <1>9, <1>10, <1>12, <2>1 DEF Deaths
    <2>2. ASSUME NEW u \in Threads, NEW v \in Threads, u # v, Dying(u)', Dying(v)' PROVE Obj(u)' # Obj(v)'
      BY <1>0, <1>9, <2>2 DEF Deaths
    <2>3. ASSUME NEW u \in Threads, At(u, "push")' PROVE NextToFree'[Obj(u)'] = Arg(u)'
      BY <1>w, <1>0, <1>9, <2>3 DEF Deaths
    <2>4. \A o \in Reapable' : o \in live' /\ PointerCount'[o] = 0
      BY <1>0, <1>10, <1>12 DEF Deaths
    <2>5. ASSUME NEW o \in live', PointerCount'[o] = 0
          PROVE  o \in Reapable' \/ \E u \in Threads : Dying(u)' /\ Obj(u)' = o
      <3>1. o \in live /\ PointerCount[o] = 0
        <4>1. PointerCount'[x] = 1
          BY DEF Created
        <4> QED BY <1>w, <1>12, <2>5, <4>1
      <3> QED BY <1>0, <1>9, <1>10, <3>1 DEF Deaths
    <2> QED BY <2>1, <2>2, <2>3, <2>4, <2>5 DEF Deaths
  <1>14. \A k \in Names : entry[k] # NULL => entry[k] \in Objects \ {x}
    <2>1. \A k \in Names : entry[k] # NULL => entry[k] \in live
      BY LiveObjects
    <2> QED BY <1>0, <2>1
  <1>15. Naming'
    <2>1. ASSUME NEW k \in Names, entry'[k] # NULL
          PROVE  /\ Name'[entry'[k]] = k /\ Directory'[entry'[k]]
                 /\ QueryReferences'[entry'[k]] = 1 + QryT(todo', entry'[k])
      <3>1. PICK o \in Objects \ {x} : o = entry[k]
        BY <1>w, <1>14, <2>1
      <3>2. Name[o] = k /\ Directory[o] /\ QueryReferences[o] = 1 + QryT(todo, o)
        BY <1>w, <1>0, <2>1, <3>1 DEF Naming
      <3>3. Name'[o] = k /\ Directory'[o] /\ QueryReferences'[o] = 1 + QryT(todo', o)
        BY <1>4, <3>2 DEF Created
      <3> QED BY <1>w, <3>1, <3>3
    <2>2. \A o \in Objects : Directory'[o] => Name'[o] \in Names
      BY <1>0 DEF Naming, Created
    <2>3. ASSUME NEW u \in Threads, NEW s \in Range(todo'[u]), s.op \in {"insert", "namedelete"}
          PROVE  /\ Name'[s.obj] \in Names
                 /\ s.op = "insert" =>
                      /\ Entered(s.obj)' = 0 /\ handles'[s.obj] = 0 /\ QueryReferences'[s.obj] = 2
                      /\ \A v \in Threads : \A r \in Range(todo'[v]) : Has(r, s.obj) => v = u \/ r.op \in Passing
      <3>1. CASE u = t
        <4>1. s.op = "insert" /\ n # NULL /\ s.obj = x
          BY <1>2, <1>3, <2>3, <3>1
        <4>2. \A v \in Threads : \A r \in Range(todo'[v]) : Has(r, x) => v = t \/ r.op \in Passing
          BY <1>1, <1>3 DEF Passing
        <4>3. Name'[x] \in Names /\ QueryReferences'[x] = 2
          BY <4>1 DEF Created
        <4> QED BY <1>w, <1>1, <1>6, <3>1, <4>1, <4>2, <4>3
      <3>2. CASE u # t
        <4>1. s \in Range(todo[u]) /\ s.op # "queue"
          BY <1>3, <2>3, <3>2
        <4>2. PICK o \in Objects \ {x} : o = s.obj
          BY <1>12, <4>1, LiveObjects
        <4>3. /\ Name[o] \in Names
              /\ s.op = "insert" =>
                   /\ Entered(o) = 0 /\ handles[o] = 0 /\ QueryReferences[o] = 2
                   /\ \A v \in Threads : \A r \in Range(todo[v]) : Has(r, o) => v = u \/ r.op \in Passing
          BY <1>0, <2>3, <4>1, <4>2 DEF Naming
        <4>4. /\ Name'[o] \in Names
              /\ s.op = "insert" => Entered(o)' = 0 /\ handles'[o] = 0 /\ QueryReferences'[o] = 2
          BY <1>w, <1>6, <4>3 DEF Created
        <4>5. ASSUME s.op = "insert", NEW v \in Threads, NEW r \in Range(todo'[v]), Has(r, o)
              PROVE  v = u \/ r.op \in Passing
          <5>1. v # t
            BY <1>2, <1>3, <4>2, <4>5
          <5> QED BY <1>3, <4>3, <4>5, <5>1
        <4> QED BY <4>2, <4>4, <4>5
      <3> QED BY <3>1, <3>2
    <2> QED BY <2>1, <2>2, <2>3 DEF Naming
  <1>16. NoOrphanName'
    <2>1. ASSUME NEW k \in Names, entry'[k] # NULL, HandleCount'[entry'[k]] = 0, ~Permanent'[entry'[k]]
          PROVE  \E u \in Threads : \E s \in Range(todo'[u]) : Watches(s, entry'[k])
      <3>1. entry[k] \in Objects \ {x} /\ HandleCount[entry[k]] = 0 /\ ~Permanent[entry[k]]
        BY <1>w, <1>14, <2>1 DEF Created
      <3>2. PICK u \in Threads : \E s \in Range(todo[u]) : Watches(s, entry[k])
        BY <1>w, <1>0, <2>1, <3>1, OrphanIs
      <3>3. u # t
        BY <3>2, SoundEmpty
      <3> QED BY <1>w, <1>3, <3>2, <3>3
    <2> QED BY <2>1 DEF NoOrphanName, Watches
  <1> QED BY <1>5, <1>7, <1>8, <1>10, <1>11, <1>13, <1>15, <1>16 DEF Inv

\* ObCreateObject keeps the invariant.
LEMMA KeepCreateObject ==
  ASSUME Inv, NEW t \in Threads, NEW x \in Objects, NEW n \in Names \cup {NULL}, NEW permanent \in BOOLEAN,
         ObCreateObject(t, x, n, permanent)
  PROVE  Inv'
  <1>1. /\ todo[t] = << >> /\ x \notin live /\ live' = live \cup {x}
        /\ PointerCount' = [PointerCount EXCEPT ![x] = 1] /\ HandleCount' = [HandleCount EXCEPT ![x] = 0]
        /\ Name' = [Name EXCEPT ![x] = n] /\ Permanent' = [Permanent EXCEPT ![x] = permanent]
        /\ Directory' = [Directory EXCEPT ![x] = FALSE] /\ skipped' = [skipped EXCEPT ![x] = 0]
        /\ QueryReferences' = [QueryReferences EXCEPT ![x] = IF n = NULL THEN 0 ELSE 2]
    BY DEF ObCreateObject
  <1>2. UNCHANGED <<entry, dirLock, handles, NextToFree, ObpReaperList, workItem, reap>>
    BY DEF ObCreateObject, reaper
  <1>3. todo' = [todo EXCEPT ![t] = IF n = NULL THEN <<CountHandle(x, TRUE, NULL, NULL), Deref(x)>>
                                    ELSE <<Step("insert", x)>>]
    BY DEF ObCreateObject
  <1>4. PICK st : Begins(x, n, st) /\ todo' = [todo EXCEPT ![t] = st]
    <2>1. CASE n = NULL
      BY <1>3, <2>1, NewUnnamed
    <2>2. CASE n # NULL
      BY <1>3, <2>2, NewNamed
    <2> QED BY <2>1, <2>2
  <1>5. Types
    BY DEF Inv, TypeOK
  <1>6. /\ PointerCount' \in [Objects -> Int] /\ HandleCount' \in [Objects -> Int] /\ QueryReferences' \in [Objects -> Int]
        /\ skipped' \in [Objects -> Nat] /\ Name' \in [Objects -> Names \cup {NULL}]
        /\ Permanent' \in [Objects -> BOOLEAN] /\ Directory' \in [Objects -> BOOLEAN]
    BY <1>1, <1>5 DEF Types
  <1>7. Types'
    BY <1>1, <1>2, <1>5, <1>6 DEF Types
  <1>8. /\ PointerCount'[x] = 1 /\ HandleCount'[x] = 0 /\ Name'[x] = n /\ ~Directory'[x] /\ skipped'[x] = 0
        /\ n # NULL => QueryReferences'[x] = 2
        /\ \A o \in Objects \ {x} :
              /\ PointerCount'[o] = PointerCount[o] /\ HandleCount'[o] = HandleCount[o] /\ Name'[o] = Name[o]
              /\ Directory'[o] = Directory[o] /\ skipped'[o] = skipped[o] /\ QueryReferences'[o] = QueryReferences[o]
              /\ Permanent'[o] = Permanent[o]
    BY <1>1, <1>5 DEF Types
  <1>9. todo[t] = << >> /\ x \notin live /\ live' = live \cup {x} /\ (n # NULL => n \in Names)
    BY <1>1
  <1>10. UNCHANGED <<entry, handles, NextToFree, ObpReaperList, workItem, reap>>
    BY <1>2
  <1>11. Created(x, n)
    BY <1>8, <1>9, <1>10 DEF Created
  <1> QED BY <1>4, <1>7, <1>9, <1>11, CreateKeeps

-----------------------------------------------------------------------------
\* The invariant holds at first.
LEMMA InitInv == Init => Inv
  <1> SUFFICES ASSUME Init PROVE Inv
    OBVIOUS
  <1> USE DEF Init
  <1>0. NULL \notin Objects /\ 1 \notin Objects /\ NULL # 1
    BY ObjectAssumption
  <1>1. Types
    <2>1. /\ live \in SUBSET Objects /\ PointerCount \in [Objects -> Int] /\ HandleCount \in [Objects -> Int]
          /\ QueryReferences \in [Objects -> Int] /\ handles \in [Objects -> Nat] /\ skipped \in [Objects -> Nat]
      OBVIOUS
    <2>2. /\ Name \in [Objects -> Names \cup {NULL}] /\ Permanent \in [Objects -> BOOLEAN]
          /\ Directory \in [Objects -> BOOLEAN] /\ entry \in [Names -> Objects \cup {NULL}]
          /\ dirLock \in Threads \cup {NULL}
      OBVIOUS
    <2>3. NextToFree \in Links /\ ObpReaperList \in Link /\ workItem \in BOOLEAN
      BY DEF Links, Link
    <2>4. reap \in [pc : {"idle", "take", "delete", "leave"}, obj : Objects \cup {NULL}]
      OBVIOUS
    <2> HIDE DEF Init
    <2> QED BY <2>1, <2>2, <2>3, <2>4 DEF Types
  <1>2. \A t \in Threads : todo[t] = << >> /\ Range(todo[t]) = {}
    BY SoundEmpty
  <1>3. Sounds
    <2>1. todo \in StacksType
      BY EmptySeq DEF StacksType
    <2> QED BY <1>2, <2>1, SoundEmpty DEF Sounds
  <1>4. TypeOK /\ Stacks
    BY <1>1, <1>3, SoundsIs
  <1>5. Counts /\ live = {}
    BY DEF Counts
  <1>6. Gone
    <2>1. \A o \in Objects : Entered(o) = 0
      BY <1>0 DEF Entered
    <2> QED BY <1>2, <2>1 DEF Gone
  <1>7. \A t \in Threads : ~Dying(t) /\ \A op : ~At(t, op)
    BY <1>2 DEF Dying, At
  <1>8. reap.obj = NULL /\ reap.pc = "idle"
    OBVIOUS
  <1>9. Reach(NextToFree, NULL) = {}
    BY ReachNull
  <1>10. Reapable = {} /\ Lists
    BY <1>8, <1>9 DEF Reapable, Lists, Loopless
  <1>11. Deaths
    BY <1>5, <1>7, <1>10 DEF Deaths
  <1>12. Reaping
    BY <1>0, <1>7, <1>8 DEF Reaping
  <1>13. Naming
    BY <1>2 DEF Naming
  <1>14. NoOrphanName
    <2>1. \A n \in Names : entry[n] = NULL
      OBVIOUS
    <2> QED BY <2>1, OrphanIs
  <1> QED BY <1>4, <1>5, <1>6, <1>10, <1>11, <1>12, <1>13, <1>14 DEF Inv

\* It is kept by a step that changes nothing,
LEMMA StutterInv ==
  ASSUME Inv, UNCHANGED vars
  PROVE  Inv'
  <1>1. UNCHANGED <<live, counts, name, handles, todo, skipped>> /\ UNCHANGED <<NextToFree, ObpReaperList, workItem, reap>>
    BY DEF vars, reaper
  <1>2. Types /\ Lists /\ Reaping
    BY DEF Inv, TypeOK
  <1>3. Types'
    BY <1>1, <1>2 DEF Types, counts, name
  <1>4. Lists' /\ Reapable' = Reapable
    BY <1>1, <1>2 DEF Lists, Reapable
  <1>5. Reaping'
    BY <1>1, <1>2 DEF Reaping, At
  <1> QED BY <1>1, <1>3, <1>4, <1>5, ReaperKeeps

\* and by every step.
LEMMA NextInv == Inv /\ [Next]_vars => Inv'
  <1> SUFFICES ASSUME Inv, [Next]_vars PROVE Inv'
    OBVIOUS
  <1>1. CASE UNCHANGED vars
    BY <1>1, StutterInv
  <1>2. CASE Reaper
    BY <1>2, KeepReaperStarts, KeepReaperTakes, KeepReaperDeletes, KeepReaperLeaves DEF Reaper
  <1>3. ASSUME NEW t \in Threads, Begin(t) PROVE Inv'
    <2>1. ASSUME NEW o \in Objects, NEW n \in Names, NEW permanent \in BOOLEAN, ObCreateObject(t, o, n, permanent)
          PROVE  Inv'
      BY <2>1, KeepCreateObject
    <2>2. ASSUME NEW o \in Objects, ObCreateObject(t, o, NULL, FALSE) PROVE Inv'
      <3>1. NULL \in Names \cup {NULL} /\ FALSE \in BOOLEAN
        OBVIOUS
      <3> QED BY <2>2, <3>1, KeepCreateObject
    <2>3. ASSUME NEW n \in Names, ObOpenObjectByName(t, n) PROVE Inv'
      BY <2>3, KeepOpenObjectByName
    <2>4. ASSUME NEW o \in Objects, ObpCloseHandle(t, o) \/ ObReferenceObjectSafe(t, o) PROVE Inv'
      BY <2>4, KeepCloseHandle, KeepReferenceObjectSafe
    <2>5. ASSUME NEW o \in Objects, NEW then \in {"drop", "open", "temporary", "defer"}, ReferenceByHandle(t, o, then)
          PROVE  Inv'
      BY <2>5, KeepReferenceByHandle
    <2> QED BY <1>3, <2>1, <2>2, <2>3, <2>4, <2>5 DEF Begin
  <1>4. ASSUME NEW t \in Threads, Continue(t) PROVE Inv'
    <2>1. CASE InsertNew(t) \/ InsertOpens(t) \/ InsertFails(t)
      BY <2>1, KeepInsertNew, KeepInsertOpens, KeepInsertFails
    <2>2. CASE ObpIncrementHandleCount(t) \/ HandleDenied(t) \/ GrantHandle(t)
      BY <2>2, KeepIncrementHandleCount, KeepHandleDenied, KeepGrantHandle
    <2>3. CASE ExCreateHandle(t) \/ ExCreateHandleFails(t) \/ ObpDecrementHandleCount(t)
      BY <2>3, KeepExCreateHandle, KeepExCreateHandleFails, KeepDecrementHandleCount
    <2>4. CASE ObMakeTemporaryObject(t) \/ ObpDeleteNameCheck(t) \/ NameDelete(t) \/ ObpDereferenceNameInfo(t)
      BY <2>4, KeepMakeTemporaryObject, KeepDeleteNameCheck, KeepNameDelete, KeepDereferenceNameInfo
    <2>5. CASE ReadOneCount(t) \/ CompareCounts(t) \/ Decrement(t)
      BY <2>5, KeepReadOneCount, KeepCompareCounts, KeepDecrement
    <2>6. CASE DeleteHere(t) \/ DeferLink(t) \/ DeferPush(t) \/ QueueWorkItem(t)
      BY <2>6, KeepDeleteHere, KeepDeferLink, KeepDeferPush, KeepQueueWorkItem
    <2> QED BY <1>4, <2>1, <2>2, <2>3, <2>4, <2>5, <2>6 DEF Continue
  <1> QED BY <1>1, <1>2, <1>3, <1>4 DEF Next

\* At every step the object manager's counts, names, stacks and reaper's list
\* are as the invariant says.
THEOREM Invariance == Spec => []Inv
  BY InitInv, NextInv, PTL DEF Spec

\* The places the property counts are those of the totals.
LEMMA CountedSteps ==
  ASSUME TypeOK, NEW o
  PROVE  /\ References(o) = Owning(todo, Owners(o)) /\ Contexts(o) = Owning(todo, Lookups(o))
         /\ HandleSteps(o) = Owning(todo, Handlers(o))
  <1>1. ASSUME NEW p \in Places PROVE StepAt(p) \in StepType
    <2>1. PICK t \in Threads : p \in {t} \X (1 .. Len(todo[t]))
      BY DEF Places
    <2>2. PICK d \in 1 .. Len(todo[t]) : p[1] = t /\ p[2] = d
      BY <2>1
    <2>3. todo[t] \in Seq(StepType) /\ Len(todo[t]) \in Nat
      BY DEF TypeOK
    <2>4. Len(todo[t]) + 1 - d \in 1 .. Len(todo[t])
      BY <2>3
    <2>5. StepAt(p) = todo[t][Len(todo[t]) + 1 - d]
      BY <2>2 DEF StepAt
    <2> QED BY <2>3, <2>4, <2>5
  <1>2. ASSUME NEW W PROVE Owning(todo, W) = {p \in Places : StepAt(p) \in W}
    BY DEF Owning, Places, StepAt
  <1>3. References(o) = {p \in Places : StepAt(p) \in Owners(o)}
    BY <1>1 DEF References, Owners
  <1>4. Contexts(o) = {p \in Places : StepAt(p) \in Lookups(o)}
    BY <1>1 DEF Contexts, Lookups
  <1>5. HandleSteps(o) = {p \in Places : StepAt(p) \in Handlers(o)}
    BY <1>1 DEF HandleSteps, Handlers
  <1> QED BY <1>2, <1>3, <1>4, <1>5

\* The invariant implies CountsAddUp,
LEMMA CountsOfInv == Inv => CountsAddUp
  <1> SUFFICES ASSUME Inv, NEW o \in live
               PROVE  /\ PointerCount[o] = handles[o] + Entered(o) + skipped[o]
                                            + Cardinality(References(o)) + Cardinality(Contexts(o))
                      /\ HandleCount[o] = handles[o] + Cardinality(HandleSteps(o))
    BY DEF CountsAddUp
  <1>1. /\ PointerCount[o] = handles[o] + Entered(o) + skipped[o] + RefT(todo, o)
        /\ HandleCount[o] = handles[o] + HndT(todo, o) /\ o \in Objects /\ TypeOK
    BY DEF Inv, Counts, TypeOK, Types
  <1>2. RefT(todo, o) = Cardinality(References(o)) + Cardinality(Contexts(o)) /\ HndT(todo, o) = Cardinality(HandleSteps(o))
    BY <1>1, CountedSteps DEF RefT, HndT, Total
  <1>3. Cardinality(References(o)) \in Nat /\ Cardinality(Contexts(o)) \in Nat
    <2>1. todo \in StacksType
      BY <1>1 DEF TypeOK, StacksType
    <2> QED BY <1>1, <2>1, CountedSteps, TotalNat DEF Total
  <1>4. handles[o] \in Nat /\ skipped[o] \in Nat /\ Entered(o) \in {0, 1}
    BY <1>1, EnteredIs DEF TypeOK, Types
  <1> DEFINE h == handles[o]  k == skipped[o]  e == Entered(o)  r == Cardinality(References(o))
             c == Cardinality(Contexts(o))  p == PointerCount[o]
  <1>5. h \in Nat /\ k \in Nat /\ e \in Nat /\ r \in Nat /\ c \in Nat /\ p = h + e + k + (r + c)
    BY <1>1, <1>2, <1>3, <1>4
  <1> HIDE DEF h, k, e, r, c, p
  <1>6. p = h + e + k + r + c
    BY <1>5
  <1> QED BY <1>1, <1>2, <1>6 DEF h, k, e, r, c, p

\* NoUseAfterFree,
LEMMA FreeOfInv == Inv => NoUseAfterFree
  <1> SUFFICES ASSUME Inv, NEW o \in Objects \ live
               PROVE  /\ handles[o] = 0 /\ Entered(o) = 0 /\ o \notin Reapable
                      /\ \A t \in Threads : \A s \in Range(todo[t]) :
                            s.op # "queue" => s.obj # o /\ ~OwnsContext(s, o)
    BY DEF NoUseAfterFree
  <1> QED BY NothingGone DEF Has

\* and DeadAreReaped.
LEMMA DeadOfInv == Inv => DeadAreReaped
  <1> SUFFICES ASSUME Inv PROVE DeadAreReaped
    OBVIOUS
  <1>0. Types /\ Deaths /\ Reaping
    BY DEF Inv, TypeOK
  <1>1. \A t \in Threads : At(t, "queue") => ~workItem /\ reap.pc = "idle"
    BY <1>0 DEF Reaping
  <1>2. ASSUME NEW o \in Reapable
        PROVE  workItem \/ reap.pc # "idle" \/ \E t \in Threads : At(t, "queue")
    <2>1. Reach(NextToFree, NULL) = {} /\ Reach(NextToFree, 1) = {}
      BY ReachNull
    <2>2. CASE o \in Reach(NextToFree, ObpReaperList)
      <3>1. ObpReaperList \in Objects
        BY <1>0, <2>1, <2>2 DEF Types, Link
      <3> QED BY <1>0, <3>1 DEF Reaping
    <2>3. CASE o \in Reach(NextToFree, reap.obj)
      <3>1. reap.obj \in Objects
        BY <1>0, <2>1, <2>3 DEF Types
      <3> QED BY <1>0, <3>1 DEF Reaping
    <2> QED BY <2>2, <2>3 DEF Reapable
  <1>3. ASSUME NEW o \in live, PointerCount[o] = 0
        PROVE  \/ \E t \in Threads : (At(t, "delete") \/ At(t, "defer") \/ At(t, "push")) /\ Obj(t) = o
               \/ o \in Reapable
    <2>1. o \in Reapable \/ \E t \in Threads : Dying(t) /\ Obj(t) = o
      BY <1>0, <1>3 DEF Deaths
    <2> QED BY <2>1 DEF Dying, At
  <1> QED BY <1>1, <1>2, <1>3 DEF DeadAreReaped

\* PointerCount and HandleCount of every allocated object are exactly the
\* handles, the directory's reference and the references of calls in
\* progress, with those ObfDereferenceObject declined to drop: no
\* interleaving of the routines, no failure of access check or memory on
\* their way leaks a reference or drops one twice.
THEOREM CountsAreExact == Spec => []CountsAddUp
  BY Invariance, CountsOfInv, PTL

\* No handle, directory entry, call in progress or place on the reaper's list
\* is left of an object ObpDeleteObject has freed, and none is freed twice.
THEOREM NothingUsedAfterFree == Spec => []NoUseAfterFree
  BY Invariance, FreeOfInv, PTL

\* A temporary object without handles keeps its name only while a call in
\* progress has still to look at it: the second look of ObpDeleteNameCheck
\* under the locks loses no race with a new handle or with
\* ObMakeTemporaryObject.
THEOREM NoNameIsOrphaned == Spec => []NoOrphanName
  <1>1. Inv => NoOrphanName
    BY DEF Inv
  <1> QED BY <1>1, Invariance, PTL

\* An object whose last reference was dropped is being deleted by one thread,
\* or is on the reaper's list and somebody answers for the list:
\* ObpReapObject, its queued work item, or the thread about to queue it; the
\* work item is never queued twice.
THEOREM TheDeadAreReaped == Spec => []DeadAreReaped
  BY Invariance, DeadOfInv, PTL

=============================================================================
