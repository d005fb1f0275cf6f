--------------------------- MODULE ObjectLifetime ---------------------------
(***************************************************************************)
(* The life of an object of the object manager (ntoskrnl/ob): its two      *)
(* counts, PointerCount and HandleCount, its place in a directory with the *)
(* query references that keep its name (NAME_INFO.QueryReferences), and    *)
(* its end, at once or through the reaper's list (obref.c, oblife.c).      *)
(*                                                                         *)
(* A thread's calls are a stack: todo[t] lists the steps it has still to   *)
(* do, the current one first; a routine pushes the steps of the routines   *)
(* it calls.  A step is one interlocked operation, or one section under    *)
(* the object lock or the directory lock.  Only ObInsertObject keeps the   *)
(* directory locked over several steps (dirLock).                          *)
(***************************************************************************)
EXTENDS Integers, Sequences, FiniteSets, Functions

CONSTANTS
    Threads,        \* callers of the object manager
    Objects,        \* the objects' headers, memory that is used again
    Names,          \* the names of one directory
    MaxHandles,     \* bound on the handles that are open at a time
    NULL

ASSUME ObjectAssumption ==
    /\ IsFiniteSet(Threads)
    /\ NULL \notin Objects \cup Names \cup Threads \cup {1}
    /\ 1 \notin Objects

VARIABLES
    live,           \* the objects that are allocated
    PointerCount,   \* OBJECT_HEADER.PointerCount
    HandleCount,    \* OBJECT_HEADER.HandleCount
    Name,           \* NAME_INFO.Name, NULL: an unnamed object
    Permanent,      \* OB_FLAG_PERMANENT of OBJECT_HEADER.Flags
    QueryReferences,\* NAME_INFO.QueryReferences, 0: no name information
    Directory,      \* NAME_INFO.Directory is set
    entry,          \* [Names -> Objects \cup {NULL}], the directory's entries
    dirLock,        \* who keeps the directory locked between steps
    handles,        \* the handles open to each object, in all handle tables
    NextToFree,     \* OBJECT_HEADER.NextToFree
    ObpReaperList,  \* NULL, the newest dying object, or 1: being reaped
    workItem,       \* ObpReaperWorkItem is queued
    reap,           \* the worker in ObpReapObject: [pc, obj]
    todo,           \* the steps each thread has still to do
    skipped         \* ghost: references ObfDereferenceObject declined to drop

counts == <<PointerCount, HandleCount, QueryReferences>>
name == <<Name, Permanent, Directory, entry, dirLock>>
reaper == <<NextToFree, ObpReaperList, workItem, reap>>
vars == <<live, counts, name, handles, reaper, todo, skipped>>

-----------------------------------------------------------------------------
(* The stack of steps *)

\* A step that remembers a count it read, or the list's head it read.
StepWith(op, o, v) == [op |-> op, obj |-> o, arg |-> v]

Step(op, o) == StepWith(op, o, NULL)

Deref(o) == Step("deref", o)
DerefName(o) == Step("derefname", o)

At(t, op) == todo[t] # << >> /\ Head(todo[t]).op = op

Obj(t) == Head(todo[t]).obj

Arg(t) == Head(todo[t]).arg

\* The current step is done; the steps s come before the rest.
Then(t, s) == todo' = [todo EXCEPT ![t] = s \o Tail(@)]

\* ObpReleaseLookupContext: ob_x.h 254-268, for the object the lookup found
\* (the directory's lock is dropped by the step that pushes these).
ReleaseContext(o) == IF o = NULL THEN << >> ELSE <<DerefName(o), Deref(o)>>

\* A handle to o is to be made.  new: the routine adds the handle's
\* reference itself (AdditionalReferences = 1), otherwise its caller gave
\* one; context: the object of the lookup's context; inserted: the named
\* object ObInsertObject was called for.
CountHandle(o, new, context, inserted) ==
    StepWith("counthandle", o,
             [new |-> new, context |-> context, inserted |-> inserted])

\* If no handle is made, ObInsertObject backs out the name of its object:
\* obhandle.c 3228-3236.
BackOut(h) ==
    IF h.inserted = NULL THEN << >> ELSE <<Step("namecheck", h.inserted)>>

Add(count, o, n) == [count EXCEPT ![o] = @ + n]

-----------------------------------------------------------------------------
Init ==
    /\ live = {}
    /\ PointerCount = [o \in Objects |-> 0]
    /\ HandleCount = [o \in Objects |-> 0]
    /\ Name = [o \in Objects |-> NULL]
    /\ Permanent = [o \in Objects |-> FALSE]
    /\ QueryReferences = [o \in Objects |-> 0]
    /\ Directory = [o \in Objects |-> FALSE]
    /\ entry = [n \in Names |-> NULL]
    /\ dirLock = NULL
    /\ handles = [o \in Objects |-> 0]
    /\ NextToFree = [o \in Objects |-> NULL]
    /\ ObpReaperList = NULL
    /\ workItem = FALSE
    /\ reap = [pc |-> "idle", obj |-> NULL]
    /\ todo = [t \in Threads |-> << >>]
    /\ skipped = [o \in Objects |-> 0]

-----------------------------------------------------------------------------
(* Creation and insertion: oblife.c 598-858 and 938-1031, obhandle.c       *)
(* 2925-3274                                                               *)

\* The object is allocated with one reference, and its name information with
\* one query reference; ObInsertObject takes another.  The caller asked for
\* a permanent object or not, and for an existing one (OBJ_OPENIF) or not.
\* (Bound: nothing is created once a count of query references wrapped.)
ObCreateObject(t, o, n, permanent) ==
    /\ todo[t] = << >>
    /\ o \notin live
    /\ \A x \in Objects : QueryReferences[x] >= 0
    /\ live' = live \cup {o}
    /\ PointerCount' = [PointerCount EXCEPT ![o] = 1]
    /\ HandleCount' = [HandleCount EXCEPT ![o] = 0]
    /\ Name' = [Name EXCEPT ![o] = n]
    /\ Permanent' = [Permanent EXCEPT ![o] = permanent]
    /\ Directory' = [Directory EXCEPT ![o] = FALSE]
    /\ skipped' = [skipped EXCEPT ![o] = 0]
    /\ QueryReferences' =
           [QueryReferences EXCEPT ![o] = IF n = NULL THEN 0 ELSE 2]
    /\ todo' = [todo EXCEPT ![t] =
           IF n = NULL
           THEN <<CountHandle(o, TRUE, NULL, NULL), Deref(o)>>
           ELSE <<Step("insert", o)>>]
    /\ UNCHANGED <<entry, dirLock, handles, reaper>>

\* The lookup finds the name free and enters the object, which takes a
\* reference for the directory; the lock stays until the handle is counted.
InsertNew(t) ==
    LET o == Obj(t) IN
    /\ At(t, "insert")
    /\ dirLock = NULL
    /\ entry[Name[o]] = NULL
    /\ entry' = [entry EXCEPT ![Name[o]] = o]
    /\ Directory' = [Directory EXCEPT ![o] = TRUE]
    /\ PointerCount' = Add(PointerCount, o, 1)
    /\ dirLock' = t
    /\ Then(t, <<CountHandle(o, TRUE, NULL, o), DerefName(o), Deref(o)>>)
    /\ UNCHANGED <<live, HandleCount, QueryReferences, Name, Permanent, handles,
                   reaper, skipped>>

\* The name is taken: with OBJ_OPENIF a handle is made to the object found,
\* under the references of the lookup's context.
InsertOpens(t) ==
    LET o == Obj(t)  e == entry[Name[o]] IN
    /\ At(t, "insert")
    /\ dirLock = NULL
    /\ e # NULL
    /\ PointerCount' = Add(PointerCount, e, 1)
    /\ QueryReferences' = Add(QueryReferences, e, 1)
    /\ dirLock' = t
    /\ Then(t, <<CountHandle(e, TRUE, e, o), DerefName(o), Deref(o)>>)
    /\ UNCHANGED <<live, HandleCount, Name, Permanent, Directory, entry, handles,
                   reaper, skipped>>

\* The name is taken and the caller wanted a new object, or there is no
\* memory for the entry: the context is released and the object dies.
InsertFails(t) ==
    LET o == Obj(t)  e == entry[Name[o]] IN
    /\ At(t, "insert")
    /\ dirLock = NULL
    /\ IF e = NULL
       THEN UNCHANGED <<PointerCount, QueryReferences>>
       ELSE /\ PointerCount' = Add(PointerCount, e, 1)
            /\ QueryReferences' = Add(QueryReferences, e, 1)
    /\ Then(t, ReleaseContext(e) \o <<DerefName(o), Deref(o)>>)
    /\ UNCHANGED <<live, HandleCount, name, handles, reaper, skipped>>

-----------------------------------------------------------------------------
(* Handles: ObpCreateHandle and ObpCreateUnnamedHandle, obhandle.c         *)
(* 1494-1706 and 1309-1453                                                 *)

Unlock(t) == dirLock' = IF dirLock = t THEN NULL ELSE dirLock

\* The bound on the handles that are open or being opened.
HandlesBounded == FoldFunction(+, 0, HandleCount) < MaxHandles

\* ObpIncrementHandleCount, under the object lock: the count goes up before
\* the reference that stands for it is added.
ObpIncrementHandleCount(t) ==
    /\ At(t, "counthandle")
    /\ HandlesBounded
    /\ HandleCount' = Add(HandleCount, Obj(t), 1)
    /\ Then(t, <<StepWith("grant", Obj(t), Arg(t))>>)
    /\ UNCHANGED <<live, PointerCount, QueryReferences, name, handles, reaper,
                   skipped>>

\* Mutant of HandleDenied: the caller's reference is not dropped.
HandleDeniedMutant(t) ==
    /\ At(t, "counthandle")
    /\ Unlock(t)
    /\ Then(t, ReleaseContext(Arg(t).context) \o BackOut(Arg(t)))
    /\ UNCHANGED <<live, counts, Name, Permanent, Directory, entry, handles, reaper,
                   skipped>>

\* Access was denied: the context is released, and a caller that gave a
\* reference drops it.
HandleDenied(t) ==
    /\ At(t, "counthandle")
    /\ Unlock(t)
    /\ Then(t, ReleaseContext(Arg(t).context) \o
               (IF Arg(t).new THEN << >> ELSE <<Deref(Obj(t))>>) \o
               BackOut(Arg(t)))
    /\ UNCHANGED <<live, counts, Name, Permanent, Directory, entry, handles, reaper,
                   skipped>>

\* The reference is added, then the directory is unlocked and the context's
\* references are dropped.
GrantHandle(t) ==
    /\ At(t, "grant")
    /\ PointerCount' = Add(PointerCount, Obj(t), IF Arg(t).new THEN 1 ELSE 0)
    /\ Unlock(t)
    /\ Then(t, ReleaseContext(Arg(t).context)
               \o <<StepWith("exhandle", Obj(t), Arg(t))>>)
    /\ UNCHANGED <<live, HandleCount, QueryReferences, Name, Permanent, Directory,
                   entry, handles, reaper, skipped>>

\* ExCreateHandle: the entry is in a table ...
ExCreateHandle(t) ==
    /\ At(t, "exhandle")
    /\ handles' = Add(handles, Obj(t), 1)
    /\ Then(t, << >>)
    /\ UNCHANGED <<live, counts, name, reaper, skipped>>

\* ... or there is no memory for it.  ObpCreateUnnamedHandle takes its
\* reference back first (the caller has another), ObpCreateHandle last.
ExCreateHandleFails(t) ==
    LET o == Obj(t)  unnamed == Arg(t).new /\ Arg(t).inserted = NULL IN
    /\ At(t, "exhandle")
    /\ PointerCount' = Add(PointerCount, o, IF unnamed THEN -1 ELSE 0)
    /\ Then(t, <<Step("dechandle", o)>> \o
               (IF unnamed THEN << >> ELSE <<Deref(o)>>) \o BackOut(Arg(t)))
    /\ UNCHANGED <<live, HandleCount, QueryReferences, name, handles, reaper,
                   skipped>>

\* ObOpenObjectByName: obhandle.c 2522-2696.  The lookup references name and
\* object for its context (obdir.c 260-276), and once more for the handle
\* (obname.c 978).
ObOpenObjectByName(t, n) ==
    LET o == entry[n] IN
    /\ todo[t] = << >>
    /\ dirLock = NULL
    /\ o # NULL
    /\ PointerCount' = Add(PointerCount, o, 2)
    /\ QueryReferences' = Add(QueryReferences, o, 1)
    /\ todo' = [todo EXCEPT ![t] = <<CountHandle(o, FALSE, o, NULL)>>]
    /\ UNCHANGED <<live, HandleCount, name, handles, reaper, skipped>>

\* ObpCloseHandle, ObpCloseHandleTableEntry: obhandle.c 682-776 and
\* 1726-1837.  ExDestroyHandle takes the entry, then the counts follow.
ObpCloseHandle(t, o) ==
    /\ todo[t] = << >>
    /\ handles[o] > 0
    /\ handles' = Add(handles, o, -1)
    /\ todo' = [todo EXCEPT ![t] = <<Step("dechandle", o), Deref(o)>>]
    /\ UNCHANGED <<live, counts, name, reaper, skipped>>

\* ObpDecrementHandleCount: obhandle.c 527-653.
ObpDecrementHandleCount(t) ==
    /\ At(t, "dechandle")
    /\ HandleCount' = Add(HandleCount, Obj(t), -1)
    /\ Then(t, <<Step("namecheck", Obj(t))>>)
    /\ UNCHANGED <<live, PointerCount, QueryReferences, name, handles,
                   reaper, skipped>>

-----------------------------------------------------------------------------
(* References by handle and by pointer, and what their holders do          *)

\* ObReferenceObjectByHandle (obref.c 496-690), and then: drop the
\* reference; open another handle by pointer (obhandle.c 2732-2816); make
\* the object temporary (oblife.c 266-298); drop the reference and have the
\* object deleted by the reaper in any case (obref.c 360-370).
ReferenceByHandle(t, o, then) ==
    /\ todo[t] = << >>
    /\ handles[o] > 0
    /\ PointerCount' = Add(PointerCount, o, IF then = "open" THEN 2 ELSE 1)
    /\ todo' = [todo EXCEPT ![t] =
           CASE then = "drop"      -> <<Deref(o)>>
             [] then = "open"      -> <<CountHandle(o, FALSE, NULL, NULL),
                                        Deref(o)>>
             [] then = "temporary" -> <<Step("temporary", o), Deref(o)>>
             [] then = "defer"     -> <<Step("deferdelete", o)>>]
    /\ UNCHANGED <<live, HandleCount, QueryReferences, name, handles,
                   reaper, skipped>>

\* Mutant of ObReferenceObjectSafe: a count of zero is raised, too.
ObReferenceObjectSafeMutant(t, o) ==
    /\ todo[t] = << >>
    /\ o \in live
    /\ PointerCount' = Add(PointerCount, o, 1)
    /\ todo' = [todo EXCEPT ![t] = <<Deref(o)>>]
    /\ UNCHANGED <<live, HandleCount, QueryReferences, name, handles, reaper,
                   skipped>>

\* ObReferenceObjectSafe: obref.c 22-51.  The caller found the object on a
\* list its delete procedure takes it off: the header is still there, and
\* the loop of compare and exchange adds one to any count but zero.
ObReferenceObjectSafe(t, o) ==
    /\ todo[t] = << >>
    /\ o \in live
    /\ PointerCount[o] # 0
    /\ PointerCount' = Add(PointerCount, o, 1)
    /\ todo' = [todo EXCEPT ![t] = <<Deref(o)>>]
    /\ UNCHANGED <<live, HandleCount, QueryReferences, name, handles,
                   reaper, skipped>>

\* Mutant of ObMakeTemporaryObject: nobody looks at the name.
ObMakeTemporaryObjectMutant(t) ==
    /\ At(t, "temporary")
    /\ Permanent' = [Permanent EXCEPT ![Obj(t)] = FALSE]
    /\ Then(t, << >>)
    /\ UNCHANGED <<live, counts, Name, Directory, entry, dirLock, handles, reaper,
                   skipped>>

\* ObpSetPermanentObject with Permanent = FALSE.  (Objects are created permanent
\* or not; making one permanent later, NtMakePermanentObject, is left out.)
ObMakeTemporaryObject(t) ==
    /\ At(t, "temporary")
    /\ Permanent' = [Permanent EXCEPT ![Obj(t)] = FALSE]
    /\ Then(t, <<Step("namecheck", Obj(t))>>)
    /\ UNCHANGED <<live, counts, Name, Directory, entry, dirLock, handles,
                   reaper, skipped>>

-----------------------------------------------------------------------------
(* Names: obname.c 259-354, ob_x.h 102-170                                 *)

\* ObpDeleteNameCheck takes a query reference, unless the name is gone, and
\* looks whether the object should lose its name.
ObpDeleteNameCheck(t) ==
    LET o == Obj(t) IN
    /\ At(t, "namecheck")
    /\ IF QueryReferences[o] = 0
       THEN Then(t, << >>) /\ UNCHANGED QueryReferences
       ELSE /\ QueryReferences' = Add(QueryReferences, o, 1)
            /\ Then(t, IF HandleCount[o] = 0 /\ Directory[o] /\ ~Permanent[o]
                       THEN <<Step("namedelete", o)>>
                       ELSE <<DerefName(o)>>)
    /\ UNCHANGED <<live, PointerCount, HandleCount, name, handles, reaper,
                   skipped>>

\* With the directory locked it looks the name up again, and with the object
\* locked it looks at the object again: still no handle, still temporary.
\* The entry deleted is the one the lookup moved to the front of its bucket.
NameDelete(t) ==
    LET o == Obj(t)
        e == entry[Name[o]]
        still == HandleCount[o] = 0 /\ ~Permanent[o]
    IN
    /\ At(t, "namedelete")
    /\ dirLock = NULL
    /\ IF e = NULL
       THEN /\ Then(t, <<DerefName(o)>>)
            /\ UNCHANGED <<PointerCount, QueryReferences, entry>>
       ELSE /\ PointerCount' = Add(PointerCount, e, 1)
            /\ QueryReferences' = Add(QueryReferences, e, 1)
            /\ entry' = IF still THEN [entry EXCEPT ![Name[o]] = NULL]
                        ELSE entry
            /\ Then(t, ReleaseContext(e) \o <<DerefName(o)>> \o
                       IF still THEN <<DerefName(o), Deref(e)>> ELSE << >>)
    /\ UNCHANGED <<live, HandleCount, Name, Permanent, Directory, dirLock,
                   handles, reaper, skipped>>

\* ObpDereferenceNameInfo: the last query reference frees the name and
\* forgets the directory.
ObpDereferenceNameInfo(t) ==
    LET o == Obj(t) IN
    /\ At(t, "derefname")
    /\ QueryReferences' = Add(QueryReferences, o, -1)
    /\ Directory' = IF QueryReferences[o] = 1
                    THEN [Directory EXCEPT ![o] = FALSE] ELSE Directory
    /\ Then(t, << >>)
    /\ UNCHANGED <<live, PointerCount, HandleCount, Name, Permanent, entry,
                   dirLock, handles, reaper, skipped>>

-----------------------------------------------------------------------------
(* The last reference: obref.c 320-370                                     *)

\* ObfDereferenceObject compares the two counts, which it reads one after
\* the other (in the order the compiler chose) and without a lock.
ReadOneCount(t) ==
    /\ At(t, "deref")
    /\ \/ Then(t, <<StepWith("readhandles", Obj(t), PointerCount[Obj(t)])>>)
       \/ Then(t, <<StepWith("readpointers", Obj(t), HandleCount[Obj(t)])>>)
    /\ UNCHANGED <<live, counts, name, handles, reaper, skipped>>

Misbehaving(t) ==
    \/ At(t, "readhandles") /\ Arg(t) < HandleCount[Obj(t)]
    \/ At(t, "readpointers") /\ PointerCount[Obj(t)] < Arg(t)

\* An object with more handles than references is left alone, with the
\* caller's reference.
CompareCounts(t) ==
    /\ At(t, "readhandles") \/ At(t, "readpointers")
    /\ Then(t, IF Misbehaving(t) THEN << >> ELSE <<Step("dec", Obj(t))>>)
    /\ skipped' = IF Misbehaving(t) THEN Add(skipped, Obj(t), 1) ELSE skipped
    /\ UNCHANGED <<live, counts, name, handles, reaper>>

\* At zero the object is deleted here, or, when APCs are disabled or the
\* caller wants it, deferred.
Decrement(t) ==
    LET o == Obj(t) IN
    /\ At(t, "dec") \/ At(t, "deferdelete")
    /\ PointerCount' = Add(PointerCount, o, -1)
    /\ IF PointerCount[o] # 1 THEN Then(t, << >>)
       ELSE \/ At(t, "dec") /\ Then(t, <<Step("delete", o)>>)
            \/ Then(t, <<Step("defer", o)>>)
    /\ UNCHANGED <<live, HandleCount, QueryReferences, name, handles,
                   reaper, skipped>>

\* ObpDeleteObject: oblife.c 146-217 (and ObpDeallocateObject, 39-144).
\* What the header held is gone.
ObpDeleteObject(o) ==
    /\ live' = live \ {o}
    /\ Name' = [Name EXCEPT ![o] = NULL]
    /\ Permanent' = [Permanent EXCEPT ![o] = FALSE]
    /\ QueryReferences' = [QueryReferences EXCEPT ![o] = 0]
    /\ Directory' = [Directory EXCEPT ![o] = FALSE]
    /\ NextToFree' = [NextToFree EXCEPT ![o] = NULL]

DeleteHere(t) ==
    /\ At(t, "delete")
    /\ ObpDeleteObject(Obj(t))
    /\ Then(t, << >>)
    /\ UNCHANGED <<PointerCount, HandleCount, entry, dirLock, handles,
                   ObpReaperList, workItem, reap, skipped>>

\* ObpDeferObjectDeletion (obref.c 53-75) reads the list's head and links
\* the object to it ...
DeferLink(t) ==
    /\ At(t, "defer")
    /\ NextToFree' = [NextToFree EXCEPT ![Obj(t)] = ObpReaperList]
    /\ Then(t, <<StepWith("push", Obj(t), ObpReaperList)>>)
    /\ UNCHANGED <<live, counts, name, handles, ObpReaperList, workItem,
                   reap, skipped>>

\* ... and makes it the head unless the head changed; the object that finds
\* the list empty (neither objects nor a reaper) has the work item queued.
DeferPush(t) ==
    /\ At(t, "push")
    /\ IF ObpReaperList = Arg(t)
       THEN /\ ObpReaperList' = Obj(t)
            /\ Then(t, IF Arg(t) = NULL THEN <<Step("queue", Obj(t))>>
                       ELSE << >>)
       ELSE /\ Then(t, <<Step("defer", Obj(t))>>)
            /\ UNCHANGED ObpReaperList
    /\ UNCHANGED <<live, counts, name, handles, NextToFree, workItem, reap,
                   skipped>>

QueueWorkItem(t) ==
    /\ At(t, "queue")
    /\ workItem' = TRUE
    /\ Then(t, << >>)
    /\ UNCHANGED <<live, counts, name, handles, NextToFree, ObpReaperList,
                   reap, skipped>>

-----------------------------------------------------------------------------
(* The reaper: oblife.c 219-245, run by a worker of the critical queue     *)

\* The worker took the item off its queue and calls ObpReapObject.
ReaperStarts ==
    /\ workItem
    /\ reap.pc = "idle"
    /\ workItem' = FALSE
    /\ reap' = [pc |-> "take", obj |-> NULL]
    /\ UNCHANGED <<live, counts, name, handles, NextToFree, ObpReaperList,
                   todo, skipped>>

\* The whole list is taken and the mark 1 left, on which later objects are
\* linked.
ReaperTakes ==
    /\ reap.pc = "take"
    /\ reap' = [pc |-> "delete", obj |-> ObpReaperList]
    /\ ObpReaperList' = 1
    /\ UNCHANGED <<live, counts, name, handles, NextToFree, workItem, todo,
                   skipped>>

\* The next object is read, this one deleted; 0 and 1 end the list.
ReaperDeletes ==
    LET next == NextToFree[reap.obj] IN
    /\ reap.pc = "delete"
    /\ ObpDeleteObject(reap.obj)
    /\ reap' = IF next \in Objects THEN [pc |-> "delete", obj |-> next]
               ELSE [pc |-> "leave", obj |-> NULL]
    /\ UNCHANGED <<PointerCount, HandleCount, entry, dirLock, handles,
                   ObpReaperList, workItem, todo, skipped>>

\* Mutant of ReaperLeaves: the list is emptied without a comparison.
ReaperLeavesMutant ==
    /\ reap.pc = "leave"
    /\ ObpReaperList' = NULL
    /\ reap' = [reap EXCEPT !.pc = "idle"]
    /\ UNCHANGED <<live, counts, name, handles, NextToFree, workItem, todo,
                   skipped>>

\* If the mark is still there it is exchanged for the empty list, and the
\* routine returns; otherwise there is more to take.
ReaperLeaves ==
    /\ reap.pc = "leave"
    /\ IF ObpReaperList = 1
       THEN ObpReaperList' = NULL /\ reap' = [reap EXCEPT !.pc = "idle"]
       ELSE UNCHANGED ObpReaperList /\ reap' = [reap EXCEPT !.pc = "take"]
    /\ UNCHANGED <<live, counts, name, handles, NextToFree, workItem, todo,
                   skipped>>

-----------------------------------------------------------------------------
\* The steps of a call that has begun.
Continue(t) ==
    \/ InsertNew(t)
    \/ InsertOpens(t)
    \/ InsertFails(t)
    \/ ObpIncrementHandleCount(t)
    \/ HandleDenied(t)
    \/ GrantHandle(t)
    \/ ExCreateHandle(t)
    \/ ExCreateHandleFails(t)
    \/ ObpDecrementHandleCount(t)
    \/ ObMakeTemporaryObject(t)
    \/ ObpDeleteNameCheck(t)
    \/ NameDelete(t)
    \/ ObpDereferenceNameInfo(t)
    \/ ReadOneCount(t)
    \/ CompareCounts(t)
    \/ Decrement(t)
    \/ DeleteHere(t)
    \/ DeferLink(t)
    \/ DeferPush(t)
    \/ QueueWorkItem(t)

\* (Only objects with a name are made permanent: the flag of an unnamed one
\* is never looked at, obname.c 278-282.)
Begin(t) ==
    \/ \E o \in Objects, n \in Names, permanent \in BOOLEAN :
           ObCreateObject(t, o, n, permanent)
    \/ \E o \in Objects : ObCreateObject(t, o, NULL, FALSE)
    \/ \E n \in Names : ObOpenObjectByName(t, n)
    \/ \E o \in Objects : ObpCloseHandle(t, o) \/ ObReferenceObjectSafe(t, o)
    \/ \E o \in Objects, then \in {"drop", "open", "temporary", "defer"} :
           ReferenceByHandle(t, o, then)

Reaper == ReaperStarts \/ ReaperTakes \/ ReaperDeletes \/ ReaperLeaves

Next == Reaper \/ \E t \in Threads : Begin(t) \/ Continue(t)

\* A call that has begun goes on, and the worker threads run; nobody has to
\* begin a call.
Fairness == WF_vars(Reaper) /\ \A t \in Threads : WF_vars(Continue(t))

Spec == Init /\ [][Next]_vars /\ Fairness

-----------------------------------------------------------------------------
(* Properties *)

\* The places of the stacks, counted from the bottom, and the step at one.
Places == UNION {{t} \X (1 .. Len(todo[t])) : t \in Threads}

StepAt(p) == LET s == todo[p[1]] IN s[Len(s) + 1 - p[2]]

\* The step holds one reference to o, which it or its successors drop.
OwnsReference(s, o) ==
    /\ s.obj = o
    /\ \/ s.op \in {"insert", "deref", "readhandles", "readpointers", "dec",
                    "deferdelete", "exhandle"}
       \/ s.op \in {"counthandle", "grant"} /\ ~s.arg.new

OwnsContext(s, o) ==
    s.op \in {"counthandle", "grant"} /\ s.arg.context = o

OwnsHandle(s, o) == s.obj = o /\ s.op \in {"grant", "exhandle", "dechandle"}

References(o) == {p \in Places : OwnsReference(StepAt(p), o)}
Contexts(o) == {p \in Places : OwnsContext(StepAt(p), o)}
HandleSteps(o) == {p \in Places : OwnsHandle(StepAt(p), o)}

Entered(o) == IF \E n \in Names : entry[n] = o THEN 1 ELSE 0

\* PointerCount is exactly the open handles, the directory's reference, the
\* references of calls in progress and the ones ObfDereferenceObject
\* declined to drop; HandleCount is exactly the handles that are open, being
\* opened or being closed.
CountsAddUp ==
    \A o \in live :
        /\ PointerCount[o] = handles[o] + Entered(o) + skipped[o]
                             + Cardinality(References(o))
                             + Cardinality(Contexts(o))
        /\ HandleCount[o] = handles[o] + Cardinality(HandleSteps(o))

\* The objects on the list from o on, along the links nx: those in every set
\* that has o and, with an object, the one it is linked to.
Reach(nx, o) ==
    {c \in Objects :
        \A S \in SUBSET Objects :
            o \in S \cup {NULL, 1} /\ (\A d \in S : nx[d] \in S \cup {NULL, 1}) => c \in S}

\* The objects on the reaper's list or in the reaper's hands.
Reapable == Reach(NextToFree, ObpReaperList) \cup Reach(NextToFree, reap.obj)

\* Nothing is left of an object that was deleted: no handle, no entry, no
\* call in progress, no place on the reaper's list or in the reaper's hands;
\* so none is deleted twice.
NoUseAfterFree ==
    \A o \in Objects \ live :
        /\ handles[o] = 0
        /\ Entered(o) = 0
        /\ \A t \in Threads : \A s \in Range(todo[t]) :
               s.op # "queue" => s.obj # o /\ ~OwnsContext(s, o)
        /\ o \notin Reapable

\* A temporary object without a handle keeps its name only while some call
\* still has to look at it: the one that made it temporary or closed its last
\* handle, or the one that inserted it.
NoOrphanName ==
    \A n \in Names :
        LET o == entry[n] IN
        o # NULL /\ HandleCount[o] = 0 /\ ~Permanent[o] =>
            \E t \in Threads : \E s \in Range(todo[t]) :
                /\ s.obj = o
                /\ \/ s.op \in {"namecheck", "namedelete"}
                   \/ s.op = "counthandle" /\ s.arg.inserted = o

\* An object whose last reference was dropped is never forgotten: its
\* deletion is the next step of a thread, or it is on the reaper's list, and
\* then the reaper runs, or its work item is queued or about to be; and the
\* item is never queued while it is queued or the reaper runs (the assertion
\* of ExQueueWorkItem, work.c 722).
DeadAreReaped ==
    /\ \A t \in Threads : At(t, "queue") => ~workItem /\ reap.pc = "idle"
    /\ \A o \in live :
           PointerCount[o] = 0 =>
               \/ \E t \in Threads :
                      /\ At(t, "delete") \/ At(t, "defer") \/ At(t, "push")
                      /\ Obj(t) = o
               \/ /\ o \in Reapable
                  /\ \/ workItem
                     \/ reap.pc # "idle"
                     \/ \E t \in Threads : At(t, "queue")
=============================================================================
