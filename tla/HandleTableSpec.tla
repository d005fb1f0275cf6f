-------------------------- MODULE HandleTableSpec --------------------------
(***************************************************************************)
(* What a handle table promises: a handle is free, open, or held by one    *)
(* thread that looks at or changes its entry.  Creating a handle gives out *)
(* a free one; only the thread that holds an entry closes its handle; a    *)
(* closed handle returns to the free ones once its closer let go of it.    *)
(* The table goes, with what is left in it, when nobody holds an entry.    *)
(***************************************************************************)
CONSTANTS Threads, Handles, Nobody

VARIABLES
    owner,      \* the thread that holds the entry of a handle, or nobody
    open,       \* handles that name an object
    given       \* handles that are not free: taken from the free list

TypeOK ==
    /\ owner \in [Handles -> Threads \cup {Nobody}]
    /\ open \subseteq given
    /\ given \subseteq Handles

Init ==
    /\ owner = [x \in Handles |-> Nobody]
    /\ open = {}
    /\ given = {}

Allocate(t, x) ==
    /\ x \notin given
    /\ given' = given \cup {x}
    /\ UNCHANGED <<owner, open>>

(* A new entry is born held. *)
Fill(t, x) ==
    /\ x \in given \ open
    /\ owner[x] = Nobody
    /\ owner' = [owner EXCEPT ![x] = t]
    /\ open' = open \cup {x}
    /\ UNCHANGED given

Hold(t, x) ==
    /\ x \in open
    /\ owner[x] = Nobody
    /\ owner' = [owner EXCEPT ![x] = t]
    /\ UNCHANGED <<open, given>>

LetGo(t, x) ==
    /\ owner[x] = t
    /\ owner' = [owner EXCEPT ![x] = Nobody]
    /\ UNCHANGED <<open, given>>

Close(t, x) ==
    /\ owner[x] = t
    /\ owner' = [owner EXCEPT ![x] = Nobody]
    /\ open' = open \ {x}
    /\ UNCHANGED given

Free(x) ==
    /\ x \in given \ open
    /\ given' = given \ {x}
    /\ UNCHANGED <<owner, open>>

Abandon ==
    /\ \A x \in Handles : owner[x] = Nobody
    /\ open' = {}
    /\ given' = {}
    /\ UNCHANGED owner

Next ==
    \/ Abandon
    \/ \E x \in Handles :
           \/ Free(x)
           \/ \E t \in Threads :
                  Allocate(t, x) \/ Fill(t, x) \/ Hold(t, x) \/ LetGo(t, x) \/ Close(t, x)

Spec == Init /\ [][Next]_<<owner, open, given>>
=============================================================================
