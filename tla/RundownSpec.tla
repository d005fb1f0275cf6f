---------------------------- MODULE RundownSpec ----------------------------
(***************************************************************************)
(* What rundown protection promises to the users of a protected object,    *)
(* with no mention of the descriptor word, wait blocks or events: while    *)
(* the object is "up" references come and go; once it is "closing" they    *)
(* only go; it is "down" only when none is left.                           *)
(***************************************************************************)
EXTENDS Naturals

CONSTANTS Users,   \* the threads that reference the protected object
          MaxRefs  \* the most references one thread takes or drops at a time

VARIABLES held,    \* held[u]: references thread u holds
          phase    \* "up", "closing" or "down"

absVars == <<held, phase>>

NoneHeld == \A u \in Users : held[u] = 0

AbsInit == /\ held = [u \in Users |-> 0]
           /\ phase = "up"

\* ExAcquireRundownProtection[Ex] returning TRUE.
Acquire(u, n) == /\ phase = "up"
                 /\ held' = [held EXCEPT ![u] = @ + n]
                 /\ UNCHANGED phase

\* ExReleaseRundownProtection[Ex].
Release(u, n) == /\ held[u] >= n
                 /\ held' = [held EXCEPT ![u] = @ - n]
                 /\ UNCHANGED phase

\* ExWaitForRundownProtectionRelease closes the object to new references...
Close == /\ phase = "up"
         /\ phase' = "closing"
         /\ UNCHANGED held

\* ...and returns when the old ones are gone, at once when there are none.
Down == /\ phase \in {"up", "closing"}
        /\ NoneHeld
        /\ phase' = "down"
        /\ UNCHANGED held

\* ExReInitializeRundownProtection.
Reopen == /\ phase = "down"
          /\ phase' = "up"
          /\ UNCHANGED held

AbsNext == \/ \E u \in Users, n \in 1 .. MaxRefs : Acquire(u, n) \/ Release(u, n)
           \/ Close
           \/ Down
           \/ Reopen

AbsSpec == AbsInit /\ [][AbsNext]_absVars
=============================================================================
