----------------------------- MODULE KeyedEvent -----------------------------
(***************************************************************************)
(* Keyed events (ex/keyedevt.c): a release meets a wait with the same key   *)
(* in the same process, whoever comes first waits for the other.           *)
(*                                                                         *)
(* Keys are hashed into buckets, each with its own push lock and two lists. *)
(* What is done under the push lock is one step.  A thread waits on a       *)
(* semaphore of its own that whoever meets it releases; its wait may time  *)
(* out or be alerted before that, or while it is being met.                *)
(***************************************************************************)
EXTENDS Naturals, Sequences

CONSTANTS Callers,
          Keys,         \* values of KeyedWaitValue
          NoKey,        \* what the union KeyedWaitValue is in holds otherwise
          Process,      \* Process[t]: the process of thread t
          Buckets,
          Hash(_, _)    \* Hash(k, p): the bucket of key k in process p

ASSUME KeyAssumption ==
    /\ NoKey \notin Keys
    /\ \A t \in Callers, k \in Keys : Hash(k, Process[t]) \in Buckets

VARIABLES list,      \* list[b].wait: WaitListHead, list[b].release: ReleaseListHead
          value,     \* Thread->KeyedWaitValue
          semaphore, \* Thread->KeyedWaitSemaphore.Header.SignalState
          kpc,       \* where each thread is
          side,      \* Release: "wait" or "release", of the call it is in
          previous,  \* PreviousKeyedWaitValue
          status,    \* Status
          met        \* history: its last wait was met by another thread

keyedVars == <<list, value, semaphore, kpc, side, previous, status, met>>

Sides == {"wait", "release"}
Other(r) == IF r = "wait" THEN "release" ELSE "wait"

KeyedInit == /\ list = [b \in Buckets |-> [r \in Sides |-> <<>>]]
             /\ value = [t \in Callers |-> NoKey]
             /\ semaphore = [t \in Callers |-> 0]
             /\ kpc = [t \in Callers |-> "idle"]
             /\ side = [t \in Callers |-> "wait"]
             /\ previous = [t \in Callers |-> NoKey]
             /\ status = [t \in Callers |-> "success"]
             /\ met = [t \in Callers |-> FALSE]

\* HashIndex, of a thread that waits
Bucket(t) == Hash(value[t], Process[t])

\* RemoveEntryList: the sequence without its element i.
Without(seq, i) ==
    [j \in 1 .. Len(seq) - 1 |-> IF j < i THEN seq[j] ELSE seq[j + 1]]

\* Thread u, on a list, is a correct waiter for key k of process p.
IsPartner(u, k, p) == value[u] = k /\ Process[u] = p

-----------------------------------------------------------------------------
(***************************************************************************)
(* ExpReleaseOrWaitForKeyedEvent, on side r.                               *)
(***************************************************************************)
\* The thread that has waited longest is taken off its list and woken.
Meet(t, k, r) ==
    LET b == Hash(k, Process[t])
        others == list[b][Other(r)]
    IN  /\ kpc[t] = "idle"
        /\ \E i \in 1 .. Len(others) :
              /\ IsPartner(others[i], k, Process[t])
              /\ \A j \in 1 .. i - 1 : ~IsPartner(others[j], k, Process[t])
              /\ list' = [list EXCEPT ![b][Other(r)] = Without(others, i)]
              /\ semaphore' = [semaphore EXCEPT ![others[i]] = @ + 1]
              /\ met' = [met EXCEPT ![others[i]] = TRUE]
        /\ UNCHANGED <<value, kpc, side, previous, status>>

\* Mutant of Enlist: only the first thread of the list is looked at.
EnlistHeadMutant(t, k, r) ==
    LET b == Hash(k, Process[t])
        others == list[b][Other(r)]
    IN  /\ kpc[t] = "idle"
        /\ others # <<>> => ~IsPartner(Head(others), k, Process[t])
        /\ list' = [list EXCEPT ![b][r] = Append(@, t)]
        /\ value' = [value EXCEPT ![t] = k]
        /\ previous' = [previous EXCEPT ![t] = value[t]]
        /\ side' = [side EXCEPT ![t] = r]
        /\ semaphore' = [semaphore EXCEPT ![t] = 0]
        /\ met' = [met EXCEPT ![t] = FALSE]
        /\ kpc' = [kpc EXCEPT ![t] = "wait"]
        /\ UNCHANGED status

\* There is none: the thread gets on the other list.
Enlist(t, k, r) ==
    LET b == Hash(k, Process[t])
        others == list[b][Other(r)]
    IN  /\ kpc[t] = "idle"
        /\ \A i \in 1 .. Len(others) : ~IsPartner(others[i], k, Process[t])
        /\ list' = [list EXCEPT ![b][r] = Append(@, t)]
        /\ value' = [value EXCEPT ![t] = k]
        /\ previous' = [previous EXCEPT ![t] = value[t]]
        /\ semaphore' = [semaphore EXCEPT ![t] = 0]
        /\ side' = [side EXCEPT ![t] = r]
        /\ met' = [met EXCEPT ![t] = FALSE]
        /\ kpc' = [kpc EXCEPT ![t] = "wait"]
        /\ UNCHANGED status

\* KeWaitForSingleObject: the semaphore is released,
Woken(t) ==
    /\ kpc[t] = "wait"
    /\ semaphore[t] = 1
    /\ semaphore' = [semaphore EXCEPT ![t] = 0]
    /\ status' = [status EXCEPT ![t] = "success"]
    /\ kpc' = [kpc EXCEPT ![t] = "restore"]
    /\ UNCHANGED <<list, value, side, previous, met>>

\* or the wait times out or is alerted.
Aborted(t) ==
    /\ kpc[t] = "wait"
    /\ semaphore[t] = 0
    /\ status' = [status EXCEPT ![t] = "timeout"]
    /\ kpc' = [kpc EXCEPT ![t] = "aborted"]
    /\ UNCHANGED <<list, value, semaphore, side, previous, met>>

\* Mutant of Unlist: the thread stays on the list.
UnlistMutant(t) ==
    /\ kpc[t] = "aborted"
    /\ kpc' = [kpc EXCEPT ![t] = "restore"]
    /\ UNCHANGED <<list, value, semaphore, side, previous, status, met>>

\* The thread leaves the list,
Unlist(t) ==
    /\ kpc[t] = "aborted"
    /\ kpc' = [kpc EXCEPT ![t] = "restore"]
    /\ LET own == list[Bucket(t)][side[t]]
       IN  \E i \in 1 .. Len(own) :
              /\ own[i] = t
              /\ list' = [list EXCEPT ![Bucket(t)][side[t]] = Without(own, i)]
    /\ UNCHANGED <<value, semaphore, side, previous, status, met>>

\* unless it has been taken off it.
NotListed(t) ==
    /\ kpc[t] = "aborted"
    /\ kpc' = [kpc EXCEPT ![t] = "restore"]
    /\ LET own == list[Bucket(t)][side[t]]
       IN  \A i \in 1 .. Len(own) : own[i] # t
    /\ UNCHANGED <<list, value, semaphore, side, previous, status, met>>

\* The locals are dead once the call returns.
Forget(t) == /\ side' = [side EXCEPT ![t] = "wait"]
             /\ status' = [status EXCEPT ![t] = "success"]
             /\ met' = [met EXCEPT ![t] = FALSE]

\* "Restore the previous KeyedWaitValue, since this is a union member"
Restore(t) ==
    /\ kpc[t] = "restore"
    /\ value' = [value EXCEPT ![t] = previous[t]]
    /\ kpc' = [kpc EXCEPT ![t] = "idle"]
    /\ Forget(t)
    /\ UNCHANGED <<list, semaphore, previous>>

-----------------------------------------------------------------------------
Call(t) == \E k \in Keys, r \in Sides : Meet(t, k, r) \/ Enlist(t, k, r)

Finish(t) == Woken(t) \/ Unlist(t) \/ NotListed(t) \/ Restore(t)

KeyedNext == \E t \in Callers : Call(t) \/ Finish(t) \/ Aborted(t)

KeyedSpec == KeyedInit /\ [][KeyedNext]_keyedVars

-----------------------------------------------------------------------------
\* The limit of the semaphore is 1: KeReleaseSemaphore would raise an exception
\* with the push lock held.
KeyedTypeOK ==
    /\ list \in [Buckets -> [Sides -> Seq(Callers)]]
    /\ value \in [Callers -> Keys \cup {NoKey}]
    /\ semaphore \in [Callers -> {0, 1}]
    /\ kpc \in [Callers -> {"idle", "wait", "aborted", "restore"}]
    /\ side \in [Callers -> Sides]
    /\ previous \in [Callers -> Keys \cup {NoKey}]
    /\ status \in [Callers -> {"success", "timeout"}]
    /\ met \in [Callers -> BOOLEAN]

IsListed(t) ==
    \E b \in Buckets, r \in Sides : \E i \in 1 .. Len(list[b][r]) : list[b][r][i] = t

\* A release and a wait for the same key never both wait.
NoMissedMeeting ==
    \A b, c \in Buckets :
        \A i \in 1 .. Len(list[b]["wait"]), j \in 1 .. Len(list[c]["release"]) :
            LET w == list[b]["wait"][i]
                r == list[c]["release"][j]
            IN  ~(value[w] = value[r] /\ Process[w] = Process[r])

\* A thread that waits is on its list or has been signaled, and not both.
ListedOrSignaled ==
    \A t \in Callers : kpc[t] = "wait" =>
        IF semaphore[t] = 0 THEN IsListed(t) /\ ~met[t] ELSE ~IsListed(t) /\ met[t]

\* Partners find each other: of a release and a wait for the same key one has
\* met the other, and a thread that was met is on no list.
MeetingsSafe == NoMissedMeeting /\ ListedOrSignaled

\* A thread leaves no trace behind: "this thread cannot be terminated as long as
\* we hold the list lock" (keyedevt.c:156) holds for every thread on a list, and
\* the union member has its value back.
NoTrace ==
    \A t \in Callers : /\ IsListed(t) => kpc[t] \in {"wait", "aborted"}
                       /\ kpc[t] = "idle" => value[t] = NoKey

\* How a wait ended says whether it was met, and by a single thread: it succeeded
\* and its semaphore is taken, or it timed out or was alerted, and then it was met
\* exactly if its semaphore is left released.  The partner of such a wait has got
\* STATUS_SUCCESS although the wait has not.
MeetingAccounted ==
    \A t \in Callers : kpc[t] = "restore" =>
        /\ status[t] = "success" => semaphore[t] = 0
        /\ met[t] <=> status[t] = "success" \/ semaphore[t] = 1

\* However a wait ends, met, timed out or alerted, or timed out while it is being
\* met (keyedevt.c:212-230), the thread is on no list afterwards and its union
\* member is restored.  Success is never reported to a wait that nobody met; a wait
\* that is met too late leaves its semaphore released, which the next wait of the
\* thread initializes before anybody can see it (ListedOrSignaled).
NothingLeft == NoTrace /\ MeetingAccounted
=============================================================================
