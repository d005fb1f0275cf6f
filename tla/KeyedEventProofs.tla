-------------------------- MODULE KeyedEventProofs --------------------------
(***************************************************************************)
(* Proofs about KeyedEvent, for any threads, keys, processes and hash, and *)
(* about ConditionVariable on top of it.                                   *)
(*                                                                         *)
(* Everything about keyed events rests on what is true of the threads on   *)
(* the lists (Listed): they are where their key and side say, nobody has   *)
(* signaled them, and they cannot leave without taking themselves off.     *)
(*                                                                         *)
(* A condition variable is safe because only the thread with the lock bit  *)
(* touches the list (LockOwner), and because the list has exactly the      *)
(* entries whose owners were not told otherwise (Framed); that its wakes   *)
(* are right follows from who can be in the keyed event with which key     *)
(* (InKernel) while a thread has the lock.                                 *)
(***************************************************************************)
EXTENDS ConditionVariable, SequenceTheorems, TLAPS

Places(b, r) == 1 .. Len(list[b][r])
Elements(b, r) == {list[b][r][i] : i \in Places(b, r)}
ListedThreads == {t \in Callers : IsListed(t)}

Listed ==
    \A b \in Buckets, r \in Sides : \A i \in Places(b, r) :
        LET u == list[b][r][i]
        IN  /\ kpc[u] \in {"wait", "aborted"}
            /\ side[u] = r
            /\ value[u] \in Keys
            /\ Hash(value[u], Process[u]) = b
            /\ semaphore[u] = 0
            /\ ~met[u]

\* No thread is twice on a list.
Distinct ==
    \A b \in Buckets, r \in Sides : \A i, j \in Places(b, r) :
        list[b][r][i] = list[b][r][j] => i = j

\* NoMissedMeeting, of one bucket.
Separate ==
    \A b \in Buckets : \A i \in Places(b, "wait"), j \in Places(b, "release") :
        LET w == list[b]["wait"][i]
            r == list[b]["release"][j]
        IN  ~(value[w] = value[r] /\ Process[w] = Process[r])

\* What is true of a thread in a call, and out of it.
Waiting ==
    \A t \in Callers : kpc[t] = "wait" =>
        /\ semaphore[t] = 0 => IsListed(t)
        /\ semaphore[t] = 1 => met[t]

Returned ==
    \A t \in Callers :
        /\ kpc[t] = "restore" /\ status[t] = "success" => semaphore[t] = 0
        /\ kpc[t] = "restore" => (met[t] <=> status[t] = "success" \/ semaphore[t] = 1)
        /\ kpc[t] \in {"wait", "aborted"} => (met[t] <=> semaphore[t] = 1)
        /\ kpc[t] = "idle" => value[t] = NoKey
        /\ kpc[t] \in {"wait", "aborted"} => value[t] \in Keys
        /\ kpc[t] = "aborted" => status[t] = "timeout"
        /\ previous[t] = NoKey

IInv == /\ KeyedTypeOK
        /\ Listed
        /\ Distinct
        /\ Separate
        /\ Waiting
        /\ Returned

-----------------------------------------------------------------------------
\* Nobody has called.
LEMMA InitIInv == KeyedInit => IInv
  <1> SUFFICES ASSUME KeyedInit PROVE IInv
    OBVIOUS
  <1>1. KeyedTypeOK
    <2>1. list \in [Buckets -> [Sides -> Seq(Callers)]]
      BY DEF KeyedInit
    <2>2. met \in [Callers -> BOOLEAN]
      BY Zenon DEF KeyedInit
    <2>3. /\ value \in [Callers -> Keys \cup {NoKey}]
          /\ semaphore \in [Callers -> {0, 1}]
          /\ kpc \in [Callers -> {"idle", "wait", "aborted", "restore"}]
          /\ side \in [Callers -> Sides]
          /\ previous \in [Callers -> Keys \cup {NoKey}]
          /\ status \in [Callers -> {"success", "timeout"}]
      BY DEF KeyedInit, Sides
    <2> QED
      BY <2>1, <2>2, <2>3 DEF KeyedTypeOK
  <1>2. \A b \in Buckets, r \in Sides : Places(b, r) = {}
    BY DEF KeyedInit, Places
  <1>3. Listed /\ Distinct /\ Separate
    BY <1>2 DEF Listed, Distinct, Separate, Sides
  <1>4. Waiting /\ Returned
    BY DEF KeyedInit, Waiting, Returned
  <1> QED
    BY <1>1, <1>3, <1>4 DEF IInv

\* The places of a list are natural numbers, and threads are there.
LEMMA ListType ==
  ASSUME KeyedTypeOK, NEW b \in Buckets, NEW r \in Sides
  PROVE  /\ list[b][r] \in Seq(Callers)
         /\ Len(list[b][r]) \in Nat
         /\ \A i \in Places(b, r) : list[b][r][i] \in Callers
  BY DEF KeyedTypeOK, Places

\* A thread that is not listed gets on a list.
LEMMA Appended ==
  ASSUME KeyedTypeOK, Distinct, NEW b \in Buckets, NEW r \in Sides, NEW t \in Callers,
         ~IsListed(t),
         list' = [list EXCEPT ![b][r] = Append(@, t)]
  PROVE  /\ list' \in [Buckets -> [Sides -> Seq(Callers)]]
         /\ Distinct'
         /\ \A c \in Buckets, q \in Sides : \A j \in Places(c, q)' :
               \/ c = b /\ q = r /\ list'[c][q][j] = t
               \/ j \in Places(c, q) /\ list'[c][q][j] = list[c][q][j]
         /\ \A c \in Buckets, q \in Sides : \A j \in Places(c, q) :
               j \in Places(c, q)' /\ list'[c][q][j] = list[c][q][j]
         /\ IsListed(t)'
  <1> DEFINE old == list[b][r]
             n == Len(old)
  <1>1. old \in Seq(Callers) /\ n \in Nat
    BY ListType
  <1>2. /\ list' \in [Buckets -> [Sides -> Seq(Callers)]]
        /\ list'[b][r] = Append(old, t)
        /\ \A c \in Buckets, q \in Sides : <<c, q>> # <<b, r>> => list'[c][q] = list[c][q]
    BY <1>1 DEF KeyedTypeOK
  <1>3. /\ Len(list'[b][r]) = n + 1
        /\ list'[b][r][n + 1] = t
        /\ \A j \in 1 .. n : list'[b][r][j] = old[j]
    BY <1>1, <1>2
  <1>4. ASSUME NEW c \in Buckets, NEW q \in Sides, NEW j \in Places(c, q)'
        PROVE  \/ c = b /\ q = r /\ j = n + 1 /\ list'[c][q][j] = t
               \/ j \in Places(c, q) /\ list'[c][q][j] = list[c][q][j]
    BY <1>1, <1>2, <1>3 DEF Places
  <1>5. \A j \in Places(b, r) : old[j] # t
    BY DEF IsListed, Places
  <1>6. Distinct'
    <2> SUFFICES ASSUME NEW c \in Buckets, NEW q \in Sides,
                        NEW i \in Places(c, q)', NEW j \in Places(c, q)',
                        list'[c][q][i] = list'[c][q][j]
                 PROVE  i = j
      BY DEF Distinct
    <2>1. CASE c = b /\ q = r
      BY <1>1, <1>3, <1>5, <2>1 DEF Distinct, Places
    <2>2. CASE <<c, q>> # <<b, r>>
      BY <1>2, <2>2 DEF Distinct, Places
    <2> QED
      BY <2>1, <2>2
  <1>7. IsListed(t)'
    BY <1>1, <1>3 DEF IsListed
  <1>8. \A c \in Buckets, q \in Sides : \A j \in Places(c, q) :
               j \in Places(c, q)' /\ list'[c][q][j] = list[c][q][j]
    BY <1>1, <1>2, <1>3 DEF Places
  <1> HIDE DEF old, n
  <1>9. \A c \in Buckets, q \in Sides : \A j \in Places(c, q)' :
               \/ c = b /\ q = r /\ list'[c][q][j] = t
               \/ j \in Places(c, q) /\ list'[c][q][j] = list[c][q][j]
    BY <1>4, Zenon
  <1> QED
    BY <1>2, <1>6, <1>7, <1>8, <1>9, Zenon

\* A thread is taken off its list, and every other one stays.
LEMMA TakenOff ==
  ASSUME KeyedTypeOK, Listed, Distinct,
         NEW b \in Buckets, NEW r \in Sides, NEW i \in Places(b, r),
         list' = [list EXCEPT ![b][r] = Without(list[b][r], i)]
  PROVE  /\ list' \in [Buckets -> [Sides -> Seq(Callers)]]
         /\ Distinct'
         /\ \A c \in Buckets, q \in Sides : \A j \in 1 .. Len(list'[c][q]) :
               list'[c][q][j] \in Elements(c, q) \ {list[b][r][i]}
         /\ ListedThreads \ {list[b][r][i]} \subseteq ListedThreads'
  <1> DEFINE old == list[b][r]
             n == Len(old)
             Old(j) == IF j < i THEN j ELSE j + 1
  <1>1. old \in Seq(Callers) /\ n \in Nat /\ i \in 1 .. n
    BY ListType DEF Places
  <1>2. Without(old, i) \in Seq(Callers) /\ Len(Without(old, i)) = n - 1
    BY <1>1 DEF Without
  <1>3. /\ list' \in [Buckets -> [Sides -> Seq(Callers)]]
        /\ list'[b][r] = Without(old, i)
        /\ \A c \in Buckets, q \in Sides : <<c, q>> # <<b, r>> => list'[c][q] = list[c][q]
    BY <1>2 DEF KeyedTypeOK
  <1>4. /\ Len(list'[b][r]) = n - 1
        /\ \A j \in 1 .. n - 1 : list'[b][r][j] = old[Old(j)]
    BY <1>1, <1>2, <1>3 DEF Without
  <1>5. /\ \A j \in 1 .. n - 1 : Old(j) \in 1 .. n /\ Old(j) # i
        /\ \A j, k \in 1 .. n - 1 : Old(j) = Old(k) => j = k
        /\ \A k \in 1 .. n : k # i => \E j \in 1 .. n - 1 : Old(j) = k
    <2>1. ASSUME NEW k \in 1 .. n, k # i
          PROVE  \E j \in 1 .. n - 1 : Old(j) = k
      <3>1. CASE k < i
        BY <1>1, <3>1
      <3>2. CASE k > i
        <4>1. k - 1 \in 1 .. n - 1 /\ Old(k - 1) = k
          BY <1>1, <3>2
        <4> QED
          BY <4>1
      <3> QED
        BY <1>1, <2>1, <3>1, <3>2
    <2> QED
      BY <1>1, <2>1
  <1> HIDE DEF Old, n, old
  <1>6. Distinct'
    <2> SUFFICES ASSUME NEW c \in Buckets, NEW q \in Sides,
                        NEW j \in Places(c, q)', NEW k \in Places(c, q)',
                        list'[c][q][j] = list'[c][q][k]
                 PROVE  j = k
      BY DEF Distinct
    <2>1. CASE <<c, q>> # <<b, r>>
      BY <1>3, <2>1 DEF Distinct, Places
    <2>2. CASE c = b /\ q = r
      <3>1. j \in 1 .. n - 1 /\ k \in 1 .. n - 1
        BY <1>4, <2>2 DEF Places
      <3>2. old[Old(j)] = old[Old(k)]
        BY <1>4, <2>2, <3>1
      <3>3. Old(j) \in 1 .. n /\ Old(k) \in 1 .. n
        BY <1>5, <3>1
      <3>4. \A x, y \in 1 .. n : old[x] = old[y] => x = y
        BY DEF Distinct, Places, old, n
      <3>5. Old(j) = Old(k)
        BY <3>2, <3>3, <3>4
      <3> QED
        BY <1>5, <3>1, <3>5
    <2> QED
      BY <2>1, <2>2
  <1>7. ASSUME NEW c \in Buckets, NEW q \in Sides, NEW j \in 1 .. Len(list'[c][q])
        PROVE  \E k \in Places(c, q) : /\ list'[c][q][j] = list[c][q][k]
                                       /\ list[c][q][k] # list[b][r][i]
    <2>1. CASE <<c, q>> # <<b, r>>
      <3>1. j \in Places(c, q) /\ list'[c][q][j] = list[c][q][j]
        BY <1>3, <2>1 DEF Places
      <3>2. list[c][q][j] # list[b][r][i]
        BY <2>1, <3>1 DEF Listed
      <3> QED
        BY <3>1, <3>2
    <2>2. CASE c = b /\ q = r
      <3>1. j \in 1 .. n - 1
        BY <1>4, <2>2 DEF Places
      <3>2. Old(j) \in Places(b, r) /\ Old(j) # i /\ list'[c][q][j] = list[b][r][Old(j)]
        BY <1>4, <1>5, <2>2, <3>1 DEF Places, old, n
      <3> QED
        BY <2>2, <3>2 DEF Distinct
    <2> QED
      BY <2>1, <2>2
  <1>8. ASSUME NEW v \in Callers, v # list[b][r][i], IsListed(v) PROVE IsListed(v)'
    <2>1. PICK c \in Buckets, q \in Sides : \E k \in Places(c, q) : list[c][q][k] = v
      BY <1>8 DEF IsListed, Places
    <2>2. PICK k \in Places(c, q) : list[c][q][k] = v
      BY <2>1
    <2>3. CASE <<c, q>> # <<b, r>>
      BY <1>3, <2>2, <2>3 DEF IsListed, Places
    <2>4. CASE c = b /\ q = r
      <3>1. k \in 1 .. n /\ k # i
        BY <1>8, <2>2, <2>4 DEF Places, n, old
      <3>2. PICK j \in 1 .. n - 1 : Old(j) = k
        BY <1>5, <3>1
      <3>3. j \in 1 .. Len(list'[b][r]) /\ list'[b][r][j] = v
        BY <1>4, <2>2, <2>4, <3>2 DEF old
      <3> QED
        BY <3>3 DEF IsListed
    <2> QED
      BY <2>3, <2>4
  <1>10. \A c \in Buckets, q \in Sides : \A j \in 1 .. Len(list'[c][q]) :
            list'[c][q][j] \in Elements(c, q) \ {list[b][r][i]}
    BY <1>7 DEF Elements
  <1>9. ListedThreads \ {list[b][r][i]} \subseteq ListedThreads'
    BY <1>8 DEF ListedThreads
  <1> QED
    BY <1>3, <1>6, <1>9, <1>10

-----------------------------------------------------------------------------
\* The partner is taken off its list and signaled; it was not before.
LEMMA MeetStep ==
  ASSUME IInv, NEW t \in Callers, NEW k \in Keys, NEW r \in Sides, Meet(t, k, r)
  PROVE  IInv'
  <1> USE DEF IInv
  <1>1. PICK b \in Buckets, o \in Sides : b = Hash(k, Process[t]) /\ o = Other(r)
    BY KeyAssumption DEF Other, Sides
  <1>2. PICK i \in Places(b, o) :
           /\ list' = [list EXCEPT ![b][o] = Without(list[b][o], i)]
           /\ semaphore' = [semaphore EXCEPT ![list[b][o][i]] = @ + 1]
           /\ met' = [met EXCEPT ![list[b][o][i]] = TRUE]
    BY <1>1 DEF Meet, Places
  <1>3. UNCHANGED <<value, kpc, side, previous, status>>
    BY DEF Meet
  <1>4. PICK u \in Callers : u = list[b][o][i]
    BY <1>1, ListType
  <1>5. /\ kpc[u] \in {"wait", "aborted"} /\ semaphore[u] = 0
    BY <1>1, <1>4 DEF Listed
  <1>6. /\ list' \in [Buckets -> [Sides -> Seq(Callers)]]
        /\ Distinct'
        /\ \A c \in Buckets, q \in Sides : \A j \in 1 .. Len(list'[c][q]) :
              list'[c][q][j] \in Elements(c, q) \ {u}
        /\ ListedThreads \ {u} \subseteq ListedThreads'
    <2> HIDE DEF IInv
    <2>1. KeyedTypeOK /\ Listed /\ Distinct
      BY DEF IInv
    <2>2. u = list[b][o][i] /\ list' = [list EXCEPT ![b][o] = Without(list[b][o], i)]
      BY <1>2, <1>4
    <2>3. /\ list' \in [Buckets -> [Sides -> Seq(Callers)]]
          /\ Distinct'
          /\ \A c \in Buckets, q \in Sides : \A j \in 1 .. Len(list'[c][q]) :
                list'[c][q][j] \in Elements(c, q) \ {list[b][o][i]}
          /\ ListedThreads \ {list[b][o][i]} \subseteq ListedThreads'
      BY <1>1, <2>1, <2>2, TakenOff
    <2> QED
      BY <1>2, <1>4, <2>3
  <1>7. KeyedTypeOK'
    <2>1. semaphore' \in [Callers -> {0, 1}]
      BY <1>2, <1>4, <1>5 DEF KeyedTypeOK
    <2>2. met' \in [Callers -> BOOLEAN]
      BY <1>2, <1>4, Zenon DEF KeyedTypeOK
    <2> QED
      BY <1>3, <1>6, <2>1, <2>2 DEF KeyedTypeOK
  <1>8. \A v \in Callers : v # u => semaphore'[v] = semaphore[v] /\ met'[v] = met[v]
    BY <1>2, <1>4 DEF KeyedTypeOK
  <1>9. Listed'
    <2> SUFFICES ASSUME NEW c \in Buckets, NEW q \in Sides, NEW j \in Places(c, q)'
                 PROVE  /\ kpc'[list'[c][q][j]] \in {"wait", "aborted"}
                        /\ side'[list'[c][q][j]] = q
                        /\ value'[list'[c][q][j]] \in Keys
                        /\ Hash(value'[list'[c][q][j]], Process[list'[c][q][j]]) = c
                        /\ semaphore'[list'[c][q][j]] = 0
                        /\ ~met'[list'[c][q][j]]
      BY DEF Listed
    <2>3. list'[c][q][j] \in Elements(c, q) \ {u}
      BY <1>6 DEF Places
    <2>1. PICK h \in Places(c, q) : list'[c][q][j] = list[c][q][h] /\ list[c][q][h] # u
      BY <2>3 DEF Elements
    <2>2. PICK v \in Callers : v = list[c][q][h]
      BY ListType
    <2> QED
      BY <1>3, <1>8, <2>1, <2>2 DEF Listed
  <1>10. Separate'
    <2> SUFFICES ASSUME NEW c \in Buckets,
                        NEW j \in Places(c, "wait")', NEW l \in Places(c, "release")'
                 PROVE  ~/\ value'[list'[c]["wait"][j]] = value'[list'[c]["release"][l]]
                         /\ Process[list'[c]["wait"][j]] = Process[list'[c]["release"][l]]
      BY DEF Separate
    <2>1. PICK h \in Places(c, "wait") : list'[c]["wait"][j] = list[c]["wait"][h]
      <3> HIDE DEF IInv
      <3>1. list'[c]["wait"][j] \in Elements(c, "wait")
        BY <1>6 DEF Sides, Places
      <3> QED
        BY <3>1 DEF Elements
    <2>2. PICK g \in Places(c, "release") : list'[c]["release"][l] = list[c]["release"][g]
      <3> HIDE DEF IInv
      <3>1. list'[c]["release"][l] \in Elements(c, "release")
        BY <1>6 DEF Sides, Places
      <3> QED
        BY <3>1 DEF Elements
    <2> QED
      BY <1>3, <2>1, <2>2 DEF Separate
  <1>11. Waiting'
    <2> SUFFICES ASSUME NEW v \in Callers, kpc'[v] = "wait"
                 PROVE  /\ semaphore'[v] = 0 => IsListed(v)'
                        /\ semaphore'[v] = 1 => met'[v]
      BY DEF Waiting
    <2>1. CASE v = u
      BY <1>2, <1>4, <1>5, <2>1 DEF KeyedTypeOK
    <2>2. CASE v # u
      BY <1>3, <1>6, <1>8, <2>2 DEF Waiting, ListedThreads
    <2> QED
      BY <2>1, <2>2
  <1>12. Returned'
    <2>1. met'[u] /\ semaphore'[u] = 1
      BY <1>2, <1>4, <1>5 DEF KeyedTypeOK
    <2> QED
      BY <1>3, <1>5, <1>8, <2>1 DEF Returned
  <1> QED
    BY <1>6, <1>7, <1>9, <1>10, <1>11, <1>12

\* Nobody on the other side has the key of the thread that gets on a list.
LEMMA EnlistStep ==
  ASSUME IInv, NEW t \in Callers, NEW k \in Keys, NEW r \in Sides, Enlist(t, k, r)
  PROVE  IInv'
  <1> USE DEF IInv
  <1> DEFINE b == Hash(k, Process[t])
  <1>1. b \in Buckets /\ kpc[t] = "idle"
    BY KeyAssumption DEF Enlist
  <1>2. ~IsListed(t)
    BY <1>1 DEF Listed, IsListed, Places
  <1>3. /\ list' = [list EXCEPT ![b][r] = Append(@, t)]
        /\ value' = [value EXCEPT ![t] = k]
        /\ previous' = [previous EXCEPT ![t] = value[t]]
        /\ semaphore' = [semaphore EXCEPT ![t] = 0]
        /\ side' = [side EXCEPT ![t] = r]
        /\ met' = [met EXCEPT ![t] = FALSE]
        /\ kpc' = [kpc EXCEPT ![t] = "wait"]
        /\ status' = status
    BY DEF Enlist
  <1>12. \A i \in Places(b, Other(r)) :
            ~/\ value[list[b][Other(r)][i]] = k
             /\ Process[list[b][Other(r)][i]] = Process[t]
    BY DEF Enlist, IsPartner, Places
  <1> HIDE DEF b
  <1>4. /\ list' \in [Buckets -> [Sides -> Seq(Callers)]]
        /\ Distinct'
        /\ \A c \in Buckets, q \in Sides : \A j \in Places(c, q)' :
              \/ c = b /\ q = r /\ list'[c][q][j] = t
              \/ j \in Places(c, q) /\ list'[c][q][j] = list[c][q][j]
        /\ \A c \in Buckets, q \in Sides : \A j \in Places(c, q) :
              j \in Places(c, q)' /\ list'[c][q][j] = list[c][q][j]
        /\ IsListed(t)'
    BY <1>1, <1>2, <1>3, Appended
  <1>5. KeyedTypeOK'
    <2>1. met' \in [Callers -> BOOLEAN]
      BY <1>3, Zenon DEF KeyedTypeOK
    <2> QED
      BY <1>3, <1>4, <2>1 DEF KeyedTypeOK
  <1>6. /\ \A v \in Callers : v # t => /\ kpc'[v] = kpc[v] /\ side'[v] = side[v]
                                       /\ value'[v] = value[v] /\ met'[v] = met[v]
                                       /\ semaphore'[v] = semaphore[v]
                                       /\ previous'[v] = previous[v]
        /\ kpc'[t] = "wait" /\ side'[t] = r /\ value'[t] = k /\ ~met'[t]
        /\ semaphore'[t] = 0 /\ previous'[t] = value[t]
    BY <1>3 DEF KeyedTypeOK
  <1>7. \A c \in Buckets, q \in Sides : \A j \in Places(c, q) :
           list[c][q][j] \in Callers /\ list[c][q][j] # t
    BY <1>2, ListType DEF IsListed, Places
  <1>8. Listed'
    <2> SUFFICES ASSUME NEW c \in Buckets, NEW q \in Sides, NEW j \in Places(c, q)'
                 PROVE  /\ kpc'[list'[c][q][j]] \in {"wait", "aborted"}
                        /\ side'[list'[c][q][j]] = q
                        /\ value'[list'[c][q][j]] \in Keys
                        /\ Hash(value'[list'[c][q][j]], Process[list'[c][q][j]]) = c
                        /\ semaphore'[list'[c][q][j]] = 0
                        /\ ~met'[list'[c][q][j]]
      BY DEF Listed
    <2>1. CASE c = b /\ q = r /\ list'[c][q][j] = t
      BY <1>6, <2>1 DEF b
    <2>2. CASE j \in Places(c, q) /\ list'[c][q][j] = list[c][q][j]
      <3>1. PICK v \in Callers : v = list[c][q][j] /\ v # t
        BY <1>7, <2>2
      <3> QED
        BY <1>6, <2>2, <3>1 DEF Listed
    <2> QED
      BY <1>4, <2>1, <2>2
  <1>9. Separate'
    <2> SUFFICES ASSUME NEW c \in Buckets,
                        NEW i \in Places(c, "wait")', NEW j \in Places(c, "release")',
                        value'[list'[c]["wait"][i]] = value'[list'[c]["release"][j]],
                        Process[list'[c]["wait"][i]] = Process[list'[c]["release"][j]]
                 PROVE  FALSE
      BY DEF Separate
    <2>1. \/ c = b /\ r = "wait" /\ list'[c]["wait"][i] = t
          \/ /\ i \in Places(c, "wait") /\ list'[c]["wait"][i] = list[c]["wait"][i]
             /\ value'[list'[c]["wait"][i]] = value[list[c]["wait"][i]]
      BY <1>4, <1>6, <1>7 DEF Sides
    <2>2. \/ c = b /\ r = "release" /\ list'[c]["release"][j] = t
          \/ /\ j \in Places(c, "release") /\ list'[c]["release"][j] = list[c]["release"][j]
             /\ value'[list'[c]["release"][j]] = value[list[c]["release"][j]]
      BY <1>4, <1>6, <1>7 DEF Sides
    <2>3. CASE list'[c]["wait"][i] = t /\ r = "wait" /\ c = b
      BY <1>6, <1>12, <2>2, <2>3 DEF Other
    <2>4. CASE list'[c]["release"][j] = t /\ r = "release" /\ c = b
      BY <1>6, <1>12, <2>1, <2>4 DEF Other
    <2> QED
      BY <2>1, <2>2, <2>3, <2>4 DEF Separate
  <1>10. Waiting'
    <2> SUFFICES ASSUME NEW v \in Callers, kpc'[v] = "wait"
                 PROVE  /\ semaphore'[v] = 0 => IsListed(v)'
                        /\ semaphore'[v] = 1 => met'[v]
      BY DEF Waiting
    <2>1. CASE v = t
      BY <1>4, <1>6, <2>1
    <2>2. CASE v # t
      <3>1. IsListed(v) => IsListed(v)'
        <4> HIDE DEF IInv
        <4> SUFFICES ASSUME IsListed(v) PROVE IsListed(v)'
          OBVIOUS
        <4>1. PICK c \in Buckets, q \in Sides :
                 \E j \in Places(c, q) : list[c][q][j] = v
          BY DEF IsListed, Places
        <4>2. PICK j \in Places(c, q) : list[c][q][j] = v
          BY <4>1
        <4>3. j \in Places(c, q)' /\ list'[c][q][j] = v
          BY <1>4, <4>2
        <4> QED
          BY <4>3 DEF IsListed, Places
      <3> QED
        BY <1>6, <2>2, <3>1 DEF Waiting
    <2> QED
      BY <2>1, <2>2
  <1>11. Returned'
    BY <1>1, <1>3, <1>6 DEF Returned
  <1> QED
    BY <1>4, <1>5, <1>8, <1>9, <1>10, <1>11

\* Threads on no list, and threads on one that stay as they are.
LEMMA ListsKept ==
  ASSUME IInv, NEW t \in Callers, ~IsListed(t), list' = list, KeyedTypeOK',
         \A v \in Callers : v # t =>
            /\ kpc'[v] = kpc[v] /\ side'[v] = side[v] /\ value'[v] = value[v]
            /\ semaphore'[v] = semaphore[v] /\ met'[v] = met[v]
            /\ status'[v] = status[v] /\ previous'[v] = previous[v],
         kpc'[t] # "wait"
  PROVE  Listed' /\ Distinct' /\ Separate' /\ Waiting'
  <1>1. \A c \in Buckets, q \in Sides : \A j \in Places(c, q) :
           list[c][q][j] \in Callers /\ list[c][q][j] # t
    BY ListType DEF IInv, IsListed, Places
  <1>2. Listed'
    BY <1>1 DEF IInv, Listed, Places
  <1>3. Distinct'
    BY DEF IInv, Distinct, Places
  <1>4. Separate'
    <2>1. \A c \in Buckets, q \in Sides : \A j \in Places(c, q) :
             value'[list[c][q][j]] = value[list[c][q][j]]
      BY <1>1
    <2> QED
      BY <2>1 DEF IInv, Separate, Places, Sides
  <1>5. Waiting'
    BY DEF IInv, Waiting, IsListed
  <1> QED
    BY <1>2, <1>3, <1>4, <1>5

\* The semaphore was released by the thread that met this one.
LEMMA WokenStep ==
  ASSUME IInv, NEW t \in Callers, Woken(t)
  PROVE  IInv'
  <1> USE DEF IInv
  <1>1. ~IsListed(t)
    BY DEF Woken, Listed, IsListed, Places
  <1>2. KeyedTypeOK'
    BY DEF Woken, KeyedTypeOK
  <1>3. Listed' /\ Distinct' /\ Separate' /\ Waiting'
    BY <1>1, <1>2, ListsKept DEF Woken, KeyedTypeOK
  <1>4. Returned'
    BY DEF Woken, KeyedTypeOK, Waiting, Returned
  <1> QED
    BY <1>2, <1>3, <1>4

\* The thread is still on its list.
LEMMA AbortedStep ==
  ASSUME IInv, NEW t \in Callers, Aborted(t)
  PROVE  IInv'
  <1> USE DEF IInv
  <1>1. KeyedTypeOK'
    BY DEF Aborted, KeyedTypeOK
  <1>2. Listed'
    <2>1. \A v \in Callers : kpc[v] \in {"wait", "aborted"} => kpc'[v] \in {"wait", "aborted"}
      BY DEF Aborted, KeyedTypeOK
    <2> QED
      BY <2>1, ListType DEF Aborted, Listed, Places
  <1>3. Distinct' /\ Separate'
    BY DEF Aborted, Distinct, Separate, Places
  <1>4. Waiting'
    BY DEF Aborted, KeyedTypeOK, Waiting, IsListed
  <1>5. Returned'
    BY DEF Aborted, KeyedTypeOK, Returned
  <1> QED
    BY <1>1, <1>2, <1>3, <1>4, <1>5

\* The thread takes itself off.
LEMMA UnlistStep ==
  ASSUME IInv, NEW t \in Callers, Unlist(t)
  PROVE  IInv'
  <1> USE DEF IInv
  <1>1. PICK b \in Buckets, s \in Sides : b = Bucket(t) /\ s = side[t]
    BY KeyAssumption DEF Unlist, KeyedTypeOK, Returned, Bucket
  <1>2. PICK i \in Places(b, s) :
           list[b][s][i] = t /\ list' = [list EXCEPT ![b][s] = Without(list[b][s], i)]
    BY <1>1 DEF Unlist, Places
  <1>3. /\ kpc' = [kpc EXCEPT ![t] = "restore"]
        /\ UNCHANGED <<value, semaphore, side, previous, status, met>>
        /\ kpc[t] = "aborted"
    BY DEF Unlist
  <1>4. /\ list' \in [Buckets -> [Sides -> Seq(Callers)]]
        /\ Distinct'
        /\ \A c \in Buckets, q \in Sides : \A j \in 1 .. Len(list'[c][q]) :
              list'[c][q][j] \in Elements(c, q) \ {t}
        /\ ListedThreads \ {t} \subseteq ListedThreads'
    <2> HIDE DEF IInv
    <2>1. KeyedTypeOK /\ Listed /\ Distinct
      BY DEF IInv
    <2>3. /\ list' \in [Buckets -> [Sides -> Seq(Callers)]]
          /\ Distinct'
          /\ \A c \in Buckets, q \in Sides : \A j \in 1 .. Len(list'[c][q]) :
                list'[c][q][j] \in Elements(c, q) \ {list[b][s][i]}
          /\ ListedThreads \ {list[b][s][i]} \subseteq ListedThreads'
      BY <1>2, <2>1, TakenOff
    <2> QED
      BY <1>2, <2>3
  <1>5. KeyedTypeOK'
    BY <1>3, <1>4 DEF KeyedTypeOK
  <1>6. Listed'
    <2> SUFFICES ASSUME NEW c \in Buckets, NEW q \in Sides, NEW j \in Places(c, q)'
                 PROVE  /\ kpc'[list'[c][q][j]] \in {"wait", "aborted"}
                        /\ side'[list'[c][q][j]] = q
                        /\ value'[list'[c][q][j]] \in Keys
                        /\ Hash(value'[list'[c][q][j]], Process[list'[c][q][j]]) = c
                        /\ semaphore'[list'[c][q][j]] = 0
                        /\ ~met'[list'[c][q][j]]
      BY DEF Listed
    <2>3. list'[c][q][j] \in Elements(c, q) \ {t}
      BY <1>4 DEF Places
    <2>1. PICK h \in Places(c, q) : list'[c][q][j] = list[c][q][h] /\ list[c][q][h] # t
      BY <2>3 DEF Elements
    <2>2. PICK v \in Callers : v = list[c][q][h]
      BY ListType
    <2> QED
      BY <1>3, <2>1, <2>2 DEF Listed, KeyedTypeOK
  <1>7. Separate'
    <2> SUFFICES ASSUME NEW c \in Buckets,
                        NEW j \in Places(c, "wait")', NEW l \in Places(c, "release")'
                 PROVE  ~/\ value'[list'[c]["wait"][j]] = value'[list'[c]["release"][l]]
                         /\ Process[list'[c]["wait"][j]] = Process[list'[c]["release"][l]]
      BY DEF Separate
    <2>1. PICK h \in Places(c, "wait") : list'[c]["wait"][j] = list[c]["wait"][h]
      <3> HIDE DEF IInv
      <3>1. list'[c]["wait"][j] \in Elements(c, "wait")
        BY <1>4 DEF Sides, Places
      <3> QED
        BY <3>1 DEF Elements
    <2>2. PICK g \in Places(c, "release") : list'[c]["release"][l] = list[c]["release"][g]
      <3> HIDE DEF IInv
      <3>1. list'[c]["release"][l] \in Elements(c, "release")
        BY <1>4 DEF Sides, Places
      <3> QED
        BY <3>1 DEF Elements
    <2> QED
      BY <1>3, <2>1, <2>2 DEF Separate
  <1>8. Waiting'
    BY <1>3, <1>4 DEF KeyedTypeOK, Waiting, ListedThreads
  <1>9. Returned'
    <2>1. status[t] # "success"
      BY <1>3 DEF Returned
    <2> QED
      BY <1>3, <2>1 DEF KeyedTypeOK, Returned
  <1> QED
    BY <1>4, <1>5, <1>6, <1>7, <1>8, <1>9

\* It need not.
LEMMA NotListedStep ==
  ASSUME IInv, NEW t \in Callers, NotListed(t)
  PROVE  IInv'
  <1> USE DEF IInv
  <1>1. ~IsListed(t)
    BY DEF NotListed, Listed, IsListed, Places, Bucket
  <1>2. KeyedTypeOK'
    BY DEF NotListed, KeyedTypeOK
  <1>3. Listed' /\ Distinct' /\ Separate' /\ Waiting'
    BY <1>1, <1>2, ListsKept DEF NotListed, KeyedTypeOK
  <1>4. Returned'
    BY DEF NotListed, KeyedTypeOK, Returned
  <1> QED
    BY <1>2, <1>3, <1>4

\* The union gets its value back.
LEMMA RestoreStep ==
  ASSUME IInv, NEW t \in Callers, Restore(t)
  PROVE  IInv'
  <1> USE DEF IInv
  <1>1. ~IsListed(t)
    BY DEF Restore, Listed, IsListed, Places
  <1>2. KeyedTypeOK'
    <2>1. met' \in [Callers -> BOOLEAN]
      BY Zenon DEF Restore, Forget, KeyedTypeOK
    <2> QED
      BY <2>1 DEF Restore, Forget, KeyedTypeOK, Sides
  <1>3. Listed' /\ Distinct' /\ Separate' /\ Waiting'
    BY <1>1, <1>2, ListsKept DEF Restore, Forget, KeyedTypeOK
  <1>4. Returned'
    BY DEF Restore, Forget, KeyedTypeOK, Returned
  <1> QED
    BY <1>2, <1>3, <1>4

\* The inductive invariant.
THEOREM Inductive == KeyedSpec => []IInv
  <1>1. IInv /\ [KeyedNext]_keyedVars => IInv'
    <2> SUFFICES ASSUME IInv, [KeyedNext]_keyedVars PROVE IInv'
      OBVIOUS
    <2>1. CASE UNCHANGED keyedVars
      BY <2>1 DEF keyedVars, IInv, KeyedTypeOK, Listed, Distinct, Separate, Waiting, Returned,
                  Places, IsListed
    <2>2. ASSUME NEW t \in Callers, Call(t) PROVE IInv'
      BY <2>2, MeetStep, EnlistStep DEF Call
    <2>3. ASSUME NEW t \in Callers, Finish(t) PROVE IInv'
      BY <2>3, WokenStep, UnlistStep, NotListedStep, RestoreStep DEF Finish
    <2> QED
      BY <2>1, <2>2, <2>3, AbortedStep DEF KeyedNext
  <1> QED
    BY <1>1, InitIInv, PTL DEF KeyedSpec

\* Types; KeReleaseSemaphore never exceeds the limit of KeyedWaitSemaphore.
THEOREM TypeCorrect == KeyedSpec => []KeyedTypeOK
  <1>1. IInv => KeyedTypeOK
    BY DEF IInv
  <1> QED
    BY <1>1, Inductive, PTL

\* A release and a wait that belong together never wait for each other.
THEOREM MeetingTheorem == KeyedSpec => []NoMissedMeeting
  <1>1. IInv => NoMissedMeeting
    <2> SUFFICES ASSUME IInv, NEW b \in Buckets, NEW c \in Buckets,
                        NEW i \in Places(b, "wait"), NEW j \in Places(c, "release"),
                        value[list[b]["wait"][i]] = value[list[c]["release"][j]],
                        Process[list[b]["wait"][i]] = Process[list[c]["release"][j]]
                 PROVE  FALSE
      BY DEF NoMissedMeeting, Places
    <2>1. b = c
      BY DEF IInv, Listed, Sides
    <2> QED
      BY <2>1 DEF IInv, Separate
  <1> QED
    BY <1>1, Inductive, PTL

\* A thread that waits is on its list or has been signaled.
THEOREM SignalTheorem == KeyedSpec => []ListedOrSignaled
  <1>1. IInv => ListedOrSignaled
    <2> SUFFICES ASSUME IInv, NEW t \in Callers, kpc[t] = "wait"
                 PROVE  IF semaphore[t] = 0 THEN IsListed(t) /\ ~met[t]
                                            ELSE ~IsListed(t) /\ met[t]
      BY DEF ListedOrSignaled
    <2>1. IsListed(t) => semaphore[t] = 0 /\ ~met[t]
      BY DEF IInv, Listed, IsListed, Places
    <2>2. semaphore[t] \in {0, 1}
      BY DEF IInv, KeyedTypeOK
    <2> QED
      BY <2>1, <2>2 DEF IInv, Waiting
  <1> QED
    BY <1>1, Inductive, PTL

\* Threads on the lists cannot go away, and the union has its value back.
THEOREM TraceTheorem == KeyedSpec => []NoTrace
  <1>1. IInv => NoTrace
    <2> SUFFICES ASSUME IInv, NEW t \in Callers
                 PROVE  /\ IsListed(t) => kpc[t] \in {"wait", "aborted"}
                        /\ kpc[t] = "idle" => value[t] = NoKey
      BY DEF NoTrace
    <2>1. IsListed(t) => kpc[t] \in {"wait", "aborted"}
      BY DEF IInv, Listed, IsListed, Places
    <2> QED
      BY <2>1 DEF IInv, Returned
  <1> QED
    BY <1>1, Inductive, PTL

\* The status and the semaphore of a wait that is over say whether it was met.
THEOREM AccountTheorem == KeyedSpec => []MeetingAccounted
  <1>1. IInv => MeetingAccounted
    BY DEF IInv, Returned, MeetingAccounted
  <1> QED
    BY <1>1, Inductive, PTL

\* A release and a wait for the same key do not miss each other, for any threads,
\* keys, processes and hash.
THEOREM MeetingsTheorem == KeyedSpec => []MeetingsSafe
  BY MeetingTheorem, SignalTheorem, PTL DEF MeetingsSafe

\* A wait that is over, met or not, leaves nothing behind.
THEOREM NothingLeftTheorem == KeyedSpec => []NothingLeft
  BY TraceTheorem, AccountTheorem, PTL DEF NothingLeft


-----------------------------------------------------------------------------
(***************************************************************************)
(* Condition variables.  ListInv is about condvar.c's own list, InKernel   *)
(* about where its threads are in the keyed event.                         *)
(***************************************************************************)
\* Where a thread has the lock on the list, and where a wake is at an entry.
Editing == {"inserted", "leave", "left", "release", "zero", "released", "woke",
            "done"}
AtAnEntry == {"release", "zero", "released"}
Framing == {"inserted", "drop", "sleep", "waiting", "slept", "spin", "leave"}

CondTypes ==
    /\ entries \in Seq(Callers)
    /\ locked \in Callers \cup {NoEntry}
    /\ handled \in [Callers -> BOOLEAN]
    /\ holder \in Callers \cup {NoEntry}
    /\ at \in [Callers -> Pcs]
    /\ entry \in [Callers -> Callers \cup {NoEntry}]
    /\ all \in [Callers -> BOOLEAN]
    /\ remove \in [Callers -> Callers \cup {NoEntry}]
    /\ woken \in [Callers -> Nat]
    /\ asleep \in [Callers -> SUBSET Callers]

LockOwner == \A t \in Callers : at[t] \in Editing <=> locked = t

\* A wake is at the oldest entry.
Oldest ==
    \A t \in Callers :
        /\ entry[t] # NoEntry <=> at[t] \in AtAnEntry
        /\ entry[t] # NoEntry => entries # <<>> /\ entry[t] = entries[Len(entries)]

Removing ==
    \A t \in Callers :
        /\ at[t] \notin {"leave", "woke"} => remove[t] = NoEntry
        /\ at[t] = "leave" => remove[t] = IF handled[t] THEN NoEntry ELSE t
        /\ remove[t] # NoEntry => remove[t] \in Entries

OnceEach == \A i, j \in DOMAIN entries : entries[i] = entries[j] => i = j

\* The list has exactly the entries of the threads that were not told that
\* theirs was removed.
Framed == \A t \in Callers : t \in Entries <=> at[t] \in Framing /\ ~handled[t]

ListInv == /\ CondTypes
           /\ LockOwner
           /\ Oldest
           /\ Removing
           /\ OnceEach
           /\ Framed

\* No thread is NULL, and every one is a key.
LEMMA NullIsNone == NoEntry \notin Callers /\ Callers \subseteq Keys
  BY KeyAssumption, EntryAssumption DEF NoEntry

\* The places on the list are natural numbers, and threads are there.
LEMMA EntriesType ==
  ASSUME CondTypes
  PROVE  /\ Len(entries) \in Nat
         /\ DOMAIN entries = 1 .. Len(entries)
         /\ Entries \subseteq Callers
  BY DEF CondTypes, Entries

\* The list loses the entry of u and no other one; if that was the oldest one,
\* those before it are where they were.
LEMMA UnlinkedOne ==
  ASSUME CondTypes, OnceEach, NEW u \in Entries, entries' = Unlinked(u)
  PROVE  /\ entries' \in Seq(Callers)
         /\ Entries' = Entries \ {u}
         /\ OnceEach'
         /\ Len(entries') = Len(entries) - 1
         /\ u = entries[Len(entries)] =>
               /\ Place(u) = Len(entries)
               /\ \A j \in 1 .. Len(entries) - 1 : entries'[j] = entries[j]
  <1> DEFINE i == Place(u)
             n == Len(entries)
             Old(j) == IF j < i THEN j ELSE j + 1
  <1>1. n \in Nat /\ DOMAIN entries = 1 .. n /\ entries \in Seq(Callers)
    BY EntriesType DEF CondTypes
  <1>2. i \in 1 .. n /\ entries[i] = u
    BY <1>1 DEF Place, Entries
  <1>3. \A j \in 1 .. n : entries[j] = u => j = i
    BY <1>1, <1>2 DEF OnceEach
  <1> HIDE DEF i
  <1>4. entries' = [j \in 1 .. n - 1 |-> IF j < i THEN entries[j] ELSE entries[j + 1]]
    BY DEF Unlinked, Without, i
  <1>5. \A j \in 1 .. n - 1 : Old(j) \in 1 .. n /\ Old(j) # i
    BY <1>1, <1>2
  <1>6. \A j \in 1 .. n - 1 : entries[Old(j)] \in Callers
    BY <1>1, <1>5
  <1>7. entries' = [j \in 1 .. n - 1 |-> entries[Old(j)]]
    BY <1>4
  <1>8. entries' \in Seq(Callers) /\ Len(entries') = n - 1 /\ DOMAIN entries' = 1 .. n - 1
    <2> HIDE DEF Old
    <2> QED
      BY <1>1, <1>2, <1>6, <1>7
  <1>9. \A j, k \in 1 .. n - 1 : Old(j) = Old(k) => j = k
    BY <1>1, <1>2
  <1>10. \A k \in 1 .. n : k # i => \E j \in 1 .. n - 1 : Old(j) = k
    <2> SUFFICES ASSUME NEW k \in 1 .. n, k # i
                 PROVE  \E j \in 1 .. n - 1 : Old(j) = k
      OBVIOUS
    <2>1. CASE k < i
      BY <1>1, <1>2, <2>1
    <2>2. CASE k > i
      <3>1. k - 1 \in 1 .. n - 1 /\ Old(k - 1) = k
        BY <1>1, <1>2, <2>2
      <3> QED
        BY <3>1
    <2> QED
      BY <1>1, <1>2, <2>1, <2>2
  <1>11. u = entries[n] => i = n /\ \A j \in 1 .. n - 1 : entries'[j] = entries[j]
    <2> SUFFICES ASSUME u = entries[n]
                 PROVE  i = n /\ \A j \in 1 .. n - 1 : entries'[j] = entries[j]
      OBVIOUS
    <2>1. n \in 1 .. n
      BY <1>1, <1>2
    <2>2. i = n
      BY <1>3, <2>1
    <2> QED
      BY <1>1, <1>4, <2>2
  <1> HIDE DEF Old
  <1>12. OnceEach'
    <2> SUFFICES ASSUME NEW j \in 1 .. n - 1, NEW k \in 1 .. n - 1, entries'[j] = entries'[k]
                 PROVE  j = k
      BY <1>8 DEF OnceEach
    <2>1. entries[Old(j)] = entries[Old(k)]
      BY <1>7
    <2>2. Old(j) = Old(k)
      BY <1>1, <1>5, <2>1 DEF OnceEach
    <2> QED
      BY <1>9, <2>2
  <1>13. Entries' = Entries \ {u}
    <2>1. ASSUME NEW j \in 1 .. n - 1
          PROVE  entries'[j] \in Entries \ {u}
      BY <1>1, <1>3, <1>5, <1>7 DEF Entries
    <2>2. ASSUME NEW v \in Entries, v # u
          PROVE  \E j \in 1 .. n - 1 : entries'[j] = v
      <3>1. PICK k \in 1 .. n : entries[k] = v
        BY <1>1 DEF Entries
      <3>2. PICK j \in 1 .. n - 1 : Old(j) = k
        BY <1>2, <1>10, <2>2, <3>1
      <3> QED
        BY <1>7, <3>1, <3>2
    <2> QED
      BY <1>8, <2>1, <2>2 DEF Entries
  <1> QED
    BY <1>8, <1>11, <1>12, <1>13 DEF i

\* What the invariant says is about who has the lock and who is on the list.
LEMMA InitList == CondInit => ListInv
  <1> SUFFICES ASSUME CondInit PROVE ListInv
    OBVIOUS
  <1>1. CondTypes
    <2>1. handled \in [Callers -> BOOLEAN] /\ all \in [Callers -> BOOLEAN]
      BY Zenon DEF CondInit
    <2> QED
      BY <2>1 DEF CondInit, CondTypes, Pcs
  <1>2. \A t \in Callers : at[t] = "idle" /\ entry[t] = NoEntry /\ remove[t] = NoEntry
    BY DEF CondInit
  <1>3. LockOwner /\ Oldest /\ Removing
    BY <1>2, NullIsNone DEF CondInit, LockOwner, Oldest, Removing, Editing, AtAnEntry
  <1>4. Entries = {} /\ OnceEach
    BY DEF CondInit, Entries, OnceEach
  <1>5. Framed
    BY <1>2, <1>4 DEF Framed, Framing
  <1> QED
    BY <1>1, <1>3, <1>4, <1>5 DEF ListInv

\* A thread goes on without touching the list.
LEMMA MoveKeepsList ==
  ASSUME ListInv, NEW t \in Callers, NEW q \in Pcs,
         at' = [at EXCEPT ![t] = q],
         UNCHANGED <<entries, locked, handled, entry, remove>>,
         at[t] \notin {"leave", "woke"}, q \notin {"leave", "woke"},
         at[t] \in Editing <=> q \in Editing,
         at[t] \in AtAnEntry <=> q \in AtAnEntry,
         ~handled[t] => (at[t] \in Framing <=> q \in Framing)
  PROVE  LockOwner' /\ Oldest' /\ Removing' /\ OnceEach' /\ Framed'
  <1>1. /\ at'[t] = q
        /\ \A v \in Callers : v # t => at'[v] = at[v]
    BY DEF ListInv, CondTypes
  <1>2. entries' = entries /\ Entries' = Entries
    BY DEF Entries
  <1>3. locked' = locked /\ handled' = handled /\ entry' = entry /\ remove' = remove
    OBVIOUS
  <1>4. LockOwner'
    BY <1>1, <1>3 DEF ListInv, LockOwner
  <1>5. Oldest'
    BY <1>1, <1>2, <1>3 DEF ListInv, Oldest
  <1>6. Removing'
    BY <1>1, <1>2, <1>3 DEF ListInv, Removing
  <1>7. OnceEach' /\ Framed'
    BY <1>1, <1>2, <1>3 DEF ListInv, OnceEach, Framed
  <1> QED
    BY <1>4, <1>5, <1>6, <1>7

\* Nothing happens but to the caller's lock.
LEMMA StillList ==
  ASSUME ListInv, UNCHANGED <<entries, locked, handled, at, entry, all, remove, woken, asleep>>,
         holder' \in Callers \cup {NoEntry}
  PROVE  ListInv'
  BY DEF ListInv, CondTypes, LockOwner, Oldest, Removing, OnceEach, Framed, Entries

\* The caller's lock changes hands.
LEMMA CallersLockKeepsList ==
  ASSUME ListInv, NEW t \in Callers, AcquireLock(t) \/ ReleaseLock(t)
  PROVE  ListInv'
  <1>1. holder' \in Callers \cup {NoEntry}
    BY DEF AcquireLock, ReleaseLock
  <1>2. UNCHANGED <<entries, locked, handled, at, entry, all, remove, woken, asleep>>
    BY DEF AcquireLock, ReleaseLock
  <1> QED
    BY <1>1, <1>2, StillList

\* The bit is cleared by the one thread that has set it.
LEMMA ClearFlagKeepsList ==
  ASSUME ListInv, NEW t \in Callers, NEW from \in Editing, NEW to \in Pcs \ Editing,
         ClearFlag(t, from, to),
         from \notin {"leave", "woke"}, from \in Framing <=> to \in Framing
  PROVE  ListInv'
  <1> USE DEF ListInv
  <1>1. /\ at[t] = from /\ at'[t] = to
        /\ \A v \in Callers : v # t => at'[v] = at[v]
    BY DEF ClearFlag, CondGoto, CondTypes
  <1>2. locked = t /\ locked' = NoEntry
    BY <1>1 DEF LockOwner, ClearFlag
  <1>3. UNCHANGED <<entries, handled, remove>> /\ Entries' = Entries
    BY DEF ClearFlag, Entries
  <1>4. entry'[t] = NoEntry /\ \A v \in Callers : v # t => entry'[v] = entry[v]
    BY DEF ClearFlag, CondTypes
  <1>5. CondTypes'
    <2>1. all' \in [Callers -> BOOLEAN]
      BY Zenon DEF ClearFlag, CondTypes
    <2> QED
      BY <2>1 DEF CondTypes, ClearFlag, CondGoto
  <1>6. LockOwner'
    BY <1>1, <1>2, NullIsNone DEF LockOwner
  <1>7. Oldest'
    <2>1. to \notin AtAnEntry
      BY DEF Editing, AtAnEntry
    <2> QED
      BY <1>1, <1>3, <1>4, <2>1 DEF Oldest
  <1>8. Removing'
    <2>1. to \notin {"leave", "woke"}
      BY DEF Editing
    <2> QED
      BY <1>1, <1>3, <2>1 DEF Removing
  <1>9. OnceEach' /\ Framed'
    BY <1>1, <1>3 DEF OnceEach, Framed
  <1> QED
    BY <1>5, <1>6, <1>7, <1>8, <1>9

\* A new entry is in front of the others, and its owner has the lock.
LEMMA LockInsertKeepsList ==
  ASSUME ListInv, NEW t \in Callers, LockInsert(t)
  PROVE  ListInv'
  <1> USE DEF ListInv
  <1>1. /\ at[t] = "idle" /\ at'[t] = "inserted"
        /\ \A v \in Callers : v # t => at'[v] = at[v]
    BY DEF LockInsert, CondGoto, CondTypes
  <1>2. locked = NoEntry /\ locked' = t
    BY DEF LockInsert
  <1>3. UNCHANGED <<remove, entry>>
    BY DEF LockInsert
  <1>4. ~handled'[t] /\ \A v \in Callers : v # t => handled'[v] = handled[v]
    BY DEF LockInsert, CondTypes
  <1>5. t \notin Entries
    BY <1>1 DEF Framed, Framing
  <1>6. /\ Len(entries) \in Nat /\ DOMAIN entries = 1 .. Len(entries)
        /\ entries \in Seq(Callers)
    BY EntriesType DEF CondTypes
  <1>7. /\ entries' \in Seq(Callers) /\ Len(entries') = Len(entries) + 1
        /\ DOMAIN entries' = 1 .. Len(entries) + 1
        /\ entries'[1] = t
        /\ \A j \in 2 .. Len(entries) + 1 : entries'[j] = entries[j - 1]
    BY <1>6 DEF LockInsert
  <1>8. Entries' = Entries \cup {t}
    <2>1. \A j \in DOMAIN entries' : entries'[j] \in Entries \cup {t}
      BY <1>6, <1>7 DEF Entries
    <2>2. \A v \in Entries : \E j \in DOMAIN entries' : entries'[j] = v
      <3> SUFFICES ASSUME NEW i \in 1 .. Len(entries)
                   PROVE  \E j \in DOMAIN entries' : entries'[j] = entries[i]
        BY <1>6 DEF Entries
      <3>1. i + 1 \in DOMAIN entries' /\ entries'[i + 1] = entries[i]
        BY <1>6, <1>7
      <3> QED
        BY <3>1
    <2>3. \E j \in DOMAIN entries' : entries'[j] = t
      BY <1>6, <1>7
    <2> QED
      BY <2>1, <2>2, <2>3 DEF Entries
  <1>9. OnceEach'
    <2> SUFFICES ASSUME NEW i \in 1 .. Len(entries) + 1, NEW j \in 1 .. Len(entries) + 1,
                        entries'[i] = entries'[j]
                 PROVE  i = j
      BY <1>7 DEF OnceEach
    <2>1. \A k \in 2 .. Len(entries) + 1 : entries'[k] \in Entries
      BY <1>6, <1>7 DEF Entries
    <2>2. CASE i = 1 \/ j = 1
      BY <1>5, <1>6, <1>7, <2>1, <2>2
    <2>3. CASE i # 1 /\ j # 1
      <3>1. /\ i - 1 \in DOMAIN entries /\ j - 1 \in DOMAIN entries
            /\ entries[i - 1] = entries[j - 1]
        BY <1>6, <1>7, <2>3
      <3>2. i - 1 = j - 1
        BY <3>1 DEF OnceEach
      <3> QED
        BY <3>2
    <2> QED
      BY <2>2, <2>3
  <1>10. CondTypes'
    <2>1. handled' \in [Callers -> BOOLEAN]
      BY Zenon DEF LockInsert, CondTypes
    <2> QED
      BY <1>7, <2>1 DEF CondTypes, LockInsert, CondGoto, Pcs
  <1>11. \A v \in Callers : at[v] \notin Editing
    BY <1>2, NullIsNone DEF LockOwner
  <1>12. LockOwner'
    BY <1>1, <1>2, <1>11 DEF LockOwner, Editing
  <1>13. Oldest'
    <2>1. \A v \in Callers : entry'[v] = NoEntry
      BY <1>3, <1>11 DEF Oldest, Editing, AtAnEntry
    <2>2. \A v \in Callers : at'[v] \notin AtAnEntry
      BY <1>1, <1>11 DEF Editing, AtAnEntry
    <2> QED
      BY <2>1, <2>2 DEF Oldest
  <1>14. Removing'
    <2>1. \A v \in Callers : remove'[v] = NoEntry
      BY <1>3, <1>11 DEF Removing, Editing
    <2>2. \A v \in Callers : at'[v] # "leave"
      BY <1>1, <1>11 DEF Editing
    <2> QED
      BY <2>1, <2>2 DEF Removing
  <1>15. Framed'
    BY <1>1, <1>4, <1>8 DEF Framed, Framing
  <1> QED
    BY <1>9, <1>10, <1>12, <1>13, <1>14, <1>15

\* The entry goes, with the mark that tells its owner, or there is none to go.
LEMMA RemoveEntryKeepsList ==
  ASSUME ListInv, NEW t \in Callers, Leave(t) \/ RemoveHead(t)
  PROVE  ListInv'
  <1> USE DEF ListInv
  <1>1. PICK from \in {"leave", "woke"}, to \in {"left", "done"} :
             RemoveEntry(t, from, to) /\ (from = "leave" <=> to = "left")
    BY DEF Leave, RemoveHead
  <1>2. /\ at[t] = from /\ at'[t] = to
        /\ \A v \in Callers : v # t => at'[v] = at[v]
    BY <1>1 DEF RemoveEntry, CondGoto, CondTypes, Pcs
  <1>3. UNCHANGED <<locked, entry>> /\ locked = t
    BY <1>1, <1>2 DEF RemoveEntry, LockOwner, Editing
  <1>4. \A v \in Callers : handled'[v] = (handled[v] \/ v = remove[t])
    BY <1>1, Zenon DEF RemoveEntry
  <1>5. remove'[t] = NoEntry /\ \A v \in Callers : v # t => remove'[v] = remove[v]
    BY <1>1 DEF RemoveEntry, CondTypes
  <1>6. \A v \in Callers : v # t => at[v] \notin Editing
    BY <1>3 DEF LockOwner
  <1>7. \A v \in Callers : entry'[v] = NoEntry /\ at'[v] \notin AtAnEntry
    BY <1>2, <1>3, <1>6 DEF Oldest, Editing, AtAnEntry
  <1>8. /\ entries' \in Seq(Callers)
        /\ Entries' = Entries \ {remove[t]}
        /\ OnceEach'
    <2>1. CASE remove[t] = NoEntry
      <3>1. entries' = entries /\ Entries \subseteq Callers
        BY <1>1, <2>1, EntriesType DEF RemoveEntry
      <3>2. Entries' = Entries \ {remove[t]}
        BY <2>1, <3>1, NullIsNone DEF Entries
      <3> QED
        BY <3>1, <3>2 DEF OnceEach, CondTypes
    <2>2. CASE remove[t] # NoEntry
      <3>1. entries' = Unlinked(remove[t]) /\ remove[t] \in Entries
        BY <1>1, <2>2 DEF RemoveEntry, Removing
      <3> QED
        BY <3>1, UnlinkedOne
    <2> QED
      BY <2>1, <2>2
  <1>9. CondTypes'
    <2>1. handled' \in [Callers -> BOOLEAN]
      BY <1>1, Zenon DEF RemoveEntry, CondTypes
    <2> QED
      BY <1>1, <1>8, <2>1 DEF CondTypes, RemoveEntry, CondGoto, Pcs
  <1>10. LockOwner'
    BY <1>2, <1>3, <1>6 DEF LockOwner, Editing
  <1>11. Oldest'
    BY <1>7 DEF Oldest
  <1>12. Removing'
    <2>1. \A v \in Callers : remove'[v] = NoEntry
      BY <1>5, <1>6 DEF Removing, Editing
    <2>2. \A v \in Callers : at'[v] # "leave"
      BY <1>2, <1>6 DEF Editing
    <2> QED
      BY <2>1, <2>2 DEF Removing
  <1>13. Framed'
    <2> SUFFICES ASSUME NEW v \in Callers
                 PROVE  v \in Entries' <=> at'[v] \in Framing /\ ~handled'[v]
      BY DEF Framed
    <2>1. v \in Entries' <=> at[v] \in Framing /\ ~handled[v] /\ v # remove[t]
      BY <1>8 DEF Framed
    <2>2. v \in Entries' <=> at[v] \in Framing /\ ~handled'[v]
      BY <1>4, <2>1
    <2>3. CASE v # t
      BY <1>2, <2>2, <2>3
    <2>4. CASE v = t /\ from = "woke"
      BY <1>1, <1>2, <2>2, <2>4 DEF Framing
    <2>5. CASE v = t /\ from = "leave"
      <3>1. handled[t] \/ remove[t] = t
        BY <1>2, <2>5 DEF Removing
      <3>2. v \notin Entries'
        BY <2>1, <2>5, <3>1
      <3> QED
        BY <1>1, <1>2, <2>5, <3>2 DEF Framing
    <2> QED
      BY <1>1, <2>3, <2>4, <2>5
  <1> QED
    BY <1>8, <1>9, <1>10, <1>11, <1>12, <1>13

\* A sleeper gets the lock to take its entry off the list, if it is there.
LEMMA SpinLockKeepsList ==
  ASSUME ListInv, NEW t \in Callers, SpinLock(t)
  PROVE  ListInv'
  <1> USE DEF ListInv
  <1>1. /\ at[t] = "spin" /\ at'[t] = "leave"
        /\ \A v \in Callers : v # t => at'[v] = at[v]
    BY DEF SpinLock, CondGoto, CondTypes, Pcs
  <1>2. locked = NoEntry /\ locked' = t
    BY DEF SpinLock
  <1>3. UNCHANGED <<entries, handled, entry>> /\ Entries' = Entries
    BY DEF SpinLock, Entries
  <1>4. /\ remove'[t] = IF handled[t] THEN NoEntry ELSE t
        /\ \A v \in Callers : v # t => remove'[v] = remove[v]
    BY DEF SpinLock, CondTypes
  <1>5. \A v \in Callers : at[v] \notin Editing
    BY <1>2, NullIsNone DEF LockOwner
  <1>6. ~handled[t] => t \in Entries
    BY <1>1 DEF Framed, Framing
  <1>7. CondTypes'
    <2>1. remove' \in [Callers -> Callers \cup {NoEntry}]
      BY DEF SpinLock, CondTypes
    <2> QED
      BY <2>1 DEF CondTypes, SpinLock, CondGoto, Pcs
  <1>8. LockOwner'
    BY <1>1, <1>2, <1>5 DEF LockOwner, Editing
  <1>9. Oldest'
    BY <1>1, <1>3 DEF Oldest, AtAnEntry
  <1>10. Removing'
    <2>1. \A v \in Callers : v # t => remove'[v] = NoEntry /\ at'[v] # "leave"
      BY <1>1, <1>4, <1>5 DEF Removing, Editing
    <2>2. remove'[t] # NoEntry => remove'[t] \in Entries'
      BY <1>3, <1>4, <1>6
    <2> QED
      BY <1>1, <1>3, <1>4, <2>1, <2>2 DEF Removing
  <1>11. OnceEach' /\ Framed'
    BY <1>1, <1>3 DEF OnceEach, Framed, Framing
  <1> QED
    BY <1>7, <1>8, <1>9, <1>10, <1>11

\* A wake begins with the oldest entry.
LEMMA LockWakeKeepsList ==
  ASSUME ListInv, NEW t \in Callers, NEW a \in BOOLEAN, LockWake(t, a)
  PROVE  ListInv'
  <1> USE DEF ListInv
  <1>1. /\ at[t] = "idle" /\ at'[t] = "release"
        /\ \A v \in Callers : v # t => at'[v] = at[v]
    BY DEF LockWake, CondGoto, CondTypes
  <1>2. locked = NoEntry /\ locked' = t /\ entries # <<>>
    BY DEF LockWake
  <1>3. UNCHANGED <<entries, handled, remove>> /\ Entries' = Entries
    BY DEF LockWake, Entries
  <1>4. /\ entry'[t] = entries[Len(entries)]
        /\ \A v \in Callers : v # t => entry'[v] = entry[v]
    BY DEF LockWake, CondTypes
  <1>5. \A v \in Callers : at[v] \notin Editing
    BY <1>2, NullIsNone DEF LockOwner
  <1>6. entries[Len(entries)] \in Callers
    BY <1>2 DEF CondTypes
  <1>7. CondTypes'
    <2>1. all' \in [Callers -> BOOLEAN]
      BY Zenon DEF LockWake, CondTypes
    <2>2. asleep' \in [Callers -> SUBSET Callers]
      BY EntriesType DEF LockWake, CondTypes
    <2> QED
      BY <1>6, <2>1, <2>2 DEF CondTypes, LockWake, CondGoto, Pcs
  <1>8. LockOwner'
    BY <1>1, <1>2, <1>5 DEF LockOwner, Editing
  <1>9. Oldest'
    BY <1>1, <1>2, <1>3, <1>4, <1>6, NullIsNone DEF Oldest, AtAnEntry
  <1>10. Removing'
    BY <1>1, <1>3, <1>5 DEF Removing, Editing
  <1>11. OnceEach' /\ Framed'
    BY <1>1, <1>3 DEF OnceEach, Framed, Framing
  <1> QED
    BY <1>7, <1>8, <1>9, <1>10, <1>11

\* The head is left to InternalUnlockCondVar.
LEMMA KeepHeadKeepsList ==
  ASSUME ListInv, NEW t \in Callers, KeepHead(t)
  PROVE  ListInv'
  <1> USE DEF ListInv
  <1>1. /\ at[t] = "released" /\ at'[t] = "woke"
        /\ \A v \in Callers : v # t => at'[v] = at[v]
    BY DEF KeepHead, CondGoto, CondTypes
  <1>2. UNCHANGED <<entries, locked, handled>> /\ Entries' = Entries
    BY DEF KeepHead, Entries
  <1>3. locked = t
    BY <1>1 DEF LockOwner, Editing
  <1>4. /\ remove'[t] = entry[t] /\ entry'[t] = NoEntry
        /\ \A v \in Callers : v # t => remove'[v] = remove[v] /\ entry'[v] = entry[v]
    BY DEF KeepHead, CondTypes
  <1>5. entry[t] \in Entries
    <2>1. entries # <<>> /\ entry[t] = entries[Len(entries)]
      BY <1>1 DEF Oldest, AtAnEntry
    <2>2. Len(entries) \in DOMAIN entries
      BY <2>1 DEF CondTypes
    <2> QED
      BY <2>1, <2>2 DEF Entries
  <1>6. CondTypes'
    BY DEF CondTypes, KeepHead, CondGoto, Pcs
  <1>7. LockOwner'
    BY <1>1, <1>2, <1>3 DEF LockOwner, Editing
  <1>8. Oldest'
    BY <1>1, <1>2, <1>4 DEF Oldest, AtAnEntry
  <1>9. Removing'
    BY <1>1, <1>2, <1>4, <1>5 DEF Removing
  <1>10. OnceEach' /\ Framed'
    BY <1>1, <1>2 DEF OnceEach, Framed, Framing
  <1> QED
    BY <1>6, <1>7, <1>8, <1>9, <1>10

\* Where the oldest entry is when it is not the head, and which one is next.
LEMMA OldestNotHead ==
  ASSUME ListInv, NEW t \in Callers, at[t] = "released", entry[t] # Head(entries)
  PROVE  /\ entry[t] \in Entries /\ entry[t] = entries[Len(entries)]
         /\ Len(entries) \in Nat /\ Len(entries) >= 2
         /\ NextEntry(t) = entries[Len(entries) - 1]
         /\ NextEntry(t) \in Callers
  <1> DEFINE n == Len(entries)
  <1>1. n \in Nat /\ DOMAIN entries = 1 .. n /\ entries \in Seq(Callers)
    BY EntriesType DEF ListInv, CondTypes
  <1>2. entries # <<>> /\ entry[t] = entries[n]
    BY DEF ListInv, Oldest, AtAnEntry
  <1>3. n >= 1
    BY <1>1, <1>2
  <1>4. entry[t] # entries[1] /\ n >= 2
    BY <1>1, <1>2, <1>3
  <1>5. Place(entry[t]) = n
    BY <1>1, <1>2, <1>3 DEF Place, ListInv, OnceEach
  <1>6. NextEntry(t) = entries[n - 1] /\ NextEntry(t) \in Callers
    BY <1>1, <1>4, <1>5 DEF NextEntry
  <1> QED
    BY <1>1, <1>2, <1>3, <1>4, <1>6 DEF Entries

\* The oldest entry goes, and the next one is now the oldest.
LEMMA UnlinkKeepsList ==
  ASSUME ListInv, NEW t \in Callers, Unlink(t)
  PROVE  ListInv'
  <1> USE DEF ListInv
  <1> DEFINE next == IF all[t] THEN NextEntry(t) ELSE NoEntry
             u == entry[t]
  <1>1. /\ at[t] = "released"
        /\ at'[t] = IF next = NoEntry THEN "woke" ELSE "release"
        /\ \A v \in Callers : v # t => at'[v] = at[v]
    BY DEF Unlink, CondGoto, CondTypes
  <1>2. UNCHANGED <<locked, remove>> /\ locked = t
    BY <1>1 DEF Unlink, LockOwner, Editing
  <1>3. /\ entry'[t] = next
        /\ \A v \in Callers : v # t => entry'[v] = entry[v]
    BY DEF Unlink, CondTypes
  <1>4. /\ u \in Entries /\ u = entries[Len(entries)]
        /\ Len(entries) \in Nat /\ Len(entries) >= 2
        /\ NextEntry(t) = entries[Len(entries) - 1]
        /\ NextEntry(t) \in Callers
    BY <1>1, OldestNotHead DEF Unlink
  <1>5. u \in Callers /\ next \in Callers \cup {NoEntry}
    BY <1>4, EntriesType
  <1>6. handled'[u] /\ \A v \in Callers : v # u => handled'[v] = handled[v]
    BY <1>5 DEF Unlink, CondTypes
  <1>7. entries' = Unlinked(u)
    BY DEF Unlink
  <1>8. /\ entries' \in Seq(Callers)
        /\ Entries' = Entries \ {u}
        /\ OnceEach'
        /\ Len(entries') = Len(entries) - 1
        /\ \A j \in 1 .. Len(entries) - 1 : entries'[j] = entries[j]
    <2> HIDE DEF u
    <2> QED
      BY <1>4, <1>7, UnlinkedOne
  <1>9. CondTypes'
    <2>1. handled' \in [Callers -> BOOLEAN]
      BY <1>5, Zenon DEF Unlink, CondTypes
    <2>2. entry' \in [Callers -> Callers \cup {NoEntry}]
      BY <1>5 DEF Unlink, CondTypes
    <2>3. at' \in [Callers -> Pcs]
      BY DEF Unlink, CondGoto, CondTypes, Pcs
    <2> QED
      BY <1>8, <2>1, <2>2, <2>3 DEF CondTypes, Unlink
  <1>10. LockOwner'
    BY <1>1, <1>2 DEF LockOwner, Editing
  <1>11. \A v \in Callers : v # t => at[v] \notin Editing
    BY <1>2 DEF LockOwner
  <1>12. Oldest'
    <2>1. \A v \in Callers : v # t => entry'[v] = NoEntry /\ at'[v] \notin AtAnEntry
      BY <1>1, <1>3, <1>11 DEF Oldest, Editing, AtAnEntry
    <2>2. entry'[t] # NoEntry <=> at'[t] \in AtAnEntry
      BY <1>1, <1>3 DEF AtAnEntry
    <2>3. next # NoEntry => entries' # <<>> /\ next = entries'[Len(entries')]
      BY <1>4, <1>8
    <2> QED
      BY <1>3, <2>1, <2>2, <2>3 DEF Oldest
  <1>13. Removing'
    <2>1. \A v \in Callers : remove'[v] = NoEntry
      BY <1>1, <1>2, <1>11 DEF Removing, Editing
    <2>2. \A v \in Callers : at'[v] # "leave"
      BY <1>1, <1>11 DEF Editing
    <2> QED
      BY <2>1, <2>2 DEF Removing
  <1>14. Framed'
    <2> SUFFICES ASSUME NEW v \in Callers
                 PROVE  v \in Entries' <=> at'[v] \in Framing /\ ~handled'[v]
      BY DEF Framed
    <2>1. at'[v] \in Framing <=> at[v] \in Framing
      BY <1>1 DEF Framing
    <2> QED
      BY <1>6, <1>8, <2>1 DEF Framed
  <1> QED
    BY <1>8, <1>9, <1>10, <1>12, <1>13, <1>14

\* The frame is gone, and its entry with it.
LEMMA ReacquireKeepsList ==
  ASSUME ListInv, NEW t \in Callers, Reacquire(t)
  PROVE  ListInv'
  <1> USE DEF ListInv
  <1>1. /\ at[t] = "return" /\ at'[t] = "idle"
        /\ \A v \in Callers : v # t => at'[v] = at[v]
    BY DEF Reacquire, CondGoto, CondTypes
  <1>2. UNCHANGED <<entries, locked, entry, remove>> /\ Entries' = Entries
    BY DEF Reacquire, Entries
  <1>3. \A v \in Callers : v # t => handled'[v] = handled[v]
    BY DEF Reacquire, CondTypes
  <1>4. CondTypes'
    <2>1. handled' \in [Callers -> BOOLEAN]
      BY Zenon DEF Reacquire, CondTypes
    <2> QED
      BY <2>1 DEF CondTypes, Reacquire, CondGoto, Pcs
  <1>5. LockOwner'
    BY <1>1, <1>2 DEF LockOwner, Editing
  <1>6. Oldest'
    BY <1>1, <1>2 DEF Oldest, AtAnEntry
  <1>7. Removing'
    BY <1>1, <1>2, <1>3 DEF Removing
  <1>8. OnceEach' /\ Framed'
    BY <1>1, <1>2, <1>3 DEF OnceEach, Framed, Framing
  <1> QED
    BY <1>4, <1>5, <1>6, <1>7, <1>8

\* A thread that is in the kernel, or on its way there or back, leaves the list
\* alone.
LEMMA MovesKeepList ==
  ASSUME ListInv, NEW t \in Callers,
         \/ Drop(t) \/ SleepMeets(t) \/ SleepWaits(t) \/ Slept(t)
         \/ CheckHandled(t) \/ SpinAbort(t) \/ SpinEmpty(t)
         \/ ReleaseMeets(t) \/ ReleaseWaits(t) \/ Released(t)
  PROVE  ListInv'
  <1> DEFINE Moves(from, to) == /\ at[t] = from /\ at' = [at EXCEPT ![t] = to]
                                /\ UNCHANGED <<entries, locked, handled, entry, remove>>
  <1>1. CondTypes'
    <2>1. woken' \in [Callers -> Nat]
      <3>1. woken \in [Callers -> Nat]
        BY DEF ListInv, CondTypes
      <3>2. CASE SleepMeets(t)
        <4>1. woken' = [w \in Callers |->
                          IF entry[w] = t /\ ~all[w] THEN woken[w] + 1 ELSE woken[w]]
          BY <3>2 DEF SleepMeets
        <4> QED
          BY <3>1, <4>1
      <3>3. CASE ReleaseMeets(t)
        BY <3>1, <3>3 DEF ReleaseMeets
      <3>4. CASE woken' = woken
        BY <3>1, <3>4
      <3>5. SleepMeets(t) \/ ReleaseMeets(t) \/ woken' = woken
        BY DEF Drop, SleepWaits, Slept, CheckHandled, SpinAbort, SpinEmpty,
               ReleaseWaits, Released
      <3> QED
        BY <3>2, <3>3, <3>4, <3>5
    <2>2. at' \in [Callers -> Pcs]
      BY DEF Drop, SleepMeets, SleepWaits, Slept, CheckHandled, SpinAbort, SpinEmpty,
             ReleaseMeets, ReleaseWaits, Released, ListInv, CondTypes, CondGoto, Pcs
    <2>3. holder' \in Callers \cup {NoEntry}
      BY DEF Drop, SleepMeets, SleepWaits, Slept, CheckHandled, SpinAbort, SpinEmpty,
             ReleaseMeets, ReleaseWaits, Released, ListInv, CondTypes
    <2>4. UNCHANGED <<entries, locked, handled, entry, all, remove, asleep>>
      BY DEF Drop, SleepMeets, SleepWaits, Slept, CheckHandled, SpinAbort, SpinEmpty,
             ReleaseMeets, ReleaseWaits, Released
    <2> QED
      BY <2>1, <2>2, <2>3, <2>4 DEF ListInv, CondTypes
  <1>2. \/ Moves("drop", "sleep")
        \/ Moves("sleep", "slept")
        \/ Moves("sleep", "waiting")
        \/ Moves("waiting", "slept")
        \/ Moves("slept", "spin")
        \/ Moves("slept", "return") /\ handled[t]
        \/ Moves("spin", "return") /\ (handled[t] \/ entries = <<>>)
        \/ Moves("release", "released")
        \/ Moves("release", "zero")
        \/ Moves("zero", "released")
    BY DEF Drop, SleepMeets, SleepWaits, Slept, CheckHandled, SpinAbort, SpinEmpty,
           ReleaseMeets, ReleaseWaits, Released, CondGoto
  <1>3. at[t] \in Framing /\ entries = <<>> => handled[t]
    BY DEF ListInv, Framed, Entries
  <1>4. LockOwner' /\ Oldest' /\ Removing' /\ OnceEach' /\ Framed'
    <2>1. CASE Moves("drop", "sleep")
      BY <2>1, MoveKeepsList DEF Pcs, Editing, AtAnEntry, Framing
    <2>2. CASE Moves("sleep", "slept") \/ Moves("sleep", "waiting")
      BY <2>2, MoveKeepsList DEF Pcs, Editing, AtAnEntry, Framing
    <2>3. CASE Moves("waiting", "slept")
      BY <2>3, MoveKeepsList DEF Pcs, Editing, AtAnEntry, Framing
    <2>4. CASE Moves("slept", "spin")
      BY <2>4, MoveKeepsList DEF Pcs, Editing, AtAnEntry, Framing
    <2>5. CASE Moves("slept", "return") /\ handled[t]
      BY <2>5, MoveKeepsList DEF Pcs, Editing, AtAnEntry, Framing
    <2>6. CASE Moves("spin", "return") /\ (handled[t] \/ entries = <<>>)
      BY <1>3, <2>6, MoveKeepsList DEF Pcs, Editing, AtAnEntry, Framing
    <2>7. CASE Moves("release", "released") \/ Moves("release", "zero")
      BY <2>7, MoveKeepsList DEF Pcs, Editing, AtAnEntry, Framing
    <2>8. CASE Moves("zero", "released")
      BY <2>8, MoveKeepsList DEF Pcs, Editing, AtAnEntry, Framing
    <2> QED
      BY <1>2, <2>1, <2>2, <2>3, <2>4, <2>5, <2>6, <2>7, <2>8
  <1> QED
    BY <1>1, <1>4 DEF ListInv

\* The bit is cleared, with and without an entry of one's own on the list.
LEMMA UnlocksKeepList ==
  ASSUME ListInv, NEW t \in Callers,
         UnlockInserted(t) \/ UnlockLeft(t) \/ UnlockWoke(t)
  PROVE  ListInv'
  <1>1. CASE UnlockInserted(t)
    BY <1>1, ClearFlagKeepsList DEF UnlockInserted, Pcs, Editing, Framing
  <1>2. CASE UnlockLeft(t)
    BY <1>2, ClearFlagKeepsList DEF UnlockLeft, Pcs, Editing, Framing
  <1>3. CASE UnlockWoke(t)
    BY <1>3, ClearFlagKeepsList DEF UnlockWoke, Pcs, Editing, Framing
  <1> QED
    BY <1>1, <1>2, <1>3

\* Every step keeps the list as it should be.
LEMMA StepKeepsList ==
  ASSUME ListInv, CondNext \/ UNCHANGED <<condVars, keyedVars>>
  PROVE  ListInv'
  <1>1. CASE UNCHANGED condVars
    BY <1>1, StillList DEF condVars, ListInv, CondTypes
  <1>2. CASE CondNext
    <2> SUFFICES ASSUME NEW t \in Callers,
                        \/ AcquireLock(t) \/ ReleaseLock(t) \/ Begin(t) \/ Reacquire(t)
                        \/ Sleeping(t) \/ Waking(t) \/ Kernel(t)
                        \/ (at[t] = "waiting" /\ Timeout(t))
                 PROVE  ListInv'
      BY <1>2 DEF CondNext
    <2>1. CASE AcquireLock(t) \/ ReleaseLock(t)
      BY <2>1, CallersLockKeepsList
    <2>2. CASE Begin(t)
      BY <2>2, LockInsertKeepsList, LockWakeKeepsList DEF Begin
    <2>3. CASE Reacquire(t)
      BY <2>3, ReacquireKeepsList
    <2>4. CASE Sleeping(t)
      BY <2>4, UnlocksKeepList, MovesKeepList, SpinLockKeepsList, RemoveEntryKeepsList
         DEF Sleeping
    <2>5. CASE Waking(t)
      BY <1>1, <2>5, UnlocksKeepList, MovesKeepList, KeepHeadKeepsList, UnlinkKeepsList,
         RemoveEntryKeepsList DEF Waking, Timeout
    <2>6. CASE Kernel(t) \/ Timeout(t)
      BY <1>1, <2>6 DEF Kernel, Timeout
    <2> QED
      BY <2>1, <2>2, <2>3, <2>4, <2>5, <2>6
  <1> QED
    BY <1>1, <1>2

-----------------------------------------------------------------------------
\* Threads are in a call of the keyed event exactly while they sleep or release,
\* and with the key of the entry they sleep with or release.
InKernel ==
    \A t \in Callers :
        /\ at[t] \in {"waiting", "zero"} <=> kpc[t] # "idle"
        /\ at[t] = "waiting" => side[t] = "wait" /\ value[t] = t
        /\ at[t] = "zero" => side[t] = "release" /\ value[t] = entry[t]

CondIInv == ListInv /\ IInv /\ InKernel

\* Nothing happens in the kernel.
LEMMA OutsideKernel ==
  ASSUME IInv, InKernel, UNCHANGED keyedVars, NEW t \in Callers,
         at[t] \notin {"waiting", "zero"}, at'[t] \notin {"waiting", "zero"},
         \A v \in Callers : v # t => at'[v] = at[v] /\ entry'[v] = entry[v]
  PROVE  IInv' /\ InKernel'
  <1>1. IInv'
    BY DEF keyedVars, IInv, KeyedTypeOK, Listed, Distinct, Separate, Waiting, Returned, Places, IsListed
  <1>2. InKernel'
    BY DEF keyedVars, InKernel
  <1> QED
    BY <1>1, <1>2

\* The steps outside the kernel.
LEMMA ListStepsOutside ==
  ASSUME CondIInv, NEW t \in Callers,
         \/ AcquireLock(t) \/ ReleaseLock(t) \/ Begin(t) \/ Reacquire(t)
         \/ UnlockInserted(t) \/ Drop(t) \/ CheckHandled(t) \/ SpinAbort(t)
         \/ SpinEmpty(t) \/ SpinLock(t) \/ Leave(t) \/ UnlockLeft(t)
         \/ KeepHead(t) \/ Unlink(t) \/ RemoveHead(t) \/ UnlockWoke(t)
  PROVE  IInv' /\ InKernel'
  <1> USE DEF CondIInv
  <1>1. at \in [Callers -> Pcs] /\ entry \in [Callers -> Callers \cup {NoEntry}]
    BY DEF ListInv, CondTypes
  <1>2. /\ UNCHANGED keyedVars
        /\ at[t] \notin {"waiting", "zero"} /\ at'[t] \notin {"waiting", "zero"}
        /\ \A v \in Callers : v # t => at'[v] = at[v] /\ entry'[v] = entry[v]
    <2>1. CASE AcquireLock(t) \/ ReleaseLock(t)
      BY <1>1, <2>1 DEF AcquireLock, ReleaseLock
    <2>2. CASE Begin(t)
      BY <1>1, <2>2 DEF Begin, LockInsert, LockWake, CondGoto
    <2>3. CASE Reacquire(t) \/ Drop(t) \/ SpinLock(t)
      BY <1>1, <2>3 DEF Reacquire, Drop, SpinLock, CondGoto
    <2>4. CASE CheckHandled(t) \/ SpinAbort(t) \/ SpinEmpty(t)
      BY <1>1, <2>4 DEF CheckHandled, SpinAbort, SpinEmpty, CondGoto
    <2>5. CASE UnlockInserted(t) \/ UnlockLeft(t) \/ UnlockWoke(t)
      BY <1>1, <2>5 DEF UnlockInserted, UnlockLeft, UnlockWoke, ClearFlag, CondGoto
    <2>6. CASE Leave(t) \/ RemoveHead(t)
      BY <1>1, <2>6 DEF Leave, RemoveHead, RemoveEntry, CondGoto
    <2>7. CASE KeepHead(t) \/ Unlink(t)
      BY <1>1, <2>7 DEF KeepHead, Unlink, CondGoto
    <2> QED
      BY <2>1, <2>2, <2>3, <2>4, <2>5, <2>6, <2>7
  <1> QED
    BY <1>2, OutsideKernel

\* A wake is at the entry of a thread, which is a key.
LEMMA EntryIsKey ==
  ASSUME ListInv, NEW t \in Callers, at[t] \in AtAnEntry
  PROVE  entry[t] \in Callers /\ entry[t] \in Keys
  BY NullIsNone DEF ListInv, Oldest, CondTypes

\* A call of the keyed event that finds its partner returns at once.
LEMMA MeetsInside ==
  ASSUME CondIInv, NEW t \in Callers, SleepMeets(t) \/ ReleaseMeets(t)
  PROVE  IInv' /\ InKernel'
  <1> USE DEF CondIInv
  <1>1. PICK k \in Keys, r \in Sides : Meet(t, k, r)
    <2>1. CASE SleepMeets(t)
      BY <2>1, NullIsNone DEF SleepMeets, Sides
    <2>2. CASE ReleaseMeets(t)
      BY <2>2, EntryIsKey DEF ReleaseMeets, CondGoto, AtAnEntry, Sides
    <2> QED
      BY <2>1, <2>2
  <1>2. IInv'
    BY <1>1, MeetStep
  <1>3. UNCHANGED <<value, kpc, side>> /\ kpc[t] = "idle"
    BY <1>1 DEF Meet
  <1>4. /\ entry' = entry /\ at'[t] \notin {"waiting", "zero"}
        /\ \A v \in Callers : v # t => at'[v] = at[v]
    BY DEF SleepMeets, ReleaseMeets, CondGoto, ListInv, CondTypes
  <1> QED
    BY <1>2, <1>3, <1>4 DEF InKernel

\* One that does not finds waits.
LEMMA WaitsInside ==
  ASSUME CondIInv, NEW t \in Callers, SleepWaits(t) \/ ReleaseWaits(t)
  PROVE  IInv' /\ InKernel'
  <1> USE DEF CondIInv
  <1>1. PICK k \in Keys, r \in Sides :
             /\ Enlist(t, k, r)
             /\ \/ k = t /\ r = "wait" /\ at'[t] = "waiting"
                \/ k = entry[t] /\ r = "release" /\ at'[t] = "zero"
    <2>1. CASE SleepWaits(t)
      BY <2>1, NullIsNone DEF SleepWaits, Sides, CondGoto, ListInv, CondTypes
    <2>2. CASE ReleaseWaits(t)
      BY <2>2, EntryIsKey DEF ReleaseWaits, CondGoto, AtAnEntry, Sides, ListInv, CondTypes
    <2> QED
      BY <2>1, <2>2
  <1>2. IInv'
    BY <1>1, EnlistStep
  <1>3. /\ value'[t] = k /\ side'[t] = r /\ kpc'[t] = "wait"
        /\ \A v \in Callers : v # t =>
              value'[v] = value[v] /\ side'[v] = side[v] /\ kpc'[v] = kpc[v]
    BY <1>1 DEF Enlist, IInv, KeyedTypeOK
  <1>4. entry' = entry /\ \A v \in Callers : v # t => at'[v] = at[v]
    BY DEF SleepWaits, ReleaseWaits, CondGoto, ListInv, CondTypes
  <1> QED
    BY <1>1, <1>2, <1>3, <1>4 DEF InKernel

\* A call returns.
LEMMA ReturnsInside ==
  ASSUME CondIInv, NEW t \in Callers, Slept(t) \/ Released(t)
  PROVE  IInv' /\ InKernel'
  <1> USE DEF CondIInv
  <1>1. Restore(t)
    BY DEF Slept, Released
  <1>2. IInv'
    BY <1>1, RestoreStep
  <1>3. /\ kpc'[t] = "idle"
        /\ \A v \in Callers : v # t =>
              value'[v] = value[v] /\ side'[v] = side[v] /\ kpc'[v] = kpc[v]
    BY <1>1 DEF Restore, Forget, IInv, KeyedTypeOK
  <1>4. /\ entry' = entry /\ at'[t] \notin {"waiting", "zero"}
        /\ \A v \in Callers : v # t => at'[v] = at[v]
    BY DEF Slept, Released, CondGoto, ListInv, CondTypes
  <1> QED
    BY <1>2, <1>3, <1>4 DEF InKernel

\* A thread in the kernel goes on there.
LEMMA KernelInside ==
  ASSUME CondIInv, NEW t \in Callers, Kernel(t) \/ Timeout(t)
  PROVE  IInv' /\ InKernel'
  <1> USE DEF CondIInv
  <1>1. Woken(t) \/ Unlist(t) \/ NotListed(t) \/ Aborted(t)
    BY DEF Kernel, Timeout
  <1>2. IInv'
    BY <1>1, WokenStep, UnlistStep, NotListedStep, AbortedStep
  <1>3. /\ UNCHANGED <<value, side>>
        /\ kpc[t] # "idle" /\ kpc'[t] # "idle"
        /\ \A v \in Callers : v # t => kpc'[v] = kpc[v]
    BY <1>1 DEF Woken, Unlist, NotListed, Aborted, IInv, KeyedTypeOK
  <1>4. entry' = entry /\ at' = at
    BY DEF Kernel, Timeout, condVars
  <1> QED
    BY <1>2, <1>3, <1>4 DEF InKernel

\* The invariant of a condition variable, whatever the processes of its threads.
THEOREM CondInvariance == CondSpec => []CondIInv
  <1>1. CondInit => CondIInv
    <2> SUFFICES ASSUME CondInit PROVE CondIInv
      OBVIOUS
    <2>1. KeyedInit
      BY DEF CondInit
    <2>2. InKernel
      BY DEF CondInit, KeyedInit, InKernel
    <2> QED
      BY <2>1, <2>2, InitList, InitIInv DEF CondIInv
  <1>2. CondIInv /\ [CondNext]_<<condVars, keyedVars>> => CondIInv'
    <2> SUFFICES ASSUME CondIInv, [CondNext]_<<condVars, keyedVars>> PROVE CondIInv'
      OBVIOUS
    <2>1. ListInv'
      BY StepKeepsList DEF CondIInv
    <2>2. IInv' /\ InKernel'
      <3>1. CASE UNCHANGED <<condVars, keyedVars>>
        <4>1. IInv'
          BY <3>1 DEF CondIInv, keyedVars, IInv, KeyedTypeOK, Listed, Distinct, Separate, Waiting,
                      Returned, Places, IsListed
        <4>2. InKernel'
          BY <3>1 DEF CondIInv, keyedVars, condVars, InKernel
        <4> QED
          BY <4>1, <4>2
      <3>2. CASE CondNext
        <4>1. PICK t \in Callers :
                 \/ AcquireLock(t) \/ ReleaseLock(t) \/ Begin(t) \/ Reacquire(t)
                 \/ Sleeping(t) \/ Waking(t) \/ Kernel(t) \/ Timeout(t)
          BY <3>2 DEF CondNext
        <4>2. CASE AcquireLock(t) \/ ReleaseLock(t) \/ Begin(t) \/ Reacquire(t)
          BY <4>2, ListStepsOutside
        <4>3. CASE Sleeping(t)
          BY <4>3, ListStepsOutside, MeetsInside, WaitsInside, ReturnsInside DEF Sleeping
        <4>4. CASE Waking(t)
          BY <4>4, ListStepsOutside, MeetsInside, WaitsInside, ReturnsInside, KernelInside
             DEF Waking
        <4>5. CASE Kernel(t) \/ Timeout(t)
          BY <4>5, KernelInside
        <4> QED
          BY <4>1, <4>2, <4>3, <4>4, <4>5
      <3> QED
        BY <3>1, <3>2
    <2> QED
      BY <2>1, <2>2 DEF CondIInv
  <1> QED
    BY <1>1, <1>2, PTL DEF CondSpec

\* Entries on the stacks of threads that come and go are used while they are there,
\* and removed once, for any threads, timeouts and processes.
THEOREM EntriesTheorem == CondSpec => []EntriesSafe
  <1>1. CondIInv => EntriesSafe
    <2> SUFFICES ASSUME CondIInv PROVE EntriesSafe
      OBVIOUS
    <2> USE DEF CondIInv, ListInv
    <2>1. CondTypeOK
      BY DEF CondTypes, CondTypeOK, IInv
    <2>2. Entries \subseteq Callers
      BY EntriesType
    <2>3. \A t \in Entries : HasFrame(t) /\ ~handled[t]
      BY <2>2 DEF Framed, Framing, HasFrame
    <2>4. \A t \in Callers : entry[t] # NoEntry => entry[t] \in Entries
      <3> SUFFICES ASSUME NEW t \in Callers, entry[t] # NoEntry PROVE entry[t] \in Entries
        OBVIOUS
      <3>1. entries # <<>> /\ entry[t] = entries[Len(entries)]
        BY DEF Oldest
      <3>2. Len(entries) \in DOMAIN entries
        BY <3>1 DEF CondTypes
      <3> QED
        BY <3>1, <3>2 DEF Entries
    <2>5. \A t \in Callers : remove[t] # NoEntry => remove[t] \in Entries
      BY DEF Removing
    <2>6. NoDangling
      BY <2>3, <2>4, <2>5 DEF NoDangling
    <2>7. RemovedOnce
      BY <2>3, <2>5 DEF RemovedOnce, HasFrame
    <2> QED
      BY <2>1, <2>6, <2>7 DEF EntriesSafe
  <1> QED
    BY <1>1, CondInvariance, PTL

-----------------------------------------------------------------------------
\* The partner that is met is the one thread taken off the lists.
LEMMA MeetLists ==
  ASSUME IInv, NEW t \in Callers, NEW k \in Keys, NEW r \in Sides, Meet(t, k, r)
  PROVE  \E u \in Callers :
            /\ IsListed(u) /\ value[u] = k /\ side[u] = Other(r)
            /\ \A v \in Callers : IsListed(v)' <=> IsListed(v) /\ v # u
  <1> USE DEF IInv
  <1>1. PICK b \in Buckets, o \in Sides : b = Hash(k, Process[t]) /\ o = Other(r)
    BY KeyAssumption DEF Other, Sides
  <1>2. PICK i \in Places(b, o) :
           /\ IsPartner(list[b][o][i], k, Process[t])
           /\ list' = [list EXCEPT ![b][o] = Without(list[b][o], i)]
    BY <1>1 DEF Meet, Places
  <1>3. PICK u \in Callers : u = list[b][o][i]
    BY <1>1, ListType
  <1>4. IsListed(u) /\ value[u] = k /\ side[u] = o
    BY <1>2, <1>3 DEF IsListed, Places, IsPartner, Listed
  <1> HIDE DEF IInv
  <1>5. KeyedTypeOK /\ Listed /\ Distinct
    BY DEF IInv
  <1>6. /\ \A c \in Buckets, q \in Sides : \A j \in 1 .. Len(list'[c][q]) :
              list'[c][q][j] \in Elements(c, q) \ {list[b][o][i]}
        /\ ListedThreads \ {list[b][o][i]} \subseteq ListedThreads'
    BY <1>2, <1>5, TakenOff
  <1>7. ASSUME NEW v \in Callers, IsListed(v)' PROVE IsListed(v) /\ v # u
    <2>1. PICK c \in Buckets, q \in Sides : \E j \in 1 .. Len(list'[c][q]) : list'[c][q][j] = v
      BY <1>7 DEF IsListed
    <2>2. v \in Elements(c, q) \ {u}
      BY <1>3, <1>6, <2>1
    <2> QED
      BY <2>2 DEF Elements, Places, IsListed
  <1>8. \A v \in Callers : IsListed(v) /\ v # u => IsListed(v)'
    BY <1>3, <1>6 DEF ListedThreads
  <1> QED
    BY <1>1, <1>4, <1>7, <1>8

\* The thread that waits is the one that gets on a list, and no partner is there.
LEMMA EnlistLists ==
  ASSUME IInv, NEW t \in Callers, NEW k \in Keys, NEW r \in Sides, Enlist(t, k, r)
  PROVE  /\ \A v \in Callers : IsListed(v)' => IsListed(v) \/ v = t
         /\ \A v \in Callers : IsListed(v) /\ side[v] = Other(r) /\ Process[v] = Process[t]
                                 => value[v] # k
  <1> USE DEF IInv
  <1> DEFINE b == Hash(k, Process[t])
  <1>1. b \in Buckets /\ kpc[t] = "idle" /\ list' = [list EXCEPT ![b][r] = Append(@, t)]
    BY KeyAssumption DEF Enlist
  <1>2. ~IsListed(t)
    BY <1>1 DEF Listed, IsListed, Places
  <1>3. \A i \in Places(b, Other(r)) :
            ~/\ value[list[b][Other(r)][i]] = k
             /\ Process[list[b][Other(r)][i]] = Process[t]
    BY DEF Enlist, IsPartner, Places
  <1>4. ASSUME NEW v \in Callers, IsListed(v), side[v] = Other(r), Process[v] = Process[t],
               value[v] = k
        PROVE  FALSE
    <2>1. PICK c \in Buckets, q \in Sides : \E i \in Places(c, q) : list[c][q][i] = v
      BY <1>4 DEF IsListed, Places
    <2>2. PICK i \in Places(c, q) : list[c][q][i] = v
      BY <2>1
    <2>3. q = Other(r) /\ c = b
      BY <1>4, <2>2 DEF Listed
    <2> QED
      BY <1>3, <1>4, <2>2, <2>3
  <1> HIDE DEF IInv, b
  <1>5. KeyedTypeOK /\ Distinct
    BY DEF IInv
  <1>6. /\ list' \in [Buckets -> [Sides -> Seq(Callers)]]
        /\ Distinct'
        /\ \A c \in Buckets, q \in Sides : \A j \in Places(c, q)' :
              \/ c = b /\ q = r /\ list'[c][q][j] = t
              \/ j \in Places(c, q) /\ list'[c][q][j] = list[c][q][j]
        /\ \A c \in Buckets, q \in Sides : \A j \in Places(c, q) :
              j \in Places(c, q)' /\ list'[c][q][j] = list[c][q][j]
        /\ IsListed(t)'
    BY <1>1, <1>2, <1>5, Appended
  <1>7. \A v \in Callers : IsListed(v)' => IsListed(v) \/ v = t
    <2> SUFFICES ASSUME NEW v \in Callers, IsListed(v)', v # t PROVE IsListed(v)
      OBVIOUS
    <2>1. PICK c \in Buckets, q \in Sides : \E j \in Places(c, q)' : list'[c][q][j] = v
      BY DEF IsListed, Places
    <2>2. PICK j \in Places(c, q)' : list'[c][q][j] = v
      BY <2>1
    <2>3. j \in Places(c, q) /\ list[c][q][j] = v
      BY <1>6, <2>2
    <2> QED
      BY <2>3 DEF IsListed, Places
  <1> QED
    BY <1>4, <1>7

\* Nobody gets on a list otherwise.
LEMMA OtherLists ==
  ASSUME IInv, NEW t \in Callers,
         Woken(t) \/ Aborted(t) \/ Unlist(t) \/ NotListed(t) \/ Restore(t)
  PROVE  \A v \in Callers : IsListed(v)' => IsListed(v)
  <1> USE DEF IInv
  <1>1. CASE list' = list
    BY <1>1 DEF IsListed
  <1>2. CASE Unlist(t)
    <2>1. value[t] \in Keys
      BY <1>2 DEF Unlist, Returned
    <2>2. PICK b \in Buckets, s \in Sides : b = Bucket(t) /\ s = side[t]
      BY <2>1, KeyAssumption DEF Bucket, KeyedTypeOK
    <2>3. PICK i \in Places(b, s) : list' = [list EXCEPT ![b][s] = Without(list[b][s], i)]
      BY <1>2, <2>2 DEF Unlist, Places
    <2> HIDE DEF IInv
    <2>4. KeyedTypeOK /\ Listed /\ Distinct
      BY DEF IInv
    <2>5. \A c \in Buckets, q \in Sides : \A j \in 1 .. Len(list'[c][q]) :
              list'[c][q][j] \in Elements(c, q) \ {list[b][s][i]}
      BY <2>3, <2>4, TakenOff
    <2> SUFFICES ASSUME NEW v \in Callers, IsListed(v)' PROVE IsListed(v)
      OBVIOUS
    <2>6. PICK c \in Buckets, q \in Sides : \E j \in 1 .. Len(list'[c][q]) : list'[c][q][j] = v
      BY DEF IsListed
    <2>7. v \in Elements(c, q)
      BY <2>5, <2>6
    <2> QED
      BY <2>7 DEF Elements, Places, IsListed
  <1> QED
    BY <1>1, <1>2 DEF Woken, Aborted, NotListed, Restore

-----------------------------------------------------------------------------
(***************************************************************************)
(* Whom a wake wakes.  A wake for one is met by one sleeper: by the one it *)
(* finds or by one that finds it, while it is on a list (WokenOnce).  A    *)
(* wake for all has the sleepers of its beginning before it, none of which *)
(* can begin to sleep again without the lock it has (StillAsleep).         *)
(***************************************************************************)
InWake == {"release", "zero", "released", "woke", "done"}

Fresh == \A w \in Callers : at[w] \notin InWake => woken[w] = 0 /\ asleep[w] = {}

WokenOnce ==
    \A w \in Callers : ~all[w] =>
        /\ woken[w] <= 1
        /\ at[w] = "release" => woken[w] = 0
        /\ at[w] = "zero" /\ IsListed(w) => woken[w] = 0

StillAsleep ==
    \A w \in Callers : \A u \in asleep[w] :
        /\ at[u] \notin {"inserted", "drop", "sleep"}
        /\ all[w] /\ IsAsleep(u) =>
              /\ at[w] # "woke"
              /\ at[w] \in AtAnEntry => u \in Entries
              /\ at[w] \in {"zero", "released"} => u # entry[w]

WakeInv == Fresh /\ WokenOnce /\ StillAsleep

\* A thread that takes part in no wake, nor begins to sleep, goes on.
LEMMA OthersKeepWake ==
  ASSUME ListInv, WakeInv, NEW t \in Callers,
         UNCHANGED <<woken, asleep, all, entry>>,
         \A v \in Callers : v # t => at'[v] = at[v],
         at[t] \in InWake <=> at'[t] \in InWake,
         at[t] \in InWake => at'[t] = at[t] \/ at'[t] = "done",
         at'[t] \in {"inserted", "drop", "sleep"} =>
             locked = NoEntry \/ at[t] \in {"inserted", "drop", "sleep"},
         \A v \in Callers : IsListed(v)' => IsListed(v),
         at'[t] = "waiting" => at[t] = "waiting",
         Entries' = Entries \/ \A w \in Callers : at'[w] \notin AtAnEntry
  PROVE  WakeInv'
  <1> USE DEF WakeInv
  <1>1. Fresh'
    BY DEF Fresh
  <1>2. WokenOnce'
    <2>1. \A w \in Callers : at'[w] \in {"release", "zero"} => at[w] = at'[w]
      BY DEF InWake
    <2> QED
      BY <2>1 DEF WokenOnce
  <1>3. asleep \in [Callers -> SUBSET Callers]
    BY DEF ListInv, CondTypes
  <1>4. \A u \in Callers : IsAsleep(u)' => IsAsleep(u)
    BY DEF IsAsleep
  <1>5. locked = NoEntry => \A w \in Callers : asleep[w] = {}
    BY NullIsNone DEF ListInv, LockOwner, Fresh, InWake, Editing
  <1>6. StillAsleep'
    <2> SUFFICES ASSUME NEW w \in Callers, NEW u \in asleep[w]
                 PROVE  /\ at'[u] \notin {"inserted", "drop", "sleep"}
                        /\ all[w] /\ IsAsleep(u)' =>
                              /\ at'[w] # "woke"
                              /\ at'[w] \in AtAnEntry => u \in Entries'
                              /\ at'[w] \in {"zero", "released"} => u # entry[w]
      BY DEF StillAsleep
    <2>1. u \in Callers
      BY <1>3
    <2>2. at'[u] \notin {"inserted", "drop", "sleep"}
      BY <1>5, <2>1 DEF StillAsleep
    <2>3. at'[w] \in {"woke"} \cup AtAnEntry => at'[w] = at[w]
      BY DEF AtAnEntry, InWake
    <2> QED
      BY <1>4, <2>1, <2>2, <2>3 DEF StillAsleep, AtAnEntry
  <1> QED
    BY <1>1, <1>2, <1>6

\* The steps of threads that take part in no wake, or only end one.
LEMMA OtherStepsKeepWake ==
  ASSUME CondIInv, WakeInv, NEW t \in Callers,
         \/ AcquireLock(t) \/ ReleaseLock(t) \/ LockInsert(t) \/ Reacquire(t)
         \/ Drop(t) \/ Slept(t) \/ CheckHandled(t) \/ SpinAbort(t) \/ SpinEmpty(t)
         \/ SpinLock(t) \/ Leave(t) \/ RemoveHead(t) \/ Kernel(t) \/ Timeout(t)
  PROVE  WakeInv'
  <1> USE DEF CondIInv
  <1>1. at \in [Callers -> Pcs]
    BY DEF ListInv, CondTypes
  <1>2. UNCHANGED <<woken, asleep, all, entry>>
    BY DEF AcquireLock, ReleaseLock, LockInsert, Reacquire, Drop, Slept, CheckHandled,
           SpinAbort, SpinEmpty, SpinLock, Leave, RemoveHead, RemoveEntry, Kernel, Timeout,
           condVars
  <1>3. \A v \in Callers : IsListed(v)' => IsListed(v)
    <2>1. CASE Slept(t)
      BY <2>1, OtherLists DEF Slept
    <2>2. CASE Kernel(t) \/ Timeout(t)
      BY <2>2, OtherLists DEF Kernel, Timeout
    <2>3. CASE list' = list
      BY <2>3 DEF IsListed
    <2>4. Slept(t) \/ Kernel(t) \/ Timeout(t) \/ list' = list
      BY DEF AcquireLock, ReleaseLock, LockInsert, Reacquire, Drop, CheckHandled,
             SpinAbort, SpinEmpty, SpinLock, Leave, RemoveHead, RemoveEntry, keyedVars
    <2> QED
      BY <2>1, <2>2, <2>3, <2>4
  <1>4. CASE AcquireLock(t) \/ ReleaseLock(t) \/ Kernel(t) \/ Timeout(t)
    <2>1. at' = at /\ entries' = entries
      BY <1>4 DEF AcquireLock, ReleaseLock, Kernel, Timeout, condVars
    <2>2. Entries' = Entries
      BY <2>1 DEF Entries
    <2> QED
      BY <1>2, <1>3, <2>1, <2>2, OthersKeepWake
  <1>5. CASE Reacquire(t) \/ Drop(t) \/ Slept(t) \/ CheckHandled(t) \/ SpinAbort(t)
               \/ SpinEmpty(t) \/ SpinLock(t)
    <2>1. /\ entries' = entries
          /\ at[t] \in {"return", "drop", "waiting", "slept", "spin"}
          /\ at'[t] \in {"idle", "sleep", "slept", "return", "spin", "leave"}
          /\ at'[t] = "sleep" => at[t] = "drop"
          /\ \A v \in Callers : v # t => at'[v] = at[v]
      BY <1>1, <1>5 DEF Reacquire, Drop, Slept, CheckHandled, SpinAbort, SpinEmpty, SpinLock,
                        CondGoto
    <2>2. Entries' = Entries
      BY <2>1 DEF Entries
    <2>3. at[t] \notin InWake /\ at'[t] \notin InWake
      BY <2>1 DEF InWake
    <2> QED
      BY <1>2, <1>3, <2>1, <2>2, <2>3, OthersKeepWake
  <1>6. CASE LockInsert(t)
    <2>1. /\ at[t] = "idle" /\ at'[t] = "inserted" /\ locked = NoEntry
          /\ \A v \in Callers : v # t => at'[v] = at[v]
      BY <1>1, <1>6 DEF LockInsert, CondGoto
    <2>2. \A w \in Callers : at'[w] \notin AtAnEntry
      BY <2>1, NullIsNone DEF ListInv, LockOwner, Editing, AtAnEntry
    <2>3. at[t] \notin InWake /\ at'[t] \notin InWake
      BY <2>1 DEF InWake
    <2> QED
      BY <1>2, <1>3, <2>1, <2>2, <2>3, OthersKeepWake
  <1>7. CASE Leave(t) \/ RemoveHead(t)
    <2>1. /\ \/ at[t] = "leave" /\ at'[t] = "left"
             \/ at[t] = "woke" /\ at'[t] = "done"
          /\ \A v \in Callers : v # t => at'[v] = at[v]
      BY <1>1, <1>7 DEF Leave, RemoveHead, RemoveEntry, CondGoto
    <2>2. locked = t
      BY <2>1 DEF ListInv, LockOwner, Editing
    <2>3. \A w \in Callers : at'[w] \notin AtAnEntry
      BY <2>1, <2>2 DEF ListInv, LockOwner, Editing, AtAnEntry
    <2>4. at[t] \in InWake <=> at'[t] \in InWake
      BY <2>1 DEF InWake
    <2>5. at'[t] \notin {"inserted", "drop", "sleep", "waiting"}
      BY <2>1
    <2>6. at[t] \in InWake => at'[t] = "done"
      BY <2>1 DEF InWake
    <2> QED
      BY <1>2, <1>3, <2>1, <2>3, <2>4, <2>5, <2>6, OthersKeepWake
  <1> QED
    BY <1>4, <1>5, <1>6, <1>7

\* The thread forgets about its wake, if it was one.
LEMMA UnlocksKeepWake ==
  ASSUME CondIInv, WakeInv, NEW t \in Callers,
         UnlockInserted(t) \/ UnlockLeft(t) \/ UnlockWoke(t)
  PROVE  WakeInv'
  <1> USE DEF CondIInv, ListInv, WakeInv
  <1>1. /\ at[t] \in {"inserted", "left", "done"}
        /\ at'[t] \in {"drop", "return", "idle"}
        /\ at'[t] = "drop" => at[t] = "inserted"
        /\ \A v \in Callers : v # t => at'[v] = at[v]
    BY DEF UnlockInserted, UnlockLeft, UnlockWoke, ClearFlag, CondGoto, CondTypes
  <1>2. /\ woken'[t] = 0 /\ asleep'[t] = {}
        /\ \A v \in Callers : v # t => /\ woken'[v] = woken[v] /\ asleep'[v] = asleep[v]
                                       /\ entry'[v] = entry[v] /\ all'[v] = all[v]
    BY DEF UnlockInserted, UnlockLeft, UnlockWoke, ClearFlag, CondTypes
  <1>3. UNCHANGED <<entries, list>> /\ Entries' = Entries
    BY DEF UnlockInserted, UnlockLeft, UnlockWoke, ClearFlag, keyedVars, Entries
  <1>4. \A v \in Callers : /\ IsListed(v)' = IsListed(v)
                           /\ IsAsleep(v)' => IsAsleep(v)
    BY <1>1, <1>3 DEF IsListed, IsAsleep
  <1>5. Fresh'
    BY <1>1, <1>2 DEF Fresh, InWake
  <1>6. WokenOnce'
    BY <1>1, <1>2, <1>4 DEF WokenOnce
  <1>7. StillAsleep'
    <2> SUFFICES ASSUME NEW w \in Callers, NEW u \in asleep'[w]
                 PROVE  /\ at'[u] \notin {"inserted", "drop", "sleep"}
                        /\ all'[w] /\ IsAsleep(u)' =>
                              /\ at'[w] # "woke"
                              /\ at'[w] \in AtAnEntry => u \in Entries'
                              /\ at'[w] \in {"zero", "released"} => u # entry'[w]
      BY DEF StillAsleep
    <2>1. w # t /\ u \in asleep[w] /\ u \in Callers
      BY <1>2 DEF CondTypes
    <2> QED
      BY <1>1, <1>2, <1>3, <1>4, <2>1 DEF StillAsleep
  <1> QED
    BY <1>5, <1>6, <1>7

\* A wake begins: those asleep are on the list.
LEMMA LockWakeKeepsWake ==
  ASSUME CondIInv, WakeInv, NEW t \in Callers, NEW a \in BOOLEAN, LockWake(t, a)
  PROVE  WakeInv'
  <1> USE DEF CondIInv, ListInv, WakeInv
  <1>1. /\ at[t] = "idle" /\ at'[t] = "release" /\ locked = NoEntry
        /\ \A v \in Callers : v # t => at'[v] = at[v]
    BY DEF LockWake, CondGoto, CondTypes
  <1>2. /\ woken' = woken /\ asleep'[t] \subseteq {u \in Entries : IsAsleep(u)}
        /\ \A v \in Callers : v # t => /\ asleep'[v] = asleep[v] /\ all'[v] = all[v]
    BY DEF LockWake, CondTypes
  <1>3. UNCHANGED <<entries, list>> /\ Entries' = Entries
    BY DEF LockWake, keyedVars, Entries
  <1>4. \A v \in Callers : /\ IsListed(v)' = IsListed(v)
                           /\ IsAsleep(v)' => IsAsleep(v)
    BY <1>1, <1>3 DEF IsListed, IsAsleep
  <1>5. \A w \in Callers : woken[w] = 0 /\ asleep[w] = {}
    BY <1>1, NullIsNone DEF LockOwner, Fresh, Editing, InWake
  <1>6. Fresh'
    BY <1>1, <1>2, <1>5 DEF Fresh, InWake
  <1>7. WokenOnce'
    BY <1>2, <1>5 DEF WokenOnce
  <1>8. StillAsleep'
    <2> SUFFICES ASSUME NEW w \in Callers, NEW u \in asleep'[w]
                 PROVE  /\ at'[u] \notin {"inserted", "drop", "sleep"}
                        /\ all'[w] /\ IsAsleep(u)' =>
                              /\ at'[w] # "woke"
                              /\ at'[w] \in AtAnEntry => u \in Entries'
                              /\ at'[w] \in {"zero", "released"} => u # entry'[w]
      BY DEF StillAsleep
    <2>1. w = t /\ u \in Entries /\ IsAsleep(u)
      BY <1>2, <1>5
    <2>2. u \in Callers
      BY <2>1, EntriesType
    <2> QED
      BY <1>1, <1>3, <2>1, <2>2 DEF IsAsleep
  <1> QED
    BY <1>6, <1>7, <1>8

\* Who is on a list is in a call, on the side it is on.
LEMMA ListedWhere ==
  ASSUME CondIInv, NEW u \in Callers, IsListed(u)
  PROVE  /\ side[u] = "wait" => at[u] = "waiting" /\ value[u] = u
         /\ side[u] = "release" =>
               /\ at[u] = "zero" /\ value[u] = entry[u] /\ locked = u
  <1>1. kpc[u] # "idle"
    BY DEF CondIInv, IInv, Listed, IsListed, Places
  <1>2. at[u] \in {"waiting", "zero"}
    BY <1>1 DEF CondIInv, InKernel
  <1>3. at[u] = "zero" => locked = u
    BY DEF CondIInv, ListInv, LockOwner, Editing
  <1> QED
    BY <1>2, <1>3 DEF CondIInv, InKernel

\* The one wake that has the lock is the only one, at whatever entry it is.
LEMMA OneWake ==
  ASSUME ListInv, NEW w \in Callers, entry[w] # NoEntry \/ at[w] \in InWake
  PROVE  locked = w
  BY DEF ListInv, Oldest, LockOwner, AtAnEntry, Editing, InWake

\* A sleeper comes while the wake for its entry is on a list.
LEMMA SleepMeetsKeepsWake ==
  ASSUME CondIInv, WakeInv, NEW t \in Callers, SleepMeets(t)
  PROVE  WakeInv'
  <1> USE DEF WakeInv
  <1>0. ListInv /\ CondTypes /\ IInv
    BY DEF CondIInv, ListInv
  <1>1. /\ at[t] = "sleep" /\ at'[t] = "slept"
        /\ \A v \in Callers : v # t => at'[v] = at[v]
    BY <1>0 DEF SleepMeets, CondGoto, CondTypes
  <1>2. UNCHANGED <<entries, entry, all, asleep>> /\ Entries' = Entries
    BY DEF SleepMeets, Entries
  <1>3. PICK u \in Callers :
             /\ IsListed(u) /\ value[u] = t /\ side[u] = "release"
             /\ \A v \in Callers : IsListed(v)' <=> IsListed(v) /\ v # u
    <2>1. Meet(t, t, "wait") /\ t \in Keys /\ "wait" \in Sides /\ Other("wait") = "release"
      BY NullIsNone DEF SleepMeets, Sides, Other
    <2> QED
      BY <1>0, <2>1, MeetLists
  <1>4. at[u] = "zero" /\ entry[u] = t /\ locked = u
    BY <1>3, ListedWhere
  <1>5. \A w \in Callers : entry[w] = t => w = u
    BY <1>0, <1>4, OneWake, NullIsNone
  <1>6. \A w \in Callers : woken'[w] = IF w = u /\ ~all[w] THEN woken[w] + 1 ELSE woken[w]
    BY <1>4, <1>5 DEF SleepMeets
  <1>7. \A v \in Callers : IsAsleep(v)' => IsAsleep(v)
    BY <1>1, <1>3 DEF IsAsleep
  <1>8. Fresh'
    BY <1>1, <1>2, <1>4, <1>6 DEF Fresh, InWake
  <1>9. WokenOnce'
    <2> SUFFICES ASSUME NEW w \in Callers, ~all[w]
                 PROVE  /\ woken'[w] <= 1
                        /\ at'[w] = "release" => woken'[w] = 0
                        /\ at'[w] = "zero" /\ IsListed(w)' => woken'[w] = 0
      BY <1>2 DEF WokenOnce
    <2>1. CASE w = u
      <3>1. woken[u] = 0 /\ ~IsListed(u)' /\ at'[u] = "zero"
        BY <1>1, <1>3, <1>4, <2>1 DEF WokenOnce
      <3> QED
        BY <1>6, <2>1, <3>1
    <2>2. CASE w # u
      BY <1>1, <1>3, <1>6, <2>2 DEF WokenOnce
    <2> QED
      BY <2>1, <2>2
  <1>10. StillAsleep'
    <2> SUFFICES ASSUME NEW w \in Callers, NEW v \in asleep[w]
                 PROVE  /\ at'[v] \notin {"inserted", "drop", "sleep"}
                        /\ all[w] /\ IsAsleep(v)' =>
                              /\ at'[w] # "woke"
                              /\ at'[w] \in AtAnEntry => v \in Entries
                              /\ at'[w] \in {"zero", "released"} => v # entry[w]
      BY <1>2 DEF StillAsleep
    <2>1. v \in Callers
      BY <1>0 DEF CondTypes
    <2> QED
      BY <1>1, <1>7, <2>1 DEF StillAsleep, AtAnEntry
  <1> QED
    BY <1>8, <1>9, <1>10

\* A sleeper gets on a list: it was not asleep when the wake began.
LEMMA SleepWaitsKeepsWake ==
  ASSUME CondIInv, WakeInv, NEW t \in Callers, SleepWaits(t)
  PROVE  WakeInv'
  <1> USE DEF WakeInv
  <1>0. ListInv /\ CondTypes /\ IInv
    BY DEF CondIInv, ListInv
  <1>1. /\ at[t] = "sleep" /\ at'[t] = "waiting"
        /\ \A v \in Callers : v # t => at'[v] = at[v]
    BY <1>0 DEF SleepWaits, CondGoto, CondTypes
  <1>2. UNCHANGED <<entries, entry, all, woken, asleep>> /\ Entries' = Entries
    BY DEF SleepWaits, Entries
  <1>3. \A v \in Callers : IsListed(v)' => IsListed(v) \/ v = t
    <2>1. Enlist(t, t, "wait") /\ t \in Keys /\ "wait" \in Sides
      BY NullIsNone DEF SleepWaits, Sides
    <2> QED
      BY <1>0, <2>1, EnlistLists
  <1>4. Fresh'
    BY <1>1, <1>2 DEF Fresh, InWake
  <1>5. WokenOnce'
    BY <1>1, <1>2, <1>3 DEF WokenOnce
  <1>6. StillAsleep'
    <2> SUFFICES ASSUME NEW w \in Callers, NEW v \in asleep[w]
                 PROVE  /\ at'[v] \notin {"inserted", "drop", "sleep"}
                        /\ all[w] /\ IsAsleep(v)' =>
                              /\ at'[w] # "woke"
                              /\ at'[w] \in AtAnEntry => v \in Entries
                              /\ at'[w] \in {"zero", "released"} => v # entry[w]
      BY <1>2 DEF StillAsleep
    <2>1. v \in Callers /\ v # t
      BY <1>0, <1>1 DEF CondTypes, StillAsleep
    <2>2. IsAsleep(v)' => IsAsleep(v)
      BY <1>1, <1>3, <2>1 DEF IsAsleep
    <2> QED
      BY <1>1, <2>1, <2>2 DEF StillAsleep, AtAnEntry
  <1> QED
    BY <1>4, <1>5, <1>6

\* A wake goes on at its entry, whose owner does not sleep then.
LEMMA WakeGoesOn ==
  ASSUME ListInv, WakeInv, NEW t \in Callers,
         at[t] \in AtAnEntry, at'[t] \in {"zero", "released"},
         \A v \in Callers : v # t => at'[v] = at[v],
         UNCHANGED <<entries, entry, all, asleep>>,
         \A v \in Callers : IsAsleep(v)' => IsAsleep(v),
         at[t] = "release" => ~IsAsleep(entry[t])',
         \A v \in Callers : v # t => woken'[v] = woken[v] /\ (IsListed(v)' => IsListed(v)),
         ~all[t] => woken'[t] <= 1 /\ (at'[t] = "zero" => woken'[t] = 0)
  PROVE  WakeInv'
  <1> USE DEF WakeInv
  <1>0. CondTypes
    BY DEF ListInv
  <1>1. Entries' = Entries
    BY DEF Entries
  <1>2. Fresh'
    BY DEF Fresh, InWake
  <1>3. WokenOnce'
    BY DEF WokenOnce
  <1>4. StillAsleep'
    <2> SUFFICES ASSUME NEW w \in Callers, NEW v \in asleep[w]
                 PROVE  /\ at'[v] \notin {"inserted", "drop", "sleep"}
                        /\ all[w] /\ IsAsleep(v)' =>
                              /\ at'[w] # "woke"
                              /\ at'[w] \in AtAnEntry => v \in Entries
                              /\ at'[w] \in {"zero", "released"} => v # entry[w]
      BY <1>1 DEF StillAsleep
    <2>1. v \in Callers
      BY <1>0 DEF CondTypes
    <2>2. at'[v] \notin {"inserted", "drop", "sleep"}
      BY <2>1 DEF StillAsleep
    <2>3. CASE w # t
      BY <2>1, <2>2, <2>3 DEF StillAsleep, AtAnEntry
    <2>4. CASE w = t
      BY <2>1, <2>2, <2>4 DEF StillAsleep, AtAnEntry
    <2> QED
      BY <2>3, <2>4
  <1> QED
    BY <1>2, <1>3, <1>4

\* The wake finds the sleeper and takes it off its list.
LEMMA ReleaseMeetsKeepsWake ==
  ASSUME CondIInv, WakeInv, NEW t \in Callers, ReleaseMeets(t)
  PROVE  WakeInv'
  <1>0. ListInv /\ CondTypes /\ IInv
    BY DEF CondIInv, ListInv
  <1>1. /\ at[t] = "release" /\ at'[t] = "released"
        /\ \A v \in Callers : v # t => at'[v] = at[v]
    BY <1>0 DEF ReleaseMeets, CondGoto, CondTypes
  <1>2. UNCHANGED <<entries, entry, all, asleep>>
    BY DEF ReleaseMeets
  <1>3. at[t] \in AtAnEntry /\ entry[t] \in Callers /\ entry[t] \in Keys
    BY <1>0, <1>1, EntryIsKey DEF AtAnEntry
  <1>4. PICK u \in Callers :
             /\ IsListed(u) /\ value[u] = entry[t] /\ side[u] = "wait"
             /\ \A v \in Callers : IsListed(v)' <=> IsListed(v) /\ v # u
    <2>1. /\ Meet(t, entry[t], "release") /\ "release" \in Sides
          /\ Other("release") = "wait"
      BY DEF ReleaseMeets, Sides, Other
    <2> QED
      BY <1>0, <1>3, <2>1, MeetLists
  <1>5. u = entry[t]
    BY <1>4, ListedWhere
  <1>6. \A v \in Callers : IsAsleep(v)' => IsAsleep(v)
    BY <1>1, <1>4 DEF IsAsleep
  <1>7. ~IsAsleep(entry[t])'
    <2>1. entry'[t] = u /\ ~IsListed(u)'
      BY <1>2, <1>4, <1>5
    <2> QED
      BY <2>1 DEF IsAsleep, IsListed
  <1>8. /\ ~all[t] => woken'[t] = woken[t] + 1
        /\ \A v \in Callers : v # t => woken'[v] = woken[v]
    BY <1>0 DEF ReleaseMeets, CondTypes
  <1>9. ~all[t] => woken'[t] <= 1
    BY <1>1, <1>8 DEF WakeInv, WokenOnce
  <1> QED
    BY <1>0, <1>1, <1>2, <1>3, <1>4, <1>6, <1>7, <1>8, <1>9, WakeGoesOn

\* The wake finds nobody: the owner of the entry is on no list of its process.
LEMMA ReleaseWaitsKeepsWake ==
  ASSUME OneProcess, CondIInv, WakeInv, NEW t \in Callers, ReleaseWaits(t)
  PROVE  WakeInv'
  <1>0. ListInv /\ CondTypes /\ IInv
    BY DEF CondIInv, ListInv
  <1>1. /\ at[t] = "release" /\ at'[t] = "zero"
        /\ \A v \in Callers : v # t => at'[v] = at[v]
    BY <1>0 DEF ReleaseWaits, CondGoto, CondTypes
  <1>2. UNCHANGED <<entries, entry, all, woken, asleep>>
    BY DEF ReleaseWaits
  <1>3. at[t] \in AtAnEntry /\ entry[t] \in Callers /\ entry[t] \in Keys
    BY <1>0, <1>1, EntryIsKey DEF AtAnEntry
  <1>4. /\ \A v \in Callers : IsListed(v)' => IsListed(v) \/ v = t
        /\ \A v \in Callers : IsListed(v) /\ side[v] = "wait" /\ Process[v] = Process[t]
                                => value[v] # entry[t]
    <2>1. /\ Enlist(t, entry[t], "release") /\ "release" \in Sides
          /\ Other("release") = "wait"
      BY DEF ReleaseWaits, Sides, Other
    <2> QED
      BY <1>0, <1>3, <2>1, EnlistLists
  <1>5. \A v \in Callers : IsAsleep(v)' => IsAsleep(v)
    BY <1>1, <1>4 DEF IsAsleep
  <1>6. ~IsAsleep(entry[t])
    <2> SUFFICES ASSUME IsAsleep(entry[t]) PROVE FALSE
      OBVIOUS
    <2>1. IsListed(entry[t]) /\ at[entry[t]] = "waiting"
      BY DEF IsAsleep
    <2>2. side[entry[t]] = "wait" /\ value[entry[t]] = entry[t]
      BY <1>3, <2>1 DEF CondIInv, InKernel
    <2> QED
      BY <1>3, <1>4, <2>1, <2>2 DEF OneProcess
  <1>7. ~IsAsleep(entry[t])'
    <2>1. PICK u \in Callers : u = entry[t] /\ entry'[t] = u
      BY <1>2, <1>3
    <2>2. ~IsAsleep(u)'
      BY <1>5, <1>6, <2>1
    <2> QED
      BY <2>1, <2>2 DEF IsAsleep, IsListed
  <1>8. ~all[t] => woken'[t] <= 1 /\ woken'[t] = 0
    BY <1>1, <1>2 DEF WakeInv, WokenOnce
  <1> QED
    BY <1>0, <1>1, <1>2, <1>3, <1>4, <1>5, <1>7, <1>8, WakeGoesOn

\* The release is over, met or timed out.
LEMMA ReleasedKeepsWake ==
  ASSUME CondIInv, WakeInv, NEW t \in Callers, Released(t)
  PROVE  WakeInv'
  <1>0. ListInv /\ CondTypes /\ IInv
    BY DEF CondIInv, ListInv
  <1>1. /\ at[t] = "zero" /\ at'[t] = "released"
        /\ \A v \in Callers : v # t => at'[v] = at[v]
    BY <1>0 DEF Released, CondGoto, CondTypes
  <1>2. UNCHANGED <<entries, entry, all, woken, asleep>>
    BY DEF Released
  <1>3. \A v \in Callers : IsListed(v)' => IsListed(v)
    BY <1>0, OtherLists DEF Released
  <1>4. \A v \in Callers : IsAsleep(v)' => IsAsleep(v)
    BY <1>1, <1>3 DEF IsAsleep
  <1>5. ~all[t] => woken'[t] <= 1
    BY <1>2 DEF WakeInv, WokenOnce
  <1> QED
    BY <1>0, <1>1, <1>2, <1>3, <1>4, <1>5, WakeGoesOn DEF AtAnEntry

\* The oldest entry is the head: there is no other one left.
LEMMA KeepHeadKeepsWake ==
  ASSUME CondIInv, WakeInv, NEW t \in Callers, KeepHead(t)
  PROVE  WakeInv'
  <1> USE DEF WakeInv
  <1>0. ListInv /\ CondTypes /\ OnceEach
    BY DEF CondIInv, ListInv
  <1>1. /\ at[t] = "released" /\ at'[t] = "woke"
        /\ \A v \in Callers : v # t => at'[v] = at[v]
    BY <1>0 DEF KeepHead, CondGoto, CondTypes
  <1>2. UNCHANGED <<entries, list, all, woken, asleep>> /\ Entries' = Entries
    BY DEF KeepHead, keyedVars, Entries
  <1>3. \A v \in Callers : v # t => entry'[v] = entry[v]
    BY <1>0 DEF KeepHead, CondTypes
  <1>4. \A v \in Callers : /\ IsListed(v)' = IsListed(v)
                           /\ IsAsleep(v)' => IsAsleep(v)
    BY <1>1, <1>2 DEF IsListed, IsAsleep
  <1>5. Entries = {entry[t]}
    <2> DEFINE n == Len(entries)
    <2>1. n \in Nat /\ DOMAIN entries = 1 .. n /\ entries \in Seq(Callers)
      BY <1>0, EntriesType DEF CondTypes
    <2>2. entries # <<>> /\ entry[t] = entries[n]
      BY <1>0, <1>1 DEF ListInv, Oldest, AtAnEntry
    <2>3. n >= 1 /\ entry[t] = entries[1]
      BY <2>1, <2>2 DEF KeepHead
    <2>4. 1 \in DOMAIN entries /\ n \in DOMAIN entries /\ entries[1] = entries[n]
      BY <2>1, <2>2, <2>3
    <2>5. n = 1
      BY <1>0, <2>4 DEF OnceEach
    <2> QED
      BY <2>1, <2>2, <2>5 DEF Entries
  <1>6. Fresh'
    BY <1>1, <1>2 DEF Fresh, InWake
  <1>7. WokenOnce'
    BY <1>1, <1>2, <1>4 DEF WokenOnce
  <1>8. StillAsleep'
    <2> SUFFICES ASSUME NEW w \in Callers, NEW v \in asleep[w]
                 PROVE  /\ at'[v] \notin {"inserted", "drop", "sleep"}
                        /\ all[w] /\ IsAsleep(v)' =>
                              /\ at'[w] # "woke"
                              /\ at'[w] \in AtAnEntry => v \in Entries
                              /\ at'[w] \in {"zero", "released"} => v # entry'[w]
      BY <1>2 DEF StillAsleep
    <2>1. v \in Callers
      BY <1>0 DEF CondTypes
    <2>2. at'[v] \notin {"inserted", "drop", "sleep"}
      BY <1>1, <2>1 DEF StillAsleep
    <2>3. CASE w # t
      BY <1>1, <1>3, <1>4, <2>1, <2>2, <2>3 DEF StillAsleep
    <2>4. CASE w = t
      <3>1. all[t] /\ IsAsleep(v) => v \in Entries /\ v # entry[t]
        BY <1>1, <2>4 DEF StillAsleep, AtAnEntry
      <3> QED
        BY <1>4, <1>5, <2>1, <2>2, <2>4, <3>1
    <2> QED
      BY <2>3, <2>4
  <1> QED
    BY <1>6, <1>7, <1>8

\* The oldest entry goes, whose owner does not sleep; there is another one.
LEMMA UnlinkKeepsWake ==
  ASSUME CondIInv, WakeInv, NEW t \in Callers, Unlink(t)
  PROVE  WakeInv'
  <1> USE DEF WakeInv
  <1>0. ListInv /\ CondTypes /\ OnceEach
    BY DEF CondIInv, ListInv
  <1>1. /\ at[t] = "released" /\ entry[t] # Head(entries)
        /\ \A v \in Callers : v # t => at'[v] = at[v]
    BY <1>0 DEF Unlink, CondGoto, CondTypes
  <1>2. entry[t] \in Entries /\ NextEntry(t) \in Callers
    BY <1>0, <1>1, OldestNotHead
  <1>3. at'[t] = IF all[t] THEN "release" ELSE "woke"
    BY <1>0, <1>2, NullIsNone DEF Unlink, CondGoto, CondTypes
  <1>4. UNCHANGED <<list, all, woken, asleep>>
    BY DEF Unlink, keyedVars
  <1>5. Entries' = Entries \ {entry[t]}
    <2>1. PICK u \in Entries : u = entry[t] /\ entries' = Unlinked(u)
      BY <1>2 DEF Unlink
    <2> QED
      BY <1>0, <2>1, UnlinkedOne
  <1>6. \A v \in Callers : v # t => at[v] \notin InWake
    <2>1. locked = t
      BY <1>0, <1>1, OneWake DEF InWake
    <2> QED
      BY <1>0, <2>1, OneWake
  <1>7. \A v \in Callers : /\ IsListed(v)' = IsListed(v)
                           /\ IsAsleep(v)' => IsAsleep(v)
    BY <1>1, <1>3, <1>4 DEF IsListed, IsAsleep
  <1>8. Fresh'
    BY <1>1, <1>3, <1>4 DEF Fresh, InWake
  <1>9. WokenOnce'
    BY <1>1, <1>3, <1>4, <1>7 DEF WokenOnce
  <1>10. StillAsleep'
    <2> SUFFICES ASSUME NEW w \in Callers, NEW v \in asleep[w]
                 PROVE  /\ at'[v] \notin {"inserted", "drop", "sleep"}
                        /\ all[w] /\ IsAsleep(v)' =>
                              /\ at'[w] # "woke"
                              /\ at'[w] \in AtAnEntry => v \in Entries'
                              /\ at'[w] \in {"zero", "released"} => v # entry'[w]
      BY <1>4 DEF StillAsleep
    <2>1. w = t /\ v \in Callers
      BY <1>0, <1>6 DEF CondTypes, Fresh
    <2>2. at'[v] \notin {"inserted", "drop", "sleep"}
      BY <1>1, <1>3, <2>1 DEF StillAsleep
    <2>3. all[t] /\ IsAsleep(v) => v \in Entries /\ v # entry[t]
      BY <1>1, <2>1 DEF StillAsleep, AtAnEntry
    <2> QED
      BY <1>3, <1>5, <1>7, <2>1, <2>2, <2>3
  <1> QED
    BY <1>8, <1>9, <1>10

\* Who wakes and who is woken, of threads of one process.
THEOREM WakeInvariance ==
  ASSUME OneProcess
  PROVE  CondSpec => [](CondIInv /\ WakeInv)
  <1>1. CondInit => WakeInv
    BY DEF CondInit, WakeInv, Fresh, WokenOnce, StillAsleep
  <1>2. CondIInv /\ WakeInv /\ [CondNext]_<<condVars, keyedVars>> => WakeInv'
    <2> SUFFICES ASSUME CondIInv, WakeInv, [CondNext]_<<condVars, keyedVars>>
                 PROVE  WakeInv'
      OBVIOUS
    <2>1. CASE UNCHANGED <<condVars, keyedVars>>
      BY <2>1 DEF condVars, keyedVars, WakeInv, Fresh, WokenOnce, StillAsleep, IsAsleep, IsListed,
                  Entries
    <2>2. CASE CondNext
      <3>1. PICK t \in Callers :
               \/ AcquireLock(t) \/ ReleaseLock(t) \/ Begin(t) \/ Reacquire(t)
               \/ Sleeping(t) \/ Waking(t) \/ Kernel(t) \/ Timeout(t)
        BY <2>2 DEF CondNext
      <3>2. CASE Begin(t)
        BY <3>2, OtherStepsKeepWake, LockWakeKeepsWake DEF Begin
      <3>3. CASE Sleeping(t)
        BY <3>3, OtherStepsKeepWake, UnlocksKeepWake, SleepMeetsKeepsWake,
           SleepWaitsKeepsWake DEF Sleeping
      <3>4. CASE Waking(t)
        BY <3>4, OtherStepsKeepWake, UnlocksKeepWake, ReleaseMeetsKeepsWake,
           ReleaseWaitsKeepsWake, ReleasedKeepsWake, KeepHeadKeepsWake, UnlinkKeepsWake
           DEF Waking
      <3> QED
        BY <3>1, <3>2, <3>3, <3>4, OtherStepsKeepWake
    <2> QED
      BY <2>1, <2>2
  <1> QED
    BY <1>1, <1>2, CondInvariance, PTL DEF CondSpec

\* A wake wakes one, or all who slept, the oldest first, for any threads of a
\* process.
THEOREM WakesTheorem ==
  ASSUME OneProcess
  PROVE  CondSpec => []WakesCorrect
  <1>1. CondIInv /\ WakeInv => WakesCorrect
    <2> SUFFICES ASSUME CondIInv, WakeInv PROVE WakesCorrect
      OBVIOUS
    <2>1. FifoOrder
      BY DEF CondIInv, ListInv, Oldest, FifoOrder
    <2>2. WokenAsAsked
      BY DEF WakeInv, WokenOnce, StillAsleep, WokenAsAsked
    <2> QED
      BY <2>1, <2>2 DEF WakesCorrect
  <1> QED
    BY <1>1, WakeInvariance, PTL
=============================================================================
