--------------------------- MODULE MessagesProofs ---------------------------
(***************************************************************************)
(* What the objects of Ipc promise the threads that use them, for every    *)
(* number of threads, objects and messages and whatever other services the *)
(* application uses.  Wherever the tick comes, a semaphore implements      *)
(* CountingSemaphore, no message is lost or doubled and schedule() finds a *)
(* thread.  The mailboxes and queues implement Channel, and the whole      *)
(* kernel PriorityScheduler, if the tick stays out of the two windows of   *)
(* ListsProofs.                                                            *)
(***************************************************************************)
EXTENDS IpcProofs, DispatchProofs

(***************************************************************************)
(* Lists: what insert_before_list and insert_back_list have in common.     *)
(***************************************************************************)

\* K is L with thread t linked into list l behind its k-th node.
PutIn(L, K, l, k, t) ==
  /\ K \in [ListIds -> Seq(Threads)]
  /\ \A m \in ListIds \ {l} : K[m] = L[m]
  /\ k \in 0 .. Len(L[l]) /\ Len(K[l]) = Len(L[l]) + 1
  /\ \A i \in 1 .. k : K[l][i] = L[l][i]
  /\ K[l][k + 1] = t
  /\ \A i \in k + 1 .. Len(L[l]) : K[l][i + 1] = L[l][i]

LEMMA PutInOn ==
  ASSUME NEW L \in [ListIds -> Seq(Threads)], NEW K, NEW l \in ListIds, NEW k,
         NEW t \in Threads, PutIn(L, K, l, k, t)
  PROVE  /\ \A x \in Threads, m \in ListIds :
              On(K, x, m) <=> On(L, x, m) \/ (x = t /\ m = l)
         /\ Once(K) <=> Once(L) /\ \A m \in ListIds : ~On(L, t, m)
<1>1. /\ K \in [ListIds -> Seq(Threads)] /\ L[l] \in Seq(Threads) /\ K[l] \in Seq(Threads)
      /\ Len(L[l]) \in Nat /\ Len(K[l]) \in Nat
      /\ k \in Nat /\ k <= Len(L[l]) /\ Len(K[l]) = Len(L[l]) + 1
      /\ DOMAIN L[l] = 1 .. Len(L[l]) /\ DOMAIN K[l] = 1 .. Len(K[l])
  BY LenProperties DEF PutIn
<1>2. /\ \A i \in 1 .. k : K[l][i] = L[l][i]
      /\ K[l][k + 1] = t
      /\ \A i \in k + 1 .. Len(L[l]) : K[l][i + 1] = L[l][i]
      /\ \A m \in ListIds \ {l} : K[m] = L[m]
  BY DEF PutIn
\* Where the i-th node of list m of L is in K, and where node j of K was.
<1> DEFINE To(m, i) == IF m = l /\ i > k THEN i + 1 ELSE i
           From(m, j) == IF m = l /\ j > k THEN j - 1 ELSE j
<1>3. ASSUME NEW m \in ListIds, NEW i \in DOMAIN L[m]
      PROVE  /\ To(m, i) \in DOMAIN K[m] /\ K[m][To(m, i)] = L[m][i]
             /\ From(m, To(m, i)) = i
  <2>1. CASE m = l
    BY <1>1, <1>2, <2>1
  <2>2. CASE m # l
    BY <1>2, <2>2
  <2> QED BY <2>1, <2>2
<1>4. ASSUME NEW m \in ListIds, NEW j \in DOMAIN K[m], ~ (m = l /\ j = k + 1)
      PROVE  /\ From(m, j) \in DOMAIN L[m] /\ L[m][From(m, j)] = K[m][j]
             /\ To(m, From(m, j)) = j
  <2>1. CASE m = l /\ j > k
    <3>1. j - 1 \in k + 1 .. Len(L[l]) /\ (j - 1) + 1 = j
      BY <1>1, <1>4, <2>1
    <3>2. K[l][(j - 1) + 1] = L[l][j - 1]
      BY <1>2, <3>1
    <3>3. j - 1 \in DOMAIN L[l] /\ L[l][j - 1] = K[l][j] /\ j - 1 > k
      BY <1>1, <3>1, <3>2
    <3> QED BY <2>1, <3>1, <3>3
  <2>2. CASE m = l /\ ~ (j > k)
    <3>1. j \in 1 .. k /\ j \in DOMAIN L[l]
      BY <1>1, <2>2
    <3> QED BY <1>2, <2>2, <3>1
  <2>3. CASE m # l
    BY <1>2, <2>3
  <2> QED BY <2>1, <2>2, <2>3
<1>5. k + 1 \in DOMAIN K[l]
  BY <1>1
<1> HIDE DEF To, From
<1>6. \A x \in Threads, m \in ListIds :
        On(K, x, m) <=> On(L, x, m) \/ (x = t /\ m = l)
  <2> SUFFICES ASSUME NEW x \in Threads, NEW m \in ListIds
               PROVE  On(K, x, m) <=> On(L, x, m) \/ (x = t /\ m = l)
    OBVIOUS
  <2>1. ASSUME On(K, x, m) PROVE On(L, x, m) \/ (x = t /\ m = l)
    BY <1>2, <1>4, <2>1 DEF On
  <2>2. ASSUME On(L, x, m) PROVE On(K, x, m)
    BY <1>3, <2>2 DEF On
  <2>3. On(K, t, l)
    BY <1>2, <1>5 DEF On
  <2> QED BY <2>1, <2>2, <2>3
<1>7. ASSUME Once(K) PROVE Once(L) /\ \A m \in ListIds : ~On(L, t, m)
  <2>1. Once(L)
    <3> SUFFICES ASSUME NEW a \in ListIds, NEW b \in ListIds, NEW i \in DOMAIN L[a],
                        NEW j \in DOMAIN L[b], L[a][i] = L[b][j]
                 PROVE  a = b /\ i = j
      BY DEF Once
    <3>1. a = b /\ To(a, i) = To(b, j)
      BY <1>3, <1>7 DEF Once
    <3> QED BY <1>3, <3>1
  <2>2. ASSUME NEW m \in ListIds, NEW i \in DOMAIN L[m], L[m][i] = t PROVE FALSE
    <3>1. m = l /\ To(m, i) = k + 1
      BY <1>2, <1>3, <1>5, <1>7, <2>2, SMTT(40) DEF Once
    <3> QED BY <1>1, <3>1 DEF To
  <2> QED BY <2>1, <2>2 DEF On
<1>8. ASSUME Once(L), \A m \in ListIds : ~On(L, t, m) PROVE Once(K)
  <2> SUFFICES ASSUME NEW a \in ListIds, NEW b \in ListIds, NEW i \in DOMAIN K[a],
                      NEW j \in DOMAIN K[b], K[a][i] = K[b][j]
               PROVE  a = b /\ i = j
    BY DEF Once
  <2>1. CASE (a = l /\ i = k + 1) /\ (b = l /\ j = k + 1)
    BY <2>1
  <2>2. CASE (a = l /\ i = k + 1) /\ ~ (b = l /\ j = k + 1)
    BY <1>2, <1>4, <1>8, <2>2 DEF On
  <2>3. CASE ~ (a = l /\ i = k + 1) /\ (b = l /\ j = k + 1)
    BY <1>2, <1>4, <1>8, <2>3 DEF On
  <2>4. CASE ~ (a = l /\ i = k + 1) /\ ~ (b = l /\ j = k + 1)
    <3>1. a = b /\ From(a, i) = From(b, j)
      BY <1>4, <1>8, <2>4 DEF Once
    <3> QED BY <1>4, <2>4, <3>1
  <2> QED BY <2>1, <2>2, <2>3, <2>4
<1> QED BY <1>6, <1>7, <1>8

LEMMA BackPutIn ==
  ASSUME NEW L \in [ListIds -> Seq(Threads)], NEW l \in ListIds, NEW t \in Threads
  PROVE  PutIn(L, InsertBack(L, l, t), l, Len(L[l]), t)
<1>1. Len(L[l]) \in Nat
  BY LenProperties
<1>2. /\ Len(L[l]) \in 0 .. Len(L[l])
      /\ \A i \in Len(L[l]) + 1 .. Len(L[l]) :
           InsertBack(L, l, t)[l][i + 1] = L[l][i]
  BY <1>1
<1>3. /\ InsertBack(L, l, t) \in [ListIds -> Seq(Threads)]
      /\ \A m \in ListIds \ {l} : InsertBack(L, l, t)[m] = L[m]
      /\ Len(InsertBack(L, l, t)[l]) = Len(L[l]) + 1
      /\ \A i \in 1 .. Len(L[l]) : InsertBack(L, l, t)[l][i] = L[l][i]
      /\ InsertBack(L, l, t)[l][Len(L[l]) + 1] = t
  BY InsertBackProperties, ZenonT(40)
<1> QED BY <1>2, <1>3, Zenon DEF PutIn

LEMMA BehindPutIn ==
  ASSUME NEW L \in [ListIds -> Seq(Threads)], NEW l \in ListIds, NEW t \in Threads,
         NEW k \in 1 .. Len(L[l])
  PROVE  PutIn(L, [L EXCEPT ![l] = InsertBefore(@, k, t)], l, k, t)
<1> DEFINE s == L[l]
           a == SubSeq(s, 1, k)
           b == SubSeq(s, k + 1, Len(s))
           r == InsertBefore(s, k, t)
<1>1. s \in Seq(Threads) /\ Len(s) \in Nat /\ k \in Int /\ \A i \in 1 .. Len(s) : s[i] \in Threads
  BY LenProperties
<1>2. a \in Seq(Threads) /\ Len(a) = k /\ \A i \in 1 .. k : a[i] = s[i]
  <2>1. \A i \in 1 .. k : s[i] \in Threads
    BY <1>1
  <2>2. /\ a \in Seq(Threads)
        /\ Len(a) = IF 1 <= k THEN k - 1 + 1 ELSE 0
        /\ \A i \in 1 .. k - 1 + 1 : a[i] = s[1 + i - 1]
    BY <1>1, <2>1, SubSeqProperties
  <2> QED BY <1>1, <2>2
<1>3. /\ b \in Seq(Threads) /\ Len(b) = Len(s) - k
      /\ \A i \in 1 .. Len(s) - k : b[i] = s[k + i]
  <2>1. \A i \in k + 1 .. Len(s) : s[i] \in Threads
    BY <1>1
  <2>2. /\ b \in Seq(Threads)
        /\ Len(b) = IF k + 1 <= Len(s) THEN Len(s) - (k + 1) + 1 ELSE 0
        /\ \A i \in 1 .. Len(s) - (k + 1) + 1 : b[i] = s[(k + 1) + i - 1]
    BY <1>1, <2>1, SubSeqProperties
  <2> QED BY <1>1, <2>2
<1>4. r = (a \o <<t>>) \o b
  <2>1. (k + 1) - 1 = k
    BY <1>1
  <2>2. SubSeq(s, 1, (k + 1) - 1) = a
    BY <2>1
  <2>3. r = (SubSeq(s, 1, (k + 1) - 1) \o <<t>>) \o b
    BY Zenon DEF InsertBefore, InsertAt
  <2> HIDE DEF a, b, r
  <2> QED BY <2>2, <2>3
<1> HIDE DEF a, b, r
<1>5. /\ a \o <<t>> \in Seq(Threads) /\ Len(a \o <<t>>) = k + 1
      /\ \A i \in 1 .. k : (a \o <<t>>)[i] = s[i]
      /\ (a \o <<t>>)[k + 1] = t
  <2>1. <<t>> \in Seq(Threads) /\ Len(<<t>>) = 1 /\ <<t>>[1] = t
    OBVIOUS
  <2>2. /\ a \o <<t>> \in Seq(Threads) /\ Len(a \o <<t>>) = Len(a) + 1
        /\ \A i \in 1 .. Len(a) + 1 :
             (a \o <<t>>)[i] = IF i <= Len(a) THEN a[i] ELSE <<t>>[i - Len(a)]
    BY <1>2, <2>1, ConcatProperties
  <2> QED BY <1>1, <1>2, <2>1, <2>2
<1> DEFINE c == a \o <<t>>
<1> HIDE DEF c
<1>6. /\ c \in Seq(Threads) /\ Len(c) = k + 1 /\ c[k + 1] = t
      /\ \A i \in 1 .. k : c[i] = s[i]
  BY <1>5 DEF c
<1>7. /\ c \o b \in Seq(Threads) /\ Len(c \o b) = Len(c) + Len(b)
      /\ \A i \in 1 .. Len(c) + Len(b) :
           (c \o b)[i] = IF i <= Len(c) THEN c[i] ELSE b[i - Len(c)]
  BY <1>3, <1>6, ConcatProperties
<1>8. r = c \o b
  BY <1>4 DEF c
<1>9. r \in Seq(Threads) /\ Len(r) = Len(s) + 1
  BY <1>1, <1>3, <1>8, <1>6, <1>7
<1>10. /\ \A i \in 1 .. k : r[i] = s[i]
       /\ r[k + 1] = t
  <2>1. ASSUME NEW i \in 1 .. k + 1 PROVE r[i] = c[i]
    <3>1. i \in 1 .. Len(c) + Len(b) /\ i <= Len(c)
      BY <1>1, <1>3, <1>6
    <3> QED BY <1>7, <1>8, <3>1
  <2>2. ASSUME NEW i \in 1 .. k PROVE r[i] = s[i]
    <3>1. i \in 1 .. k + 1
      BY <1>1
    <3> QED BY <1>6, <2>1, <3>1
  <2>3. k + 1 \in 1 .. k + 1
    BY <1>1
  <2> QED BY <1>6, <2>1, <2>2, <2>3
<1>11. ASSUME NEW i \in k + 1 .. Len(s) PROVE r[i + 1] = s[i]
  <2>1. i + 1 \in 1 .. Len(c) + Len(b) /\ ~ (i + 1 <= Len(c)) /\ (i + 1) - Len(c) = i - k
    BY <1>1, <1>3, <1>6
  <2>2. r[i + 1] = b[i - k]
    BY <1>8, <1>7, <2>1
  <2>3. i - k \in 1 .. Len(s) - k /\ k + (i - k) = i
    BY <1>1
  <2> QED BY <1>3, <2>2, <2>3
<1>12. k \in 0 .. Len(s)
  BY <1>1
<1>13. [L EXCEPT ![l] = InsertBefore(@, k, t)] = [L EXCEPT ![l] = r]
  BY DEF r
<1>14. /\ [L EXCEPT ![l] = r] \in [ListIds -> Seq(Threads)]
       /\ \A m \in ListIds \ {l} : [L EXCEPT ![l] = r][m] = L[m]
       /\ [L EXCEPT ![l] = r][l] = r
  BY <1>9
<1> QED BY <1>9, <1>10, <1>11, <1>12, <1>13, <1>14 DEF PutIn

\* A thread that waits is linked once more, behind a waiter or at the back,
\* unless it was in EVENT_WAIT already and has no waiter to go behind.
LEMMA WaitPuts ==
  ASSUME TInv, NEW w \in WaitIds, Wait(w), Me # NoThread
  PROVE  \/ state[Me] = "EVENT_WAIT" /\ list' = list
         \/ \E k \in 0 .. Len(list[w]) : PutIn(list, list', w, k, Me)
<1>1. /\ list \in [ListIds -> Seq(Threads)] /\ w \in ListIds /\ Me \in Threads
      /\ list[w] \in Seq(Threads) /\ Len(list[w]) \in Nat
  BY ListNumbers, LenProperties DEF TInv, TypeOK, Me
<1>2. CASE LowerWaiters(w) # {}
  <2>1. LowerWaiters(w) \subseteq 1 .. Len(list[w])
    BY <1>1, LenProperties DEF LowerWaiters
  <2>2. FirstLower(w) \in LowerWaiters(w)
    <3>1. LowerWaiters(w) \subseteq Nat
      BY <2>1
    <3>2. \E i \in LowerWaiters(w) : \A j \in LowerWaiters(w) : i <= j
      BY <1>2, <3>1, Least
    <3> QED BY <3>2 DEF FirstLower
  <2>3. PICK k \in 1 .. Len(list[w]) : k = FirstLower(w)
    BY <2>1, <2>2
  <2>4. list' = [list EXCEPT ![w] = InsertBefore(@, k, Me)]
    BY <1>2, <2>3 DEF Wait
  <2>5. PutIn(list, list', w, k, Me)
    BY <1>1, <2>4, BehindPutIn
  <2>6. k \in 0 .. Len(list[w])
    BY <1>1
  <2> QED BY <2>5, <2>6
<1>3. CASE list' = InsertBack(list, w, Me)
  <2>1. PutIn(list, list', w, Len(list[w]), Me)
    BY <1>1, <1>3, BackPutIn
  <2>2. Len(list[w]) \in 0 .. Len(list[w])
    BY <1>1
  <2> QED BY <2>1, <2>2
<1>4. CASE state[Me] = "EVENT_WAIT" /\ list' = list
  BY <1>4
<1> QED BY <1>2, <1>3, <1>4 DEF Wait

(***************************************************************************)
(* The kernel's invariant under the objects' services.                     *)
(***************************************************************************)

LEMMA WaitsHere ==
  ASSUME HInv, Once(list), NEW w \in WaitIds, Waits(w)
  PROVE  Here'
<1>1. PICK c \in Threads : c = current_thread
  BY DEF HInv, TInv, TypeOK, Waits, Me
<1>2. /\ TypeOK /\ Lodged /\ w \in ListIds /\ list \in [ListIds -> Seq(Threads)]
      /\ current_thread # NoThread /\ prio[c] \in Prios
      /\ pc[c] # "none" /\ time_quantum[c] > 0
  BY <1>1, ListNumbers DEF HInv, TInv, TypeOK, CurrentHere, Waits, Me
<1>3. /\ state' = [state EXCEPT ![c] = "EVENT_WAIT"]
      /\ pc' = [pc EXCEPT ![c] = "leave"]
      /\ UNCHANGED <<current_thread, thread_table, tid, prio, time_quantum,
                     delayed_time, arg>>
  BY <1>1 DEF Waits, Wait, Me, idVars
<1>4. /\ state'[c] = "EVENT_WAIT" /\ pc'[c] = "leave"
      /\ \A x \in Threads \ {c} : state'[x] = state[x] /\ pc'[x] = pc[x]
  BY <1>2, <1>3 DEF TypeOK
<1>5. ASSUME Once(list') PROVE Lodged'
  <2>1. CASE state[c] = "EVENT_WAIT" /\ list' = list
    BY <1>2, <1>3, <1>4, <2>1, LodgedShrunk DEF MayBeOn
  <2>2. ASSUME NEW k \in 0 .. Len(list[w]), PutIn(list, list', w, k, c)
        PROVE  Lodged'
    <3>1. \A x \in Threads, m \in ListIds : On(list', x, m) =>
            (On(list, x, m) /\ x # c) \/ (x = c /\ m = w)
      BY <1>2, <1>5, <2>2, PutInOn
    <3>2. MayBeOn(c, w)'
      <4>1. w \in Homes("EVENT_WAIT", prio[c]) /\ w # Delayed
        BY <1>2, HomeLists, ListNumbers
      <4> QED BY <1>2, <1>3, <1>4, <4>1, <1>1 DEF MayBeOn
    <3>3. current_thread' = current_thread
      BY <1>3
    <3> QED BY <1>2, <1>3, <1>4, <3>1, <3>2, <3>3, LodgedMoved
  <2> QED BY <1>1, <2>1, <2>2, WaitPuts DEF HInv, Waits, Me
<1>6. TableHere'
  <2>1. \A i \in Tids : thread_table[i] # NoThread => thread_table[i] \in Threads
    BY <1>2 DEF TypeOK
  <2> QED BY <1>2, <1>3, <1>4, <2>1 DEF HInv, TableHere
<1>7. CreateHere'
  <2>1. \A x \in Threads : pc'[x] = "create" =>
          pc[x] = "create" /\ arg'[x] = arg[x] /\ arg[x] \in Threads \ {c}
    BY <1>2, <1>3, <1>4 DEF HInv, TInv, ArgOK, CreateHere
  <2> QED BY <1>3, <1>4, <2>1 DEF HInv, CreateHere
<1>8. CurrentHere'
  BY <1>1, <1>2, <1>3, <1>4 DEF CurrentHere
<1> QED BY <1>5, <1>6, <1>7, <1>8 DEF Here

LEMMA WakesHere ==
  ASSUME HInv, Once(list), NEW w \in WaitIds, Wakes(w)
  PROVE  Here'
<1> DEFINE K == DeleteFront(list, w)
<1>1. PICK t \in Threads : t = Head(list[w])
  BY WakeLists DEF HInv, Wakes
<1>2. /\ Lodged /\ w \in ListIds /\ list \in [ListIds -> Seq(Threads)]
      /\ current_thread # NoThread /\ list[w] # << >>
      /\ prio[t] \in Prios /\ prio[t] \in ListIds /\ prio[t] # Delayed
  BY <1>1, ListNumbers, SMTT(40) DEF HInv, TInv, TypeOK, Wakes, Me
<1>3. /\ list' = InsertBack(K, prio[t], t)
      /\ state' = [state EXCEPT ![t] = "READY"]
      /\ pc' = [pc EXCEPT ![current_thread] = "sched"]
      /\ UNCHANGED <<current_thread, idVars, time_quantum, delayed_time, arg>>
  BY <1>1 DEF Wakes, Wake, Me
<1>4. /\ K \in [ListIds -> Seq(Threads)]
      /\ \A x \in Threads, m \in ListIds : On(K, x, m) => On(list, x, m)
      /\ On(list, t, w)
  BY <1>1, <1>2, DeleteFrontProperties, DeleteFrontOnce
<1> HIDE DEF K
<1>5. pc[t] # "none"
  BY <1>2, <1>4 DEF Lodged, MayBeOn
<1>6. prio[t] \in Homes("READY", prio[t]) /\ "READY" \in States
  BY <1>2, HomeLists DEF States
<1> QED BY <1>2, <1>3, <1>4, <1>5, <1>6, MoveHere

LEMMA IpcHInv == ASSUME HInv, [IpcNext]_allVars PROVE HInv'
<1>1. TInv /\ TInv'
  BY IpcTInv DEF HInv
<1>2. CASE Next \/ UNCHANGED vars
  BY <1>2, HInvNext
<1>3. ASSUME NEW w \in WaitIds, Waits(w) \/ Wakes(w), Once(list) PROVE HInv'
  BY <1>1, <1>3, WaitsHere, WakesHere DEF HInv, Here
<1>4. CASE ie' = FALSE /\ UNCHANGED <<list, prio_exist_flag, current_thread, idVars, state,
                        time_quantum, delayed_time, saved_ie, pc, arg, cursor, fault>>
  <2>1. Here'
    BY <1>4, HereKept DEF idVars, HInv, CurrentHere
  <2> QED BY <1>1, <2>1 DEF HInv, Here
<1>5. Once(list) \/ UNCHANGED vars
  BY AliveOnce DEF IpcNext, allVars, vars
<1> QED BY <1>1, <1>2, <1>3, <1>4, <1>5, KernelPart

\* delete_list of a thread that waits nowhere touches no wait list.
LEMMA DeleteKeepsWait ==
  ASSUME HInv, Once(list), NEW t \in Threads, state[t] \in {"READY", "BLOCK"},
         NEW w \in WaitIds
  PROVE  Delete(list, t)[w] = list[w]
<1>1. /\ list \in [ListIds -> Seq(Threads)] /\ w \in ListIds /\ prio[t] \in Prios
      /\ w \notin Prios /\ w # Blocked
  BY ListNumbers DEF HInv, TInv, TypeOK
<1>2. Homes(state[t], prio[t]) \in {{prio[t]}, {Blocked}}
  BY <1>1, HomeLists
<1>3. ~On(list, t, w)
  BY <1>1, <1>2 DEF HInv, Lodged, MayBeOn
<1> QED BY <1>1, <1>3, DeleteOff

\* The scheduler and the thread services leave every wait list as it is.
LEMMA KernelKeepsWaits ==
  ASSUME HInv, Once(list), Next, NEW w \in WaitIds
  PROVE  list'[w] = list[w]
<1> DEFINE S == list'[w] = list[w]
<1>1. /\ TInv /\ list \in [ListIds -> Seq(Threads)] /\ prio \in [Threads -> Prios]
      /\ w \in ListIds /\ w \notin Prios /\ w # Delayed /\ w # Blocked /\ w # Terminated
      /\ current_thread \in Threads \cup {NoThread}
      /\ Delayed \in ListIds /\ Blocked \in ListIds /\ Terminated \in ListIds
      /\ Prios \subseteq ListIds
  BY ListNumbers DEF HInv, TInv, TypeOK
<1>2. ASSUME NEW K \in [ListIds -> Seq(Threads)], K[w] = list[w],
             NEW m \in ListIds, m # w, NEW t \in Threads, list' = InsertBack(K, m, t)
      PROVE  S
  <2>1. InsertBack(K, m, t)[w] = K[w]
    BY <1>1, <1>2 DEF InsertBack
  <2> QED BY <1>2, <2>1
<1>3. ASSUME NEW m \in ListIds, m # w, list[m] # << >>, list' = DeleteFront(list, m)
      PROVE  S
  <2>1. DeleteFront(list, m)[w] = list[w]
    BY <1>1, <1>3 DEF DeleteFront
  <2> QED BY <1>3, <2>1
<1>4. ASSUME current_thread # NoThread, NEW top \in 0 .. MaxPrio,
             ~NoneToPop(top), NEW e \in BOOLEAN, Dispatch(top, e)
      PROVE  S
  <2> DEFINE c == current_thread
             popped == DeleteFront(list, top)
  <2>1. top \in ListIds /\ top # w /\ list[top] # << >>
    BY <1>1, <1>4, PrioAssumption, SMTT(40) DEF NoneToPop, Prios
  <2>2. popped \in [ListIds -> Seq(Threads)] /\ popped[w] = list[w]
    BY <1>1, <2>1, DeleteFrontProperties
  <2>3. c \in Threads /\ prio[c] \in ListIds /\ prio[c] # w
    BY <1>1, <1>4
  <2>4. list' = popped \/ list' = InsertBack(popped, prio[c], c)
    BY <1>4 DEF Dispatch
  <2> HIDE DEF popped, c
  <2> QED BY <1>2, <2>2, <2>3, <2>4
<1> SUFFICES S
  OBVIOUS
<1>5. CASE UNCHANGED list
  BY <1>5
<1> HIDE DEF S
<1>6. CASE MainCreate
  <2>1. PICK u \in Threads, i \in Tids, p \in UserPrios : EnterTable(u, i, p)
    BY <1>6 DEF MainCreate
  <2>2. p \in ListIds /\ p # w
    BY <1>1, CallAssumption
  <2> QED BY <1>1, <1>2, <2>1, <2>2 DEF EnterTable
<1>7. CASE StartCurt
  <2>1. PICK top \in Prios : IsTopPrio(top) /\ list' = DeleteFront(list, top)
    BY <1>7 DEF StartCurt
  <2>2. prio_exist_flag[top]
    BY <2>1, PrioAssumption DEF IsTopPrio, Prios
  <2>3. list[top] # << >>
    BY <1>1, <1>7, <2>2 DEF TInv, StartOK, StartCurt
  <2> QED BY <1>1, <1>3, <2>1, <2>3
<1>8. CASE TickStep
  <2> DEFINE t == list[Delayed][cursor]
             cut == [list EXCEPT ![Delayed] = RemoveAt(@, cursor)]
  <2>1. t \in Threads /\ cursor \in 1 .. Len(list[Delayed])
    <3>1. list[Delayed] \in Seq(Threads) /\ cursor \in DOMAIN list[Delayed]
      BY <1>1, <1>8 DEF TickStep
    <3> QED BY <3>1, LenProperties
  <2>2. RemoveAt(list[Delayed], cursor) \in Seq(Threads)
    BY <1>1, <2>1, RemoveAtProperties
  <2>3. cut \in [ListIds -> Seq(Threads)] /\ cut[w] = list[w]
    BY <1>1, <2>2
  <2>4. prio[t] \in ListIds /\ prio[t] # w
    BY <1>1, <2>1
  <2>5. UNCHANGED list \/ list' = InsertBack(cut, prio[t], t)
    BY <1>8 DEF TickStep
  <2> HIDE DEF t, cut
  <2> QED BY <1>2, <1>5, <2>1, <2>3, <2>4, <2>5
<1>9. CASE TickEnd
  <2>1. current_thread # NoThread
    <3>1. cursor # 0
      BY <1>1, <1>9, LenProperties DEF TickEnd
    <3> QED BY <1>1, <3>1 DEF TInv, StartOK
  <2>2. \/ UNCHANGED list
        \/ \E top \in 0 .. MaxPrio : ~NoneToPop(top) /\ Dispatch(top, TRUE)
    BY <1>9 DEF TickEnd, ScheduleExpire, Crash
  <2> QED BY <1>4, <1>5, <2>1, <2>2
<1>10. CASE ScheduleRequest
  <2>1. current_thread # NoThread
    BY <1>10 DEF ScheduleRequest
  <2>2. \/ UNCHANGED list
        \/ \E top \in 0 .. MaxPrio : ~NoneToPop(top) /\ Dispatch(top, FALSE)
    BY <1>10 DEF ScheduleRequest, Crash
  <2> QED BY <1>4, <1>5, <2>1, <2>2
<1>11. CASE IdleLoop
  <2>1. CASE list[Terminated] # << >>
    <3>1. list' = DeleteFront(list, Terminated)
      BY <1>11, <2>1 DEF IdleLoop
    <3> QED BY <1>1, <1>3, <2>1, <3>1
  <2> QED BY <1>5, <1>11, <2>1 DEF IdleLoop
<1>12. CASE CreateInsert
  <2> DEFINE u == arg[current_thread]
  <2>1. /\ current_thread # NoThread /\ current_thread \in Threads
        /\ pc[current_thread] = "create"
    BY <1>1, <1>12 DEF CreateInsert, AtSection, Me
  <2>2. u \in Threads
    BY <1>1, <2>1 DEF TInv, ArgOK
  <2>3. prio[u] \in ListIds /\ prio[u] # w
    BY <1>1, <2>2
  <2>4. list' = InsertBack(list, prio[u], u)
    BY <1>12 DEF CreateInsert, EnterTable, Me
  <2> HIDE DEF u
  <2> QED BY <1>1, <1>2, <2>2, <2>3, <2>4
<1>13. CASE Delay \/ DeleteSelf
  <2>1. /\ current_thread \in Threads
        /\ \/ list' = InsertBack(list, Delayed, current_thread)
           \/ list' = InsertBack(list, Terminated, current_thread)
    BY <1>1, <1>13 DEF Delay, DeleteSelf, Leave, Me, InUser
  <2> QED BY <1>1, <1>2, <2>1
<1>14. CASE SuspendSection
  <2>1. PICK i : i = arg[current_thread]
    OBVIOUS
  <2>2. current_thread # NoThread /\ pc[current_thread] = "suspend"
    BY <1>14 DEF SuspendSection, AtSection, Me
  <2>3. CASE /\ ~BadPointer(i) /\ (tid[current_thread] = i \/ CanSuspend(thread_table[i]))
             /\ list' = InsertBack(IF tid[current_thread] = i THEN list
                                   ELSE Delete(list, thread_table[i]), Blocked, thread_table[i])
    <3>1. PICK t \in Threads : t = thread_table[i]
      BY <1>1, <2>1, <2>2, <2>3, SectionThread DEF Me
    <3>2. CASE tid[current_thread] = i
      BY <1>1, <1>2, <2>3, <3>1, <3>2
    <3>3. CASE tid[current_thread] # i
      <4>1. state[t] = "READY"
        BY <2>3, <3>1, <3>3 DEF CanSuspend
      <4>2. Delete(list, t) \in [ListIds -> Seq(Threads)] /\ Delete(list, t)[w] = list[w]
        BY <1>1, <4>1, DeleteProperties, DeleteKeepsWait
      <4> QED BY <1>1, <1>2, <2>3, <3>1, <3>3, <4>2
    <3> QED BY <3>2, <3>3
  <2> QED BY <1>5, <1>14, <2>1, <2>3 DEF SuspendSection, Crash, Me
<1>15. CASE ResumeSection
  <2>1. PICK i : i = arg[current_thread]
    OBVIOUS
  <2>2. current_thread # NoThread /\ pc[current_thread] = "resume"
    BY <1>15 DEF ResumeSection, AtSection, Me
  <2>3. CASE /\ ~BadPointer(i) /\ state[thread_table[i]] = "BLOCK"
             /\ list' = InsertBack(Delete(list, thread_table[i]), prio[thread_table[i]],
                                   thread_table[i])
    <3>1. PICK t \in Threads : t = thread_table[i]
      BY <1>1, <2>1, <2>2, <2>3, SectionThread DEF Me
    <3>2. Delete(list, t) \in [ListIds -> Seq(Threads)] /\ Delete(list, t)[w] = list[w]
      BY <1>1, <2>3, <3>1, DeleteProperties, DeleteKeepsWait
    <3>3. prio[t] \in ListIds /\ prio[t] # w
      BY <1>1, <3>1
    <3> QED BY <1>2, <2>3, <3>1, <3>2, <3>3
  <2> QED BY <1>5, <1>15, <2>1, <2>3 DEF ResumeSection, Crash, Me
<1>16. CASE \/ TickBegin \/ Yield \/ DeleteOther \/ CreateFill
            \/ SuspendCheck \/ ResumeCheck \/ Halted
  BY <1>5, <1>16 DEF TickBegin, Yield, DeleteOther, CreateFill, SuspendCheck,
                     ResumeCheck, CheckTid, Halted, vars
<1> QED BY <1>6, <1>7, <1>8, <1>9, <1>10, <1>11, <1>12, <1>13, <1>14, <1>15,
           <1>16 DEF Next, Tick, Call, Section

(***************************************************************************)
(* Semaphores.                                                             *)
(***************************************************************************)

LEMMA ObjIsObject == ASSUME NumWait # 0 PROVE Obj \in WaitIds /\ Obj \in ListIds
BY WaitAssumption, PrioAssumption DEF Obj, WaitIds, ListIds

\* A step that is none of the calls on object w leaves its waiters alone.
LEMMA WaitersElsewhere ==
  ASSUME HInv, [IpcNext]_allVars, NEW w \in WaitIds,
         ~ SemBlock(w), ~ SemWake(w), ~ MboxWait(w), ~ MsgqWait(w), ~ SendWake(w)
  PROVE  list'[w] = list[w]
<1>1. /\ TInv /\ w \in ListIds /\ list \in [ListIds -> Seq(Threads)]
      /\ prio \in [Threads -> Prios]
      /\ \A p \in Prios : p \in ListIds /\ p # w
  BY ListNumbers DEF HInv, TInv, TypeOK
<1>2. CASE UNCHANGED list
  BY <1>2
<1>3. ASSUME NEW v \in WaitIds, v # w, Wait(v), Me # NoThread PROVE list'[w] = list[w]
  BY <1>1, <1>3, WaitLists
<1>4. ASSUME NEW v \in WaitIds, v # w, Wake(v), list[v] # << >>
      PROVE  list'[w] = list[w]
  <2>1. PICK t \in Threads : t = Head(list[v])
    BY <1>1, <1>4, WakeLists
  <2>2. list' = InsertBack(DeleteFront(list, v), prio[t], t)
    BY <1>4, <2>1 DEF Wake
  <2>3. prio[t] \in ListIds /\ prio[t] # w
    BY <1>1
  <2> QED BY <1>1, <1>4, <2>2, <2>3 DEF InsertBack, DeleteFront
<1>5. CASE Alive /\ (KernelStep \/ Call)
  BY <1>5, KernelKeepsWaits, AliveOnce DEF KernelStep, Next
<1>6. ASSUME NEW v \in WaitIds, SemCall(v) PROVE list'[w] = list[w]
  <2>1. CASE SemTake(v) \/ SemCountUp(v)
    BY <1>2, <2>1 DEF SemTake, SemCountUp, vars
  <2>2. CASE SemBlock(v)
    BY <1>3, <2>2 DEF SemBlock, Uses
  <2>3. CASE SemWake(v)
    BY <1>4, <2>3 DEF SemWake
  <2> QED BY <1>6, <2>1, <2>2, <2>3 DEF SemCall
<1>7. ASSUME NEW v \in WaitIds, MsgCall(v) PROVE list'[w] = list[w]
  <2>1. CASE MboxTake(v) \/ MsgqUnlink(v) \/ MsgqTryEmpty(v) \/ MboxStore(v) \/ MsgqStore(v)
    BY <1>2, <2>1 DEF MboxTake, MsgqUnlink, MsgqTryEmpty, MboxStore, MsgqStore, vars
  <2>2. CASE MboxWait(v) \/ MsgqWait(v)
    BY <1>3, <2>2 DEF MboxWait, MsgqWait, RecvWait, Uses
  <2>3. CASE SendWake(v)
    BY <1>4, <2>3 DEF SendWake
  <2> QED BY <1>7, <2>1, <2>2, <2>3 DEF MsgCall
<1>8. CASE RecvReturn \/ MsgqFetch \/ UNCHANGED allVars
  BY <1>2, <1>8 DEF RecvReturn, MsgqFetch, allVars, vars
<1> QED BY <1>5, <1>6, <1>7, <1>8 DEF IpcNext

\* Who waits at w after a thread puts itself there, and after a wakeup.
LEMMA WaitersAfterWait ==
  ASSUME TInv, NEW w \in WaitIds, Wait(w), Me # NoThread
  PROVE  Waiters(w)' = Waiters(w) \/ Waiters(w)' = Waiters(w) \cup {Me}
<1>1. /\ list \in [ListIds -> Seq(Threads)] /\ w \in ListIds /\ Me \in Threads
  BY ListNumbers DEF TInv, TypeOK, Me
<1>2. CASE list' = list
  BY <1>2 DEF Waiters, OnList
<1>3. ASSUME NEW k \in 0 .. Len(list[w]), PutIn(list, list', w, k, Me)
      PROVE  Waiters(w)' = Waiters(w) \cup {Me}
  <2>1. \A x \in Threads : On(list', x, w) <=> On(list, x, w) \/ x = Me
    <3>1. \A x \in Threads, m \in ListIds :
            On(list', x, m) <=> On(list, x, m) \/ (x = Me /\ m = w)
      BY <1>1, <1>3, PutInOn, ZenonT(40)
    <3> QED BY <1>1, <3>1
  <2>2. PICK c : c = Me
    OBVIOUS
  <2> QED BY <1>1, <2>1, <2>2 DEF Waiters, OnList, On
<1> QED BY <1>2, <1>3, WaitPuts

LEMMA WaitersAfterWake ==
  ASSUME TInv, Once(list), NEW w \in WaitIds, Wake(w), list[w] # << >>
  PROVE  /\ Head(list[w]) \in Waiters(w)
         /\ Waiters(w)' = Waiters(w) \ {Head(list[w])}
<1>1. list \in [ListIds -> Seq(Threads)] /\ w \in ListIds /\ prio \in [Threads -> Prios]
  BY ListNumbers DEF TInv, TypeOK
<1>2. PICK t \in Threads : t = Head(list[w])
  BY WakeLists
<1>3. /\ On(list, t, w)
      /\ \A x \in Threads : On(DeleteFront(list, w), x, w) <=> On(list, x, w) /\ x # t
  BY <1>1, <1>2, DeleteFrontOnce
<1>4. list'[w] = DeleteFront(list, w)[w]
  BY <1>1, WakeLists DEF DeleteFront
<1> QED BY <1>2, <1>3, <1>4 DEF Waiters, OnList, On

\* The value of the semaphore and its waiters change together or not at all.
LEMMA SemStutters ==
  ASSUME sem_value'[Obj] = sem_value[Obj], kind' = kind,
         kind[Obj] = "sem" => list'[Obj] = list[Obj] \/ Waiters(Obj)' = Waiters(Obj)
  PROVE  [Sem!Next]_<<sem_value[Obj], IF kind[Obj] = "sem" THEN Waiters(Obj) ELSE {}>>
BY DEF Waiters, OnList

LEMMA SemStep ==
  ASSUME IpcInv, HInv, [IpcNext]_allVars, NumWait # 0
  PROVE  [Sem!Next]_<<sem_value[Obj], IF kind[Obj] = "sem" THEN Waiters(Obj) ELSE {}>>
<1> DEFINE G == [Sem!Next]_<<sem_value[Obj], IF kind[Obj] = "sem" THEN Waiters(Obj) ELSE {}>>
<1>1. /\ Obj \in WaitIds /\ TInv /\ IpcTypeOK /\ KindOK /\ WaitersMeanEmpty
      /\ sem_value \in [WaitIds -> 0 .. SemMax]
      /\ sem_value[Obj] \in 0 .. SemMax /\ SemMax \in Nat
  BY ObjIsObject, SemAssumption DEF IpcInv, IpcTypeOK
<1>2. Me # NoThread => Me \in Threads
  BY <1>1 DEF TInv, TypeOK, Me
<1>3. CASE /\ sem_value' = sem_value /\ kind' = kind
           /\ kind[Obj] = "sem" => list'[Obj] = list[Obj] \/ Waiters(Obj)' = Waiters(Obj)
  BY <1>3, SemStutters
<1>4. CASE SemTake(Obj)
  <2>1. /\ kind[Obj] = "sem" /\ kind' = kind /\ list' = list
        /\ sem_value[Obj] > 0 /\ sem_value'[Obj] = sem_value[Obj] - 1
    BY <1>1, <1>4 DEF SemTake, Uses, vars
  <2>2. Waiters(Obj)' = Waiters(Obj)
    BY <2>1 DEF Waiters, OnList
  <2>3. Sem!Take
    BY <2>1, <2>2 DEF Sem!Take
  <2> QED BY <2>3 DEF Sem!Next
<1>5. CASE SemCountUp(Obj)
  <2>1. /\ kind[Obj] = "sem" /\ kind' = kind /\ list' = list /\ list[Obj] = << >>
        /\ sem_value'[Obj] = (sem_value[Obj] + 1) % (SemMax + 1)
    BY <1>1, <1>5 DEF SemCountUp, Uses, vars
  <2>2. Waiters(Obj) = {} /\ Waiters(Obj)' = {}
    BY <2>1 DEF Waiters, OnList
  <2>3. sem_value'[Obj] = IF sem_value[Obj] = SemMax THEN 0 ELSE sem_value[Obj] + 1
    <3>1. \A v, n \in Nat : v <= n => (v + 1) % (n + 1) = IF v = n THEN 0 ELSE v + 1
      BY Z3
    <3>2. sem_value[Obj] \in Nat /\ sem_value[Obj] <= SemMax
      BY <1>1
    <3> QED BY <1>1, <2>1, <3>1, <3>2
  <2>4. Sem!Keep
    BY <2>1, <2>2, <2>3 DEF Sem!Keep
  <2> QED BY <2>4 DEF Sem!Next
<1>6. CASE SemBlock(Obj)
  <2>1. /\ kind[Obj] = "sem" /\ kind' = kind /\ sem_value' = sem_value
        /\ sem_value[Obj] = 0 /\ Wait(Obj) /\ Me # NoThread
    BY <1>6 DEF SemBlock, Uses
  <2>2. CASE Waiters(Obj)' = Waiters(Obj)
    BY <1>3, <2>1, <2>2
  <2>3. CASE Waiters(Obj)' = Waiters(Obj) \cup {Me} /\ Me \notin Waiters(Obj)
    <3>1. Sem!Block(Me)
      BY <2>1, <2>3 DEF Sem!Block
    <3> QED BY <1>2, <2>1, <3>1 DEF Sem!Next
  <2> QED BY <1>1, <2>1, <2>2, <2>3, WaitersAfterWait
<1>7. CASE SemWake(Obj) /\ IpcNext
  <2>1. /\ kind[Obj] = "sem" /\ kind' = kind /\ sem_value' = sem_value
        /\ Wake(Obj) /\ list[Obj] # << >>
    BY <1>7 DEF SemWake, Uses, semVars
  <2>2. sem_value[Obj] = 0
    BY <1>1, <2>1 DEF WaitersMeanEmpty
  <2>3. Once(list)
    BY <1>7, AliveOnce DEF IpcNext
  <2>4. PICK t \in Waiters(Obj) : Waiters(Obj)' = Waiters(Obj) \ {t}
    BY <1>1, <2>1, <2>3, WaitersAfterWake
  <2>5. Sem!Release(t) /\ t \in Threads
    BY <2>1, <2>2, <2>4 DEF Sem!Release, Waiters
  <2> QED BY <2>5 DEF Sem!Next
\* Every other step.
<1>8. CASE ~ (SemTake(Obj) \/ SemCountUp(Obj) \/ SemBlock(Obj) \/ SemWake(Obj))
  <2>1. kind' = kind
    BY DEF IpcNext, SemCall, SemTake, SemBlock, SemWake, SemCountUp, MsgCall, MboxTake,
       MboxWait, MsgqUnlink, MsgqWait, RecvWait, MsgqTryEmpty, SendWake, MboxStore, MsgqStore,
       RecvReturn, MsgqFetch, semVars, allVars
  <2>2. sem_value'[Obj] = sem_value[Obj]
    <3>1. CASE UNCHANGED sem_value
      BY <3>1
    <3>2. ASSUME NEW v \in WaitIds, SemTake(v) \/ SemCountUp(v)
          PROVE  sem_value'[Obj] = sem_value[Obj]
      <4>1. v # Obj
        BY <1>8, <3>2
      <4>2. \E n : sem_value' = [sem_value EXCEPT ![v] = n]
        BY <3>2 DEF SemTake, SemCountUp
      <4> QED BY <1>1, <4>1, <4>2
    <3> QED BY <3>1, <3>2 DEF IpcNext, SemCall, SemBlock, SemWake, MsgCall, MboxTake,
       MboxWait, MsgqUnlink, MsgqWait, RecvWait, MsgqTryEmpty, SendWake, MboxStore, MsgqStore,
       RecvReturn, MsgqFetch, semVars, allVars
  <2>3. ASSUME kind[Obj] = "sem" PROVE list'[Obj] = list[Obj]
    <3>1. ~ MboxWait(Obj) /\ ~ MsgqWait(Obj) /\ ~ SendWake(Obj)
      BY <2>3 DEF MboxWait, MsgqWait, SendWake, Uses
    <3> QED BY <1>1, <1>8, <3>1, WaitersElsewhere
  <2> QED BY <2>1, <2>2, <2>3, SemStutters
<1>9. CASE UNCHANGED allVars
  BY <1>9, SemStutters DEF allVars, semVars, vars
<1> QED BY <1>4, <1>5, <1>6, <1>7, <1>8, <1>9

(* sem_pend, sem_try_pend and sem_post (sync.c:21-91) implement a counting
   semaphore of u8_t width, for any number of threads and objects, whatever else
   the application calls and wherever the tick interrupts it: a token goes to
   exactly one thread, and only its own wakeup takes a thread off the wait list. *)
THEOREM SemaphoreImplemented ==
  ASSUME NumWait # 0
  PROVE  IpcSpec => SemaphoreSpec
<1>1. IpcInit => Sem!Init
  <2> SUFFICES ASSUME IpcInit PROVE Sem!Init
    OBVIOUS
  <2>1. Obj \in WaitIds /\ Obj \in ListIds /\ Obj # MaxPrio - 1
    BY ObjIsObject, ListNumbers, PrioAssumption DEF Prios
  <2>2. list[Obj] = << >>
    BY <2>1 DEF IpcInit, InitCurt
  <2>3. Waiters(Obj) = {}
    BY <2>2 DEF Waiters, OnList
  <2>4. sem_value[Obj] \in 0 .. SemMax
    BY <2>1 DEF IpcInit, InitObjects
  <2> QED BY <2>3, <2>4 DEF Sem!Init
<1>2. IpcInit => HInv
  BY HInvInit DEF IpcInit
<1>3. HInv /\ [IpcNext]_allVars => HInv'
  BY IpcHInv
<1>4. IpcInv /\ HInv /\ [IpcNext]_allVars =>
        [Sem!Next]_<<sem_value[Obj], IF kind[Obj] = "sem" THEN Waiters(Obj) ELSE {}>>
  BY SemStep
<1> QED BY <1>1, <1>2, <1>3, <1>4, IpcInvInit, IpcInvNext, PTL
        DEF IpcSpec, SemaphoreSpec, Sem!Spec

(***************************************************************************)
(* The threads that wait.                                                  *)
(***************************************************************************)

\* Thread x waits at an object; it has not been deleted.
Waiting(x) == pc[x] # "none" /\ state[x] = "EVENT_WAIT"
Living(x) == pc[x] # "none" /\ state[x] # "TERMINATE"

\* A thread in EVENT_WAIT is on a wait list, and executes only until it calls
\* schedule().
EventOK ==
  \A x \in Threads : Waiting(x) =>
    /\ \E w \in WaitIds : On(list, x, w)
    /\ x = current_thread => pc[x] = "leave"

\* A step that neither makes thread x wait nor wakes or deletes it.
Steady(x) ==
  /\ Waiting(x)' <=> Waiting(x)
  /\ Waiting(x)' /\ x = current_thread' => pc'[x] = "leave"
  /\ Living(x) /\ ~ (x = current_thread /\ DeleteSelf) => Living(x)'

LEMMA StateKept ==
  ASSUME NEW x \in Threads, state'[x] = state[x], pc'[x] = "none" <=> pc[x] = "none",
         Waiting(x) /\ x = current_thread' => pc'[x] = "leave"
  PROVE  Steady(x)
BY DEF Steady, Waiting, Living

LEMMA StateMoved ==
  ASSUME NEW x \in Threads, ~Waiting(x), ~Waiting(x)', 
         Living(x) /\ ~ (x = current_thread /\ DeleteSelf) => Living(x)'
  PROVE  Steady(x)
BY DEF Steady

\* Only the state of thread t changes, from one in which it does not wait.
LEMMA OneMoves ==
  ASSUME EventOK, NEW t \in Threads, NEW s \in States, s # "EVENT_WAIT",
         s = "TERMINATE" => t = current_thread /\ DeleteSelf,
         state \in [Threads -> States], state' = [state EXCEPT ![t] = s], ~Waiting(t),
         current_thread' = current_thread, 
         \A x \in Threads : pc'[x] = "none" <=> pc[x] = "none",
         \A x \in Threads : x # t /\ pc'[x] # pc[x] => pc[x] # "leave",
         NEW x \in Threads
  PROVE  Steady(x)
<1>1. CASE x = t
  <2>1. state'[x] = s
    BY <1>1
  <2> QED BY <1>1, <2>1, StateMoved DEF Waiting, Living
<1>2. CASE x # t
  <2>1. state'[x] = state[x]
    BY <1>2
  <2>2. Waiting(x) /\ x = current_thread' => pc'[x] = "leave"
    BY <1>2 DEF EventOK
  <2> QED BY <2>1, <2>2, StateKept
<1> QED BY <1>1, <1>2

\* No state changes; threads that are not about to leave go on.
LEMMA NoneMoves ==
  ASSUME EventOK, NEW x \in Threads, state' = state, current_thread' = current_thread,
         pc'[x] = "none" <=> pc[x] = "none",
         pc'[x] # pc[x] => pc[x] # "leave"
  PROVE  Steady(x)
<1>1. Waiting(x) /\ x = current_thread' => pc'[x] = "leave"
  BY DEF EventOK
<1> QED BY <1>1, StateKept

\* A thread on one of the kernel's own lists does not wait.
LEMMA HomeState ==
  ASSUME HInv, Once(list), NEW x \in Threads, NEW l \in ListIds, On(list, x, l)
  PROVE  /\ l \in Prios => state[x] = "READY"
         /\ l = Delayed => state[x] = "DELAY"
         /\ l = Terminated => state[x] = "TERMINATE"
<1>1. prio[x] \in Prios /\ state[x] \in States /\ l \in Homes(state[x], prio[x])
  BY DEF HInv, TInv, TypeOK, Lodged, MayBeOn
<1> QED BY <1>1, HomeLists

\* schedule() switches: the next thread was READY, and the outgoing one, put
\* back on a ready list, was on no other.
LEMMA DispatchSteady ==
  ASSUME HInv, Once(list), EventOK, Once(list'), current_thread # NoThread,
         NEW top \in 0 .. MaxPrio, ~NoneToPop(top), NEW e \in BOOLEAN, Dispatch(top, e),
         \A x \in Threads : pc'[x] = "none" <=> pc[x] = "none",
         NEW x \in Threads
  PROVE  Steady(x)
<1> DEFINE popped == DeleteFront(list, top)
<1>1. PICK c \in Threads : c = current_thread
  BY DEF HInv, TInv, TypeOK
<1>2. /\ top \in Prios /\ top \in ListIds /\ list[top] # << >>
      /\ list \in [ListIds -> Seq(Threads)] /\ state \in [Threads -> States]
      /\ prio[c] \in ListIds
  <2>1. top \in Prios /\ list[top] # << >>
    BY PrioAssumption DEF NoneToPop, Prios
  <2> QED BY <2>1, ListNumbers DEF HInv, TInv, TypeOK
<1>3. PICK n \in Threads : n = Head(list[top]) /\ On(list, n, top)
  BY <1>2, DeleteFrontOnce
<1>4. state[n] = "READY"
  BY <1>2, <1>3, HomeState
<1> DEFINE running == [state EXCEPT ![n] = "RUNNING"]
           requeue == e \/ running[c] = "RUNNING"
<1>5. /\ list' = IF requeue THEN InsertBack(popped, prio[c], c) ELSE popped
      /\ state' = IF requeue THEN [running EXCEPT ![c] = "READY"] ELSE running
      /\ current_thread' = n
  BY <1>1, <1>3 DEF Dispatch
<1>6. ASSUME requeue, Waiting(c) PROVE FALSE
  <2>1. PICK w \in WaitIds : On(list, c, w)
    BY <1>6 DEF EventOK
  <2>2. /\ popped \in [ListIds -> Seq(Threads)]
        /\ \A m \in ListIds \ {top} : popped[m] = list[m]
    BY <1>2, DeleteFrontProperties
  <2>3. w \in ListIds \ {top}
    BY <1>2, ListNumbers
  <2>4. On(popped, c, w)
    BY <2>1, <2>2, <2>3 DEF On
  <2>5. list' = InsertBack(popped, prio[c], c)
    BY <1>5, <1>6
  <2> HIDE DEF popped
  <2> QED BY <1>2, <2>2, <2>3, <2>4, <2>5, InsertBackNew
<1>7. running \in [Threads -> States] /\ running[n] = "RUNNING"
  BY <1>2 DEF States
<1>8. /\ state'[n] \in {"RUNNING", "READY"}
      /\ requeue => state'[c] \in {"RUNNING", "READY"}
      /\ \A y \in Threads : y # n /\ ~ (y = c /\ requeue) => state'[y] = state[y]
  <2>1. \A y \in Threads \ {n} : running[y] = state[y]
    BY <1>2
  <2> HIDE DEF running
  <2> QED BY <1>5, <1>7, <2>1
<1> HIDE DEF running, requeue, popped
<1>9. CASE x = n \/ (x = c /\ requeue)
  <2>1. ~Waiting(x)
    BY <1>4, <1>6, <1>9 DEF Waiting
  <2>2. state'[x] \in {"RUNNING", "READY"}
    BY <1>8, <1>9
  <2> QED BY <2>1, <2>2, StateMoved DEF Waiting, Living
<1>10. CASE ~ (x = n \/ (x = c /\ requeue))
  <2>1. state'[x] = state[x] /\ x # current_thread'
    BY <1>5, <1>8, <1>10
  <2> QED BY <2>1, StateKept
<1> QED BY <1>9, <1>10

LEMMA MainCreateSteady ==
  ASSUME HInv, EventOK, MainCreate, NEW x \in Threads
  PROVE  Steady(x)
<1>1. PICK u \in Threads : /\ pc[u] = "none" /\ state' = [state EXCEPT ![u] = "READY"]
                           /\ pc' = [pc EXCEPT ![u] = "user"]
                           /\ current_thread' = NoThread
  BY DEF MainCreate, Unused, FillStruct
<1>2. state \in [Threads -> States] /\ pc \in [Threads -> PCs] /\ x # NoThread
  BY ThreadAssumption DEF HInv, TInv, TypeOK
<1>3. CASE x = u
  BY <1>1, <1>2, <1>3 DEF Steady, Waiting, Living
<1>4. CASE x # u
  BY <1>1, <1>2, <1>4, StateKept
<1> QED BY <1>3, <1>4

LEMMA StartCurtSteady ==
  ASSUME HInv, Once(list), EventOK, StartCurt, NEW x \in Threads
  PROVE  Steady(x)
<1>1. PICK top \in Prios :
        /\ IsTopPrio(top) /\ current_thread' = Head(list[top])
        /\ state' = [state EXCEPT ![Head(list[top])] = "RUNNING"] /\ pc' = pc
  BY DEF StartCurt
<1>2. /\ top \in ListIds /\ list \in [ListIds -> Seq(Threads)]
      /\ state \in [Threads -> States]
  BY ListNumbers DEF HInv, TInv, TypeOK
<1>3. list[top] # << >>
  <2>1. prio_exist_flag[top]
    BY <1>1, PrioAssumption DEF IsTopPrio, Prios
  <2> QED BY <2>1 DEF HInv, TInv, StartOK, StartCurt
<1>4. PICK n \in Threads : n = Head(list[top]) /\ On(list, n, top)
  BY <1>2, <1>3, DeleteFrontOnce
<1>5. state[n] = "READY"
  BY <1>2, <1>4, HomeState
<1>6. CASE x = n
  BY <1>1, <1>2, <1>4, <1>5, <1>6 DEF Steady, Waiting, Living
<1>7. CASE x # n
  BY <1>1, <1>2, <1>4, <1>7, StateKept
<1> QED BY <1>6, <1>7

LEMMA TickStepSteady ==
  ASSUME HInv, Once(list), EventOK, TickStep, NEW x \in Threads
  PROVE  Steady(x)
<1>1. /\ list \in [ListIds -> Seq(Threads)] /\ Delayed \in ListIds
      /\ state \in [Threads -> States] /\ cursor \in DOMAIN list[Delayed]
  BY ListNumbers DEF HInv, TInv, TypeOK, TickStep
<1>2. PICK t \in Threads : t = list[Delayed][cursor]
  <2>1. list[Delayed] \in Seq(Threads)
    BY <1>1
  <2> QED BY <1>1, <2>1, LenProperties
<1>3. On(list, t, Delayed)
  BY <1>1, <1>2 DEF On
<1>4. state[t] = "DELAY"
  BY <1>1, <1>3, HomeState
<1>5. current_thread' = current_thread /\ pc' = pc
  BY DEF TickStep
<1>6. CASE state' = [state EXCEPT ![t] = "READY"]
  <2>1. "READY" \in States /\ ~Waiting(t)
    BY <1>4 DEF States, Waiting
  <2> QED BY <1>1, <1>5, <1>6, <2>1, OneMoves
<1>7. CASE state' = state
  BY <1>5, <1>7, NoneMoves
<1> QED BY <1>2, <1>6, <1>7 DEF TickStep

LEMMA IdleLoopSteady ==
  ASSUME HInv, Once(list), EventOK, IdleLoop, NEW x \in Threads
  PROVE  Steady(x)
<1>1. /\ list \in [ListIds -> Seq(Threads)] /\ Terminated \in ListIds
      /\ pc \in [Threads -> PCs] /\ Idle \in Threads
      /\ state' = state /\ current_thread' = current_thread
      /\ current_thread = Idle /\ pc[Idle] = "user"
  BY ListNumbers, ThreadAssumption DEF HInv, TInv, TypeOK, IdleLoop
<1>2. CASE list[Terminated] = << >>
  <2>1. pc' = [pc EXCEPT ![Idle] = "sched"]
    BY <1>2 DEF IdleLoop
  <2> QED BY <1>1, <2>1, NoneMoves
<1>3. CASE list[Terminated] # << >>
  <2>1. PICK t \in Threads : t = Head(list[Terminated]) /\ On(list, t, Terminated)
    BY <1>1, <1>3, DeleteFrontOnce
  <2>2. state[t] = "TERMINATE"
    BY <1>1, <2>1, HomeState
  <2>3. pc' = [pc EXCEPT ![t] = "none", ![Idle] = "sched"]
    BY <1>3, <2>1 DEF IdleLoop
  <2>4. CASE x = t
    BY <1>1, <2>2, <2>4 DEF Steady, Waiting, Living
  <2>5. CASE x # t
    <3>1. CASE x = Idle
      <4>1. pc'[x] = "sched"
        BY <1>1, <2>3, <3>1
      <4> QED BY <1>1, <3>1, <4>1, NoneMoves
    <3>2. CASE x # Idle
      <4>1. pc'[x] = pc[x]
        BY <1>1, <2>3, <2>5, <3>2
      <4> QED BY <1>1, <4>1, NoneMoves
    <3> QED BY <3>1, <3>2
  <2> QED BY <2>4, <2>5
<1> QED BY <1>2, <1>3

LEMMA CreateFillSteady ==
  ASSUME HInv, EventOK, CreateFill, NEW x \in Threads
  PROVE  Steady(x)
<1>1. PICK c \in Threads : c = current_thread /\ pc[c] = "user"
  BY DEF CreateFill, InUser, Me, HInv, TInv, TypeOK
<1>2. PICK u \in Threads : /\ pc[u] = "none" /\ state' = [state EXCEPT ![u] = "READY"]
                           /\ pc' = [pc EXCEPT ![c] = "create"]
                           /\ current_thread' = current_thread
  BY <1>1 DEF CreateFill, Unused, FillStruct, Me
<1>3. /\ state \in [Threads -> States] /\ pc \in [Threads -> PCs] /\ "READY" \in States
      /\ ~Waiting(u)
  BY <1>2 DEF HInv, TInv, TypeOK, States, Waiting
<1> QED BY <1>1, <1>2, <1>3, OneMoves

LEMMA CreateInsertSteady ==
  ASSUME HInv, EventOK, CreateInsert, NEW x \in Threads
  PROVE  Steady(x)
<1>1. PICK c \in Threads : c = current_thread /\ pc[c] = "create"
  BY DEF CreateInsert, AtSection, Me, HInv, TInv, TypeOK
<1>2. PICK u \in Threads : u = arg[c]
  BY <1>1 DEF HInv, TInv, ArgOK
<1>3. pc[u] = "none" /\ state[u] = "READY" /\ pc \in [Threads -> PCs]
  BY <1>1, <1>2 DEF HInv, CreateHere, TInv, TypeOK
<1>4. PICK s \in {"sched", "user"} :
        /\ pc' = [pc EXCEPT ![u] = "user", ![c] = s]
        /\ state' = state /\ current_thread' = current_thread
  BY <1>1, <1>2 DEF CreateInsert, EnterTable, Me
<1>5. CASE x = u
  BY <1>3, <1>4, <1>5 DEF Steady, Waiting, Living
<1>6. CASE x # u
  <2>1. CASE x = c
    <3>1. pc'[x] = s
      BY <1>3, <1>4, <2>1
    <3> QED BY <1>1, <1>4, <2>1, <3>1, NoneMoves
  <2>2. CASE x # c
    <3>1. pc'[x] = pc[x]
      BY <1>3, <1>4, <1>6, <2>2
    <3> QED BY <1>4, <3>1, NoneMoves
  <2> QED BY <2>1, <2>2
<1> QED BY <1>5, <1>6

\* The running thread, in its own code, does not wait.
LEMMA CallerAwake ==
  ASSUME EventOK, current_thread \in Threads, pc[current_thread] # "leave"
  PROVE  ~Waiting(current_thread)
BY DEF EventOK

LEMMA SuspendSectionSteady ==
  ASSUME HInv, EventOK, SuspendSection, Once(list'), NEW x \in Threads
  PROVE  Steady(x)
<1>1. PICK c \in Threads : c = current_thread /\ pc[c] = "suspend"
  BY DEF SuspendSection, AtSection, Me, HInv, TInv, TypeOK
<1>2. PICK i : i = arg[c]
  OBVIOUS
<1>3. /\ state \in [Threads -> States] /\ pc \in [Threads -> PCs] /\ "BLOCK" \in States
      /\ list \in [ListIds -> Seq(Threads)] /\ Blocked \in ListIds /\ WaitIds \subseteq ListIds
  BY ListNumbers DEF HInv, TInv, TypeOK, States
<1>4. CASE /\ state' = state /\ current_thread' = current_thread
           /\ pc' = pc \/ pc' = [pc EXCEPT ![c] = "user"]
  BY <1>1, <1>3, <1>4, NoneMoves
<1>5. CASE /\ ~BadPointer(i) /\ (tid[c] = i \/ CanSuspend(thread_table[i]))
           /\ state' = [state EXCEPT ![thread_table[i]] = "BLOCK"]
           /\ list' = InsertBack(IF tid[c] = i THEN list ELSE Delete(list, thread_table[i]),
                                 Blocked, thread_table[i])
           /\ pc' = [pc EXCEPT ![c] = IF thread_table[i] = c THEN "leave" ELSE "sched"]
           /\ current_thread' = current_thread
  <2>1. PICK t \in Threads : t = thread_table[i]
    BY <1>1, <1>2, <1>5, SectionThread, ThreadAssumption DEF Me, HInv
  <2>2. ~Waiting(t)
    <3>1. CASE tid[c] = i
      <4>1. list' = InsertBack(list, Blocked, t)
        BY <1>5, <2>1, <3>1
      <4>2. \A m \in ListIds : ~On(list, t, m)
        BY <1>3, <4>1, InsertBackNew
      <4> QED BY <1>3, <4>2 DEF EventOK
    <3>2. CASE CanSuspend(t)
      BY <3>2 DEF CanSuspend, Waiting
    <3> QED BY <1>5, <2>1, <3>1, <3>2
  <2>3. /\ state' = [state EXCEPT ![t] = "BLOCK"]
        /\ \A y \in Threads : pc'[y] = "none" <=> pc[y] = "none"
        /\ \A y \in Threads : y # t /\ pc'[y] # pc[y] => pc[y] # "leave"
    BY <1>1, <1>3, <1>5, <2>1
  <2> QED BY <1>3, <1>5, <2>2, <2>3, OneMoves
<1> QED BY <1>1, <1>2, <1>4, <1>5 DEF SuspendSection, Crash, Me

LEMMA ResumeSectionSteady ==
  ASSUME HInv, EventOK, ResumeSection, NEW x \in Threads
  PROVE  Steady(x)
<1>1. PICK c \in Threads : c = current_thread /\ pc[c] = "resume"
  BY DEF ResumeSection, AtSection, Me, HInv, TInv, TypeOK
<1>2. PICK i : i = arg[c]
  OBVIOUS
<1>3. /\ state \in [Threads -> States] /\ pc \in [Threads -> PCs] /\ "READY" \in States
  BY DEF HInv, TInv, TypeOK, States
<1>4. CASE /\ state' = state /\ current_thread' = current_thread
           /\ pc' = pc \/ pc' = [pc EXCEPT ![c] = "user"]
  BY <1>1, <1>3, <1>4, NoneMoves
<1>5. CASE /\ ~BadPointer(i) /\ state[thread_table[i]] = "BLOCK"
           /\ state' = [state EXCEPT ![thread_table[i]] = "READY"]
           /\ pc' = [pc EXCEPT ![c] = "sched"]
           /\ current_thread' = current_thread
  <2>1. PICK t \in Threads : t = thread_table[i]
    BY <1>1, <1>2, <1>5, SectionThread, ThreadAssumption DEF Me, HInv
  <2>2. ~Waiting(t) /\ state' = [state EXCEPT ![t] = "READY"]
    BY <1>5, <2>1 DEF Waiting
  <2>3. /\ \A y \in Threads : pc'[y] = "none" <=> pc[y] = "none"
        /\ \A y \in Threads : y # t /\ pc'[y] # pc[y] => pc[y] # "leave"
    BY <1>1, <1>3, <1>5
  <2> QED BY <1>3, <1>5, <2>2, <2>3, OneMoves
<1> QED BY <1>1, <1>2, <1>4, <1>5 DEF ResumeSection, Crash, Me, idVars

LEMMA LeaveSteady ==
  ASSUME HInv, EventOK, Delay \/ DeleteSelf, NEW x \in Threads
  PROVE  Steady(x)
<1>1. PICK c \in Threads : c = current_thread /\ pc[c] = "user"
  BY DEF Delay, DeleteSelf, InUser, Me, HInv, TInv, TypeOK
<1>2. /\ state \in [Threads -> States] /\ pc \in [Threads -> PCs]
      /\ "DELAY" \in States /\ "TERMINATE" \in States
  BY DEF HInv, TInv, TypeOK, States
<1>3. ~Waiting(c)
  BY <1>1, CallerAwake
<1>4. /\ pc' = [pc EXCEPT ![c] = "leave"] /\ current_thread' = current_thread
      /\ \/ state' = [state EXCEPT ![c] = "DELAY"]
         \/ state' = [state EXCEPT ![c] = "TERMINATE"] /\ DeleteSelf
  BY <1>1 DEF Delay, DeleteSelf, Leave, Me
<1>5. /\ \A y \in Threads : pc'[y] = "none" <=> pc[y] = "none"
      /\ \A y \in Threads : y # c /\ pc'[y] # pc[y] => pc[y] # "leave"
  BY <1>1, <1>2, <1>4
<1> QED BY <1>1, <1>2, <1>3, <1>4, <1>5, OneMoves

LEMMA ScheduleSteady ==
  ASSUME HInv, Once(list), EventOK, ScheduleRequest \/ TickEnd, Once(list'), NEW x \in Threads
  PROVE  Steady(x)
<1>1. /\ current_thread # NoThread /\ current_thread \in Threads
      /\ pc \in [Threads -> PCs]
  <2>1. Len(list[Delayed]) \in Nat
    BY ListNumbers, LenProperties DEF HInv, TInv, TypeOK
  <2>2. TickEnd => cursor # 0
    BY <2>1 DEF TickEnd
  <2>3. ScheduleRequest => current_thread # NoThread
    BY DEF ScheduleRequest
  <2>4. current_thread # NoThread
    BY <2>2, <2>3 DEF HInv, TInv, StartOK
  <2> QED BY <2>4 DEF HInv, TInv, TypeOK
<1>2. CASE ScheduleRequest
  <2>1. pc[current_thread] \in {"sched", "leave"}
    BY <1>2 DEF ScheduleRequest
  <2>2. PICK top \in 0 .. MaxPrio :
          \/ /\ state[current_thread] = "RUNNING"
             /\ pc' = [pc EXCEPT ![current_thread] = "user"]
             /\ state' = state /\ current_thread' = current_thread
          \/ Crash(PopFault(top))
          \/ /\ ~NoneToPop(top) /\ Dispatch(top, FALSE)
             /\ pc' = [pc EXCEPT ![current_thread] = "user"]
    BY <1>2, Zenon DEF ScheduleRequest, Keeps
  <2>3. CASE pc' = [pc EXCEPT ![current_thread] = "user"]
    <3>1. \A y \in Threads : pc'[y] = "none" <=> pc[y] = "none"
      BY <1>1, <2>1, <2>3
    <3>2. CASE ~NoneToPop(top) /\ Dispatch(top, FALSE)
      BY <1>1, <3>1, <3>2, DispatchSteady
    <3>3. CASE /\ state[current_thread] = "RUNNING"
               /\ state' = state /\ current_thread' = current_thread
      <4>1. Waiting(x) => x # current_thread
        BY <3>3 DEF Waiting
      <4> QED BY <3>1, <3>3, <4>1, StateKept
    <3>4. CASE Crash(PopFault(top))
      BY <3>4, NoneMoves DEF Crash
    <3> QED BY <2>2, <3>2, <3>3, <3>4
  <2>4. CASE Crash(PopFault(top))
    BY <2>4, NoneMoves DEF Crash
  <2> QED BY <2>2, <2>3, <2>4
<1>3. CASE TickEnd
  <2>1. \/ state' = state /\ pc' = pc /\ current_thread' = current_thread
        \/ \E top \in 0 .. MaxPrio : ~NoneToPop(top) /\ Dispatch(top, TRUE) /\ pc' = pc
    BY <1>3 DEF TickEnd, ScheduleExpire, Crash
  <2> QED BY <1>1, <2>1, NoneMoves, DispatchSteady
<1> QED BY <1>2, <1>3

\* No step of the scheduler or of a thread service makes a thread wait, wakes
\* one that waits, or deletes one other than itself.
LEMMA KernelSteady ==
  ASSUME HInv, Once(list), EventOK, Next \/ UNCHANGED vars, Once(list'), NEW x \in Threads
  PROVE  Steady(x)
<1>1. CASE TickBegin \/ Yield \/ DeleteOther \/ SuspendCheck \/ ResumeCheck
  <2>1. /\ state' = state /\ current_thread' = current_thread
        /\ \/ pc' = pc
           \/ /\ pc[current_thread] = "user"
              /\ \E s \in PCs \ {"none"} : pc' = [pc EXCEPT ![current_thread] = s]
    BY <1>1 DEF TickBegin, Yield, DeleteOther, SuspendCheck, ResumeCheck, CheckTid,
                InUser, Me, PCs
  <2>2. pc \in [Threads -> PCs]
    BY DEF HInv, TInv, TypeOK
  <2>3. /\ pc'[x] = "none" <=> pc[x] = "none"
        /\ pc'[x] # pc[x] => pc[x] # "leave"
    BY <2>1, <2>2
  <2> QED BY <2>1, <2>3, NoneMoves
<1>2. CASE Halted \/ UNCHANGED vars
  BY <1>2, NoneMoves DEF Halted, vars
<1> QED BY <1>1, <1>2, MainCreateSteady, StartCurtSteady, TickStepSteady, IdleLoopSteady,
           CreateFillSteady, CreateInsertSteady, SuspendSectionSteady,
           ResumeSectionSteady, LeaveSteady, ScheduleSteady
        DEF Next, Tick, Call, Section

(***************************************************************************)
(* The invariant of the waiting threads, under every step.                 *)
(***************************************************************************)

\* A receive call is under way only in a living thread, which waits for its
\* message or has it in its thread_struct, and reads no structure.
ReceiverOK ==
  \A t \in receiving :
    /\ Living(t) /\ fetching[t] = NoStruct
    /\ state[t] # "EVENT_WAIT" => thread_msg[t] \in 1 .. sent

\* Who waits at a mailbox or queue is receiving, who waits at a semaphore is not.
WaiterOK ==
  \A w \in WaitIds, t \in Threads : On(list, t, w) => (t \in receiving <=> kind[w] # "sem")

AwaitInv == EventOK /\ WaiterOK

LEMMA WaiterWaits ==
  ASSUME HInv, Once(list), NEW w \in WaitIds, NEW x \in Threads, On(list, x, w)
  PROVE  Waiting(x)
<1>1. prio[x] \in Prios /\ state[x] \in States /\ MayBeOn(x, w) /\ w \notin Prios
      /\ w # Delayed /\ w # Blocked /\ w # Terminated
  BY ListNumbers DEF HInv, TInv, TypeOK, Lodged
<1>2. state[x] = "EVENT_WAIT"
  BY <1>1, HomeLists DEF MayBeOn, States
<1> QED BY <1>1, <1>2 DEF Waiting, MayBeOn

\* No wait list, receive call or object changes, nor who waits.
LEMMA AwaitKept ==
  ASSUME AwaitInv, \A x \in Threads : Steady(x), \A w \in WaitIds : list'[w] = list[w],
         UNCHANGED <<kind, receiving>>
  PROVE  AwaitInv'
<1>1. \A w \in WaitIds, x \in Threads : On(list', x, w) <=> On(list, x, w)
  BY DEF On
<1>2. EventOK'
  BY <1>1 DEF AwaitInv, EventOK, Steady
<1>3. WaiterOK'
  BY <1>1 DEF AwaitInv, WaiterOK
<1> QED BY <1>2, <1>3 DEF AwaitInv

\* The running thread puts itself on the wait list of object w.
LEMMA WaitAwaits ==
  ASSUME HInv, Once(list), AwaitInv, NEW w \in WaitIds, Waits(w), pc[Me] = "user",
         Me \notin receiving, kind' = kind,
         receiving' = IF kind[w] = "sem" THEN receiving ELSE receiving \cup {Me}
  PROVE  AwaitInv'
<1>1. PICK c \in Threads : c = current_thread /\ c = Me
  BY DEF HInv, TInv, TypeOK, Waits, Me
<1>2. /\ list \in [ListIds -> Seq(Threads)] /\ w \in ListIds /\ WaitIds \subseteq ListIds
      /\ state \in [Threads -> States] /\ pc \in [Threads -> PCs]
  BY ListNumbers DEF HInv, TInv, TypeOK
<1>3. /\ state' = [state EXCEPT ![c] = "EVENT_WAIT"]
      /\ pc' = [pc EXCEPT ![c] = "leave"] /\ current_thread' = c
  BY <1>1 DEF Waits, Wait, Me
<1>4. ~Waiting(c)
  BY <1>1, CallerAwake DEF AwaitInv
<1>5. state[c] # "EVENT_WAIT"
  BY <1>1, <1>4 DEF Waiting, Me
<1>6. PICK k \in 0 .. Len(list[w]) : PutIn(list, list', w, k, c)
  BY <1>1, <1>5, WaitPuts DEF Waits, HInv
<1>7. \A x \in Threads, m \in ListIds : On(list', x, m) <=> On(list, x, m) \/ (x = c /\ m = w)
  BY <1>2, <1>6, PutInOn
<1>8. \A m \in WaitIds : ~On(list, c, m)
  BY <1>4, WaiterWaits
<1>9. EventOK'
  <2> SUFFICES ASSUME NEW x \in Threads, Waiting(x)'
               PROVE  /\ \E v \in WaitIds : On(list', x, v)
                      /\ x = current_thread' => pc'[x] = "leave"
    BY DEF EventOK
  <2>1. CASE x = c
    BY <1>2, <1>3, <1>7, <2>1
  <2>2. CASE x # c
    <3>1. Waiting(x)
      BY <1>2, <1>3, <2>2 DEF Waiting
    <3>2. PICK v \in WaitIds : On(list, x, v)
      BY <3>1 DEF AwaitInv, EventOK
    <3> QED BY <1>2, <1>3, <1>7, <2>2, <3>2
  <2> QED BY <2>1, <2>2
<1>10. WaiterOK'
  BY <1>1, <1>2, <1>7, <1>8 DEF AwaitInv, WaiterOK
<1> QED BY <1>9, <1>10 DEF AwaitInv

\* The first waiter of object w is woken.
LEMMA WakeAwaits ==
  ASSUME HInv, Once(list), AwaitInv, NEW w \in WaitIds, Wakes(w), pc[Me] = "user",
         UNCHANGED <<kind, receiving>>
  PROVE  AwaitInv'
<1>1. PICK t \in Threads : t = Head(list[w])
  BY WakeLists DEF HInv, Wakes
<1>2. PICK c \in Threads : c = current_thread /\ c = Me
  BY DEF HInv, TInv, TypeOK, Wakes, Me
<1> DEFINE K == DeleteFront(list, w)
<1>3. /\ list \in [ListIds -> Seq(Threads)] /\ w \in ListIds /\ WaitIds \subseteq ListIds
      /\ state \in [Threads -> States] /\ pc \in [Threads -> PCs]
      /\ prio[t] \in ListIds /\ prio[t] \notin WaitIds /\ list[w] # << >>
  BY ListNumbers DEF HInv, TInv, TypeOK, Wakes
<1>4. /\ state' = [state EXCEPT ![t] = "READY"]
      /\ pc' = [pc EXCEPT ![c] = "sched"] /\ current_thread' = c
      /\ list' = InsertBack(K, prio[t], t)
  BY <1>1, <1>2 DEF Wakes, Wake, Me
<1>5. K \in [ListIds -> Seq(Threads)]
  BY <1>3, DeleteFrontProperties
<1>6. \A x \in Threads, m \in ListIds : On(K, x, m) <=> On(list, x, m) /\ x # t
  BY <1>1, <1>3, DeleteFrontOnce
<1> HIDE DEF K
<1>7. \A x \in Threads, m \in WaitIds : On(list', x, m) <=> On(list, x, m) /\ x # t
  <2>1. \A x \in Threads, m \in ListIds :
          On(InsertBack(K, prio[t], t), x, m) <=> On(K, x, m) \/ (x = t /\ m = prio[t])
    BY <1>3, <1>5, InsertBackOn
  <2> QED BY <1>3, <1>4, <1>6, <2>1
<1>8. EventOK'
  <2> SUFFICES ASSUME NEW x \in Threads, Waiting(x)'
               PROVE  /\ \E v \in WaitIds : On(list', x, v)
                      /\ x = current_thread' => pc'[x] = "leave"
    BY DEF EventOK
  <2>1. x # t
    BY <1>3, <1>4 DEF Waiting
  <2>2. Waiting(x)
    BY <1>2, <1>3, <1>4, <2>1 DEF Waiting
  <2>3. x # c
    BY <1>2, <2>2 DEF AwaitInv, EventOK
  <2>4. PICK v \in WaitIds : On(list, x, v)
    BY <2>2 DEF AwaitInv, EventOK
  <2> QED BY <1>4, <1>7, <2>1, <2>3, <2>4
<1>9. WaiterOK'
  BY <1>3, <1>7 DEF AwaitInv, WaiterOK
<1> QED BY <1>8, <1>9 DEF AwaitInv

(***************************************************************************)
(* Where a message is.                                                     *)
(***************************************************************************)

Queued(s)  == \E w \in WaitIds : \E i \in DOMAIN msg_list[w] : msg_list[w][i] = s
MboxAt(m)  == {w \in WaitIds : mbox_msg[w] = m}
QueueAt(m) == {s \in MsgStructs : node_msg[s] = m /\ Queued(s)}
FetchAt(m) == {t \in Threads : fetching[t] # NoStruct /\ node_msg[fetching[t]] = m}
HandAt(m)  == {t \in receiving : state[t] # "EVENT_WAIT" /\ thread_msg[t] = m}
GotAt(m)   == {t \in Threads : got[m] = t}

\* One element in a, none in the others.
Only(a, b, c, d, e) == (\E x : a = {x}) /\ b = {} /\ c = {} /\ d = {} /\ e = {}

OnlyMbox(m)  == Only(MboxAt(m), QueueAt(m), FetchAt(m), HandAt(m), GotAt(m))
OnlyQueue(m) == Only(QueueAt(m), MboxAt(m), FetchAt(m), HandAt(m), GotAt(m))
OnlyFetch(m) == Only(FetchAt(m), MboxAt(m), QueueAt(m), HandAt(m), GotAt(m))
OnlyHand(m)  == Only(HandAt(m), MboxAt(m), QueueAt(m), FetchAt(m), GotAt(m))
OnlyGot(m)   == Only(GotAt(m), MboxAt(m), QueueAt(m), FetchAt(m), HandAt(m))

InOne(m)  == OnlyMbox(m) \/ OnlyQueue(m) \/ OnlyFetch(m) \/ OnlyHand(m) \/ OnlyGot(m)
InNone(m) == MboxAt(m) = {} /\ QueueAt(m) = {} /\ FetchAt(m) = {} /\ HandAt(m) = {}
             /\ GotAt(m) = {}

\* A structure is on one queue, once, or with one thread; it holds a message
\* the kernel accepted.
StructOK ==
  /\ \A v, w \in WaitIds : \A i \in DOMAIN msg_list[v], j \in DOMAIN msg_list[w] :
       msg_list[v][i] = msg_list[w][j] => v = w /\ i = j
  /\ \A s \in MsgStructs :
       Queued(s) => node_msg[s] \in 1 .. sent /\ \A t \in Threads : fetching[t] # s
  /\ \A t \in Threads : fetching[t] # NoStruct => node_msg[fetching[t]] \in 1 .. sent
  /\ \A t, u \in Threads : fetching[t] # NoStruct /\ fetching[t] = fetching[u] => t = u

SlotsOK == \A w \in WaitIds : mbox_msg[w] <= sent

Located == \A m \in Msgs : IF m <= sent THEN InOne(m) ELSE InNone(m)

\* The inductive invariant of the messages.
HeldInv == ReceiverOK /\ StructOK /\ SlotsOK /\ Located

\* Message m stays where it is, or goes from one place to another.
LEMMA StaysPut ==
  ASSUME NEW m, MboxAt(m)' = MboxAt(m), QueueAt(m)' = QueueAt(m),
         FetchAt(m)' = FetchAt(m), HandAt(m)' = HandAt(m), GotAt(m)' = GotAt(m)
  PROVE  /\ InOne(m) => InOne(m)'
         /\ InNone(m) => InNone(m)'
BY DEF InOne, InNone, OnlyMbox, OnlyQueue, OnlyFetch, OnlyHand, OnlyGot, Only

\* A message found in one of the places is in none of the others.
LEMMA FoundAt ==
  ASSUME NEW m, InOne(m), NEW x
  PROVE  /\ x \in MboxAt(m) => /\ MboxAt(m) = {x} /\ QueueAt(m) = {} /\ FetchAt(m) = {}
                               /\ HandAt(m) = {} /\ GotAt(m) = {}
         /\ x \in QueueAt(m) => /\ QueueAt(m) = {x} /\ MboxAt(m) = {} /\ FetchAt(m) = {}
                                /\ HandAt(m) = {} /\ GotAt(m) = {}
         /\ x \in FetchAt(m) => /\ FetchAt(m) = {x} /\ MboxAt(m) = {} /\ QueueAt(m) = {}
                                /\ HandAt(m) = {} /\ GotAt(m) = {}
         /\ x \in HandAt(m) => /\ HandAt(m) = {x} /\ MboxAt(m) = {} /\ QueueAt(m) = {}
                               /\ FetchAt(m) = {} /\ GotAt(m) = {}
<1>1. ASSUME NEW a, NEW b, NEW c, NEW d, NEW e, x \in a
      PROVE  /\ Only(a, b, c, d, e) => a = {x} /\ b = {} /\ c = {} /\ d = {} /\ e = {}
             /\ ~Only(b, a, c, d, e) /\ ~Only(b, c, a, d, e) /\ ~Only(b, c, d, a, e)
             /\ ~Only(b, c, d, e, a)
  BY <1>1 DEF Only
<1>2. CASE OnlyMbox(m)
  BY <1>1, <1>2 DEF OnlyMbox
<1>3. CASE OnlyQueue(m)
  BY <1>1, <1>3 DEF OnlyQueue
<1>4. CASE OnlyFetch(m)
  BY <1>1, <1>4 DEF OnlyFetch
<1>5. CASE OnlyHand(m)
  BY <1>1, <1>5 DEF OnlyHand
<1>6. CASE OnlyGot(m)
  BY <1>1, <1>6 DEF OnlyGot
<1> QED BY <1>2, <1>3, <1>4, <1>5, <1>6 DEF InOne

\* A receiving thread neither waits for its message nor has it any more or
\* less than before, and nothing is sent or received.
LEMMA HeldKept ==
  ASSUME HeldInv, UNCHANGED msgVars,
         \A t \in receiving : Living(t)' /\ (state'[t] = "EVENT_WAIT" <=> state[t] = "EVENT_WAIT")
  PROVE  HeldInv'
<1>1. ReceiverOK'
  BY DEF HeldInv, ReceiverOK, msgVars
<1>2. StructOK' /\ SlotsOK'
  BY DEF HeldInv, StructOK, SlotsOK, Queued, msgVars
<1>3. Located'
  <2>1. sent' = sent
    BY DEF msgVars
  <2>2. ASSUME NEW m \in Msgs
        PROVE  /\ MboxAt(m)' = MboxAt(m) /\ QueueAt(m)' = QueueAt(m)
               /\ FetchAt(m)' = FetchAt(m) /\ HandAt(m)' = HandAt(m) /\ GotAt(m)' = GotAt(m)
    BY DEF MboxAt, QueueAt, FetchAt, HandAt, GotAt, Queued, msgVars
  <2> QED BY <2>1, <2>2, StaysPut DEF HeldInv, Located
<1> QED BY <1>1, <1>2, <1>3 DEF HeldInv

\* One message changes its place or gets its first one.
LEMMA OneMessageMoves ==
  ASSUME Located, sent \in Nat, NEW n \in Msgs, InOne(n)',
         \/ sent' = sent /\ n <= sent
         \/ sent' = sent + 1 /\ n = sent + 1,
         \A m \in Msgs \ {n} :
           /\ MboxAt(m)' = MboxAt(m) /\ QueueAt(m)' = QueueAt(m)
           /\ FetchAt(m)' = FetchAt(m) /\ HandAt(m)' = HandAt(m) /\ GotAt(m)' = GotAt(m)
  PROVE  Located'
<1> SUFFICES ASSUME NEW m \in Msgs
             PROVE  (IF m <= sent THEN InOne(m) ELSE InNone(m))'
  BY DEF Located
<1>1. n \in Nat /\ m \in Nat /\ n <= sent'
  BY IpcAssumption DEF Msgs
<1>2. CASE m = n
  BY <1>1, <1>2
<1>3. CASE m # n
  <2>1. m <= sent' <=> m <= sent
    BY <1>1, <1>3
  <2>2. IF m <= sent THEN InOne(m) ELSE InNone(m)
    BY DEF Located
  <2> QED BY <1>3, <2>1, <2>2, StaysPut
<1> QED BY <1>2, <1>3

\* mbox_recv takes the message from the mailbox.
LEMMA MboxTakeHeld ==
  ASSUME TInv, IpcTypeOK, HeldInv, NEW w \in WaitIds, MboxTake(w)
  PROVE  HeldInv'
<1>1. PICK c \in Threads : c = Me
  BY DEF TInv, TypeOK, MboxTake, Uses, Me
<1>2. PICK n : n = mbox_msg[w]
  OBVIOUS
<1>3. /\ sent \in 0 .. MaxSends /\ MaxSends \in Nat /\ n # 0 /\ n \in 0 .. MaxSends
      /\ mbox_msg \in [WaitIds -> 0 .. MaxSends] /\ got \in [Msgs -> Threads \cup {NoThread}]
      /\ c # NoThread
  BY <1>1, <1>2, IpcAssumption DEF IpcTypeOK, MboxTake, Uses
<1>4. n <= sent
  BY <1>2 DEF HeldInv, SlotsOK
<1>5. n \in Msgs /\ sent \in Nat
  BY <1>3 DEF Msgs
<1>6. /\ got' = [got EXCEPT ![n] = c] /\ mbox_msg' = [mbox_msg EXCEPT ![w] = 0]
      /\ UNCHANGED <<state, pc, msg_list, node_msg, thread_msg, receiving, fetching, sent>>
  BY <1>1, <1>2 DEF MboxTake, vars
<1>7. InOne(n) /\ w \in MboxAt(n)
  BY <1>2, <1>4, <1>5 DEF HeldInv, Located, MboxAt
<1>8. ReceiverOK' /\ StructOK'
  BY <1>6 DEF HeldInv, ReceiverOK, Living, StructOK, Queued
<1>9. SlotsOK'
  BY <1>3, <1>6 DEF HeldInv, SlotsOK
<1>10. \A m \in Msgs : m # 0
  BY DEF Msgs
<1>11. \A m \in Msgs : /\ QueueAt(m)' = QueueAt(m) /\ FetchAt(m)' = FetchAt(m)
                       /\ HandAt(m)' = HandAt(m)
  BY <1>6 DEF QueueAt, FetchAt, HandAt, Queued
<1>12. \A m \in Msgs \ {n} : MboxAt(m)' = MboxAt(m) /\ GotAt(m)' = GotAt(m)
  BY <1>2, <1>3, <1>6, <1>10 DEF MboxAt, GotAt
<1>13. InOne(n)'
  <2>1. MboxAt(n) = {w} /\ QueueAt(n) = {} /\ FetchAt(n) = {} /\ HandAt(n) = {}
    BY <1>7, FoundAt
  <2>2. MboxAt(n)' = {}
    BY <1>3, <1>6, <2>1 DEF MboxAt
  <2>3. GotAt(n)' = {c}
    BY <1>1, <1>3, <1>5, <1>6 DEF GotAt
  <2> QED BY <1>5, <1>11, <2>1, <2>2, <2>3 DEF InOne, OnlyGot, Only
<1>14. Located'
  BY <1>4, <1>5, <1>6, <1>11, <1>12, <1>13, OneMessageMoves DEF HeldInv
<1> QED BY <1>8, <1>9, <1>14 DEF HeldInv

\* A woken receive call returns what its thread_struct holds.
LEMMA RecvReturnHeld ==
  ASSUME TInv, IpcTypeOK, EventOK, HeldInv, RecvReturn
  PROVE  HeldInv'
<1>1. PICK c \in Threads : c = current_thread /\ c = Me
  BY DEF TInv, TypeOK, RecvReturn, AtSection, Me
<1>2. c \in receiving /\ pc[c] = "user" /\ c # NoThread
  BY <1>1 DEF RecvReturn, AtSection
<1>3. state[c] # "EVENT_WAIT"
  BY <1>1, <1>2 DEF EventOK, Waiting
<1>4. PICK n : n = thread_msg[c]
  OBVIOUS
<1>5. n \in 1 .. sent /\ sent \in 0 .. MaxSends /\ MaxSends \in Nat
  BY <1>2, <1>3, <1>4, IpcAssumption DEF HeldInv, ReceiverOK, IpcTypeOK
<1>6. n \in Msgs /\ sent \in Nat /\ n <= sent /\ n # 0
  BY <1>5 DEF Msgs
<1>7. /\ got' = [got EXCEPT ![n] = c] /\ receiving' = receiving \ {c}
      /\ UNCHANGED <<state, pc, mbox_msg, msg_list, node_msg, thread_msg, fetching, sent>>
  BY <1>1, <1>4, <1>6 DEF RecvReturn, vars
<1>8. InOne(n) /\ c \in HandAt(n)
  BY <1>2, <1>3, <1>4, <1>6 DEF HeldInv, Located, HandAt
<1>9. ReceiverOK' /\ StructOK' /\ SlotsOK'
  BY <1>7 DEF HeldInv, ReceiverOK, Living, StructOK, SlotsOK, Queued
<1>10. \A m \in Msgs : /\ MboxAt(m)' = MboxAt(m) /\ QueueAt(m)' = QueueAt(m)
                       /\ FetchAt(m)' = FetchAt(m)
  BY <1>7 DEF MboxAt, QueueAt, FetchAt, Queued
<1>11. \A m \in Msgs \ {n} : HandAt(m)' = HandAt(m) /\ GotAt(m)' = GotAt(m)
  <2>1. got \in [Msgs -> Threads \cup {NoThread}]
    BY DEF IpcTypeOK
  <2> QED BY <1>4, <1>7, <2>1 DEF HandAt, GotAt
<1>12. InOne(n)'
  <2>1. HandAt(n) = {c} /\ MboxAt(n) = {} /\ QueueAt(n) = {} /\ FetchAt(n) = {}
    BY <1>8, FoundAt
  <2>2. HandAt(n)' = {}
    BY <1>7, <2>1 DEF HandAt
  <2>3. GotAt(n)' = {c}
    <3>1. got \in [Msgs -> Threads \cup {NoThread}]
      BY DEF IpcTypeOK
    <3> QED BY <1>6, <1>7, <3>1 DEF GotAt
  <2> QED BY <1>6, <1>10, <2>1, <2>2, <2>3 DEF InOne, OnlyGot, Only
<1>13. Located'
  BY <1>6, <1>7, <1>10, <1>11, <1>12, OneMessageMoves DEF HeldInv
<1> QED BY <1>9, <1>13 DEF HeldInv

\* msgq_recv unlinks the first structure of the queue.
LEMMA MsgqUnlinkHeld ==
  ASSUME TInv, IpcTypeOK, HeldInv, NEW w \in WaitIds, MsgqUnlink(w), CanCall
  PROVE  HeldInv'
<1>1. PICK c \in Threads : c = Me
  BY DEF TInv, TypeOK, MsgqUnlink, Uses, Me
<1>2. /\ msg_list \in [WaitIds -> Seq(MsgStructs)] /\ msg_list[w] # << >>
      /\ fetching \in [Threads -> MsgStructs \cup {NoStruct}]
      /\ c \notin receiving /\ fetching[c] = NoStruct
      /\ sent \in 0 .. MaxSends /\ MaxSends \in Nat /\ NoStruct \notin MsgStructs
  BY <1>1, IpcAssumption DEF IpcTypeOK, MsgqUnlink, Uses, CanCall
<1>3. PICK s : s = Head(msg_list[w])
  OBVIOUS
<1>4. /\ fetching' = [fetching EXCEPT ![c] = s]
      /\ msg_list' = [msg_list EXCEPT ![w] = Tail(msg_list[w])]
      /\ UNCHANGED <<state, pc, mbox_msg, node_msg, thread_msg, receiving, sent, got>>
  BY <1>1, <1>3 DEF MsgqUnlink, vars
<1>5. /\ Len(msg_list[w]) \in Nat \ {0} /\ s = msg_list[w][1] /\ s \in MsgStructs
      /\ DOMAIN msg_list[w] = 1 .. Len(msg_list[w])
      /\ DOMAIN Tail(msg_list[w]) = 1 .. Len(msg_list[w]) - 1
      /\ \A i \in 1 .. Len(msg_list[w]) - 1 : Tail(msg_list[w])[i] = msg_list[w][i + 1]
  <2>1. msg_list[w] \in Seq(MsgStructs) /\ msg_list[w] # << >>
    BY <1>2
  <2>2. /\ Head(msg_list[w]) = msg_list[w][1] /\ Head(msg_list[w]) \in MsgStructs
        /\ Tail(msg_list[w]) \in Seq(MsgStructs)
        /\ Len(Tail(msg_list[w])) = Len(msg_list[w]) - 1
        /\ \A i \in 1 .. Len(Tail(msg_list[w])) : Tail(msg_list[w])[i] = msg_list[w][i + 1]
    BY <2>1, HeadTailProperties
  <2>3. /\ Len(msg_list[w]) \in Nat \ {0}
        /\ DOMAIN msg_list[w] = 1 .. Len(msg_list[w])
        /\ DOMAIN Tail(msg_list[w]) = 1 .. Len(Tail(msg_list[w]))
    BY <2>1, <2>2, LenProperties, EmptySeq
  <2> QED BY <1>3, <2>2, <2>3
\* Where the structures of the queues are before and after.
<1> DEFINE From(v, i) == IF v = w THEN i + 1 ELSE i
<1>6. ASSUME NEW v \in WaitIds, NEW i \in DOMAIN msg_list'[v]
      PROVE  /\ From(v, i) \in DOMAIN msg_list[v] /\ msg_list[v][From(v, i)] = msg_list'[v][i]
             /\ v = w => From(v, i) # 1
  <2>1. CASE v = w
    <3>1. i \in 1 .. Len(msg_list[w]) - 1 /\ msg_list'[w] = Tail(msg_list[w])
      BY <1>2, <1>4, <1>5, <2>1
    <3> QED BY <1>5, <2>1, <3>1
  <2>2. CASE v # w
    BY <1>2, <1>4, <2>2
  <2> QED BY <2>1, <2>2
<1>7. ASSUME NEW v \in WaitIds, NEW i \in DOMAIN msg_list[v], msg_list[v][i] # s
      PROVE  \E j \in DOMAIN msg_list'[v] : msg_list'[v][j] = msg_list[v][i]
  <2>1. CASE v = w
    <3>1. i - 1 \in 1 .. Len(msg_list[w]) - 1 /\ (i - 1) + 1 = i
      BY <1>5, <1>7, <2>1
    <3>2. msg_list'[w] = Tail(msg_list[w])
      BY <1>2, <1>4
    <3> QED BY <1>5, <2>1, <3>1, <3>2
  <2>2. CASE v # w
    BY <1>2, <1>4, <2>2
  <2> QED BY <2>1, <2>2
<1>8. ASSUME NEW v \in WaitIds, NEW i \in DOMAIN msg_list'[v] PROVE msg_list'[v][i] # s
  <2>1. From(v, i) \in DOMAIN msg_list[v] /\ msg_list[v][From(v, i)] = msg_list'[v][i]
        /\ (v = w => From(v, i) # 1)
    BY <1>6
  <2>2. 1 \in DOMAIN msg_list[w] /\ msg_list[w][1] = s
    BY <1>5
  <2> HIDE DEF From
  <2> QED BY <2>1, <2>2 DEF HeldInv, StructOK
<1>9. \A x : Queued(x)' <=> Queued(x) /\ x # s
  <2>1. \A x : Queued(x)' => Queued(x) /\ x # s
    BY <1>6, <1>8 DEF Queued
  <2>2. \A x : Queued(x) /\ x # s => Queued(x)'
    BY <1>7 DEF Queued
  <2> QED BY <2>1, <2>2
<1>10. Queued(s)
  BY <1>5 DEF Queued
<1>11. node_msg[s] \in 1 .. sent /\ \A t \in Threads : fetching[t] # s
  BY <1>5, <1>10 DEF HeldInv, StructOK
<1>12. PICK n : n = node_msg[s]
  OBVIOUS
<1>13. n \in Msgs /\ n <= sent /\ sent \in Nat
  BY <1>2, <1>11, <1>12 DEF Msgs
<1>14. fetching'[c] = s /\ \A t \in Threads \ {c} : fetching'[t] = fetching[t]
  BY <1>2, <1>4
<1>15. ReceiverOK' /\ SlotsOK'
  BY <1>2, <1>4, <1>14 DEF HeldInv, ReceiverOK, Living, SlotsOK, IpcTypeOK
<1>16. StructOK'
  <2>1. \A v, u \in WaitIds : \A i \in DOMAIN msg_list'[v], j \in DOMAIN msg_list'[u] :
          msg_list'[v][i] = msg_list'[u][j] => v = u /\ i = j
    <3> SUFFICES ASSUME NEW v \in WaitIds, NEW u \in WaitIds, NEW i \in DOMAIN msg_list'[v],
                        NEW j \in DOMAIN msg_list'[u], msg_list'[v][i] = msg_list'[u][j]
                 PROVE  v = u /\ i = j
      OBVIOUS
    <3>1. v = u /\ From(v, i) = From(u, j)
      <4> HIDE DEF From
      <4> QED BY <1>6 DEF HeldInv, StructOK
    <3>2. ASSUME NEW y \in WaitIds PROVE DOMAIN msg_list'[y] \subseteq Int
      <4>1. msg_list'[y] = msg_list[y] \/ msg_list'[y] = Tail(msg_list[w])
        BY <1>2, <1>4
      <4>2. msg_list[y] \in Seq(MsgStructs)
        BY <1>2
      <4>3. DOMAIN msg_list[y] = 1 .. Len(msg_list[y])
        BY <4>2, LenProperties
      <4>4. CASE msg_list'[y] = msg_list[y]
        BY <4>3, <4>4
      <4>5. CASE msg_list'[y] = Tail(msg_list[w])
        BY <1>5, <4>5
      <4> QED BY <4>1, <4>4, <4>5
    <3> QED BY <3>1, <3>2
  <2>2. \A x \in MsgStructs :
          Queued(x)' => node_msg'[x] \in 1 .. sent' /\ \A t \in Threads : fetching'[t] # x
    BY <1>4, <1>9, <1>14 DEF HeldInv, StructOK
  <2>3. \A t \in Threads : fetching'[t] # NoStruct => node_msg'[fetching'[t]] \in 1 .. sent'
    BY <1>4, <1>11, <1>14 DEF HeldInv, StructOK
  <2>4. \A t, u \in Threads : fetching'[t] # NoStruct /\ fetching'[t] = fetching'[u] => t = u
    BY <1>11, <1>14 DEF HeldInv, StructOK
  <2> QED BY <2>1, <2>2, <2>3, <2>4 DEF StructOK
<1> HIDE DEF From
<1>17. \A m \in Msgs : /\ MboxAt(m)' = MboxAt(m) /\ HandAt(m)' = HandAt(m)
                       /\ GotAt(m)' = GotAt(m)
  BY <1>4 DEF MboxAt, HandAt, GotAt
<1>18. \A m \in Msgs \ {n} : QueueAt(m)' = QueueAt(m) /\ FetchAt(m)' = FetchAt(m)
  <2>1. \A m \in Msgs \ {n} : QueueAt(m)' = QueueAt(m)
    BY <1>4, <1>9, <1>12 DEF QueueAt
  <2>2. \A m \in Msgs \ {n} : FetchAt(m)' = FetchAt(m)
    BY <1>2, <1>4, <1>12, <1>14 DEF FetchAt
  <2> QED BY <2>1, <2>2
<1>19. InOne(n)'
  <2>1. s \in QueueAt(n) /\ InOne(n)
    BY <1>5, <1>10, <1>12, <1>13 DEF QueueAt, HeldInv, Located
  <2>2. QueueAt(n) = {s} /\ MboxAt(n) = {} /\ FetchAt(n) = {} /\ HandAt(n) = {} /\ GotAt(n) = {}
    BY <2>1, FoundAt
  <2>3. QueueAt(n)' = {}
    BY <1>4, <1>9, <2>2 DEF QueueAt
  <2>4. FetchAt(n)' = {c}
    <3>1. \A t \in Threads \ {c} : ~ (fetching'[t] # NoStruct /\ node_msg'[fetching'[t]] = n)
      BY <1>4, <1>14, <2>2 DEF FetchAt
    <3>2. fetching'[c] # NoStruct /\ node_msg'[fetching'[c]] = n
      BY <1>2, <1>4, <1>5, <1>12, <1>14
    <3> QED BY <3>1, <3>2 DEF FetchAt
  <2> QED BY <1>13, <1>17, <2>2, <2>3, <2>4 DEF InOne, OnlyFetch, Only
<1>20. Located'
  BY <1>4, <1>13, <1>17, <1>18, <1>19, OneMessageMoves DEF HeldInv
<1> QED BY <1>15, <1>16, <1>20 DEF HeldInv

\* It reads the structure and returns the message.
LEMMA MsgqFetchHeld ==
  ASSUME TInv, IpcTypeOK, HeldInv, MsgqFetch
  PROVE  HeldInv'
<1>1. PICK c \in Threads : c = Me /\ c # NoThread
  BY DEF TInv, TypeOK, MsgqFetch, AtSection, Me
<1>2. PICK s : s = fetching[c]
  OBVIOUS
<1>3. PICK n : n = node_msg[s]
  OBVIOUS
<1>4. /\ s # NoStruct /\ n \in 1 .. sent /\ sent \in 0 .. MaxSends /\ MaxSends \in Nat
      /\ fetching \in [Threads -> MsgStructs \cup {NoStruct}]
      /\ got \in [Msgs -> Threads \cup {NoThread}]
  BY <1>1, <1>2, <1>3, IpcAssumption DEF MsgqFetch, HeldInv, StructOK, IpcTypeOK
<1>5. n \in Msgs /\ sent \in Nat /\ n <= sent
  BY <1>4 DEF Msgs
<1>6. /\ got' = [got EXCEPT ![n] = c] /\ fetching' = [fetching EXCEPT ![c] = NoStruct]
      /\ UNCHANGED <<state, pc, mbox_msg, msg_list, node_msg, thread_msg, receiving, sent>>
  BY <1>1, <1>2, <1>3 DEF MsgqFetch, vars
<1>7. fetching'[c] = NoStruct /\ \A t \in Threads \ {c} : fetching'[t] = fetching[t]
  BY <1>4, <1>6
<1>8. ReceiverOK' /\ SlotsOK'
  BY <1>4, <1>6, <1>7 DEF HeldInv, ReceiverOK, Living, SlotsOK, IpcTypeOK
<1>9. StructOK'
  <2>1. \A x \in MsgStructs :
          Queued(x)' => node_msg'[x] \in 1 .. sent' /\ \A t \in Threads : fetching'[t] # x
    BY <1>6, <1>7, IpcAssumption DEF HeldInv, StructOK, Queued
  <2>2. \A t \in Threads : fetching'[t] # NoStruct => node_msg'[fetching'[t]] \in 1 .. sent'
    BY <1>6, <1>7 DEF HeldInv, StructOK
  <2>3. \A t, u \in Threads : fetching'[t] # NoStruct /\ fetching'[t] = fetching'[u] => t = u
    BY <1>7 DEF HeldInv, StructOK
  <2> QED BY <1>6, <2>1, <2>2, <2>3 DEF StructOK, HeldInv
<1>10. \A m \in Msgs : /\ MboxAt(m)' = MboxAt(m) /\ HandAt(m)' = HandAt(m)
                       /\ QueueAt(m)' = QueueAt(m)
  BY <1>6 DEF MboxAt, HandAt, QueueAt, Queued
<1>11. \A m \in Msgs \ {n} : FetchAt(m)' = FetchAt(m) /\ GotAt(m)' = GotAt(m)
  BY <1>2, <1>3, <1>4, <1>6, <1>7 DEF FetchAt, GotAt
<1>12. InOne(n)'
  <2>1. c \in FetchAt(n) /\ InOne(n)
    BY <1>2, <1>3, <1>4, <1>5 DEF FetchAt, HeldInv, Located
  <2>2. FetchAt(n) = {c} /\ MboxAt(n) = {} /\ QueueAt(n) = {} /\ HandAt(n) = {}
    BY <2>1, FoundAt
  <2>3. FetchAt(n)' = {}
    BY <1>6, <1>7, <2>2 DEF FetchAt
  <2>4. GotAt(n)' = {c}
    BY <1>4, <1>5, <1>6 DEF GotAt
  <2> QED BY <1>5, <1>10, <2>2, <2>3, <2>4 DEF InOne, OnlyGot, Only
<1>13. Located'
  BY <1>5, <1>6, <1>10, <1>11, <1>12, OneMessageMoves DEF HeldInv
<1> QED BY <1>8, <1>9, <1>13 DEF HeldInv

\* The running thread waits, at a semaphore or for a message.
LEMMA WaitHeld ==
  ASSUME TInv, HeldInv, NEW w \in WaitIds, Waits(w), CanCall,
         receiving' = receiving \/ receiving' = receiving \cup {Me},
         UNCHANGED <<mbox_msg, msg_list, node_msg, thread_msg, fetching, sent, got>>
  PROVE  HeldInv'
<1>1. PICK c \in Threads : c = Me
  BY DEF TInv, TypeOK, Waits, Me
<1>2. /\ state \in [Threads -> States] /\ pc \in [Threads -> PCs]
      /\ state' = [state EXCEPT ![c] = "EVENT_WAIT"] /\ pc' = [pc EXCEPT ![c] = "leave"]
      /\ c \notin receiving /\ fetching[c] = NoStruct
  BY <1>1 DEF Waits, Wait, CanCall, TInv, TypeOK
<1>3. ReceiverOK'
  <2> SUFFICES ASSUME NEW t \in receiving'
               PROVE  /\ Living(t)' /\ fetching'[t] = NoStruct
                      /\ state'[t] # "EVENT_WAIT" => thread_msg'[t] \in 1 .. sent'
    BY DEF ReceiverOK
  <2>1. CASE t = c
    BY <1>2, <2>1 DEF Living
  <2>2. CASE t # c
    <3>1. t \in receiving
      BY <1>1, <2>2
    <3>2. Living(t) /\ fetching[t] = NoStruct
          /\ (state[t] # "EVENT_WAIT" => thread_msg[t] \in 1 .. sent)
      BY <3>1 DEF HeldInv, ReceiverOK
    <3>3. state'[t] = state[t] /\ pc'[t] = pc[t]
      BY <1>2, <2>2
    <3> QED BY <3>2, <3>3 DEF Living
  <2> QED BY <2>1, <2>2
<1>4. StructOK' /\ SlotsOK'
  BY DEF HeldInv, StructOK, SlotsOK, Queued
<1>5. ASSUME NEW m \in Msgs
      PROVE  /\ MboxAt(m)' = MboxAt(m) /\ QueueAt(m)' = QueueAt(m)
             /\ FetchAt(m)' = FetchAt(m) /\ HandAt(m)' = HandAt(m) /\ GotAt(m)' = GotAt(m)
  <2>1. HandAt(m)' = HandAt(m)
    <3>1. state'[c] = "EVENT_WAIT" /\ \A t : t # c => state'[t] = state[t]
      BY <1>2
    <3>2. receiving' \ {c} = receiving \ {c}
      BY <1>1
    <3> QED BY <1>2, <3>1, <3>2 DEF HandAt
  <2> QED BY <2>1 DEF MboxAt, QueueAt, FetchAt, GotAt, Queued
<1>6. Located'
  BY <1>5, StaysPut DEF HeldInv, Located
<1> QED BY <1>3, <1>4, <1>6 DEF HeldInv

\* What a wakeup does to the states: the first waiter, which waited, is READY.
LEMMA WokenStates ==
  ASSUME HInv, Once(list), NEW w \in WaitIds, Wakes(w)
  PROVE  /\ Head(list[w]) \in Threads /\ On(list, Head(list[w]), w)
         /\ Waiting(Head(list[w])) /\ state'[Head(list[w])] = "READY"
         /\ \A x \in Threads : x # Head(list[w]) => state'[x] = state[x]
         /\ \A x \in Threads : pc[x] # "none" => pc'[x] # "none"
<1>1. /\ list \in [ListIds -> Seq(Threads)] /\ w \in ListIds /\ list[w] # << >>
      /\ state \in [Threads -> States] /\ pc \in [Threads -> PCs]
  BY ListNumbers DEF HInv, TInv, TypeOK, Wakes
<1>2. PICK t \in Threads : t = Head(list[w]) /\ On(list, t, w)
  BY <1>1, DeleteFrontOnce
<1>3. Waiting(t)
  BY <1>2, WaiterWaits
<1>4. state' = [state EXCEPT ![t] = "READY"] /\ \E c : pc' = [pc EXCEPT ![c] = "sched"]
  BY <1>2 DEF Wakes, Wake
<1> QED BY <1>1, <1>2, <1>3, <1>4

\* A wakeup at a semaphore concerns no thread inside a receive call.
LEMMA SemWakeReceivers ==
  ASSUME HInv, Once(list), AwaitInv, HeldInv, IpcTypeOK, NEW w \in WaitIds, Wakes(w),
         kind[w] = "sem", NEW x \in receiving
  PROVE  Living(x)' /\ (state'[x] = "EVENT_WAIT" <=> state[x] = "EVENT_WAIT")
<1>1. PICK t \in Threads : t = Head(list[w]) /\ On(list, t, w)
  BY WokenStates
<1>2. t \notin receiving /\ receiving \subseteq Threads
  BY <1>1 DEF AwaitInv, WaiterOK, IpcTypeOK
<1>3. x \in Threads /\ x # t /\ Living(x)
  BY <1>2 DEF HeldInv, ReceiverOK
<1>4. state'[x] = state[x] /\ pc'[x] # "none"
  BY <1>1, <1>3, WokenStates DEF Living
<1> QED BY <1>3, <1>4 DEF Living

LEMMA SemWakeHeld ==
  ASSUME HInv, Once(list), AwaitInv, HeldInv, IpcTypeOK, NEW w \in WaitIds, Wakes(w),
         kind[w] = "sem", UNCHANGED msgVars
  PROVE  HeldInv'
BY SemWakeReceivers, HeldKept

\* The structure a message comes in is with the application: on no queue and
\* not being read.
LEMMA SendKeepsStructs ==
  ASSUME IpcTypeOK, NEW w \in WaitIds, SendWake(w)
  PROVE  \A s \in MsgStructs : Queued(s) \/ (\E x \in Threads : fetching[x] = s) =>
                                node_msg'[s] = node_msg[s]
<1>1. node_msg \in [MsgStructs -> 0 .. MaxSends]
  BY DEF IpcTypeOK
<1>2. CASE node_msg' = node_msg
  BY <1>2
<1>3. ASSUME NEW s \in MsgStructs, MayUse(s), node_msg' = [node_msg EXCEPT ![s] = sent']
      PROVE  \A y \in MsgStructs : Queued(y) \/ (\E x \in Threads : fetching[x] = y) =>
                            node_msg'[y] = node_msg[y]
  BY <1>1, <1>3 DEF MayUse, Queued
<1> QED BY <1>2, <1>3 DEF SendWake

\* mbox_send and msgq_send to a waiting receiver.
LEMMA SendWakeHeld ==
  ASSUME HInv, Once(list), AwaitInv, HeldInv, IpcTypeOK, NEW w \in WaitIds, SendWake(w)
  PROVE  HeldInv'
<1>1. Wakes(w) /\ kind[w] # "sem"
  BY DEF SendWake, Wakes, Uses
<1>2. PICK t \in Threads : /\ t = Head(list[w]) /\ On(list, t, w)
  BY <1>1, WokenStates
<1>3. /\ state[t] = "EVENT_WAIT" /\ state'[t] = "READY"
      /\ \A x \in Threads : x # t => state'[x] = state[x]
      /\ \A x \in Threads : pc[x] # "none" => pc'[x] # "none"
  BY <1>1, <1>2, WokenStates DEF Waiting
<1>4. PICK n : n = sent + 1
  OBVIOUS
<1>5. /\ sent \in Nat /\ n \in Msgs /\ sent' = n
  BY <1>4, IpcAssumption DEF SendWake, Accepted, IpcTypeOK, Msgs
<1>6. /\ thread_msg \in [Threads -> 0 .. MaxSends] /\ receiving \subseteq Threads
      /\ node_msg \in [MsgStructs -> 0 .. MaxSends] /\ t \in receiving
      /\ fetching \in [Threads -> MsgStructs \cup {NoStruct}]
  BY <1>1, <1>2 DEF IpcTypeOK, AwaitInv, WaiterOK
<1>7. /\ thread_msg' = [thread_msg EXCEPT ![t] = n]
      /\ UNCHANGED <<mbox_msg, msg_list, receiving, fetching, got>>
  BY <1>2, <1>5 DEF SendWake, HandOver
<1>8. thread_msg'[t] = n /\ \A x \in Threads : x # t => thread_msg'[x] = thread_msg[x]
  BY <1>6, <1>7
<1>9. \A s \in MsgStructs : Queued(s) \/ (\E x \in Threads : fetching[x] = s) =>
                              node_msg'[s] = node_msg[s]
  BY SendKeepsStructs
<1>10. ReceiverOK'
  <2> SUFFICES ASSUME NEW x \in receiving
               PROVE  /\ Living(x)' /\ fetching'[x] = NoStruct
                      /\ state'[x] # "EVENT_WAIT" => thread_msg'[x] \in 1 .. sent'
    BY <1>7 DEF ReceiverOK
  <2>1. /\ x \in Threads /\ Living(x) /\ fetching[x] = NoStruct
        /\ state[x] # "EVENT_WAIT" => thread_msg[x] \in 1 .. sent
    BY <1>6 DEF HeldInv, ReceiverOK
  <2>2. CASE x = t
    BY <1>3, <1>4, <1>5, <1>7, <1>8, <2>1, <2>2 DEF Living
  <2>3. CASE x # t
    BY <1>3, <1>4, <1>5, <1>7, <1>8, <2>1, <2>3 DEF Living
  <2> QED BY <2>2, <2>3
<1>11. \A k : k \in 1 .. sent => k \in 1 .. sent'
  BY <1>4, <1>5
<1>12. StructOK'
  <2>1. \A s \in MsgStructs :
          Queued(s)' => node_msg'[s] \in 1 .. sent' /\ \A x \in Threads : fetching'[x] # s
    BY <1>7, <1>9, <1>11 DEF HeldInv, StructOK, Queued
  <2>2. \A x \in Threads : fetching'[x] # NoStruct => node_msg'[fetching'[x]] \in 1 .. sent'
    BY <1>6, <1>7, <1>9, <1>11 DEF HeldInv, StructOK
  <2> QED BY <1>7, <2>1, <2>2 DEF HeldInv, StructOK
<1>13. SlotsOK'
  BY <1>4, <1>5, <1>7, IpcAssumption DEF HeldInv, SlotsOK, IpcTypeOK
<1>14. ASSUME NEW m \in Msgs
       PROVE  /\ MboxAt(m)' = MboxAt(m) /\ QueueAt(m)' = QueueAt(m)
              /\ FetchAt(m)' = FetchAt(m) /\ GotAt(m)' = GotAt(m)
  <2>1. QueueAt(m)' = QueueAt(m)
    BY <1>7, <1>9 DEF QueueAt, Queued
  <2>2. FetchAt(m)' = FetchAt(m)
    BY <1>6, <1>7, <1>9 DEF FetchAt
  <2> QED BY <1>7, <2>1, <2>2 DEF MboxAt, GotAt
<1>15. \A m \in Msgs \ {n} : HandAt(m)' = HandAt(m)
  BY <1>3, <1>6, <1>7, <1>8 DEF HandAt
<1>16. InOne(n)'
  <2>1. ~ (n <= sent)
    BY <1>4, <1>5
  <2>2. InNone(n)
    BY <1>5, <2>1 DEF HeldInv, Located
  <2>3. HandAt(n)' = {t}
    BY <1>3, <1>6, <1>7, <1>8, <2>2 DEF HandAt, InNone
  <2> QED BY <1>5, <1>14, <2>2, <2>3 DEF InNone, InOne, OnlyHand, Only
<1>17. Located'
  BY <1>4, <1>5, <1>14, <1>15, <1>16, OneMessageMoves DEF HeldInv
<1> QED BY <1>10, <1>12, <1>13, <1>17 DEF HeldInv

\* mbox_send fills an empty mailbox.
LEMMA MboxStoreHeld ==
  ASSUME HeldInv, IpcTypeOK, NEW w \in WaitIds, MboxStore(w)
  PROVE  HeldInv'
<1>1. PICK n : n = sent + 1
  OBVIOUS
<1>2. /\ sent \in Nat /\ n \in Msgs /\ sent' = n /\ mbox_msg[w] = 0
      /\ mbox_msg \in [WaitIds -> 0 .. MaxSends]
  BY <1>1, IpcAssumption DEF MboxStore, SlotFree, Accepted, IpcTypeOK, Msgs
<1>3. /\ mbox_msg' = [mbox_msg EXCEPT ![w] = n]
      /\ UNCHANGED <<state, pc, msg_list, node_msg, thread_msg, receiving, fetching, got>>
  BY <1>2 DEF MboxStore, vars
<1>4. \A k : k \in 1 .. sent => k \in 1 .. sent'
  BY <1>1, <1>2
<1>5. ReceiverOK' /\ StructOK'
  BY <1>3, <1>4 DEF HeldInv, ReceiverOK, Living, StructOK, Queued
<1>6. SlotsOK'
  <2> SUFFICES ASSUME NEW v \in WaitIds PROVE mbox_msg'[v] <= sent'
    BY DEF SlotsOK
  <2>1. mbox_msg[v] <= sent /\ mbox_msg[v] \in Int
    BY <1>2 DEF HeldInv, SlotsOK
  <2>2. CASE v = w
    BY <1>1, <1>2, <1>3, <2>2
  <2>3. CASE v # w
    BY <1>1, <1>2, <1>3, <2>1, <2>3
  <2> QED BY <2>2, <2>3
<1>7. \A m \in Msgs : /\ QueueAt(m)' = QueueAt(m) /\ FetchAt(m)' = FetchAt(m)
                      /\ HandAt(m)' = HandAt(m) /\ GotAt(m)' = GotAt(m)
  BY <1>3 DEF QueueAt, FetchAt, HandAt, GotAt, Queued
<1>8. \A m \in Msgs \ {n} : MboxAt(m)' = MboxAt(m)
  <2>1. \A m \in Msgs : m # 0
    BY DEF Msgs
  <2> QED BY <1>2, <1>3, <2>1 DEF MboxAt
<1>9. InOne(n)'
  <2>1. ~ (n <= sent)
    BY <1>1, <1>2
  <2>2. InNone(n)
    BY <1>2, <2>1 DEF HeldInv, Located
  <2>3. MboxAt(n)' = {w}
    BY <1>2, <1>3, <2>2 DEF MboxAt, InNone
  <2> QED BY <1>2, <1>7, <2>2, <2>3 DEF InNone, InOne, OnlyMbox, Only
<1>10. Located'
  BY <1>1, <1>2, <1>7, <1>8, <1>9, OneMessageMoves DEF HeldInv
<1> QED BY <1>5, <1>6, <1>10 DEF HeldInv

\* msgq_send appends the structure to the queue.
LEMMA MsgqStoreHeld ==
  ASSUME HeldInv, IpcTypeOK, NEW w \in WaitIds, MsgqStore(w)
  PROVE  HeldInv'
<1>1. PICK n : n = sent + 1
  OBVIOUS
<1>2. /\ sent \in Nat /\ n \in Msgs /\ sent' = n
      /\ msg_list \in [WaitIds -> Seq(MsgStructs)] /\ node_msg \in [MsgStructs -> 0 .. MaxSends]
      /\ fetching \in [Threads -> MsgStructs \cup {NoStruct}]
  BY <1>1, IpcAssumption DEF MsgqStore, Accepted, IpcTypeOK, Msgs
<1>3. PICK s \in MsgStructs :
        /\ MayUse(s)
        /\ node_msg' = [node_msg EXCEPT ![s] = n]
        /\ msg_list' = [msg_list EXCEPT ![w] = Append(msg_list[w], s)]
  BY <1>2 DEF MsgqStore
<1>4. UNCHANGED <<state, pc, mbox_msg, thread_msg, receiving, fetching, got>>
  BY DEF MsgqStore, vars
<1>5. /\ Len(msg_list[w]) \in Nat /\ DOMAIN msg_list[w] = 1 .. Len(msg_list[w])
      /\ DOMAIN msg_list'[w] = 1 .. Len(msg_list[w]) + 1
      /\ \A i \in 1 .. Len(msg_list[w]) : msg_list'[w][i] = msg_list[w][i]
      /\ msg_list'[w][Len(msg_list[w]) + 1] = s
      /\ \A v \in WaitIds \ {w} : msg_list'[v] = msg_list[v]
  <2>1. msg_list[w] \in Seq(MsgStructs) /\ msg_list'[w] = Append(msg_list[w], s)
    BY <1>2, <1>3
  <2>2. /\ Len(msg_list[w]) \in Nat /\ DOMAIN msg_list[w] = 1 .. Len(msg_list[w])
        /\ Append(msg_list[w], s) \in Seq(MsgStructs)
        /\ Len(Append(msg_list[w], s)) = Len(msg_list[w]) + 1
        /\ \A i \in 1 .. Len(msg_list[w]) : Append(msg_list[w], s)[i] = msg_list[w][i]
        /\ Append(msg_list[w], s)[Len(msg_list[w]) + 1] = s
    BY <2>1, LenProperties, AppendProperties
  <2>3. DOMAIN Append(msg_list[w], s) = 1 .. Len(msg_list[w]) + 1
    BY <2>2, LenProperties
  <2> QED BY <1>2, <1>3, <2>1, <2>2, <2>3
<1>6. ~Queued(s) /\ \A t \in Threads : fetching[t] # s
  BY <1>3 DEF MayUse, Queued
\* The new place is the last of the queue; all others hold what they held.
<1> DEFINE New(v, i) == v = w /\ i = Len(msg_list[w]) + 1
<1>7. ASSUME NEW v \in WaitIds, NEW i \in DOMAIN msg_list'[v], ~New(v, i)
      PROVE  i \in DOMAIN msg_list[v] /\ msg_list'[v][i] = msg_list[v][i]
  BY <1>5, <1>7
<1>8. ASSUME NEW v \in WaitIds, NEW i \in DOMAIN msg_list[v]
      PROVE  i \in DOMAIN msg_list'[v] /\ msg_list'[v][i] = msg_list[v][i]
  BY <1>5, <1>8
<1>9. ASSUME NEW v \in WaitIds, NEW i \in DOMAIN msg_list'[v]
      PROVE  msg_list'[v][i] = s <=> New(v, i)
  <2>1. CASE New(v, i)
    BY <1>5, <2>1
  <2>2. CASE ~New(v, i)
    BY <1>6, <1>7, <2>2 DEF Queued
  <2> QED BY <2>1, <2>2
<1>10. \A x : Queued(x)' <=> Queued(x) \/ x = s
  <2>1. Len(msg_list[w]) + 1 \in DOMAIN msg_list'[w]
    BY <1>5
  <2>2. Queued(s)'
    BY <1>5, <2>1 DEF Queued
  <2>3. \A x : Queued(x) => Queued(x)'
    BY <1>8 DEF Queued
  <2>4. ASSUME NEW x, Queued(x)', x # s PROVE Queued(x)
    BY <1>7, <1>9, <2>4 DEF Queued
  <2> QED BY <2>2, <2>3, <2>4
<1>11. \A k : k \in 1 .. sent => k \in 1 .. sent'
  BY <1>1, <1>2
<1>12. node_msg'[s] = n /\ \A x \in MsgStructs : x # s => node_msg'[x] = node_msg[x]
  BY <1>2, <1>3
<1>13. ReceiverOK'
  BY <1>4, <1>11 DEF HeldInv, ReceiverOK, Living
<1>14. SlotsOK'
  BY <1>1, <1>2, <1>4, IpcAssumption DEF HeldInv, SlotsOK, IpcTypeOK
<1>15. StructOK'
  <2>1. \A v, u \in WaitIds : \A i \in DOMAIN msg_list'[v], j \in DOMAIN msg_list'[u] :
          msg_list'[v][i] = msg_list'[u][j] => v = u /\ i = j
    <3> SUFFICES ASSUME NEW v \in WaitIds, NEW u \in WaitIds, NEW i \in DOMAIN msg_list'[v],
                        NEW j \in DOMAIN msg_list'[u], msg_list'[v][i] = msg_list'[u][j]
                 PROVE  v = u /\ i = j
      OBVIOUS
    <3>1. New(v, i) <=> New(u, j)
      <4> HIDE DEF New
      <4> QED BY <1>9
    <3>2. CASE New(v, i)
      BY <3>1, <3>2
    <3>3. CASE ~New(v, i)
      <4> HIDE DEF New
      <4>1. /\ i \in DOMAIN msg_list[v] /\ j \in DOMAIN msg_list[u]
            /\ msg_list[v][i] = msg_list[u][j]
        BY <1>7, <3>1, <3>3
      <4> QED BY <4>1 DEF HeldInv, StructOK
    <3> QED BY <3>2, <3>3
  <2>2. \A x \in MsgStructs :
          Queued(x)' => node_msg'[x] \in 1 .. sent' /\ \A t \in Threads : fetching'[t] # x
    <3>1. n \in 1 .. sent'
      BY <1>1, <1>2
    <3> QED BY <1>4, <1>6, <1>10, <1>11, <1>12, <3>1 DEF HeldInv, StructOK
  <2>3. \A t \in Threads : fetching'[t] # NoStruct => node_msg'[fetching'[t]] \in 1 .. sent'
    BY <1>2, <1>4, <1>6, <1>11, <1>12 DEF HeldInv, StructOK
  <2> QED BY <1>4, <2>1, <2>2, <2>3 DEF HeldInv, StructOK
<1> HIDE DEF New
<1>16. \A m \in Msgs : /\ MboxAt(m)' = MboxAt(m) /\ HandAt(m)' = HandAt(m)
                       /\ GotAt(m)' = GotAt(m)
  BY <1>4 DEF MboxAt, HandAt, GotAt
<1>17. \A m \in Msgs : FetchAt(m)' = FetchAt(m)
  <2>1. \A t \in Threads : fetching[t] # NoStruct => node_msg'[fetching[t]] = node_msg[fetching[t]]
    BY <1>2, <1>6, <1>12
  <2> QED BY <1>4, <2>1 DEF FetchAt
<1>18. \A m \in Msgs \ {n} : QueueAt(m)' = QueueAt(m)
  BY <1>6, <1>10, <1>12 DEF QueueAt
<1>19. InOne(n)'
  <2>1. ~ (n <= sent)
    BY <1>1, <1>2
  <2>2. InNone(n)
    BY <1>2, <2>1 DEF HeldInv, Located
  <2>3. QueueAt(n)' = {s}
    BY <1>10, <1>12, <2>2 DEF QueueAt, InNone
  <2> QED BY <1>2, <1>16, <1>17, <2>2, <2>3 DEF InNone, InOne, OnlyQueue, Only
<1>20. Located'
  BY <1>1, <1>2, <1>16, <1>17, <1>18, <1>19, OneMessageMoves DEF HeldInv
<1> QED BY <1>13, <1>14, <1>15, <1>20 DEF HeldInv

(***************************************************************************)
(* Every step of the system.                                               *)
(***************************************************************************)

MessageInv == Once(list) => AwaitInv /\ HeldInv

\* The kernel's own steps delete nobody.
LEMMA NoDelete ==
  ASSUME HInv, KernelStep, DeleteSelf
  PROVE  FALSE
<1>1. PICK c \in Threads : c = current_thread
  BY DEF HInv, TInv, TypeOK, DeleteSelf, InUser, Me
<1>2. /\ c # NoThread /\ c # Idle /\ pc[c] = "user" /\ cursor = 0 /\ pc'[c] = "leave"
      /\ pc \in [Threads -> PCs]
  BY <1>1 DEF DeleteSelf, Leave, InUser, Me, HInv, TInv, TypeOK
<1>3. CASE MainCreate \/ StartCurt \/ IdleLoop \/ ScheduleRequest \/ Section
  BY <1>1, <1>2, <1>3 DEF MainCreate, StartCurt, IdleLoop, ScheduleRequest, Section,
       CreateInsert, SuspendSection, ResumeSection, AtSection, Me
<1>4. CASE Tick
  <2>1. pc' = pc
    BY <1>4 DEF Tick, TickBegin, TickStep, TickEnd, ScheduleExpire, Crash
  <2> QED BY <1>2, <2>1
<1> QED BY <1>3, <1>4 DEF KernelStep

\* Steps that touch neither lists nor states nor receive calls.
LEMMA AwaitUntouched ==
  ASSUME AwaitInv, UNCHANGED <<list, state, pc, current_thread, kind, receiving>>
  PROVE  AwaitInv'
<1>1. \A x \in Threads : Steady(x)
  BY NoneMoves DEF AwaitInv
<1> QED BY <1>1, AwaitKept

\* A thread inside a receive call neither starts nor stops to wait in a step
\* of the kernel.
LEMMA KernelReceivers ==
  ASSUME HInv, Once(list), Once(list'), AwaitInv, HeldInv, IpcTypeOK,
         Next, DeleteSelf => Me \notin receiving, NEW t \in receiving
  PROVE  Living(t)' /\ (state'[t] = "EVENT_WAIT" <=> state[t] = "EVENT_WAIT")
<1>1. t \in Threads /\ Living(t) /\ Steady(t)
  BY KernelSteady DEF IpcTypeOK, HeldInv, ReceiverOK, AwaitInv
<1>2. Living(t)'
  BY <1>1 DEF Steady, Me
<1> QED BY <1>1, <1>2 DEF Steady, Living, Waiting

LEMMA KernelMessages ==
  ASSUME HInv, Once(list), Once(list'), AwaitInv, HeldInv, IpcTypeOK,
         Next, UNCHANGED <<semVars, msgVars>>,
         DeleteSelf => Me \notin receiving
  PROVE  AwaitInv' /\ HeldInv'
<1>1. \A x \in Threads : Steady(x)
  BY KernelSteady DEF AwaitInv
<1>2. \A w \in WaitIds : list'[w] = list[w]
  BY KernelKeepsWaits
<1>3. AwaitInv'
  BY <1>1, <1>2, AwaitKept DEF semVars, msgVars
<1>4. HeldInv'
  BY KernelReceivers, HeldKept
<1> QED BY <1>3, <1>4

LEMMA SemMessages ==
  ASSUME HInv, Once(list), AwaitInv, HeldInv, IpcTypeOK, CanCall,
         NEW w \in WaitIds, SemCall(w), UNCHANGED msgVars
  PROVE  AwaitInv' /\ HeldInv'
<1>1. CASE SemTake(w) \/ SemCountUp(w)
  <2>1. UNCHANGED <<list, state, pc, current_thread, kind, receiving>>
    BY <1>1 DEF SemTake, SemCountUp, vars, msgVars
  <2>2. \A t \in receiving : Living(t)'
    BY <2>1 DEF HeldInv, ReceiverOK, Living
  <2>3. state' = state
    BY <2>1
  <2> QED BY <2>1, <2>2, <2>3, AwaitUntouched, HeldKept
<1>2. CASE SemBlock(w)
  <2>1. /\ Waits(w) /\ pc[Me] = "user" /\ kind' = kind /\ kind[w] = "sem"
    BY <1>2 DEF SemBlock, PendLeavesMasked, Waits, Uses
  <2>2. /\ receiving' = receiving
        /\ UNCHANGED <<mbox_msg, msg_list, node_msg, thread_msg, fetching, sent, got>>
    BY DEF msgVars
  <2>3. AwaitInv'
    BY <2>1, <2>2, WaitAwaits DEF CanCall
  <2>4. HeldInv'
    BY <2>1, <2>2, WaitHeld DEF HInv
  <2> QED BY <2>3, <2>4
<1>3. CASE SemWake(w)
  <2>1. /\ Wakes(w) /\ pc[Me] = "user" /\ kind' = kind /\ kind[w] = "sem"
    BY <1>3 DEF SemWake, Wakes, Uses, semVars
  <2>2. receiving' = receiving
    BY DEF msgVars
  <2> QED BY <2>1, <2>2, WakeAwaits, SemWakeHeld
<1> QED BY <1>1, <1>2, <1>3 DEF SemCall

LEMMA MsgMessages ==
  ASSUME HInv, Once(list), AwaitInv, HeldInv, IpcTypeOK, CanCall,
         NEW w \in WaitIds, MsgCall(w)
  PROVE  AwaitInv' /\ HeldInv'
<1>0. TInv
  BY DEF HInv
<1>1. CASE MboxTake(w) \/ MsgqUnlink(w) \/ MboxStore(w) \/ MsgqStore(w)
  <2>1. UNCHANGED <<list, state, pc, current_thread, kind, receiving>>
    BY <1>1 DEF MboxTake, MsgqUnlink, MboxStore, MsgqStore, vars, semVars
  <2>2. HeldInv'
    BY <1>0, <1>1, MboxTakeHeld, MsgqUnlinkHeld, MboxStoreHeld, MsgqStoreHeld
  <2> QED BY <2>1, <2>2, AwaitUntouched
<1>2. CASE MboxWait(w) \/ MsgqWait(w)
  <2>1. ie \in BOOLEAN
    BY DEF HInv, TInv, TypeOK
  <2>2. /\ Waits(w) /\ pc[Me] = "user" /\ kind' = kind /\ kind[w] # "sem"
        /\ receiving' = receiving \cup {Me}
        /\ UNCHANGED <<mbox_msg, msg_list, node_msg, thread_msg, fetching, sent, got>>
    BY <1>2, <2>1 DEF MboxWait, MsgqWait, RecvWait, Waits, Uses, semVars
  <2>3. AwaitInv'
    BY <2>2, WaitAwaits DEF CanCall
  <2>4. HeldInv'
    BY <1>0, <2>2, WaitHeld
  <2> QED BY <2>3, <2>4
<1>3. CASE MsgqTryEmpty(w)
  <2>1. UNCHANGED <<list, state, pc, current_thread, kind, msgVars>>
    BY <1>3 DEF MsgqTryEmpty
  <2>2. receiving' = receiving
    BY <2>1 DEF msgVars
  <2>3. \A t \in receiving : Living(t)'
    BY <2>1 DEF HeldInv, ReceiverOK, Living
  <2>4. state' = state
    BY <2>1
  <2> QED BY <2>1, <2>2, <2>3, <2>4, AwaitUntouched, HeldKept
<1>4. CASE SendWake(w)
  <2>1. /\ Wakes(w) /\ pc[Me] = "user" /\ UNCHANGED <<kind, receiving>>
    BY <1>4 DEF SendWake, Wakes, Uses, semVars
  <2> QED BY <1>4, <2>1, WakeAwaits, SendWakeHeld
<1> QED BY <1>1, <1>2, <1>3, <1>4 DEF MsgCall

LEMMA ReturnMessages ==
  ASSUME HInv, Once(list), AwaitInv, HeldInv, IpcTypeOK, RecvReturn \/ MsgqFetch
  PROVE  AwaitInv' /\ HeldInv'
<1>0. TInv /\ EventOK
  BY DEF HInv, AwaitInv
<1>1. CASE MsgqFetch
  <2>1. UNCHANGED <<list, state, pc, current_thread, kind, receiving>>
    BY <1>1 DEF MsgqFetch, vars, semVars
  <2> QED BY <1>0, <1>1, <2>1, AwaitUntouched, MsgqFetchHeld
<1>2. CASE RecvReturn
  <2>1. PICK c \in Threads : c = current_thread /\ c = Me
    BY <1>0, <1>2 DEF TInv, TypeOK, RecvReturn, AtSection, Me
  <2>2. /\ pc[c] = "user" /\ receiving' = receiving \ {c}
        /\ UNCHANGED <<list, state, pc, current_thread, kind>>
    BY <1>2, <2>1 DEF RecvReturn, AtSection, vars, semVars
  <2>3. \A w \in WaitIds : ~On(list, c, w)
    BY <2>1, <2>2, CallerAwake, WaiterWaits DEF AwaitInv
  <2>4. \A w \in WaitIds, x \in Threads : On(list', x, w) <=> On(list, x, w)
    BY <2>2
  <2>5. EventOK'
    BY <2>2, <2>4 DEF AwaitInv, EventOK, Waiting
  <2>6. WaiterOK'
    BY <2>2, <2>3, <2>4 DEF AwaitInv, WaiterOK
  <2> QED BY <1>0, <1>2, <2>5, <2>6, RecvReturnHeld DEF AwaitInv
<1> QED BY <1>1, <1>2

LEMMA MessageNext ==
  ASSUME HInv, IpcTypeOK, MessageInv, [IpcNext]_allVars
  PROVE  MessageInv'
<1> SUFFICES ASSUME Once(list') PROVE AwaitInv' /\ HeldInv'
  BY DEF MessageInv
<1>1. CASE UNCHANGED allVars
  <2>1. UNCHANGED <<list, state, pc, current_thread, kind, receiving, msgVars>>
    BY <1>1 DEF allVars, vars, semVars, msgVars
  <2>2. AwaitInv /\ HeldInv
    BY <2>1 DEF MessageInv
  <2>3. \A t \in receiving : Living(t)'
    BY <2>1, <2>2 DEF HeldInv, ReceiverOK, Living
  <2>4. state' = state /\ UNCHANGED msgVars
    BY <2>1
  <2> QED BY <2>1, <2>2, <2>3, <2>4, AwaitUntouched, HeldKept
<1>2. CASE Alive /\ IpcNext
  <2>1. Once(list) /\ AwaitInv /\ HeldInv
    BY <1>2, AliveOnce DEF MessageInv
  <2>2. CASE KernelStep /\ UNCHANGED <<semVars, msgVars>>
    <3>1. Next
      BY <1>2, <2>2 DEF Next, KernelStep
    <3>2. ~DeleteSelf
      BY <2>2, NoDelete
    <3> QED BY <2>1, <2>2, <3>1, <3>2, KernelMessages
  <2>3. CASE CanCall /\ Call /\ UNCHANGED <<semVars, msgVars>>
    <3>1. Next
      BY <1>2, <2>3 DEF Next
    <3>2. Me \notin receiving
      BY <2>3 DEF CanCall
    <3> QED BY <2>1, <2>3, <3>1, <3>2, KernelMessages
  <2>4. CASE CanCall /\ \E w \in WaitIds : SemCall(w) /\ UNCHANGED msgVars
    BY <2>1, <2>4, SemMessages
  <2>5. CASE CanCall /\ \E w \in WaitIds : MsgCall(w)
    BY <2>1, <2>5, MsgMessages
  <2>6. CASE RecvReturn \/ MsgqFetch
    BY <2>1, <2>6, ReturnMessages
  <2> QED BY <1>2, <2>2, <2>3, <2>4, <2>5, <2>6 DEF IpcNext
<1> QED BY <1>1, <1>2 DEF IpcNext

LEMMA MessageInit == IpcInit => MessageInv
<1> SUFFICES ASSUME IpcInit PROVE AwaitInv /\ HeldInv
  BY DEF MessageInv
<1>1. /\ state = [t \in Threads |-> "READY"] /\ receiving = {}
      /\ \A w \in WaitIds : list[w] = << >> /\ msg_list[w] = << >>
      /\ fetching = [t \in Threads |-> NoStruct] /\ got = [m \in Msgs |-> NoThread]
      /\ mbox_msg \in [WaitIds -> {0} \cup (Msgs \cap {1})]
      /\ sent = IF \A w \in WaitIds : mbox_msg[w] = 0 THEN 0 ELSE 1
      /\ \A v, w \in WaitIds : mbox_msg[v] # 0 /\ mbox_msg[w] # 0 => v = w
  <2>1. \A w \in WaitIds : w \in ListIds /\ w # MaxPrio - 1
    BY ListNumbers, PrioAssumption DEF Prios
  <2> QED BY <2>1 DEF IpcInit, InitCurt, InitObjects
<1>2. AwaitInv
  BY <1>1 DEF AwaitInv, EventOK, Waiting, WaiterOK, On
<1>3. \A s : ~Queued(s)
  BY <1>1 DEF Queued
<1>4. ReceiverOK /\ StructOK
  BY <1>1, <1>3 DEF ReceiverOK, StructOK
<1>5. SlotsOK
  <2> SUFFICES ASSUME NEW w \in WaitIds PROVE mbox_msg[w] <= sent
    BY DEF SlotsOK
  <2>1. mbox_msg[w] = 0 \/ mbox_msg[w] = 1
    BY <1>1
  <2> QED BY <1>1, <2>1
<1>6. Located
  <2> SUFFICES ASSUME NEW m \in Msgs PROVE IF m <= sent THEN InOne(m) ELSE InNone(m)
    BY DEF Located
  <2>1. /\ QueueAt(m) = {} /\ FetchAt(m) = {} /\ HandAt(m) = {} /\ GotAt(m) = {}
    BY <1>1, <1>3, ThreadAssumption DEF QueueAt, FetchAt, HandAt, GotAt
  <2>2. m \in Nat /\ m >= 1
    BY IpcAssumption DEF Msgs
  <2>3. CASE \A w \in WaitIds : mbox_msg[w] # m
    <3>1. MboxAt(m) = {}
      BY <2>3 DEF MboxAt
    <3>2. ~ (m <= sent)
      <4>1. CASE m = 1
        <5>1. \A w \in WaitIds : mbox_msg[w] = 0
          BY <1>1, <2>3, <4>1
        <5> QED BY <1>1, <4>1, <5>1
      <4>2. CASE m > 1
        BY <1>1, <4>2, <2>2
      <4> QED BY <2>2, <4>1, <4>2
    <3> QED BY <2>1, <3>1, <3>2 DEF InNone
  <2>4. ASSUME NEW w \in WaitIds, mbox_msg[w] = m
        PROVE  IF m <= sent THEN InOne(m) ELSE InNone(m)
    <3>1. MboxAt(m) = {w}
      BY <1>1, <2>2, <2>4 DEF MboxAt
    <3>2. mbox_msg[w] = 1 /\ sent = 1
      BY <1>1, <2>2, <2>4
    <3> QED BY <2>1, <2>4, <3>1, <3>2 DEF InOne, OnlyMbox, Only
  <2> QED BY <2>3, <2>4
<1> QED BY <1>2, <1>4, <1>5, <1>6 DEF HeldInv

\* One place or none, counted.
LEMMA PlacesCounted ==
  ASSUME NEW m
  PROVE  /\ InOne(m) => Cardinality(Places(m)) = 1
         /\ InNone(m) => Cardinality(Places(m)) = 0
<1>1. Places(m) = {<<"mbox", w>> : w \in MboxAt(m)} \cup {<<"msgq", s>> : s \in QueueAt(m)}
        \cup {<<"fetch", t>> : t \in FetchAt(m)} \cup {<<"hand", t>> : t \in HandAt(m)}
        \cup {<<"got", t>> : t \in GotAt(m)}
  BY Zenon DEF Places, MboxAt, QueueAt, Queued, FetchAt, HandAt, GotAt
<1>2. InNone(m) => Places(m) = {}
  BY <1>1 DEF InNone
<1>3. InOne(m) => \E p : Places(m) = {p}
  <2>3. CASE OnlyMbox(m)
    <3>1. PICK x : /\ MboxAt(m) = {x} /\ QueueAt(m) = {} /\ FetchAt(m) = {}
                   /\ HandAt(m) = {} /\ GotAt(m) = {}
      BY <2>3 DEF OnlyMbox, Only
    <3>2. Places(m) = {<<"mbox", x>>}
      BY <1>1, <3>1
    <3> QED BY <3>2
  <2>4. CASE OnlyQueue(m)
    <3>1. PICK x : /\ QueueAt(m) = {x} /\ MboxAt(m) = {} /\ FetchAt(m) = {}
                   /\ HandAt(m) = {} /\ GotAt(m) = {}
      BY <2>4 DEF OnlyQueue, Only
    <3>2. Places(m) = {<<"msgq", x>>}
      BY <1>1, <3>1
    <3> QED BY <3>2
  <2>5. CASE OnlyFetch(m)
    <3>1. PICK x : /\ FetchAt(m) = {x} /\ MboxAt(m) = {} /\ QueueAt(m) = {}
                   /\ HandAt(m) = {} /\ GotAt(m) = {}
      BY <2>5 DEF OnlyFetch, Only
    <3>2. Places(m) = {<<"fetch", x>>}
      BY <1>1, <3>1
    <3> QED BY <3>2
  <2>6. CASE OnlyHand(m)
    <3>1. PICK x : /\ HandAt(m) = {x} /\ MboxAt(m) = {} /\ QueueAt(m) = {}
                   /\ FetchAt(m) = {} /\ GotAt(m) = {}
      BY <2>6 DEF OnlyHand, Only
    <3>2. Places(m) = {<<"hand", x>>}
      BY <1>1, <3>1
    <3> QED BY <3>2
  <2>7. CASE OnlyGot(m)
    <3>1. PICK x : /\ GotAt(m) = {x} /\ MboxAt(m) = {} /\ QueueAt(m) = {}
                   /\ FetchAt(m) = {} /\ HandAt(m) = {}
      BY <2>7 DEF OnlyGot, Only
    <3>2. Places(m) = {<<"got", x>>}
      BY <1>1, <3>1
    <3> QED BY <3>2
  <2> QED BY <2>3, <2>4, <2>5, <2>6, <2>7 DEF InOne
<1> QED BY <1>2, <1>3, FS_EmptySet, FS_Singleton

(* mbox_send, mbox_recv, msgq_send and msgq_recv (ipc.c:25-273) keep every message
   they accepted in exactly one place -- a mailbox, a queue, a structure that is
   being read, a woken receiver, or the hands of the application -- for any number
   of objects, threads and messages, with the tick at any point and whatever other
   services the application uses: none is lost, doubled or overwritten. *)
THEOREM MessagesKept == IpcSpec => []MessageInOnePlace
<1>1. MessageInv => MessageInOnePlace
  <2> SUFFICES ASSUME MessageInv, Alive, NEW m \in Msgs
               PROVE  Cardinality(Places(m)) = IF m <= sent THEN 1 ELSE 0
    BY DEF MessageInOnePlace
  <2>1. IF m <= sent THEN InOne(m) ELSE InNone(m)
    BY AliveOnce DEF MessageInv, HeldInv, Located
  <2> QED BY <2>1, PlacesCounted
<1>2. IpcInit => IpcInv /\ HInv /\ MessageInv
  BY IpcInvInit, HInvInit, MessageInit DEF IpcInit
<1>3. IpcInv /\ HInv /\ MessageInv /\ [IpcNext]_allVars => (IpcInv /\ HInv /\ MessageInv)'
  BY IpcInvNext, IpcHInv, MessageNext DEF IpcInv
<1> QED BY <1>1, <1>2, <1>3, PTL DEF IpcSpec

(***************************************************************************)
(* Every thread on the list of its state, with the objects too: outside    *)
(* the two windows the services of sync.c and ipc.c keep it as well.       *)
(***************************************************************************)

LEMMA WaitsRest == ASSUME LInv, NEW w \in WaitIds, Waits(w) PROVE Rest'
<1>1. /\ list \in [ListIds -> Seq(Threads)] /\ w \in ListIds /\ Once(list)
      /\ Me = current_thread /\ Me \in Threads /\ prio[Me] \in Prios
      /\ Me # NoThread /\ pc[Me] = "user" /\ cursor = 0
  BY ListNumbers DEF LInv, TInv, TypeOK, Waits, Me
<1>2. state[Me] = "RUNNING" /\ \A m \in ListIds : ~On(list, Me, m)
  BY <1>1, CurrentUnlinked
<1>3. PICK k \in 0 .. Len(list[w]) : PutIn(list, list', w, k, Me)
  BY <1>2, WaitPuts DEF LInv, Waits
<1>4. /\ Once(list')
      /\ \A x \in Threads, m \in ListIds : On(list', x, m) <=> On(list, x, m) \/ (x = Me /\ m = w)
  <2>1. /\ \A x \in Threads, m \in ListIds :
             On(list', x, m) <=> On(list, x, m) \/ (x = Me /\ m = w)
        /\ Once(list') <=> Once(list) /\ \A m \in ListIds : ~On(list, Me, m)
    BY <1>1, <1>3, PutInOn
  <2> QED BY <1>1, <1>2, <2>1
<1>5. /\ state' = [state EXCEPT ![Me] = "EVENT_WAIT"] /\ pc' = [pc EXCEPT ![Me] = "leave"]
      /\ UNCHANGED <<current_thread, idVars, cursor>>
  BY DEF Waits, Wait
<1>6. w \in Homes("EVENT_WAIT", prio[Me])
  BY <1>1, HomeLists
<1> QED BY <1>1, <1>4, <1>5, <1>6, LinkedRest DEF Me

LEMMA WakesRest == ASSUME LInv, NEW w \in WaitIds, Wakes(w) PROVE Rest'
<1>1. /\ list \in [ListIds -> Seq(Threads)] /\ w \in ListIds /\ list[w] # << >> /\ Once(list)
      /\ current_thread # NoThread /\ pc[current_thread] = "user" /\ cursor = 0
  BY ListNumbers DEF LInv, TInv, TypeOK, Wakes, Me
<1>2. PICK t \in Threads : t = Head(list[w]) /\ On(list, t, w)
  BY <1>1, DeleteFrontOnce
<1>3. PICK K : K = DeleteFront(list, w)
  OBVIOUS
<1>4. /\ K \in [ListIds -> Seq(Threads)] /\ Once(K)
      /\ \A x \in Threads, m \in ListIds : On(K, x, m) <=> On(list, x, m) /\ x # t
  <2>1. DeleteFront(list, w) \in [ListIds -> Seq(Threads)]
    BY <1>1, DeleteFrontProperties
  <2>2. /\ Once(DeleteFront(list, w))
        /\ \A x \in Threads, m \in ListIds :
             On(DeleteFront(list, w), x, m) <=> On(list, x, m) /\ x # Head(list[w])
    BY <1>1, DeleteFrontOnce
  <2> QED BY <1>2, <1>3, <2>1, <2>2
<1>5. /\ list' = InsertBack(K, prio[t], t)
      /\ state' = [state EXCEPT ![t] = "READY"]
      /\ pc' = [pc EXCEPT ![current_thread] = "sched"]
      /\ UNCHANGED <<current_thread, idVars, cursor>>
  BY <1>2, <1>3 DEF Wakes, Wake, Me
<1>6. /\ prio[t] \in Prios /\ prio[t] \in ListIds /\ prio[t] \in Homes("READY", prio[t])
  BY <1>2, HomeLists, ListNumbers DEF LInv, TInv, TypeOK
<1>7. pc[t] # "none" /\ w \in Homes(state[t], prio[t])
  BY <1>1, <1>2 DEF LInv, AtHome, Placed
<1>8. state[t] # "RUNNING"
  BY <1>6, <1>7, HomeLists
<1> QED BY <1>1, <1>2, <1>4, <1>5, <1>6, <1>7, <1>8, MoveOtherRest

LEMMA IpcLInv ==
  ASSUME "leave" \notin TickPoints, "create" \notin TickPoints,
         LInv, [IpcNext]_allVars
  PROVE  LInv'
<1>1. TInv /\ TInv'
  BY IpcTInv DEF LInv
<1>2. CASE Next \/ UNCHANGED vars
  BY <1>2, LInvNext
<1>3. ASSUME NEW w \in WaitIds, Waits(w) \/ Wakes(w) PROVE LInv'
  BY <1>1, <1>3, WaitsRest, WakesRest DEF LInv, Rest
<1>4. CASE UNCHANGED <<list, prio_exist_flag, current_thread, idVars, state,
                       time_quantum, delayed_time, saved_ie, pc, arg, cursor, fault>>
  <2>1. Rest'
    BY <1>4, RestKept DEF idVars
  <2> QED BY <1>1, <2>1 DEF LInv, Rest
<1> QED BY <1>1, <1>2, <1>3, <1>4, KernelPart

(* Outside the two windows, each thread is on exactly the list its state calls
   for, the wait lists of the objects included (thread.c, kernel.c, sync.c and
   ipc.c together): insert_before_list and insert_back_list in the receive and
   pend calls, delete_front_list in the sends and posts. *)
THEOREM WaitListsCorrect ==
  ASSUME "leave" \notin TickPoints, "create" \notin TickPoints
  PROVE  IpcSpec => []ListsMatchStates
<1>1. IpcInit => LInv
  BY LInvInit DEF IpcInit
<1>2. LInv /\ [IpcNext]_allVars => LInv'
  BY IpcLInv
<1> QED BY <1>1, <1>2, LInvLists, PTL DEF IpcSpec

(***************************************************************************)
(* Mailboxes and queues as channels.                                       *)
(***************************************************************************)

ChannelStep == [Chan!Next]_<<[w \in WaitIds |-> Stored(w)], [t \in Threads |-> InHand(t)], got>>

\* What the objects store and what the threads hold changes nowhere, at one
\* object v, and with one thread t.
StoresKept == \A w \in WaitIds : Stored(w)' = Stored(w)
HandsKept == \A t \in Threads : InHand(t)' = InHand(t)
OtherStoresKept(v) == \A w \in WaitIds \ {v} : Stored(w)' = Stored(w)
OtherHandsKept(t) == \A x \in Threads \ {t} : InHand(x)' = InHand(x)

LEMMA ChannelStutters ==
  ASSUME StoresKept, HandsKept, got' = got
  PROVE  ChannelStep
<1>1. [w \in WaitIds |-> Stored(w)]' = [w \in WaitIds |-> Stored(w)]
  BY DEF StoresKept
<1>2. [t \in Threads |-> InHand(t)]' = [t \in Threads |-> InHand(t)]
  BY DEF HandsKept
<1> QED BY <1>1, <1>2 DEF ChannelStep

\* One step of a channel each.
LEMMA ChannelAccepts ==
  ASSUME NEW n \in Msgs, NEW v \in WaitIds, Chan!Fresh(n),
         Stored(v)' = Append(Stored(v), n), OtherStoresKept(v), HandsKept, got' = got
  PROVE  ChannelStep
<1>1. [w \in WaitIds |-> Stored(w)]'
        = [[w \in WaitIds |-> Stored(w)] EXCEPT ![v] = Append(@, n)]
  BY DEF OtherStoresKept
<1>2. [t \in Threads |-> InHand(t)]' = [t \in Threads |-> InHand(t)]
  BY DEF HandsKept
<1>3. Chan!Accept(n, v)
  BY <1>1, <1>2 DEF Chan!Accept
<1> QED BY <1>3 DEF ChannelStep, Chan!Next

LEMMA ChannelHands ==
  ASSUME NEW n \in Msgs, NEW v \in WaitIds, NEW t \in Threads, Chan!Fresh(n),
         Stored(v) = << >>, InHand(t) = NoThread, InHand(t)' = n,
         StoresKept, OtherHandsKept(t), got' = got
  PROVE  ChannelStep
<1>1. [w \in WaitIds |-> Stored(w)]' = [w \in WaitIds |-> Stored(w)]
  BY DEF StoresKept
<1>2. [x \in Threads |-> InHand(x)]' = [[x \in Threads |-> InHand(x)] EXCEPT ![t] = n]
  BY DEF OtherHandsKept
<1>3. Chan!Hand(n, v, t)
  BY <1>1, <1>2 DEF Chan!Hand
<1> QED BY <1>3 DEF ChannelStep, Chan!Next

LEMMA ChannelPicks ==
  ASSUME NEW v \in WaitIds, NEW t \in Threads, Stored(v) # << >>, InHand(t) = NoThread,
         InHand(t)' = Head(Stored(v)), OtherHandsKept(t),
         Stored(v)' = Tail(Stored(v)), OtherStoresKept(v), got' = got
  PROVE  ChannelStep
<1>1. [w \in WaitIds |-> Stored(w)]' = [[w \in WaitIds |-> Stored(w)] EXCEPT ![v] = Tail(@)]
  BY DEF OtherStoresKept
<1>2. [x \in Threads |-> InHand(x)]'
        = [[x \in Threads |-> InHand(x)] EXCEPT ![t] = Head(Stored(v))]
  BY DEF OtherHandsKept
<1>3. Chan!Pick(v, t)
  BY <1>1, <1>2 DEF Chan!Pick
<1> QED BY <1>3 DEF ChannelStep, Chan!Next

LEMMA ChannelReceives ==
  ASSUME NEW v \in WaitIds, NEW t \in Threads, Stored(v) # << >>, InHand(t) = NoThread,
         got' = [got EXCEPT ![Head(Stored(v))] = t],
         Stored(v)' = Tail(Stored(v)), OtherStoresKept(v), HandsKept
  PROVE  ChannelStep
<1>1. [w \in WaitIds |-> Stored(w)]' = [[w \in WaitIds |-> Stored(w)] EXCEPT ![v] = Tail(@)]
  BY DEF OtherStoresKept
<1>2. [x \in Threads |-> InHand(x)]' = [x \in Threads |-> InHand(x)]
  BY DEF HandsKept
<1>3. Chan!Receive(v, t)
  BY <1>1, <1>2 DEF Chan!Receive
<1> QED BY <1>3 DEF ChannelStep, Chan!Next

LEMMA ChannelReturns ==
  ASSUME NEW t \in Threads, InHand(t) # NoThread, InHand(t)' = NoThread, OtherHandsKept(t),
         got' = [got EXCEPT ![InHand(t)] = t], StoresKept
  PROVE  ChannelStep
<1>1. [w \in WaitIds |-> Stored(w)]' = [w \in WaitIds |-> Stored(w)]
  BY DEF StoresKept
<1>2. [x \in Threads |-> InHand(x)]' = [[x \in Threads |-> InHand(x)] EXCEPT ![t] = NoThread]
  <2>1. \A x \in Threads : InHand(x)' = IF x = t THEN NoThread ELSE InHand(x)
    BY DEF OtherHandsKept
  <2> QED BY <2>1
<1>3. Chan!Return(t)
  BY <1>1, <1>2 DEF Chan!Return
<1> QED BY <1>3 DEF ChannelStep, Chan!Next

\* What an object stores, of its mailbox's message m and its queue q.
StoreOf(m, q, msg) == IF m # 0 THEN <<m>> ELSE [i \in DOMAIN q |-> msg[q[i]]]

LEMMA StoredOf ==
  ASSUME NEW w
  PROVE  /\ Stored(w) = StoreOf(mbox_msg[w], msg_list[w], node_msg)
         /\ Stored(w)' = StoreOf(mbox_msg'[w], msg_list'[w], node_msg')
BY DEF Stored, StoreOf

LEMMA StoreEmpty == ASSUME NEW msg PROVE StoreOf(0, << >>, msg) = << >>
BY DEF StoreOf

\* p holds the messages of the structures of q, in their order.
HoldsMessages(p, q, msg) ==
  /\ p \in Seq(0 .. MaxSends) /\ Len(p) = Len(q)
  /\ \A i \in 1 .. Len(q) : p[i] = msg[q[i]]

\* An object with a queue stores the messages of its structures.
LEMMA StoreQueue ==
  ASSUME NEW q \in Seq(MsgStructs), NEW msg \in [MsgStructs -> 0 .. MaxSends]
  PROVE  HoldsMessages(StoreOf(0, q, msg), q, msg)
<1>1. /\ Len(q) \in Nat /\ DOMAIN q = 1 .. Len(q)
      /\ \A i \in 1 .. Len(q) : q[i] \in MsgStructs
  BY LenProperties, ElementOfSeq
<1>2. StoreOf(0, q, msg) = [i \in 1 .. Len(q) |-> msg[q[i]]]
  BY <1>1 DEF StoreOf
<1>3. PICK f : f = StoreOf(0, q, msg)
  OBVIOUS
<1>4. f \in [1 .. Len(q) -> 0 .. MaxSends] /\ \A i \in 1 .. Len(q) : f[i] = msg[q[i]]
  BY <1>1, <1>2, <1>3
<1>5. f \in Seq(0 .. MaxSends)
  <2>1. Len(q) \in Nat /\ f \in [1 .. Len(q) -> 0 .. MaxSends]
    BY <1>1, <1>4
  <2>2. Seq(0 .. MaxSends) = UNION {[1 .. n -> 0 .. MaxSends] : n \in Nat}
    BY SeqDef
  <2> QED BY <2>1, <2>2, ZenonT(40)
<1>6. Len(f) = Len(q)
  BY <1>1, <1>4, <1>5, LenProperties
<1>7. HoldsMessages(f, q, msg)
  BY <1>4, <1>5, <1>6 DEF HoldsMessages
<1> QED BY <1>3, <1>7

\* The structure s, put at the end of the queue with message n.
LEMMA StoreAppend ==
  ASSUME NEW q \in Seq(MsgStructs), NEW msg \in [MsgStructs -> 0 .. MaxSends],
         NEW s \in MsgStructs, NEW n \in 0 .. MaxSends, \A i \in DOMAIN q : q[i] # s
  PROVE  StoreOf(0, Append(q, s), [msg EXCEPT ![s] = n]) = Append(StoreOf(0, q, msg), n)
<1> DEFINE p == Append(q, s)
           new == [msg EXCEPT ![s] = n]
           old == StoreOf(0, q, msg)
<1>1. /\ Len(q) \in Nat /\ DOMAIN q = 1 .. Len(q)
      /\ \A i \in 1 .. Len(q) : q[i] \in MsgStructs
  BY LenProperties, ElementOfSeq
<1>2. /\ p \in Seq(MsgStructs) /\ Len(p) = Len(q) + 1 /\ p[Len(q) + 1] = s
      /\ \A i \in 1 .. Len(q) : p[i] = q[i]
  BY AppendProperties
<1>3. new \in [MsgStructs -> 0 .. MaxSends]
  OBVIOUS
<1>4. /\ new[s] = n /\ \A x \in MsgStructs : x # s => new[x] = msg[x]
  OBVIOUS
<1>5. /\ old \in Seq(0 .. MaxSends) /\ Len(old) = Len(q)
      /\ \A i \in 1 .. Len(q) : old[i] = msg[q[i]]
  <2>1. HoldsMessages(old, q, msg)
    BY StoreQueue, ZenonT(40)
  <2> HIDE DEF old
  <2> QED BY <2>1 DEF HoldsMessages
<1> HIDE DEF p, new, old
<1>6. /\ StoreOf(0, p, new) \in Seq(0 .. MaxSends)
      /\ Len(StoreOf(0, p, new)) = Len(q) + 1
      /\ \A i \in 1 .. Len(q) + 1 : StoreOf(0, p, new)[i] = new[p[i]]
  <2>1. HoldsMessages(StoreOf(0, p, new), p, new)
    BY <1>2, <1>3, StoreQueue
  <2> QED BY <1>2, <2>1 DEF HoldsMessages
<1>7. /\ Append(old, n) \in Seq(0 .. MaxSends)
      /\ Len(Append(old, n)) = Len(q) + 1
      /\ \A i \in 1 .. Len(q) : Append(old, n)[i] = old[i]
      /\ Append(old, n)[Len(q) + 1] = n
  BY <1>5, AppendProperties
<1>8. ASSUME NEW i \in 1 .. Len(q) + 1
      PROVE  StoreOf(0, p, new)[i] = Append(old, n)[i]
  <2>1. CASE i = Len(q) + 1
    BY <1>2, <1>4, <1>6, <1>7, <2>1
  <2>2. CASE i \in 1 .. Len(q)
    <3>1. q[i] \in MsgStructs /\ q[i] # s /\ p[i] = q[i]
      BY <1>1, <1>2, <2>2
    <3> QED BY <1>4, <1>5, <1>6, <1>7, <2>2, <3>1
  <2>3. i = Len(q) + 1 \/ i \in 1 .. Len(q)
    BY <1>1
  <2> QED BY <2>1, <2>2, <2>3
<1>9. StoreOf(0, p, new) = Append(old, n)
  <2>1. Len(StoreOf(0, p, new)) = Len(Append(old, n))
    BY <1>6, <1>7
  <2>2. \A i \in 1 .. Len(StoreOf(0, p, new)) : StoreOf(0, p, new)[i] = Append(old, n)[i]
    BY <1>6, <1>8
  <2> QED BY <1>6, <1>7, <2>1, <2>2, SeqEqual
<1> QED BY <1>9 DEF p, new, old

\* The first structure is unlinked.
LEMMA StoreTail ==
  ASSUME NEW q \in Seq(MsgStructs), NEW msg \in [MsgStructs -> 0 .. MaxSends], q # << >>
  PROVE  /\ StoreOf(0, q, msg) # << >> /\ Head(StoreOf(0, q, msg)) = msg[Head(q)]
         /\ StoreOf(0, Tail(q), msg) = Tail(StoreOf(0, q, msg))
<1> DEFINE old == StoreOf(0, q, msg)
<1>1. /\ Tail(q) \in Seq(MsgStructs) /\ Len(Tail(q)) = Len(q) - 1
      /\ \A i \in 1 .. Len(Tail(q)) : Tail(q)[i] = q[i + 1]
      /\ Head(q) = q[1] /\ Len(q) \in Nat /\ Len(q) # 0
  BY HeadTailProperties, EmptySeq, LenProperties
<1>2. /\ old \in Seq(0 .. MaxSends) /\ Len(old) = Len(q)
      /\ \A i \in 1 .. Len(q) : old[i] = msg[q[i]]
  <2>1. HoldsMessages(old, q, msg)
    BY StoreQueue, ZenonT(40)
  <2> HIDE DEF old
  <2> QED BY <2>1 DEF HoldsMessages
<1>3. /\ StoreOf(0, Tail(q), msg) \in Seq(0 .. MaxSends)
      /\ Len(StoreOf(0, Tail(q), msg)) = Len(q) - 1
      /\ \A i \in 1 .. Len(q) - 1 : StoreOf(0, Tail(q), msg)[i] = msg[q[i + 1]]
  <2>1. /\ StoreOf(0, Tail(q), msg) \in Seq(0 .. MaxSends)
        /\ Len(StoreOf(0, Tail(q), msg)) = Len(Tail(q))
        /\ \A i \in 1 .. Len(Tail(q)) : StoreOf(0, Tail(q), msg)[i] = msg[Tail(q)[i]]
    <3>1. HoldsMessages(StoreOf(0, Tail(q), msg), Tail(q), msg)
      BY <1>1, StoreQueue
    <3> QED BY <3>1 DEF HoldsMessages
  <2> QED BY <1>1, <2>1
<1> HIDE DEF old
<1>4. old # << >>
  BY <1>1, <1>2, EmptySeq
<1>5. Head(old) = msg[Head(q)]
  BY <1>1, <1>2
<1>6. /\ Tail(old) \in Seq(0 .. MaxSends) /\ Len(Tail(old)) = Len(q) - 1
      /\ \A i \in 1 .. Len(q) - 1 : Tail(old)[i] = old[i + 1]
  BY <1>2, <1>4, HeadTailProperties
<1>7. \A i \in 1 .. Len(q) - 1 : StoreOf(0, Tail(q), msg)[i] = Tail(old)[i]
  BY <1>1, <1>2, <1>3, <1>6
<1>8. StoreOf(0, Tail(q), msg) = Tail(old)
  BY <1>3, <1>6, <1>7, SeqEqual
<1> QED BY <1>4, <1>5, <1>8 DEF old

\* An object and a thread that a step leaves alone.
LEMMA StoreSame ==
  ASSUME NEW w, mbox_msg'[w] = mbox_msg[w], msg_list'[w] = msg_list[w],
         \A i \in DOMAIN msg_list[w] :
           node_msg'[msg_list[w][i]] = node_msg[msg_list[w][i]]
  PROVE  Stored(w)' = Stored(w)
BY DEF Stored

LEMMA HandSame ==
  ASSUME NEW t, fetching'[t] = fetching[t],
         fetching[t] # NoStruct => node_msg'[fetching[t]] = node_msg[fetching[t]],
         t \in receiving' <=> t \in receiving,
         t \in receiving => /\ state'[t] = "EVENT_WAIT" <=> state[t] = "EVENT_WAIT"
                            /\ thread_msg'[t] = thread_msg[t]
  PROVE  InHand(t)' = InHand(t)
BY DEF InHand

\* The kernel and the semaphores leave all of them alone.
LEMMA MessagesUntouched ==
  ASSUME UNCHANGED msgVars,
         \A t \in receiving : state'[t] = "EVENT_WAIT" <=> state[t] = "EVENT_WAIT"
  PROVE  ChannelStep
<1>1. StoresKept
  BY StoreSame DEF StoresKept, msgVars
<1>2. HandsKept
  BY HandSame DEF HandsKept, msgVars
<1> QED BY <1>1, <1>2, ChannelStutters DEF msgVars

\* A message that is nowhere is new to the channels.
LEMMA FreshMessage ==
  ASSUME IpcTypeOK, NEW n \in Msgs, InNone(n)
  PROVE  Chan!Fresh(n)
<1>1. got[n] = NoThread
  BY DEF IpcTypeOK, InNone, GotAt
<1>2. n # 0 /\ n # NoThread
  BY IpcAssumption DEF Msgs
<1>3. ASSUME NEW t \in Threads PROVE InHand(t) # n
  BY <1>2 DEF InHand, InNone, FetchAt, HandAt
<1>4. ASSUME NEW w \in WaitIds, NEW i \in DOMAIN Stored(w) PROVE Stored(w)[i] # n
  <2>1. CASE mbox_msg[w] # 0
    <3>1. mbox_msg[w] # n
      BY DEF InNone, MboxAt
    <3>2. Stored(w) = <<mbox_msg[w]>>
      BY <2>1 DEF Stored
    <3> QED BY <1>4, <3>1, <3>2
  <2>2. CASE mbox_msg[w] = 0
    <3>1. i \in DOMAIN msg_list[w] /\ Stored(w)[i] = node_msg[msg_list[w][i]]
      BY <1>4, <2>2 DEF Stored
    <3>2. msg_list[w] \in Seq(MsgStructs)
      BY DEF IpcTypeOK
    <3>3. msg_list[w][i] \in MsgStructs
      BY <3>1, <3>2, LenProperties
    <3>4. Queued(msg_list[w][i])
      BY <3>1 DEF Queued
    <3> QED BY <3>1, <3>3, <3>4 DEF InNone, QueueAt
  <2> QED BY <2>1, <2>2
<1> QED BY <1>1, <1>3, <1>4 DEF Chan!Fresh

\* A thread that calls a service has no message in its hands.
LEMMA CallerFree ==
  ASSUME CanCall, Me # NoThread
  PROVE  InHand(Me) = NoThread
BY DEF CanCall, InHand

LEMMA MboxTakeReceives ==
  ASSUME TInv, IpcTypeOK, KindOK, CanCall, NEW w \in WaitIds, MboxTake(w)
  PROVE  ChannelStep
<1>1. PICK c \in Threads : c = Me /\ c # NoThread
  BY DEF TInv, TypeOK, MboxTake, Uses, Me
<1>2. PICK m : m = mbox_msg[w]
  OBVIOUS
<1>3. /\ m # 0 /\ got' = [got EXCEPT ![m] = c] /\ msg_list[w] = << >>
      /\ mbox_msg' = [mbox_msg EXCEPT ![w] = 0] /\ mbox_msg \in [WaitIds -> 0 .. MaxSends]
      /\ UNCHANGED <<state, msg_list, node_msg, thread_msg, receiving, fetching>>
  BY <1>1, <1>2 DEF MboxTake, Uses, KindOK, IpcTypeOK, vars
<1>4. Stored(w) = <<m>>
  BY <1>2, <1>3 DEF Stored
<1>5. Stored(w)' = << >>
  BY <1>3, StoredOf, StoreEmpty
<1>6. OtherStoresKept(w)
  BY <1>3, StoreSame DEF OtherStoresKept
<1>7. HandsKept
  BY <1>3, HandSame DEF HandsKept
<1>8. Stored(w) # << >> /\ Head(Stored(w)) = m /\ Tail(Stored(w)) = << >>
  BY <1>4
<1>9. InHand(c) = NoThread
  BY <1>1, CallerFree
<1> QED BY <1>3, <1>5, <1>6, <1>7, <1>8, <1>9, ChannelReceives

LEMMA MsgqUnlinkPicks ==
  ASSUME TInv, IpcTypeOK, KindOK, CanCall, NEW w \in WaitIds, MsgqUnlink(w)
  PROVE  ChannelStep
<1>1. PICK c \in Threads : c = Me /\ c # NoThread
  BY DEF TInv, TypeOK, MsgqUnlink, Uses, Me
<1>2. PICK q : q = msg_list[w]
  OBVIOUS
<1>3. /\ q # << >> /\ q \in Seq(MsgStructs) /\ mbox_msg[w] = 0
      /\ msg_list \in [WaitIds -> Seq(MsgStructs)]
      /\ fetching \in [Threads -> MsgStructs \cup {NoStruct}]
      /\ node_msg \in [MsgStructs -> 0 .. MaxSends]
  BY <1>2 DEF MsgqUnlink, Uses, KindOK, IpcTypeOK
<1>4. /\ fetching' = [fetching EXCEPT ![c] = Head(q)]
      /\ msg_list' = [msg_list EXCEPT ![w] = Tail(q)]
      /\ UNCHANGED <<state, mbox_msg, node_msg, thread_msg, receiving, got>>
  BY <1>1, <1>2, <1>3 DEF MsgqUnlink, vars
<1>5. /\ fetching'[c] = Head(q) /\ Head(q) \in MsgStructs
      /\ \A x \in Threads \ {c} : fetching'[x] = fetching[x]
  BY <1>3, <1>4, HeadTailProperties
<1>6. /\ Stored(w) = StoreOf(0, q, node_msg)
      /\ Stored(w)' = StoreOf(0, Tail(q), node_msg)
  BY <1>2, <1>3, <1>4, StoredOf
<1>7. /\ Stored(w) # << >> /\ Head(Stored(w)) = node_msg[Head(q)]
      /\ Stored(w)' = Tail(Stored(w))
  BY <1>3, <1>6, StoreTail
<1>8. OtherStoresKept(w)
  BY <1>3, <1>4, StoreSame DEF OtherStoresKept
<1>9. OtherHandsKept(c)
  BY <1>4, <1>5, HandSame DEF OtherHandsKept
<1>10. InHand(c)' = node_msg[Head(q)]
  BY <1>4, <1>5, IpcAssumption DEF InHand
<1>11. InHand(c) = NoThread
  BY <1>1, CallerFree
<1> QED BY <1>4, <1>7, <1>8, <1>9, <1>10, <1>11, ChannelPicks

LEMMA MsgqFetchReturns ==
  ASSUME TInv, IpcTypeOK, HeldInv, MsgqFetch
  PROVE  ChannelStep
<1>1. PICK c \in Threads : c = Me /\ c # NoThread
  BY DEF TInv, TypeOK, MsgqFetch, AtSection, Me
<1>2. PICK n : n = node_msg[fetching[c]]
  OBVIOUS
<1>3. /\ fetching[c] # NoStruct /\ n \in 1 .. sent /\ c \notin receiving
      /\ sent \in 0 .. MaxSends /\ MaxSends \in Nat
      /\ fetching \in [Threads -> MsgStructs \cup {NoStruct}]
  BY <1>1, <1>2, IpcAssumption
     DEF MsgqFetch, HeldInv, StructOK, ReceiverOK, IpcTypeOK
<1>4. /\ got' = [got EXCEPT ![n] = c] /\ fetching' = [fetching EXCEPT ![c] = NoStruct]
      /\ UNCHANGED <<state, mbox_msg, msg_list, node_msg, thread_msg, receiving>>
  BY <1>1, <1>2 DEF MsgqFetch, vars
<1>5. fetching'[c] = NoStruct /\ \A x \in Threads \ {c} : fetching'[x] = fetching[x]
  BY <1>3, <1>4
<1>6. InHand(c) = n /\ InHand(c)' = NoThread
  BY <1>2, <1>3, <1>4, <1>5 DEF InHand
<1>7. n # NoThread
  BY <1>3, IpcAssumption
<1>8. StoresKept
  BY <1>4, StoreSame DEF StoresKept
<1>9. OtherHandsKept(c)
  BY <1>4, <1>5, HandSame DEF OtherHandsKept
<1> QED BY <1>4, <1>6, <1>7, <1>8, <1>9, ChannelReturns

LEMMA RecvReturnReturns ==
  ASSUME TInv, IpcTypeOK, AwaitInv, HeldInv, RecvReturn
  PROVE  ChannelStep
<1>1. PICK c \in Threads : c = Me /\ c = current_thread /\ c # NoThread
  BY DEF TInv, TypeOK, RecvReturn, AtSection, Me
<1>2. PICK n : n = thread_msg[c]
  OBVIOUS
<1>3. c \in receiving /\ pc[c] = "user"
  BY <1>1 DEF RecvReturn, AtSection
<1>4. ~Waiting(c)
  BY <1>1, <1>3, CallerAwake DEF AwaitInv
<1>5. /\ fetching[c] = NoStruct /\ state[c] # "EVENT_WAIT" /\ n \in 1 .. sent
      /\ sent \in 0 .. MaxSends /\ MaxSends \in Nat
  BY <1>2, <1>3, <1>4, IpcAssumption DEF HeldInv, ReceiverOK, Waiting, IpcTypeOK
<1>6. /\ receiving' = receiving \ {c} /\ got' = [got EXCEPT ![n] = c]
      /\ UNCHANGED <<state, mbox_msg, msg_list, node_msg, thread_msg, fetching>>
  <2>1. n # 0
    BY <1>5
  <2> QED BY <1>1, <1>2, <2>1 DEF RecvReturn, vars
<1>7. InHand(c) = n /\ InHand(c)' = NoThread
  BY <1>2, <1>3, <1>5, <1>6 DEF InHand
<1>8. n # NoThread
  BY <1>5, IpcAssumption
<1>9. StoresKept
  BY <1>6, StoreSame DEF StoresKept
<1>10. OtherHandsKept(c)
  BY <1>6, HandSame DEF OtherHandsKept
<1> QED BY <1>6, <1>7, <1>8, <1>9, <1>10, ChannelReturns

\* The message that is accepted next.
LEMMA NextFresh ==
  ASSUME IpcTypeOK, HeldInv, Accepted
  PROVE  sent' \in Msgs /\ Chan!Fresh(sent')
<1>1. PICK n : n = sent'
  OBVIOUS
<1>2. n = sent + 1 /\ n \in Msgs /\ sent \in Nat
  BY <1>1, IpcAssumption DEF Accepted, IpcTypeOK, Msgs
<1>3. ~ (n <= sent)
  BY <1>2
<1>4. InNone(n)
  BY <1>2, <1>3 DEF HeldInv, Located
<1> QED BY <1>1, <1>2, <1>4, FreshMessage

LEMMA SendWakeHands ==
  ASSUME HInv, Once(list), AwaitInv, HeldInv, IpcTypeOK, WaitersMeanEmpty,
         NEW w \in WaitIds, SendWake(w)
  PROVE  ChannelStep
<1>1. Wakes(w) /\ kind[w] # "sem" /\ list[w] # << >>
  BY DEF SendWake, Wakes, Uses
<1>2. PICK t \in Threads : t = Head(list[w]) /\ On(list, t, w)
  BY <1>1, WokenStates
<1>3. PICK n : n = sent'
  OBVIOUS
<1>4. /\ state[t] = "EVENT_WAIT" /\ state'[t] = "READY"
      /\ \A x \in Threads : x # t => state'[x] = state[x]
  BY <1>1, <1>2, WokenStates DEF Waiting
<1>5. /\ t \in receiving /\ fetching[t] = NoStruct
      /\ thread_msg \in [Threads -> 0 .. MaxSends]
      /\ node_msg \in [MsgStructs -> 0 .. MaxSends]
      /\ msg_list \in [WaitIds -> Seq(MsgStructs)]
      /\ fetching \in [Threads -> MsgStructs \cup {NoStruct}]
  BY <1>1, <1>2 DEF AwaitInv, WaiterOK, HeldInv, ReceiverOK, IpcTypeOK
<1>6. /\ thread_msg' = [thread_msg EXCEPT ![t] = n]
      /\ UNCHANGED <<mbox_msg, msg_list, receiving, fetching, got>>
  BY <1>2, <1>3 DEF SendWake, HandOver
<1>7. thread_msg'[t] = n /\ \A x \in Threads : x # t => thread_msg'[x] = thread_msg[x]
  BY <1>5, <1>6
<1>8. \A s \in MsgStructs : Queued(s) \/ (\E x \in Threads : fetching[x] = s) =>
                              node_msg'[s] = node_msg[s]
  BY SendKeepsStructs
<1>9. StoresKept
  <2> SUFFICES ASSUME NEW v \in WaitIds PROVE Stored(v)' = Stored(v)
    BY DEF StoresKept
  <2>1. ASSUME NEW i \in DOMAIN msg_list[v]
        PROVE  node_msg'[msg_list[v][i]] = node_msg[msg_list[v][i]]
    <3>1. msg_list[v][i] \in MsgStructs
      BY <1>5, LenProperties
    <3>2. Queued(msg_list[v][i])
      BY DEF Queued
    <3> QED BY <1>8, <3>1, <3>2
  <2> QED BY <1>6, <2>1, StoreSame
<1>10. OtherHandsKept(t)
  <2> SUFFICES ASSUME NEW x \in Threads, x # t PROVE InHand(x)' = InHand(x)
    BY DEF OtherHandsKept
  <2>1. fetching[x] # NoStruct => node_msg'[fetching[x]] = node_msg[fetching[x]]
    BY <1>5, <1>8
  <2> QED BY <1>4, <1>6, <1>7, <2>1, HandSame
<1>11. InHand(t) = NoThread /\ InHand(t)' = n
  BY <1>4, <1>5, <1>6, <1>7 DEF InHand
<1>12. Stored(w) = << >>
  <2>1. mbox_msg[w] = 0 /\ msg_list[w] = << >>
    BY <1>1 DEF WaitersMeanEmpty
  <2> QED BY <2>1, StoredOf, StoreEmpty
<1>13. n \in Msgs /\ Chan!Fresh(n)
  BY <1>3, NextFresh DEF SendWake
<1>14. got' = got
  BY <1>6
<1> QED BY <1>9, <1>10, <1>11, <1>12, <1>13, <1>14, ChannelHands

LEMMA MboxStoreAccepts ==
  ASSUME IpcTypeOK, KindOK, HeldInv, NEW w \in WaitIds, MboxStore(w)
  PROVE  ChannelStep
<1>1. PICK n : n = sent'
  OBVIOUS
<1>2. /\ mbox_msg[w] = 0 /\ msg_list[w] = << >> /\ mbox_msg \in [WaitIds -> 0 .. MaxSends]
      /\ mbox_msg' = [mbox_msg EXCEPT ![w] = n]
      /\ UNCHANGED <<state, msg_list, node_msg, thread_msg, receiving, fetching, got>>
  BY <1>1 DEF MboxStore, SlotFree, Uses, KindOK, IpcTypeOK, vars
<1>3. n \in Msgs /\ n # 0 /\ Chan!Fresh(n)
  BY <1>1, NextFresh DEF MboxStore, Msgs
<1>4. Stored(w) = << >>
  BY <1>2, StoredOf, StoreEmpty
<1>5. Stored(w)' = <<n>>
  BY <1>2, <1>3 DEF Stored
<1>6. OtherStoresKept(w)
  BY <1>2, StoreSame DEF OtherStoresKept
<1>7. HandsKept
  BY <1>2, HandSame DEF HandsKept
<1>8. Stored(w)' = Append(Stored(w), n)
  BY <1>4, <1>5
<1> QED BY <1>2, <1>3, <1>6, <1>7, <1>8, ChannelAccepts

LEMMA MsgqStoreAccepts ==
  ASSUME IpcTypeOK, KindOK, HeldInv, NEW w \in WaitIds, MsgqStore(w)
  PROVE  ChannelStep
<1>1. PICK n : n = sent'
  OBVIOUS
<1>2. /\ mbox_msg[w] = 0 /\ msg_list \in [WaitIds -> Seq(MsgStructs)]
      /\ node_msg \in [MsgStructs -> 0 .. MaxSends]
      /\ fetching \in [Threads -> MsgStructs \cup {NoStruct}]
  BY DEF MsgqStore, Uses, KindOK, IpcTypeOK
<1>3. PICK s \in MsgStructs :
        /\ MayUse(s)
        /\ node_msg' = [node_msg EXCEPT ![s] = n]
        /\ msg_list' = [msg_list EXCEPT ![w] = Append(msg_list[w], s)]
  BY <1>1, <1>2 DEF MsgqStore
<1>4. UNCHANGED <<state, mbox_msg, thread_msg, receiving, fetching, got>>
  BY DEF MsgqStore, vars
<1>5. n \in Msgs /\ n \in 0 .. MaxSends /\ Chan!Fresh(n)
  BY <1>1, IpcAssumption, NextFresh DEF MsgqStore, Msgs
<1>6. PICK q \in Seq(MsgStructs) : q = msg_list[w]
  BY <1>2
<1>7. /\ Stored(w) = StoreOf(0, q, node_msg)
      /\ Stored(w)' = StoreOf(0, Append(q, s), [node_msg EXCEPT ![s] = n])
  BY <1>2, <1>3, <1>4, <1>6, StoredOf
<1>8. \A i \in DOMAIN q : q[i] # s
  BY <1>3, <1>6 DEF MayUse
<1>9. Stored(w)' = Append(Stored(w), n)
  <2>1. StoreOf(0, Append(q, s), [node_msg EXCEPT ![s] = n])
          = Append(StoreOf(0, q, node_msg), n)
    BY <1>2, <1>5, <1>8, StoreAppend
  <2> QED BY <1>7, <2>1
<1>10. OtherStoresKept(w)
  <2> SUFFICES ASSUME NEW v \in WaitIds, v # w PROVE Stored(v)' = Stored(v)
    BY DEF OtherStoresKept
  <2>1. msg_list'[v] = msg_list[v] /\ mbox_msg'[v] = mbox_msg[v]
    BY <1>2, <1>3, <1>4
  <2>2. ASSUME NEW i \in DOMAIN msg_list[v]
        PROVE  node_msg'[msg_list[v][i]] = node_msg[msg_list[v][i]]
    <3>1. msg_list[v][i] # s
      BY <1>3 DEF MayUse
    <3> QED BY <1>2, <1>3, <3>1
  <2> QED BY <2>1, <2>2, StoreSame
<1>11. HandsKept
  <2> SUFFICES ASSUME NEW t \in Threads PROVE InHand(t)' = InHand(t)
    BY DEF HandsKept
  <2>1. fetching[t] # NoStruct => node_msg'[fetching[t]] = node_msg[fetching[t]]
    BY <1>2, <1>3 DEF MayUse
  <2> QED BY <1>4, <2>1, HandSame
<1>12. got' = got
  BY <1>4
<1> QED BY <1>5, <1>9, <1>10, <1>11, <1>12, ChannelAccepts

\* A thread that starts to wait has nothing in its hands yet.
LEMMA WaitKeeps ==
  ASSUME TInv, CanCall, NEW w \in WaitIds, Waits(w),
         receiving' = receiving \/ receiving' = receiving \cup {Me},
         UNCHANGED <<mbox_msg, msg_list, node_msg, thread_msg, fetching, got>>
  PROVE  ChannelStep
<1>1. PICK c \in Threads : c = Me
  BY DEF TInv, TypeOK, Waits, Me
<1>2. /\ state \in [Threads -> States] /\ state' = [state EXCEPT ![c] = "EVENT_WAIT"]
      /\ c \notin receiving /\ fetching[c] = NoStruct
  BY <1>1 DEF Waits, Wait, CanCall, TInv, TypeOK
<1>3. StoresKept
  BY StoreSame DEF StoresKept
<1>4. HandsKept
  <2> SUFFICES ASSUME NEW t \in Threads PROVE InHand(t)' = InHand(t)
    BY DEF HandsKept
  <2>1. CASE t = c
    BY <1>2, <2>1 DEF InHand
  <2>2. CASE t # c
    BY <1>1, <1>2, <2>2, HandSame
  <2> QED BY <2>1, <2>2
<1> QED BY <1>3, <1>4, ChannelStutters

\* A step of the system is a step of the channels or leaves them alone.
LEMMA ChannelNext ==
  ASSUME HInv, IpcInv, Once(list), Once(list'), AwaitInv, HeldInv, [IpcNext]_allVars
  PROVE  ChannelStep
<1>1. TInv /\ IpcTypeOK /\ KindOK /\ WaitersMeanEmpty /\ ie \in BOOLEAN
  BY DEF IpcInv, TInv, TypeOK
<1>2. CASE UNCHANGED <<state, msgVars>>
  BY <1>2, MessagesUntouched
<1>3. CASE Next /\ (DeleteSelf => Me \notin receiving) /\ UNCHANGED <<semVars, msgVars>>
  BY <1>1, <1>3, KernelReceivers, MessagesUntouched
<1>4. CASE Alive /\ KernelStep /\ UNCHANGED <<semVars, msgVars>>
  <2>1. Next
    BY <1>4 DEF Next, KernelStep
  <2> QED BY <1>3, <1>4, <2>1, NoDelete
<1>5. CASE Alive /\ CanCall /\ Call /\ UNCHANGED <<semVars, msgVars>>
  <2>1. Next /\ Me \notin receiving
    BY <1>5 DEF Next, CanCall
  <2> QED BY <1>3, <1>5, <2>1
<1>6. ASSUME CanCall, NEW w \in WaitIds, SemCall(w), UNCHANGED msgVars
      PROVE  ChannelStep
  <2>1. CASE SemTake(w) \/ SemCountUp(w)
    BY <1>2, <1>6, <2>1 DEF SemTake, SemCountUp, vars
  <2>2. CASE SemBlock(w)
    <3>1. Waits(w)
      BY <2>2 DEF SemBlock, PendLeavesMasked, Waits, Uses
    <3>2. /\ receiving' = receiving
          /\ UNCHANGED <<mbox_msg, msg_list, node_msg, thread_msg, fetching, got>>
      BY <1>6 DEF msgVars
    <3> QED BY <1>1, <1>6, <3>1, <3>2, WaitKeeps
  <2>3. CASE SemWake(w)
    <3>1. Wakes(w) /\ kind[w] = "sem"
      BY <2>3 DEF SemWake, Wakes, Uses
    <3> QED BY <1>1, <1>6, <3>1, SemWakeReceivers, MessagesUntouched
  <2> QED BY <1>6, <2>1, <2>2, <2>3 DEF SemCall
<1>7. ASSUME CanCall, NEW w \in WaitIds, MsgCall(w)
      PROVE  ChannelStep
  <2>1. CASE MboxTake(w) \/ MsgqUnlink(w) \/ SendWake(w) \/ MboxStore(w) \/ MsgqStore(w)
    BY <1>1, <1>7, <2>1, MboxTakeReceives, MsgqUnlinkPicks, SendWakeHands,
       MboxStoreAccepts, MsgqStoreAccepts
  <2>2. CASE MboxWait(w) \/ MsgqWait(w)
    <3>1. /\ Waits(w) /\ receiving' = receiving \cup {Me}
          /\ UNCHANGED <<mbox_msg, msg_list, node_msg, thread_msg, fetching, got>>
      BY <1>1, <2>2 DEF MboxWait, MsgqWait, RecvWait, Waits, Uses
    <3> QED BY <1>1, <1>7, <3>1, WaitKeeps
  <2>3. CASE MsgqTryEmpty(w)
    BY <1>2, <2>3 DEF MsgqTryEmpty
  <2> QED BY <1>7, <2>1, <2>2, <2>3 DEF MsgCall
<1>8. CASE RecvReturn \/ MsgqFetch
  BY <1>1, <1>8, RecvReturnReturns, MsgqFetchReturns
<1>9. CASE UNCHANGED allVars
  BY <1>2, <1>9 DEF allVars, vars
<1> QED BY <1>4, <1>5, <1>6, <1>7, <1>8, <1>9 DEF IpcNext

LEMMA ChannelInit == IpcInit => Chan!Init
<1> SUFFICES ASSUME IpcInit PROVE Chan!Init
  OBVIOUS
<1>1. /\ \A w \in WaitIds : msg_list[w] = << >>
      /\ fetching = [t \in Threads |-> NoStruct] /\ receiving = {}
      /\ got = [m \in Msgs |-> NoThread]
      /\ mbox_msg \in [WaitIds -> {0} \cup (Msgs \cap {1})]
      /\ \A v, w \in WaitIds : mbox_msg[v] # 0 /\ mbox_msg[w] # 0 => v = w
  BY DEF IpcInit, InitObjects
<1>2. ASSUME NEW w \in WaitIds
      PROVE  /\ mbox_msg[w] = 0 => Stored(w) = << >>
             /\ mbox_msg[w] # 0 => Stored(w) = <<mbox_msg[w]>> /\ mbox_msg[w] \in Msgs
             /\ Stored(w) \in {<< >>} \cup {<<m>> : m \in Msgs}
  <2>1. CASE mbox_msg[w] = 0
    BY <1>1, <2>1, StoredOf, StoreEmpty
  <2>2. CASE mbox_msg[w] # 0
    <3>1. Stored(w) = <<mbox_msg[w]>>
      BY <2>2 DEF Stored
    <3>2. mbox_msg[w] \in Msgs
      BY <1>1, <2>2
    <3> QED BY <2>2, <3>1, <3>2
  <2> QED BY <2>1, <2>2
<1>3. [w \in WaitIds |-> Stored(w)] \in [WaitIds -> {<< >>} \cup {<<m>> : m \in Msgs}]
  BY <1>2
<1>4. ASSUME NEW v \in WaitIds, NEW w \in WaitIds, v # w, Stored(v) # << >>
      PROVE  Stored(v) # Stored(w)
  <2>1. mbox_msg[w] = 0
    BY <1>1, <1>2, <1>4
  <2> QED BY <1>2, <1>4, <2>1
<1>5. [t \in Threads |-> InHand(t)] = [t \in Threads |-> NoThread]
  BY <1>1 DEF InHand
<1> QED BY <1>1, <1>3, <1>4, <1>5 DEF Chan!Init

(* mbox_send, mbox_recv, msgq_send, msgq_recv and their try_ forms (ipc.c:25-273)
   implement channels, for any number of objects, threads and messages and whatever
   other services the application uses: messages leave an object in the order they
   were accepted, each into the hand of one receiver, and that receiver returns it.
   The tick must stay out of the two windows: one that comes between the restore of
   the interrupts and schedule() lets a receiver go on without being woken, and it
   returns whatever its thread_struct held. *)
THEOREM ChannelImplemented ==
  ASSUME "leave" \notin TickPoints, "create" \notin TickPoints
  PROVE  IpcSpec => ChannelSpec
<1> DEFINE I == IpcInv /\ HInv /\ LInv /\ MessageInv
<1>1. IpcInit => I /\ Chan!Init
  BY IpcInvInit, HInvInit, LInvInit, MessageInit, ChannelInit DEF IpcInit
<1>2. I /\ [IpcNext]_allVars => I'
  BY IpcInvNext, IpcHInv, IpcLInv, MessageNext DEF IpcInv
<1>3. I /\ [IpcNext]_allVars =>
        [Chan!Next]_<<[w \in WaitIds |-> Stored(w)], [t \in Threads |-> InHand(t)], got>>
  <2> SUFFICES ASSUME I, [IpcNext]_allVars PROVE ChannelStep
    BY DEF ChannelStep
  <2>1. Once(list) /\ Once(list') /\ AwaitInv /\ HeldInv
    BY IpcLInv DEF LInv, MessageInv
  <2> QED BY <2>1, ChannelNext
<1> QED BY <1>1, <1>2, <1>3, PTL DEF IpcSpec, ChannelSpec, Chan!Spec

(***************************************************************************)
(* The kernel with its objects still implements PriorityScheduler: a       *)
(* thread that waits gives the processor up, one that gets a token or a    *)
(* message is woken.                                                       *)
(***************************************************************************)

\* The wait lists are no ready lists.
LEMMA WaitsQueues ==
  ASSUME TInv, NEW w \in WaitIds, Waits(w)
  PROVE  QueuesKept
<1>1. /\ \A p \in Prios : p \in ListIds /\ p # w
      /\ w \in ListIds /\ Me # NoThread
  BY ListNumbers DEF Waits
<1>2. \/ list' = list
      \/ \E k \in 0 .. Len(list[w]) : PutIn(list, list', w, k, Me)
  BY <1>1, WaitPuts DEF Waits
<1> QED BY <1>1, <1>2 DEF PutIn, QueuesKept

LEMMA WaitsStep == ASSUME LInv, NEW w \in WaitIds, Waits(w) PROVE PriorityStep
<1>1. /\ Me = current_thread /\ Me \in Threads /\ Me # NoThread /\ pc[Me] = "user"
      /\ state \in [Threads -> States] /\ pc \in [Threads -> PCs]
  BY DEF LInv, TInv, TypeOK, Waits, Me
<1>2. /\ state' = [state EXCEPT ![Me] = "EVENT_WAIT"]
      /\ pc' = [pc EXCEPT ![Me] = "leave"]
      /\ UNCHANGED <<current_thread, prio>>
  BY DEF Waits, Wait, idVars
<1>3. Able /\ ~Able'
  BY <1>1, <1>2, CurrentUnlinked DEF Able
<1>4. LevelsKept
  BY <1>1, <1>2 DEF LevelsKept, Level
<1>5. QueuesKept
  BY WaitsQueues DEF LInv
<1> QED BY <1>2, <1>3, <1>4, <1>5, GiveUpStep

\* What delete_front_list and insert_back_list do to the ready lists.
LEMMA WakesGrown ==
  ASSUME TInv, NEW w \in WaitIds, Wakes(w)
  PROVE  /\ Head(list[w]) \in Threads /\ On(list, Head(list[w]), w)
         /\ Grown(prio[Head(list[w])], Head(list[w]))
<1>1. /\ list \in [ListIds -> Seq(Threads)] /\ w \in ListIds /\ list[w] # << >>
      /\ w \notin Prios /\ prio \in [Threads -> Prios]
  BY ListNumbers DEF TInv, TypeOK, Wakes
<1>2. PICK t \in Threads : t = Head(list[w]) /\ On(list, t, w)
  BY <1>1, DeleteFrontProperties, LenProperties DEF On
<1>3. PICK K : K = DeleteFront(list, w)
  OBVIOUS
<1>4. K \in [ListIds -> Seq(Threads)] /\ \A p \in Prios : K[p] = list[p]
  <2>1. /\ K \in [ListIds -> Seq(Threads)]
        /\ \A m \in ListIds \ {w} : K[m] = list[m]
    BY <1>1, <1>3, DeleteFrontProperties
  <2> QED BY <1>1, <2>1, ListNumbers
<1>5. list' = InsertBack(K, prio[t], t) /\ prio[t] \in ListIds
  BY <1>1, <1>2, <1>3, ListNumbers DEF Wakes, Wake
<1>6. Grown(prio[t], t)
  BY <1>4, <1>5, InsertGrows DEF Grown
<1> QED BY <1>2, <1>6

LEMMA WakesStep == ASSUME LInv, NEW w \in WaitIds, Wakes(w) PROVE PriorityStep
<1>1. PICK t \in Threads : t = Head(list[w]) /\ On(list, t, w) /\ Grown(prio[t], t)
  BY WakesGrown DEF LInv
<1>2. /\ w \in ListIds /\ w \notin Prios /\ Once(list) /\ prio[t] \in Prios
      /\ state \in [Threads -> States] /\ pc \in [Threads -> PCs]
      /\ current_thread # NoThread /\ pc[current_thread] = "user"
      /\ current_thread \in Threads
  BY ListNumbers DEF LInv, TInv, TypeOK, Wakes, Me
<1>3. /\ state' = [state EXCEPT ![t] = "READY"]
      /\ pc' = [pc EXCEPT ![current_thread] = "sched"]
      /\ UNCHANGED <<current_thread, prio>>
  BY <1>1 DEF Wakes, Wake, Me, idVars
<1>4. pc[t] # "none"
  BY <1>1, <1>2 DEF LInv, AtHome, Placed
<1>5. t # current_thread
  BY <1>1, <1>2, CurrentUnlinked
<1>6. \A p \in Prios : ~On(list, t, p)
  BY <1>1, <1>2, ListNumbers DEF Once, On
<1>7. LevelsKept
  BY <1>2, <1>3 DEF LevelsKept, Level
<1>8. RunnerKept
  BY <1>2, <1>3, <1>5 DEF RunnerKept, Able
<1> QED BY <1>1, <1>2, <1>4, <1>5, <1>6, <1>7, <1>8, WakeStep

LEMMA IpcFlagged ==
  ASSUME TInv, Flagged(list, prio_exist_flag), [IpcNext]_allVars
  PROVE  Flagged(list', prio_exist_flag')
<1>1. CASE Next \/ UNCHANGED vars
  BY <1>1, ReadyFlaggedNext
<1>2. ASSUME NEW w \in WaitIds, Waits(w) PROVE Flagged(list', prio_exist_flag')
  <2>1. \A p \in Prios : list'[p] = list[p]
    BY <1>2, WaitsQueues DEF QueuesKept
  <2> QED BY <1>2, <2>1, FlaggedElsewhere DEF Waits
<1>3. ASSUME NEW w \in WaitIds, Wakes(w) PROVE Flagged(list', prio_exist_flag')
  <2>1. PICK t \in Threads : t = Head(list[w]) /\ Grown(prio[t], t)
    BY <1>3, WakesGrown
  <2>2. prio_exist_flag' = [prio_exist_flag EXCEPT ![prio[t]] = TRUE]
    BY <1>3, <2>1 DEF Wakes, Wake, FlagWoken
  <2>3. prio_exist_flag \in [Prios -> BOOLEAN] /\ prio[t] \in Prios
    BY DEF TInv, TypeOK
  <2>4. /\ prio_exist_flag'[prio[t]]
        /\ \A p \in Prios \ {prio[t]} :
             list'[p] = list[p] /\ prio_exist_flag'[p] = prio_exist_flag[p]
    BY <2>1, <2>2, <2>3 DEF Grown
  <2> QED BY <2>4 DEF Flagged
<1>4. CASE UNCHANGED <<list, prio_exist_flag>>
  BY <1>4
<1> QED BY <1>1, <1>2, <1>3, <1>4, KernelPart

LEMMA IpcPriority ==
  ASSUME LInv, DInv, [IpcNext]_allVars
  PROVE  PriorityStep
<1>1. CASE Next \/ UNCHANGED vars
  BY <1>1, PriorityNext
<1>2. ASSUME NEW w \in WaitIds, Waits(w) \/ Wakes(w) PROVE PriorityStep
  BY <1>2, WaitsStep, WakesStep
<1>3. CASE UNCHANGED <<list, current_thread, idVars, state, pc>>
  BY <1>3, KeptStep DEF idVars
<1> QED BY <1>1, <1>2, <1>3, KernelPart DEF LInv

(* Outside the two windows the kernel schedules by fixed priorities also for an
   application that uses semaphores, mailboxes and queues: what sem_pend and the
   receive calls take off the processor, and what sem_post and the sends make
   ready, is all a priority scheduler has to see of them. *)
THEOREM IpcSchedulesByPriority ==
  ASSUME "leave" \notin TickPoints, "create" \notin TickPoints
  PROVE  IpcSpec => PrioritySpec
<1> DEFINE I == LInv /\ HInv /\ Flagged(list, prio_exist_flag)
<1>1. IpcInit => I /\ Prioritized!Init
  <2> SUFFICES ASSUME IpcInit PROVE Flagged(list, prio_exist_flag)
    BY LInvInit, HInvInit, PriorityInit DEF IpcInit
  <2> QED BY PrioAssumption, ListNumbers DEF IpcInit, InitCurt, Flagged, Prios
<1>2. I /\ [IpcNext]_allVars => I'
  <2> SUFFICES ASSUME I, [IpcNext]_allVars PROVE I'
    OBVIOUS
  <2>1. Flagged(list', prio_exist_flag')
    BY IpcFlagged DEF LInv
  <2> QED BY <2>1, IpcLInv, IpcHInv DEF Flagged
<1>3. I /\ [IpcNext]_allVars =>
        [Prioritized!Next]_<<[t \in Threads |-> IF pc[t] = "none" THEN MaxPrio ELSE prio[t]],
                             [p \in Prios |-> list[p]], current_thread,
                             current_thread # NoThread /\ state[current_thread] = "RUNNING">>
  BY IpcPriority DEF PriorityStep, DInv, Flagged, ReadyFlagged
<1> QED BY <1>1, <1>2, <1>3, PTL DEF IpcSpec, PrioritySpec, Prioritized!Spec, Prioritized!absVars
(***************************************************************************)
(* The kernel with its objects still finds a thread to run, wherever the   *)
(* tick comes: a waiting thread has left the processor like any other, and *)
(* a woken one is READY on its ready list.                                 *)
(***************************************************************************)

LEMMA WaitsFinds ==
  ASSUME Live, NEW w \in WaitIds, Waits(w)
  PROVE  CPart' /\ Settled' /\ StaleOK(FALSE)'
<1>1. /\ list \in [ListIds -> Seq(Threads)] /\ w \in ListIds /\ Me \in Threads /\ TInv
      /\ Me # NoThread /\ Me # Idle /\ pc[Me] = "user"
  BY ListNumbers, LiveFacts DEF Waits, Me
<1>2. \/ list' = list
      \/ \E k \in 0 .. Len(list[w]) : PutIn(list, list', w, k, Me)
  BY <1>1, WaitPuts DEF Waits
<1>3. \A x \in Threads, m \in ListIds : On(list, x, m) => On(list', x, m)
  <2>1. CASE list' = list
    BY <2>1
  <2>2. ASSUME NEW k \in 0 .. Len(list[w]), PutIn(list, list', w, k, Me)
        PROVE  \A x \in Threads, m \in ListIds : On(list, x, m) => On(list', x, m)
    <3>1. \A x \in Threads, m \in ListIds :
            On(list', x, m) <=> On(list, x, m) \/ (x = Me /\ m = w)
      BY <1>1, <2>2, PutInOn
    <3> QED BY <3>1
  <2> QED BY <1>2, <2>1, <2>2
<1>4. /\ state' = [state EXCEPT ![Me] = "EVENT_WAIT"]
      /\ pc' = [pc EXCEPT ![Me] = "leave"]
      /\ UNCHANGED <<current_thread, idVars, fault, arg, prio_exist_flag>>
  BY DEF Waits, Wait
<1>5. "EVENT_WAIT" \in States \ {"READY", "RUNNING"}
  BY DEF States
<1>6. CPart' /\ Settled'
  BY <1>1, <1>3, <1>4, <1>5, GoesFinds
<1>7. QueuesKept
  BY <1>1, WaitsQueues
<1>8. StaleOK(FALSE)'
  BY <1>4, <1>7, LiveFacts DEF StaleOK, QueuesKept
<1> QED BY <1>6, <1>8

LEMMA WakesFinds ==
  ASSUME Live, NEW w \in WaitIds, Wakes(w)
  PROVE  CPart' /\ Settled' /\ StaleOK(FALSE)'
<1>1. /\ CPart /\ Settled /\ list \in [ListIds -> Seq(Threads)] /\ Once(list)
      /\ w \in ListIds /\ list[w] # << >> /\ w \notin Prios /\ TInv
      /\ current_thread \in Threads /\ NoThread \notin Threads /\ Idle \in Threads
      /\ current_thread # NoThread /\ pc[current_thread] = "user"
      /\ pc \in [Threads -> PCs] /\ state \in [Threads -> States]
      /\ prio \in [Threads -> Prios] /\ prio \in [Threads -> ListIds]
  BY ListNumbers, LiveFacts DEF Live, Wakes, Me
<1>2. PICK t \in Threads : t = Head(list[w]) /\ On(list, t, w) /\ Grown(prio[t], t)
  BY <1>1, WakesGrown
<1>3. PICK K : K = DeleteFront(list, w)
  OBVIOUS
<1>4. /\ K \in [ListIds -> Seq(Threads)]
      /\ \A x \in Threads, m \in ListIds : On(K, x, m) <=> On(list, x, m) /\ x # t
  <2>1. DeleteFront(list, w) \in [ListIds -> Seq(Threads)]
    BY <1>1, DeleteFrontProperties
  <2>2. \A x \in Threads, m \in ListIds :
          On(DeleteFront(list, w), x, m) <=> On(list, x, m) /\ x # Head(list[w])
    BY <1>1, DeleteFrontOnce
  <2> QED BY <1>2, <1>3, <2>1, <2>2
<1>5. /\ list' = InsertBack(K, prio[t], t)
      /\ state' = [state EXCEPT ![t] = "READY"]
      /\ prio_exist_flag' = [prio_exist_flag EXCEPT ![prio[t]] = TRUE]
      /\ pc' = [pc EXCEPT ![current_thread] = "sched"]
      /\ UNCHANGED <<current_thread, prio, tid, thread_table, fault, arg>>
  BY <1>2, <1>3 DEF Wakes, Wake, FlagWoken, Me, idVars
<1>6. \A x \in Threads, m \in ListIds :
        On(list', x, m) <=> (On(list, x, m) /\ x # t) \/ (x = t /\ m = prio[t])
  <2>1. \A x \in Threads, m \in ListIds :
          On(InsertBack(K, prio[t], t), x, m) <=> On(K, x, m) \/ (x = t /\ m = prio[t])
    BY <1>1, <1>4, InsertBackOn
  <2> QED BY <1>4, <1>5, <2>1
<1>7. /\ \A x \in Threads : pc'[x] # "none" => pc[x] # "none"
      /\ \A x \in Threads : pc'[x] \in {"create", "suspend", "resume"} => pc'[x] = pc[x]
      /\ pc'[Idle] \in {"user", "sched"}
  BY <1>1, <1>5 DEF CPart, IdleHere
<1>8. \A x \in Threads : /\ x # t => state'[x] = state[x]
                         /\ state[x] \in {"READY", "RUNNING"} =>
                              state'[x] \in {"READY", "RUNNING"}
  BY <1>1, <1>2, <1>5
<1>9. CPart'
  BY <1>1, <1>5, <1>7, <1>8, CPartKept DEF CPart, IdleHere, ArgsHere
<1>10. ASSUME NEW x \in Threads, pc'[x] # "none"
       PROVE  /\ state'[x] = "READY" => On(list', x, prio'[x])
              /\ state'[x] = "RUNNING" => x = current_thread'
  <2>1. CASE x = t
    BY <1>1, <1>5, <1>6, <2>1
  <2>2. CASE x # t
    BY <1>1, <1>5, <1>6, <1>7, <1>8, <1>10, <2>2 DEF Settled
  <2> QED BY <2>1, <2>2
<1>11. Settled'
  BY <1>1, <1>5, <1>8, <1>10 DEF Settled
<1>12. StaleOK(FALSE)'
  <2> SUFFICES ASSUME NEW p \in Prios, prio_exist_flag'[p] PROVE list'[p] # << >>
    BY DEF StaleOK
  <2>1. CASE p = prio[t]
    BY <1>1, <1>2, <1>6, <2>1 DEF On
  <2>2. CASE p # prio[t]
    BY <1>2, <1>5, <2>2, LiveFacts DEF Grown, StaleOK
  <2> QED BY <2>1, <2>2
<1> QED BY <1>9, <1>11, <1>12

LEMMA IpcCInv ==
  ASSUME CInv, [IpcNext]_allVars, "suspend_other" \notin Calls,
         CallTids \subseteq Tids, UserPrios \subseteq Prios \ {MaxPrio - 1}
  PROVE  CInv'
<1>1. TInv /\ DInv'
  <2>1. TInv /\ Flagged(list, prio_exist_flag)
    BY DEF CInv, DInv, HInv, ReadyFlagged, Flagged
  <2>2. Flagged(list', prio_exist_flag')
    BY <2>1, IpcFlagged
  <2>3. HInv'
    BY IpcHInv DEF CInv, DInv
  <2> QED BY <2>1, <2>2, <2>3 DEF DInv, ReadyFlagged, Flagged
<1>2. CASE Next \/ UNCHANGED vars
  BY <1>2, CInvNext
<1>3. ASSUME NEW w \in WaitIds, Waits(w) \/ Wakes(w), Once(list) PROVE CInv'
  <2>1. Live /\ fault' = "none"
    BY <1>3 DEF Live, CInv, Waits, Wakes
  <2> QED BY <1>1, <1>3, <2>1, WaitsFinds, WakesFinds DEF CInv
<1>4. CASE UNCHANGED <<list, prio_exist_flag, current_thread, idVars, state,
                       time_quantum, delayed_time, saved_ie, pc, arg, cursor, fault>>
  BY <1>1, <1>4, CInvKept
<1>5. Once(list) \/ UNCHANGED vars
  BY AliveOnce DEF IpcNext, allVars, vars
<1> QED BY <1>1, <1>2, <1>3, <1>4, <1>5, KernelPart

\* With semaphores, mailboxes and queues (sync.c, ipc.c) too, and wherever the
\* tick comes, schedule() finds a thread and no service follows a dead pointer,
\* as long as the lists are lists.  The conditions are those of NeverCrashes.
THEOREM IpcNeverCrashes ==
  ASSUME "suspend_other" \notin Calls, CallTids \subseteq Tids,
         UserPrios \subseteq Prios \ {MaxPrio - 1}
  PROVE  IpcSpec => []NoCrash
<1>1. IpcInit => CInv
  BY CInvInit DEF IpcInit
<1>2. CInv /\ [IpcNext]_allVars => CInv'
  BY IpcCInv
<1>3. CInv => NoCrash
  BY DEF CInv, NoCrash
<1> QED BY <1>1, <1>2, <1>3, PTL DEF IpcSpec
=============================================================================
