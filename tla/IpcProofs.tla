------------------------------ MODULE IpcProofs ------------------------------
(***************************************************************************)
(* Theorems about the semaphores, mailboxes and message queues of Ipc, for *)
(* every number of objects, threads and messages, and whatever services    *)
(* the application uses beside them.                                       *)
(***************************************************************************)
EXTENDS Ipc, ThreadsProofs, WellFoundedInduction

(***************************************************************************)
(* The kernel never adds to a wait list: its own lists are the ready       *)
(* lists, delayed_list, blocked_list and termination_wait_list.            *)
(***************************************************************************)

\* From lists L to lists K, list l stays as it is or gets shorter.
Shrinks(L, K, l) == K[l] = L[l] \/ Len(K[l]) < Len(L[l])

LEMMA ShrinksOrKeeps ==
  ASSUME NEW L \in [ListIds -> Seq(Threads)], NEW K \in [ListIds -> Seq(Threads)],
         NEW l \in ListIds, Shrinks(L, K, l), K[l] # << >>
  PROVE  L[l] # << >>
<1>1. L[l] \in Seq(Threads) /\ K[l] \in Seq(Threads)
  OBVIOUS
<1>2. Len(L[l]) \in Nat /\ Len(K[l]) \in Nat
  BY <1>1, LenProperties
<1>3. Len(<< >>) = 0
  OBVIOUS
<1> QED BY <1>1, <1>2, <1>3 DEF Shrinks

LEMMA InsertShrinks ==
  ASSUME NEW L \in [ListIds -> Seq(Threads)], NEW K \in [ListIds -> Seq(Threads)],
         NEW l \in ListIds, Shrinks(L, K, l),
         NEW m \in ListIds, m # l, NEW t \in Threads
  PROVE  Shrinks(L, InsertBack(K, m, t), l)
<1>1. InsertBack(K, m, t)[l] = K[l]
  BY DEF InsertBack
<1> QED BY <1>1 DEF Shrinks

LEMMA PopShrinks ==
  ASSUME NEW L \in [ListIds -> Seq(Threads)], NEW m \in ListIds, L[m] # << >>,
         NEW l \in ListIds
  PROVE  Shrinks(L, DeleteFront(L, m), l)
<1>1. CASE l = m
  <2>1. Len(DeleteFront(L, m)[m]) = Len(L[m]) - 1
    BY DeleteFrontProperties
  <2>2. Len(L[m]) \in Nat
    BY LenProperties
  <2> QED BY <1>1, <2>1, <2>2 DEF Shrinks
<1>2. CASE l # m
  BY <1>2, DeleteFrontProperties DEF Shrinks
<1> QED BY <1>1, <1>2

LEMMA DeleteShrinks ==
  ASSUME NEW L \in [ListIds -> Seq(Threads)], NEW t \in Threads, NEW l \in ListIds
  PROVE  Shrinks(L, Delete(L, t), l)
<1>1. CASE \E i \in DOMAIN L[l] : L[l][i] = t
  <2>1. PICK k \in 1 .. Len(L[l]) :
          L[l][k] = t /\ Delete(L, t)[l] = RemoveAt(L[l], k)
    <3>1. On(L, t, l)
      BY <1>1 DEF On
    <3> QED BY <3>1, DeleteOn
  <2>2. L[l] \in Seq(Threads)
    OBVIOUS
  <2>3. Len(RemoveAt(L[l], k)) = Len(L[l]) - 1 /\ Len(L[l]) \in Nat
    BY <2>1, <2>2, RemoveAtProperties, LenProperties
  <2> QED BY <2>1, <2>3 DEF Shrinks
<1>2. CASE \A i \in DOMAIN L[l] : L[l][i] # t
  <2>1. Delete(L, t)[l] = L[l]
    <3>1. ~ On(L, t, l)
      BY <1>2 DEF On
    <3> QED BY <3>1, DeleteOff
  <2> QED BY <2>1 DEF Shrinks
<1> QED BY <1>1, <1>2

\* schedule() pops a ready list and puts the outgoing thread back on another.
LEMMA DispatchShrinks ==
  ASSUME TInv, current_thread # NoThread, NEW top \in 0 .. MaxPrio,
         ~NoneToPop(top), NEW e \in BOOLEAN, Dispatch(top, e),
         NEW l \in ListIds \ Prios
  PROVE  Shrinks(list, list', l)
<1> DEFINE popped == DeleteFront(list, top)
           c == current_thread
<1>1. /\ top \in Prios /\ top \in ListIds /\ list[top] # << >>
      /\ list \in [ListIds -> Seq(Threads)]
      /\ c \in Threads /\ prio[c] \in Prios /\ prio[c] \in ListIds /\ prio[c] # l
  <2>1. /\ list \in [ListIds -> Seq(Threads)] /\ c \in Threads
        /\ prio \in [Threads -> Prios]
    BY DEF TInv, TypeOK
  <2>2. top \in Prios /\ list[top] # << >>
    BY PrioAssumption DEF NoneToPop, Prios
  <2> QED BY <2>1, <2>2, ListNumbers
<1>2. popped \in [ListIds -> Seq(Threads)] /\ Shrinks(list, popped, l)
  BY <1>1, DeleteFrontProperties, PopShrinks
<1>3. list' = popped \/ list' = InsertBack(popped, prio[c], c)
  BY DEF Dispatch
<1> HIDE DEF popped, c
<1>4. Shrinks(list, InsertBack(popped, prio[c], c), l)
  BY <1>1, <1>2, InsertShrinks
<1> QED BY <1>2, <1>3, <1>4

LEMMA KernelShrinks ==
  ASSUME TInv, Next, NEW l \in WaitIds \cup {Terminated},
         l = Terminated => "delete" \notin Calls
  PROVE  Shrinks(list, list', l)
<1> DEFINE S == Shrinks(list, list', l)
<1>1. /\ list \in [ListIds -> Seq(Threads)] /\ prio \in [Threads -> Prios]
      /\ l \in ListIds /\ l \notin Prios /\ l # Delayed /\ l # Blocked
      /\ current_thread \in Threads \cup {NoThread}
  BY ListNumbers DEF TInv, TypeOK
<1>2. CASE UNCHANGED list
  BY <1>2 DEF Shrinks
\* A thread goes to the back of list m of the lists K.
<1>3. ASSUME NEW K \in [ListIds -> Seq(Threads)], Shrinks(list, K, l),
             NEW m \in ListIds, m # l, NEW t \in Threads, list' = InsertBack(K, m, t)
      PROVE  S
  BY <1>1, <1>3, InsertShrinks
<1>4. Shrinks(list, list, l)
  BY DEF Shrinks
<1>5. ASSUME current_thread # NoThread, NEW top \in 0 .. MaxPrio,
             ~NoneToPop(top), NEW e \in BOOLEAN, Dispatch(top, e)
      PROVE  S
  BY <1>1, <1>5, DispatchShrinks
<1> SUFFICES S
  OBVIOUS
<1> HIDE DEF S
<1>6. CASE MainCreate
  <2>1. PICK u \in Threads, i \in Tids, p \in UserPrios : EnterTable(u, i, p)
    BY <1>6 DEF MainCreate
  <2>2. p \in Prios /\ p \in ListIds /\ p # l
    BY <1>1, CallAssumption, ListNumbers
  <2> QED BY <1>1, <1>3, <1>4, <2>1, <2>2 DEF EnterTable
<1>7. CASE StartCurt
  <2>1. PICK top \in Prios : IsTopPrio(top) /\ list' = DeleteFront(list, top)
    BY <1>7 DEF StartCurt
  <2>2. prio_exist_flag[top]
    BY <2>1, PrioAssumption DEF IsTopPrio, Prios
  <2>3. list[top] # << >>
    BY <1>7, <2>2 DEF TInv, StartOK, StartCurt
  <2> QED BY <1>1, <2>1, <2>3, PopShrinks, ListNumbers DEF S
<1>8. CASE TickStep
  <2> DEFINE t == list[Delayed][cursor]
             cut == [list EXCEPT ![Delayed] = RemoveAt(@, cursor)]
  <2>1. t \in Threads /\ cursor \in 1 .. Len(list[Delayed])
    <3>1. list[Delayed] \in Seq(Threads) /\ cursor \in DOMAIN list[Delayed]
      BY <1>1, <1>8, ListNumbers DEF TickStep
    <3> QED BY <3>1, LenProperties
  <2>2. RemoveAt(list[Delayed], cursor) \in Seq(Threads)
    BY <1>1, <2>1, RemoveAtProperties, ListNumbers
  <2>3. cut \in [ListIds -> Seq(Threads)] /\ Shrinks(list, cut, l)
    BY <1>1, <2>2, ListNumbers DEF Shrinks
  <2>4. prio[t] \in Prios /\ prio[t] \in ListIds /\ prio[t] # l
    BY <1>1, <2>1, ListNumbers
  <2>5. UNCHANGED list \/ list' = InsertBack(cut, prio[t], t)
    BY <1>8 DEF TickStep
  <2> HIDE DEF t, cut
  <2> QED BY <1>2, <1>3, <2>1, <2>3, <2>4, <2>5 DEF S
<1>9. CASE TickEnd
  <2>1. current_thread # NoThread
    <3>1. cursor # 0
      BY <1>1, <1>9, LenProperties, ListNumbers DEF TickEnd
    <3> QED BY <3>1 DEF TInv, StartOK
  <2>2. \/ UNCHANGED list
        \/ \E top \in 0 .. MaxPrio : ~NoneToPop(top) /\ Dispatch(top, TRUE)
    BY <1>9 DEF TickEnd, ScheduleExpire, Crash
  <2> QED BY <1>2, <1>5, <2>1, <2>2 DEF S
<1>10. CASE ScheduleRequest
  <2>1. current_thread # NoThread
    BY <1>10 DEF ScheduleRequest
  <2>2. \/ UNCHANGED list
        \/ \E top \in 0 .. MaxPrio : ~NoneToPop(top) /\ Dispatch(top, FALSE)
    BY <1>10 DEF ScheduleRequest, Crash
  <2> QED BY <1>2, <1>5, <2>1, <2>2 DEF S
<1>11. CASE IdleLoop
  <2>1. CASE list[Terminated] # << >>
    <3>1. list' = DeleteFront(list, Terminated)
      BY <1>11, <2>1 DEF IdleLoop
    <3> QED BY <1>1, <2>1, <3>1, PopShrinks, ListNumbers DEF S
  <2> QED BY <1>2, <1>11, <2>1 DEF IdleLoop, S
<1>12. CASE CreateInsert
  <2> DEFINE u == arg[current_thread]
  <2>1. /\ current_thread # NoThread /\ current_thread \in Threads
        /\ pc[current_thread] = "create"
    BY <1>1, <1>12 DEF CreateInsert, AtSection, Me
  <2>2. u \in Threads
    BY <2>1 DEF TInv, ArgOK
  <2>3. prio[u] \in ListIds /\ prio[u] # l
    BY <1>1, <2>2, ListNumbers
  <2>4. list' = InsertBack(list, prio[u], u)
    BY <1>12 DEF CreateInsert, EnterTable, Me
  <2> HIDE DEF u
  <2> QED BY <1>1, <1>3, <1>4, <2>2, <2>3, <2>4
<1>13. CASE Delay \/ DeleteSelf
  <2>1. /\ current_thread # NoThread
        /\ \/ list' = InsertBack(list, Delayed, current_thread)
           \/ "delete" \in Calls /\ list' = InsertBack(list, Terminated, current_thread)
    BY <1>13 DEF Delay, DeleteSelf, Leave, Me, InUser
  <2> QED BY <1>1, <1>3, <1>4, <2>1, ListNumbers
<1>14. CASE SuspendSection
  <2> DEFINE t == thread_table[arg[current_thread]]
  <2>1. current_thread # NoThread /\ pc[current_thread] = "suspend"
    BY <1>14 DEF SuspendSection, AtSection, Me
  <2>2. CASE /\ ~BadPointer(arg[current_thread])
             /\ \/ list' = InsertBack(list, Blocked, t)
                \/ list' = InsertBack(Delete(list, t), Blocked, t)
    <3>1. t \in Threads
      BY <2>1, <2>2, SectionThread DEF Me
    <3> HIDE DEF t
    <3>2. Delete(list, t) \in [ListIds -> Seq(Threads)] /\ Shrinks(list, Delete(list, t), l)
      BY <1>1, <3>1, DeleteProperties, DeleteShrinks
    <3> QED BY <1>1, <1>3, <1>4, <2>2, <3>1, <3>2, ListNumbers
  <2> QED BY <1>2, <1>14, <2>2 DEF SuspendSection, Crash, Me, S
<1>15. CASE ResumeSection
  <2> DEFINE t == thread_table[arg[current_thread]]
  <2>1. current_thread # NoThread /\ pc[current_thread] = "resume"
    BY <1>15 DEF ResumeSection, AtSection, Me
  <2>2. CASE /\ ~BadPointer(arg[current_thread])
             /\ list' = InsertBack(Delete(list, t), prio[t], t)
    <3>1. t \in Threads
      BY <2>1, <2>2, SectionThread DEF Me
    <3>2. prio[t] \in ListIds /\ prio[t] # l
      BY <1>1, <3>1, ListNumbers
    <3> HIDE DEF t
    <3>3. Delete(list, t) \in [ListIds -> Seq(Threads)] /\ Shrinks(list, Delete(list, t), l)
      BY <1>1, <3>1, DeleteProperties, DeleteShrinks
    <3> QED BY <1>3, <2>2, <3>1, <3>2, <3>3
  <2> QED BY <1>2, <1>15, <2>2 DEF ResumeSection, Crash, Me, S
<1>16. CASE \/ TickBegin \/ Yield \/ DeleteOther \/ CreateFill
            \/ SuspendCheck \/ ResumeCheck \/ Halted
  BY <1>2, <1>16 DEF TickBegin, Yield, DeleteOther, CreateFill, SuspendCheck,
                     ResumeCheck, CheckTid, Halted, vars, S
<1> QED BY <1>6, <1>7, <1>8, <1>9, <1>10, <1>11, <1>12, <1>13, <1>14, <1>15,
           <1>16 DEF Next, Tick, Call, Section, S

(***************************************************************************)
(* Waiting and waking keep the kernel's types.                             *)
(***************************************************************************)

\* insert_before_list(node k) makes a list of what was on it and the new node.
LEMMA InsertBehind ==
  ASSUME NEW S, NEW s \in Seq(S), NEW k \in 1 .. Len(s), NEW e \in S
  PROVE  InsertBefore(s, k, e) \in Seq(S)
<1> DEFINE a == SubSeq(s, 1, k)
           b == SubSeq(s, k + 1, Len(s))
<1>1. Len(s) \in Nat /\ k \in Int /\ \A i \in 1 .. Len(s) : s[i] \in S
  BY LenProperties
<1>2. a \in Seq(S)
  <2>1. \A i \in 1 .. k : s[i] \in S
    BY <1>1
  <2> QED BY <1>1, <2>1, SubSeqProperties
<1>3. b \in Seq(S)
  <2>1. \A i \in k + 1 .. Len(s) : s[i] \in S
    BY <1>1
  <2> QED BY <1>1, <2>1, SubSeqProperties
<1>4. InsertBefore(s, k, e) = (a \o <<e>>) \o b
  <2>1. (k + 1) - 1 = k
    BY <1>1
  <2>2. SubSeq(s, 1, (k + 1) - 1) = a
    BY <2>1
  <2>3. InsertBefore(s, k, e) = (SubSeq(s, 1, (k + 1) - 1) \o <<e>>) \o b
    BY Zenon DEF InsertBefore, InsertAt
  <2> HIDE DEF a, b
  <2> QED BY <2>2, <2>3
<1> HIDE DEF a, b
<1>5. a \o <<e>> \in Seq(S)
  BY <1>2
<1> DEFINE c == a \o <<e>>
<1> HIDE DEF c
<1>6. c \in Seq(S)
  BY <1>5 DEF c
<1> QED BY <1>3, <1>4, <1>6 DEF c

\* Every non-empty set of naturals has a least element.
LEMMA Least ==
  ASSUME NEW S, S \subseteq Nat, S # {}
  PROVE  \E x \in S : \A y \in S : x <= y
<1> DEFINE R == {ss \in Nat \X Nat : ss[1] < ss[2]}
<1>1. IsWellFoundedOn(R, Nat)
  BY NatLessThanWellFounded DEF OpToRel
<1>2. \E x \in S : \A y \in S : ~ (<<y, x>> \in R)
  <2> HIDE DEF R
  <2> QED BY <1>1, WFMin
<1>3. PICK x \in S : \A y \in S : ~ (<<y, x>> \in R)
  BY <1>2
<1>4. ASSUME NEW y \in S PROVE x <= y
  <2>1. x \in Nat /\ y \in Nat
    BY <1>3
  <2>2. SUFFICES ASSUME y < x PROVE <<y, x>> \in R
    BY <1>3, <2>1
  <2>3. <<y, x>> \in Nat \X Nat /\ <<y, x>>[1] = y /\ <<y, x>>[2] = x
    BY <2>1
  <2> QED BY <2>2, <2>3
<1> QED BY <1>4

\* A thread that waits touches no list but the object's.
LEMMA WaitLists ==
  ASSUME TInv, NEW w \in WaitIds, Wait(w), Me # NoThread
  PROVE  /\ list' \in [ListIds -> Seq(Threads)]
         /\ \A l \in ListIds \ {w} : list'[l] = list[l]
<1>1. /\ list \in [ListIds -> Seq(Threads)] /\ w \in ListIds /\ Me \in Threads
      /\ list[w] \in Seq(Threads)
  BY ListNumbers DEF TInv, TypeOK, Me
<1>2. CASE LowerWaiters(w) # {}
  <2>1. Len(list[w]) \in Nat /\ LowerWaiters(w) \subseteq 1 .. Len(list[w])
    BY <1>1, LenProperties DEF LowerWaiters
  <2>2. FirstLower(w) \in LowerWaiters(w)
    <3>1. LowerWaiters(w) \subseteq Nat
      BY <2>1
    <3>2. \E i \in LowerWaiters(w) : \A j \in LowerWaiters(w) : i <= j
      BY <1>2, <3>1, Least
    <3> QED BY <3>2 DEF FirstLower
  <2> DEFINE s == InsertBefore(list[w], FirstLower(w), Me)
  <2>3. s \in Seq(Threads)
    BY <1>1, <2>1, <2>2, InsertBehind
  <2>4. list' = [list EXCEPT ![w] = s]
    BY <1>2 DEF Wait
  <2> HIDE DEF s
  <2> QED BY <1>1, <2>3, <2>4
<1>3. CASE list' = InsertBack(list, w, Me)
  BY <1>1, <1>3 DEF InsertBack
<1>4. CASE list' = list
  BY <1>1, <1>4
<1> QED BY <1>2, <1>3, <1>4 DEF Wait

LEMMA WaitTInv ==
  ASSUME TInv, NEW w \in WaitIds, Wait(w), Me # NoThread, cursor = 0,
         ie' \in BOOLEAN,
         UNCHANGED <<prio_exist_flag, current_thread, idVars, time_quantum,
                     delayed_time, saved_ie, arg, cursor, fault>>
  PROVE  TInv'
<1>1. /\ list' \in [ListIds -> Seq(Threads)]
      /\ list'[Delayed] = list[Delayed]
  BY WaitLists, ListNumbers
<1>2. Me \in Threads /\ TypeOK
  BY DEF TInv, TypeOK, Me
<1>3. state' \in [Threads -> States] /\ pc' \in [Threads -> PCs]
  BY <1>2 DEF Wait, TypeOK, PCs, States
<1>4. TypeOK'
  BY <1>1, <1>2, <1>3 DEF TypeOK, idVars
<1>5. ArgOK'
  BY <1>2 DEF TInv, ArgOK, TypeOK, Wait
<1>6. StartOK'
  BY DEF StartOK, Me
<1> QED BY <1>4, <1>5, <1>6 DEF TInv

\* The thread that is woken leaves the front of the wait list.
LEMMA WakeLists ==
  ASSUME TInv, NEW w \in WaitIds, list[w] # << >>, Wake(w)
  PROVE  /\ list' \in [ListIds -> Seq(Threads)]
         /\ list'[Delayed] = list[Delayed]
         /\ list'[w] = Tail(list[w])
         /\ \A l \in WaitIds : Shrinks(list, list', l)
         /\ list'[Terminated] = list[Terminated]
         /\ Head(list[w]) \in Threads
<1> DEFINE t == Head(list[w])
           K == DeleteFront(list, w)
<1>1. /\ list \in [ListIds -> Seq(Threads)] /\ w \in ListIds
      /\ prio \in [Threads -> Prios] /\ list[w] \in Seq(Threads)
  BY ListNumbers DEF TInv, TypeOK
<1>2. t \in Threads /\ K \in [ListIds -> Seq(Threads)]
  BY <1>1, DeleteFrontProperties
<1>3. prio[t] \in Prios /\ prio[t] \in ListIds
  BY <1>1, <1>2, ListNumbers
<1>4. K[w] = Tail(list[w]) /\ \A l \in ListIds \ {w} : K[l] = list[l]
  BY <1>1 DEF DeleteFront
<1>5. \A l \in WaitIds : Shrinks(list, K, l)
  BY <1>1, PopShrinks, ListNumbers
<1>6. list' = InsertBack(K, prio[t], t)
  BY DEF Wake
<1> HIDE DEF K, t
<1>7. /\ list' \in [ListIds -> Seq(Threads)]
      /\ \A l \in ListIds \ {prio[t]} : list'[l] = K[l]
  BY <1>2, <1>3, <1>6, InsertBackProperties
<1>8. \A l \in WaitIds \cup {Delayed, Terminated} : list'[l] = K[l]
  BY <1>3, <1>7, ListNumbers
<1>9. \A l \in WaitIds : Shrinks(list, list', l)
  BY <1>5, <1>8 DEF Shrinks
<1> QED BY <1>2, <1>4, <1>7, <1>8, <1>9, ListNumbers DEF t

LEMMA WakeTInv ==
  ASSUME TInv, NEW w \in WaitIds, list[w] # << >>, Wake(w), Me # NoThread, cursor = 0,
         UNCHANGED <<current_thread, idVars, time_quantum, delayed_time, ie,
                     saved_ie, arg, cursor, fault>>
  PROVE  TInv'
<1>1. /\ list' \in [ListIds -> Seq(Threads)]
      /\ list'[Delayed] = list[Delayed] /\ Head(list[w]) \in Threads
  BY WakeLists
<1>2. Me \in Threads /\ TypeOK
  BY DEF TInv, TypeOK, Me
<1>3. state' \in [Threads -> States] /\ pc' \in [Threads -> PCs]
  BY <1>1, <1>2 DEF Wake, TypeOK, PCs, States
<1>4. prio_exist_flag' \in [Prios -> BOOLEAN]
  BY <1>2 DEF Wake, FlagWoken, TypeOK
<1>5. TypeOK'
  BY <1>1, <1>2, <1>3, <1>4 DEF TypeOK, idVars
<1>6. ArgOK'
  BY <1>2 DEF TInv, ArgOK, TypeOK, Wake
<1>7. StartOK'
  BY DEF StartOK, Me
<1> QED BY <1>5, <1>6, <1>7 DEF TInv

(***************************************************************************)
(* The invariant of the objects: each keeps only what its kind can keep,   *)
(* and nothing while a thread waits.                                       *)
(***************************************************************************)
KindOK ==
  \A w \in WaitIds :
    /\ kind[w] # "sem" => sem_value[w] = 0
    /\ kind[w] # "mbox" => mbox_msg[w] = 0
    /\ kind[w] # "msgq" => msg_list[w] = << >>

IpcInv == TInv /\ IpcTypeOK /\ KindOK /\ WaitersMeanEmpty

\* A step is one of the kernel's or of an object's.
Waits(w) == /\ Wait(w) /\ Me # NoThread /\ Me # Idle
            /\ cursor = 0 /\ pc[Me] = "user"
            /\ ie' \in BOOLEAN
            /\ UNCHANGED <<prio_exist_flag, current_thread, idVars, time_quantum,
                            delayed_time, saved_ie, arg, cursor, fault>>

Wakes(w) == /\ Wake(w) /\ list[w] # << >>
            /\ Me # NoThread /\ cursor = 0 /\ pc[Me] = "user"
            /\ UNCHANGED <<current_thread, idVars, time_quantum, delayed_time, ie,
                            saved_ie, arg, cursor, fault>>

LEMMA KernelPart ==
  ASSUME TInv, [IpcNext]_allVars
  PROVE  \/ Next \/ UNCHANGED vars
         \/ \E w \in WaitIds : Waits(w) \/ Wakes(w)
         \/ ie' = FALSE /\ UNCHANGED <<list, prio_exist_flag, current_thread, idVars, state,
                         time_quantum, delayed_time, saved_ie, pc, arg, cursor, fault>>
<1>1. ie \in BOOLEAN
  BY DEF TInv, TypeOK
<1>2. CASE Alive /\ (KernelStep \/ Call)
  BY <1>2 DEF KernelStep, Next
<1>3. ASSUME NEW w \in WaitIds, SemCall(w)
      PROVE  UNCHANGED vars \/ Waits(w) \/ Wakes(w)
  <2>1. CASE SemTake(w) \/ SemCountUp(w)
    BY <2>1 DEF SemTake, SemCountUp
  <2>2. CASE SemBlock(w)
    BY <2>2 DEF SemBlock, Uses, PendLeavesMasked, Waits
  <2>3. CASE SemWake(w)
    BY <2>3 DEF SemWake, Uses, Wakes
  <2> QED BY <1>3, <2>1, <2>2, <2>3 DEF SemCall
<1>4. ASSUME NEW w \in WaitIds, MsgCall(w), ~ MsgqTryEmpty(w)
      PROVE  UNCHANGED vars \/ Waits(w) \/ Wakes(w)
  <2>1. CASE MboxTake(w) \/ MsgqUnlink(w) \/ MboxStore(w) \/ MsgqStore(w)
    BY <2>1 DEF MboxTake, MsgqUnlink, MboxStore, MsgqStore
  <2>2. CASE MboxWait(w) \/ MsgqWait(w)
    BY <1>1, <2>2 DEF MboxWait, MsgqWait, RecvWait, Uses, Waits
  <2>3. CASE SendWake(w)
    BY <2>3 DEF SendWake, Uses, Wakes
  <2> QED BY <1>4, <2>1, <2>2, <2>3 DEF MsgCall
<1>5. ASSUME NEW w \in WaitIds, MsgqTryEmpty(w)
      PROVE  ie' = FALSE /\ UNCHANGED <<list, prio_exist_flag, current_thread, idVars, state,
                     time_quantum, delayed_time, saved_ie, pc, arg, cursor, fault>>
  BY <1>5 DEF MsgqTryEmpty, PendLeavesMasked
<1>6. CASE RecvReturn \/ MsgqFetch \/ UNCHANGED allVars
  BY <1>6 DEF RecvReturn, MsgqFetch, allVars
<1> QED BY <1>2, <1>3, <1>4, <1>5, <1>6 DEF IpcNext

LEMMA IpcTInv == ASSUME TInv, [IpcNext]_allVars PROVE TInv'
<1>1. CASE Next \/ UNCHANGED vars
  BY <1>1, TInvNext
<1>2. ASSUME NEW w \in WaitIds, Waits(w) \/ Wakes(w) PROVE TInv'
  BY <1>2, WaitTInv, WakeTInv DEF Waits, Wakes
<1>3. CASE ie' = FALSE /\ UNCHANGED <<list, prio_exist_flag, current_thread, idVars, state,
                         time_quantum, delayed_time, saved_ie, pc, arg, cursor, fault>>
  BY <1>3 DEF TInv, TypeOK, ArgOK, StartOK, idVars
<1> QED BY <1>1, <1>2, <1>3, KernelPart

\* In a step of IpcNext a wait list grows only by the wait of an object that
\* has nothing to give.
LEMMA WaitListGrows ==
  ASSUME TInv, [IpcNext]_allVars, NEW w \in WaitIds, ~ Shrinks(list, list', w)
  PROVE  /\ Me # NoThread /\ Wait(w)
         /\ \/ SemBlock(w) /\ UNCHANGED msgVars
            \/ MboxWait(w) \/ MsgqWait(w)
<1>1. /\ list \in [ListIds -> Seq(Threads)] /\ w \in ListIds
  BY ListNumbers DEF TInv, TypeOK
<1>2. ~ UNCHANGED list
  BY DEF Shrinks
<1>3. ~ Next
  BY KernelShrinks, ListNumbers
<1>4. ASSUME NEW v \in WaitIds, Wake(v), list[v] # << >> PROVE FALSE
  BY <1>4, WakeLists
<1>5. ASSUME NEW v \in WaitIds, Wait(v), Me # NoThread PROVE v = w
  <2>1. \A l \in ListIds \ {v} : list'[l] = list[l]
    BY <1>5, WaitLists
  <2> QED BY <1>1, <2>1 DEF Shrinks
<1>6. CASE \E v \in WaitIds : SemCall(v) /\ UNCHANGED msgVars
  <2>1. PICK v \in WaitIds : SemCall(v) /\ UNCHANGED msgVars
    BY <1>6
  <2>2. SemBlock(v)
    BY <1>2, <1>4, <2>1 DEF SemCall, SemTake, SemWake, SemCountUp, vars
  <2>3. Wait(v) /\ Me # NoThread
    BY <2>2 DEF SemBlock, Uses
  <2> QED BY <1>5, <2>1, <2>2, <2>3
<1>7. CASE \E v \in WaitIds : MsgCall(v)
  <2>1. PICK v \in WaitIds : MsgCall(v)
    BY <1>7
  <2>2. MboxWait(v) \/ MsgqWait(v)
    BY <1>2, <1>4, <2>1 DEF MsgCall, MboxTake, MsgqUnlink, MsgqTryEmpty, SendWake,
       MboxStore, MsgqStore, vars
  <2>3. Wait(v) /\ Me # NoThread
    BY <2>2 DEF MboxWait, MsgqWait, RecvWait, Uses
  <2> QED BY <1>5, <2>2, <2>3
<1>8. ~ (RecvReturn \/ MsgqFetch \/ UNCHANGED allVars)
  BY <1>2 DEF RecvReturn, MsgqFetch, allVars, vars
<1>9. ~ (Alive /\ (KernelStep \/ Call))
  BY <1>3 DEF KernelStep, Next
<1> QED BY <1>6, <1>7, <1>8, <1>9 DEF IpcNext

\* What an object holds, and the steps that change it.
holdings == <<sem_value, mbox_msg, msg_list>>

LEMMA Kept ==
  ASSUME IpcTypeOK, KindOK, [IpcNext]_allVars, NEW w \in WaitIds, list[w] # << >>,
         sem_value[w] = 0, mbox_msg[w] = 0, msg_list[w] = << >>
  PROVE  sem_value'[w] = 0 /\ mbox_msg'[w] = 0 /\ msg_list'[w] = << >>
<1> DEFINE G == sem_value'[w] = 0 /\ mbox_msg'[w] = 0 /\ msg_list'[w] = << >>
<1>1. CASE UNCHANGED holdings
  BY <1>1 DEF holdings
<1>2. ASSUME NEW v \in WaitIds, SemCall(v) /\ UNCHANGED msgVars PROVE G
  <2>1. CASE SemTake(v) \/ SemCountUp(v)
    <3>1. v # w
      BY <2>1 DEF SemTake, SemCountUp
    <3>2. \E n : sem_value' = [sem_value EXCEPT ![v] = n]
      BY <2>1 DEF SemTake, SemCountUp
    <3>3. sem_value'[w] = sem_value[w]
      BY <3>1, <3>2 DEF IpcTypeOK
    <3> QED BY <1>2, <3>3 DEF msgVars
  <2>2. CASE SemBlock(v) \/ SemWake(v)
    BY <1>1, <1>2, <2>2 DEF SemBlock, SemWake, semVars, msgVars, holdings
  <2> QED BY <1>2, <2>1, <2>2 DEF SemCall
<1>3. ASSUME NEW v \in WaitIds, MsgCall(v) PROVE G
  <2>1. CASE MboxTake(v) \/ MboxStore(v)
    <3>1. v # w
      BY <2>1 DEF MboxTake, MboxStore
    <3>2. \E n : mbox_msg' = [mbox_msg EXCEPT ![v] = n]
      BY <2>1 DEF MboxTake, MboxStore
    <3>3. mbox_msg'[w] = mbox_msg[w]
      BY <3>1, <3>2 DEF IpcTypeOK
    <3> QED BY <2>1, <3>3 DEF MboxTake, MboxStore, semVars
  <2>2. CASE MsgqUnlink(v) \/ MsgqStore(v)
    <3>1. v # w
      BY <2>2 DEF MsgqUnlink, MsgqStore
    <3>2. \E q : msg_list' = [msg_list EXCEPT ![v] = q]
      BY <2>2 DEF MsgqUnlink, MsgqStore
    <3>3. msg_list'[w] = msg_list[w]
      BY <3>1, <3>2 DEF IpcTypeOK
    <3> QED BY <2>2, <3>3 DEF MsgqUnlink, MsgqStore, semVars
  <2>3. CASE MboxWait(v) \/ MsgqWait(v) \/ MsgqTryEmpty(v) \/ SendWake(v)
    BY <1>1, <2>3 DEF MboxWait, MsgqWait, RecvWait, MsgqTryEmpty, SendWake, semVars,
       msgVars, holdings
  <2> QED BY <1>3, <2>1, <2>2, <2>3 DEF MsgCall
<1>4. CASE RecvReturn \/ MsgqFetch \/ UNCHANGED allVars
  BY <1>1, <1>4 DEF RecvReturn, MsgqFetch, allVars, semVars, msgVars, holdings
<1>5. CASE Alive /\ (KernelStep \/ Call) /\ UNCHANGED <<semVars, msgVars>>
  BY <1>1, <1>5 DEF semVars, msgVars, holdings
<1> QED BY <1>2, <1>3, <1>4, <1>5 DEF IpcNext

LEMMA WaitersKept == ASSUME IpcInv, [IpcNext]_allVars PROVE WaitersMeanEmpty'
<1> SUFFICES ASSUME NEW w \in WaitIds, list'[w] # << >>
             PROVE  sem_value'[w] = 0 /\ mbox_msg'[w] = 0 /\ msg_list'[w] = << >>
  BY DEF WaitersMeanEmpty
<1>1. CASE Shrinks(list, list', w)
  <2>1. TInv /\ TInv'
    BY IpcTInv DEF IpcInv
  <2>2. list[w] # << >>
    BY <1>1, <2>1, ShrinksOrKeeps, ListNumbers DEF TInv, TypeOK
  <2>3. sem_value[w] = 0 /\ mbox_msg[w] = 0 /\ msg_list[w] = << >>
    BY <2>2 DEF IpcInv, WaitersMeanEmpty
  <2> QED BY <2>2, <2>3, Kept DEF IpcInv
<1>2. CASE ~ Shrinks(list, list', w)
  <2>1. \/ SemBlock(w) /\ UNCHANGED msgVars
        \/ MboxWait(w) \/ MsgqWait(w)
    BY <1>2, WaitListGrows DEF IpcInv
  <2>2. /\ sem_value[w] = 0 /\ mbox_msg[w] = 0 /\ msg_list[w] = << >>
    BY <2>1 DEF IpcInv, KindOK, SemBlock, MboxWait, MsgqWait, Uses
  <2>3. UNCHANGED holdings
    BY <2>1 DEF SemBlock, MboxWait, MsgqWait, RecvWait, semVars, msgVars, holdings
  <2> QED BY <2>2, <2>3 DEF holdings
<1> QED BY <1>1, <1>2

LEMMA KindKept == ASSUME IpcTypeOK, KindOK, [IpcNext]_allVars PROVE KindOK'
<1>1. CASE UNCHANGED <<kind, holdings>>
  BY <1>1 DEF KindOK, holdings
<1>2. ASSUME NEW v \in WaitIds, SemCall(v) /\ UNCHANGED msgVars PROVE KindOK'
  <2>1. CASE SemTake(v) \/ SemCountUp(v)
    <3>1. /\ kind[v] = "sem" /\ kind' = kind
          /\ \E n : sem_value' = [sem_value EXCEPT ![v] = n]
      BY <2>1 DEF SemTake, SemCountUp, Uses
    <3> QED BY <1>2, <3>1 DEF KindOK, IpcTypeOK, msgVars
  <2>2. CASE SemBlock(v) \/ SemWake(v)
    BY <1>1, <1>2, <2>2 DEF SemBlock, SemWake, semVars, msgVars, holdings
  <2> QED BY <1>2, <2>1, <2>2 DEF SemCall
<1>3. ASSUME NEW v \in WaitIds, MsgCall(v) PROVE KindOK'
  <2>1. CASE MboxTake(v) \/ MboxStore(v)
    <3>1. /\ kind[v] = "mbox" /\ UNCHANGED <<semVars, msg_list>>
          /\ \E n : mbox_msg' = [mbox_msg EXCEPT ![v] = n]
      BY <2>1 DEF MboxTake, MboxStore, Uses
    <3> QED BY <3>1 DEF KindOK, IpcTypeOK, semVars
  <2>2. CASE MsgqUnlink(v) \/ MsgqStore(v)
    <3>1. /\ kind[v] = "msgq" /\ UNCHANGED <<semVars, mbox_msg>>
          /\ \E q : msg_list' = [msg_list EXCEPT ![v] = q]
      BY <2>2 DEF MsgqUnlink, MsgqStore, Uses
    <3> QED BY <3>1 DEF KindOK, IpcTypeOK, semVars
  <2>3. CASE MboxWait(v) \/ MsgqWait(v) \/ MsgqTryEmpty(v) \/ SendWake(v)
    BY <1>1, <2>3 DEF MboxWait, MsgqWait, RecvWait, MsgqTryEmpty, SendWake, semVars,
       msgVars, holdings
  <2> QED BY <1>3, <2>1, <2>2, <2>3 DEF MsgCall
<1>4. CASE RecvReturn \/ MsgqFetch \/ UNCHANGED allVars
  BY <1>1, <1>4 DEF RecvReturn, MsgqFetch, allVars, semVars, msgVars, holdings
<1>5. CASE UNCHANGED <<semVars, msgVars>>
  BY <1>1, <1>5 DEF semVars, msgVars, holdings
<1> QED BY <1>2, <1>3, <1>4, <1>5 DEF IpcNext

LEMMA IpcTyped == ASSUME TInv, IpcTypeOK, [IpcNext]_allVars PROVE IpcTypeOK'
<1>0. Me # NoThread => Me \in Threads
  BY DEF TInv, TypeOK, Me
<1>1. CASE UNCHANGED <<semVars, msgVars>>
  BY <1>1 DEF IpcTypeOK, semVars, msgVars
<1>2. ASSUME NEW w \in WaitIds, SemCall(w) /\ UNCHANGED msgVars PROVE IpcTypeOK'
  <2>0. /\ kind \in [WaitIds -> Kinds] /\ sem_value \in [WaitIds -> 0 .. SemMax]
        /\ masked \subseteq Threads
    BY DEF IpcTypeOK
  <2>1. /\ kind' \in [WaitIds -> Kinds] /\ sem_value' \in [WaitIds -> 0 .. SemMax]
        /\ masked' \subseteq Threads
    <3>1. sem_value[w] \in 0 .. SemMax /\ SemMax \in Nat
      BY <2>0, SemAssumption
    <3>2. CASE SemTake(w)
      <4>1. sem_value[w] - 1 \in 0 .. SemMax
        BY <3>1, <3>2 DEF SemTake
      <4> QED BY <2>0, <3>2, <4>1 DEF SemTake
    <3>3. CASE SemCountUp(w)
      <4>1. (sem_value[w] + 1) % (SemMax + 1) \in 0 .. SemMax
        BY <3>1
      <4> QED BY <2>0, <3>3, <4>1 DEF SemCountUp, semVars
    <3>4. CASE SemBlock(w)
      BY <1>0, <2>0, <3>4 DEF SemBlock, Uses, PendLeavesMasked
    <3>5. CASE SemWake(w)
      BY <2>0, <3>5 DEF SemWake, semVars
    <3> QED BY <1>2, <3>2, <3>3, <3>4, <3>5 DEF SemCall
  <2> QED BY <1>2, <2>1 DEF IpcTypeOK, msgVars
<1>3. ASSUME NEW w \in WaitIds, MsgCall(w) PROVE IpcTypeOK'
  <2>0. /\ msg_list[w] \in Seq(MsgStructs) /\ MaxSends \in Nat /\ sent \in 0 .. MaxSends
        /\ Me \in Threads
    BY <1>0, <1>3, IpcAssumption DEF IpcTypeOK, MsgCall, MboxTake, MboxWait, MsgqUnlink,
       MsgqWait, MsgqTryEmpty, SendWake, MboxStore, MsgqStore, Uses
  <2>1. CASE MboxTake(w)
    <3>1. got' \in [Msgs -> Threads \cup {NoThread}]
      BY <2>0, <2>1 DEF MboxTake, IpcTypeOK
    <3>2. mbox_msg' \in [WaitIds -> 0 .. MaxSends]
      BY <2>0, <2>1 DEF MboxTake, IpcTypeOK
    <3> QED BY <2>1, <3>1, <3>2 DEF MboxTake, IpcTypeOK, semVars
  <2>2. CASE MsgqUnlink(w)
    <3>1. Head(msg_list[w]) \in MsgStructs /\ Tail(msg_list[w]) \in Seq(MsgStructs)
      BY <2>0, <2>2, HeadTailProperties DEF MsgqUnlink
    <3> QED BY <2>0, <2>2, <3>1 DEF MsgqUnlink, IpcTypeOK, semVars
  <2>3. CASE MboxWait(w) \/ MsgqWait(w)
    BY <2>0, <2>3 DEF MboxWait, MsgqWait, RecvWait, IpcTypeOK, semVars
  <2>4. CASE MsgqTryEmpty(w)
    BY <2>0, <2>4 DEF MsgqTryEmpty, PendLeavesMasked, IpcTypeOK, msgVars
  <2>5. ASSUME Accepted PROVE sent' \in 0 .. MaxSends
    BY <2>0, <2>5 DEF Accepted
  <2>6. CASE SendWake(w)
    <3>1. sent' \in 0 .. MaxSends
      BY <2>5, <2>6 DEF SendWake
    <3>2. thread_msg' \in [Threads -> 0 .. MaxSends]
      BY <2>6, <3>1 DEF SendWake, HandOver, IpcTypeOK
    <3>3. node_msg' \in [MsgStructs -> 0 .. MaxSends]
      BY <2>6, <3>1 DEF SendWake, IpcTypeOK
    <3> QED BY <2>6, <3>1, <3>2, <3>3 DEF SendWake, IpcTypeOK, semVars
  <2>7. CASE MboxStore(w)
    <3>1. sent' \in 0 .. MaxSends
      BY <2>5, <2>7 DEF MboxStore
    <3> QED BY <2>7, <3>1 DEF MboxStore, IpcTypeOK, semVars
  <2>8. CASE MsgqStore(w)
    <3>1. sent' \in 0 .. MaxSends
      BY <2>5, <2>8 DEF MsgqStore
    <3>2. PICK s \in MsgStructs :
            /\ node_msg' = [node_msg EXCEPT ![s] = sent']
            /\ msg_list' = [msg_list EXCEPT ![w] = Append(@, s)]
      BY <2>8 DEF MsgqStore
    <3>3. Append(msg_list[w], s) \in Seq(MsgStructs)
      BY <2>0, <3>2
    <3>4. node_msg' \in [MsgStructs -> 0 .. MaxSends] /\ msg_list' \in [WaitIds -> Seq(MsgStructs)]
      BY <3>1, <3>2, <3>3 DEF IpcTypeOK
    <3> QED BY <2>8, <3>1, <3>4 DEF MsgqStore, IpcTypeOK, semVars
  <2> QED BY <1>3, <2>1, <2>2, <2>3, <2>4, <2>6, <2>7, <2>8 DEF MsgCall
<1>4. CASE RecvReturn
  <2>1. Me \in Threads
    BY <1>0, <1>4 DEF RecvReturn, AtSection
  <2>2. got' \in [Msgs -> Threads \cup {NoThread}]
    BY <1>4, <2>1 DEF RecvReturn, IpcTypeOK
  <2> QED BY <1>4, <2>2 DEF RecvReturn, IpcTypeOK, semVars
<1>5. CASE MsgqFetch
  <2>1. Me \in Threads
    BY <1>0, <1>5 DEF MsgqFetch, AtSection
  <2> QED BY <1>5, <2>1 DEF MsgqFetch, IpcTypeOK, semVars
<1> QED BY <1>1, <1>2, <1>3, <1>4, <1>5 DEF IpcNext, allVars

LEMMA IpcInvInit == IpcInit => IpcInv
<1> SUFFICES ASSUME IpcInit PROVE IpcInv
  OBVIOUS
<1>1. TInv
  BY TInvInit DEF IpcInit
<1>2. InitObjects
  BY DEF IpcInit
<1>3. IpcTypeOK
  <2>1. MaxSends \in Nat /\ SemMax \in Nat
    BY IpcAssumption, SemAssumption
  <2>2. \A w \in WaitIds : mbox_msg[w] = 0 \/ (mbox_msg[w] = 1 /\ 1 <= MaxSends)
    BY <1>2, <2>1 DEF InitObjects, Msgs
  <2>3. mbox_msg \in [WaitIds -> 0 .. MaxSends]
    BY <1>2, <2>1 DEF InitObjects, Msgs
  <2>4. sent \in 0 .. MaxSends
    BY <1>2, <2>1, <2>2 DEF InitObjects
  <2>5. /\ msg_list \in [WaitIds -> Seq(MsgStructs)]
        /\ node_msg \in [MsgStructs -> 0 .. MaxSends]
        /\ thread_msg \in [Threads -> 0 .. MaxSends]
    BY <1>2, <2>1 DEF InitObjects
  <2> QED BY <1>2, <2>3, <2>4, <2>5 DEF InitObjects, IpcTypeOK
<1>4. KindOK
  BY <1>2 DEF KindOK, InitObjects
<1>5. WaitersMeanEmpty
  <2>1. \A w \in WaitIds : list[w] = << >>
    <3>1. \A w \in WaitIds : w \in ListIds /\ w # MaxPrio - 1
      BY ListNumbers, PrioAssumption DEF Prios
    <3> QED BY <3>1 DEF IpcInit, InitCurt
  <2> QED BY <2>1 DEF WaitersMeanEmpty
<1> QED BY <1>1, <1>3, <1>4, <1>5 DEF IpcInv

LEMMA IpcInvNext == IpcInv /\ [IpcNext]_allVars => IpcInv'
BY IpcTInv, IpcTyped, KindKept, WaitersKept DEF IpcInv

(* Semaphores, mailboxes and queues keep their types, and those of the kernel
   under them: the value of a semaphore stays a u8_t (sync.c:71, 85), a woken
   receiver finds a message or NULL (ipc.c). *)
THEOREM IpcTypeCorrect == IpcSpec => []IpcTypeOK
<1>1. IpcInv => IpcTypeOK
  BY DEF IpcInv
<1> QED BY <1>1, IpcInvInit, IpcInvNext, PTL DEF IpcSpec

(* No wakeup is lost (sync.c, ipc.c): for any number of objects and threads,
   whatever the application calls and wherever the timer interrupts it, a thread
   waits only at an object that has no token and no message. *)
THEOREM NoWakeupLost == IpcSpec => []WaitersMeanEmpty
<1>1. IpcInv => WaitersMeanEmpty
  BY DEF IpcInv
<1> QED BY <1>1, IpcInvInit, IpcInvNext, PTL DEF IpcSpec

(***************************************************************************)
(* The interrupt bit of each thread.                                       *)
(***************************************************************************)

\* c runs with the bit i and the others will run with the bits s: a bit is
\* clear exactly for the threads in m.
Follows(c, i, s, m) ==
  /\ c # NoThread => (i <=> c \notin m)
  /\ \A t \in Threads : t # c => (s[t] <=> t \notin m)

MaskInv ==
  /\ TInv
  /\ list[Terminated] = << >>
  /\ Follows(current_thread, ie, saved_ie, masked)
  /\ \A t \in Threads : pc[t] = "none" => t \notin masked

\* A switch saves the bit of c and loads that of next, which may be c itself.
LEMMA SwitchFollows ==
  ASSUME NEW c \in Threads, NEW next \in Threads, NEW i \in BOOLEAN,
         NEW s \in [Threads -> BOOLEAN], NEW m, Follows(c, i, s, m),
         NEW r, r = [s EXCEPT ![c] = i]
  PROVE  Follows(next, r[next], r, m)
<1>1. \A t \in Threads : r[t] <=> t \notin m
  <2> SUFFICES ASSUME NEW t \in Threads PROVE r[t] <=> t \notin m
    OBVIOUS
  <2>1. c # NoThread
    BY ThreadAssumption
  <2>2. CASE t = c
    <3>1. r[t] = i
      BY <2>2
    <3> QED BY <2>1, <2>2, <3>1, Zenon DEF Follows
  <2>3. CASE t # c
    <3>1. r[t] = s[t]
      BY <2>3
    <3> QED BY <2>3, <3>1, Zenon DEF Follows
  <2> QED BY <2>2, <2>3
<1> QED BY <1>1, Zenon DEF Follows

\* A new thread starts with the bit set.
LEMMA FillFollows ==
  ASSUME NEW c, NEW i \in BOOLEAN, NEW s \in [Threads -> BOOLEAN], NEW m,
         Follows(c, i, s, m), NEW u \in Threads \ m
  PROVE  Follows(c, i, [s EXCEPT ![u] = TRUE], m)
<1> SUFFICES ASSUME NEW t \in Threads, t # c
             PROVE  [s EXCEPT ![u] = TRUE][t] <=> t \notin m
  BY Zenon DEF Follows
<1>1. CASE t = u
  <2>1. [s EXCEPT ![u] = TRUE][t] = TRUE
    BY <1>1
  <2> QED BY <1>1, <2>1, Zenon
<1>2. CASE t # u
  <2>1. [s EXCEPT ![u] = TRUE][t] = s[t]
    BY <1>2
  <2> QED BY <2>1, Zenon DEF Follows
<1> QED BY <1>1, <1>2

\* The bit of the running thread is cleared.
LEMMA ClearFollows ==
  ASSUME NEW c \in Threads, NEW i, NEW s, NEW m, Follows(c, i, s, m)
  PROVE  Follows(c, FALSE, s, m \cup {c})
BY Zenon DEF Follows

LEMMA KernelFollows ==
  ASSUME MaskInv, Next, UNCHANGED masked,
         "delete" \notin Calls, "delete_other" \notin Calls
  PROVE  MaskInv'
<1>0. /\ TInv /\ ie \in BOOLEAN /\ saved_ie \in [Threads -> BOOLEAN]
      /\ current_thread \in Threads \cup {NoThread} /\ list \in [ListIds -> Seq(Threads)]
      /\ pc \in [Threads -> PCs]
      /\ Follows(current_thread, ie, saved_ie, masked)
  BY DEF MaskInv, TInv, TypeOK
<1>1. TInv'
  BY <1>0, TInvNext
<1>2. list'[Terminated] = << >>
  <2>1. Terminated \in WaitIds \cup {Terminated} /\ Terminated \in ListIds
    BY ListNumbers
  <2>2. Shrinks(list, list', Terminated)
    BY <1>0, <2>1, KernelShrinks
  <2>3. list' \in [ListIds -> Seq(Threads)]
    BY <1>1, SMTT(40) DEF TInv, TypeOK
  <2> QED BY <1>0, <2>1, <2>2, <2>3, ShrinksOrKeeps DEF MaskInv
<1>3. \A t \in Threads : pc'[t] = "none" => pc[t] = "none"
  BY <1>0 DEF MaskInv, Next, MainCreate, StartCurt, Tick, TickBegin, TickStep, TickEnd, ScheduleExpire,
     Call, Yield, Delay, DeleteSelf, DeleteOther, CreateFill, SuspendCheck, ResumeCheck,
     CheckTid, Section, CreateInsert, SuspendSection, ResumeSection, ScheduleRequest,
     IdleLoop, Halted, Crash, Leave, vars
<1>4. CASE UNCHANGED <<current_thread, ie, saved_ie>>
  BY <1>0, <1>1, <1>2, <1>3, <1>4, Zenon DEF MaskInv
\* A switch of the processor.
<1>5. ASSUME current_thread # NoThread, NEW top \in 0 .. MaxPrio, ~NoneToPop(top),
             current_thread' = Head(list[top]),
             saved_ie' = [saved_ie EXCEPT ![current_thread] = ie],
             ie' = saved_ie'[Head(list[top])]
      PROVE  MaskInv'
  <2>1. top \in ListIds /\ list[top] # << >>
    BY <1>5, PrioAssumption, ListNumbers DEF NoneToPop, Prios
  <2>2. Head(list[top]) \in Threads /\ current_thread \in Threads
    BY <1>0, <1>5, <2>1, DeleteFrontProperties
  <2>3. Follows(current_thread', ie', saved_ie', masked)
    <3>1. PICK next \in Threads : next = Head(list[top])
      BY <2>2
    <3>2. PICK r : r = saved_ie'
      OBVIOUS
    <3>3. r = [saved_ie EXCEPT ![current_thread] = ie]
      BY <1>5, <3>2
    <3>4. Follows(next, r[next], r, masked)
      BY <1>0, <2>2, <3>3, SwitchFollows
    <3> QED BY <1>5, <3>1, <3>2, <3>4, Zenon
  <2> QED BY <1>1, <1>2, <1>3, <2>3, Zenon DEF MaskInv
\* A thread's first context.
<1>6. ASSUME NEW u \in Threads, pc[u] = "none", UNCHANGED <<current_thread, ie>>,
             saved_ie' = [saved_ie EXCEPT ![u] = TRUE]
      PROVE  MaskInv'
  <2>1. u \in Threads \ masked
    BY <1>6 DEF MaskInv
  <2>2. Follows(current_thread, ie, saved_ie', masked)
    BY <1>0, <1>6, <2>1, FillFollows
  <2> QED BY <1>1, <1>2, <1>3, <1>6, <2>2, Zenon DEF MaskInv
<1>7. CASE MainCreate \/ CreateFill
  <2>1. PICK u \in Threads, i \in Tids, p \in UserPrios : Unused(u) /\ FillStruct(u, i, p)
    BY <1>7 DEF MainCreate, CreateFill
  <2>2. UNCHANGED <<current_thread, ie>>
    BY <1>7 DEF MainCreate, CreateFill
  <2> QED BY <1>6, <2>1, <2>2 DEF Unused, FillStruct
<1>8. CASE StartCurt
  <2>1. PICK top \in Prios : /\ IsTopPrio(top)
                             /\ current_thread' = Head(list[top])
                             /\ ie' = saved_ie[Head(list[top])]
    BY <1>8 DEF StartCurt
  <2>2. prio_exist_flag[top]
    BY <2>1, PrioAssumption DEF IsTopPrio, Prios
  <2>3. list[top] # << >>
    BY <1>8, <2>2 DEF MaskInv, TInv, StartOK, StartCurt
  <2>4. Head(list[top]) \in Threads
    BY <1>0, <2>1, <2>3, DeleteFrontProperties, ListNumbers
  <2>5. current_thread = NoThread /\ saved_ie' = saved_ie
    BY <1>8 DEF StartCurt
  <2>6. \A t \in Threads : t # current_thread
    BY <2>5, ThreadAssumption
  <2>7. \A t \in Threads : saved_ie[t] <=> t \notin masked
    BY <1>0, <2>6, Zenon DEF Follows
  <2>8. Follows(current_thread', ie', saved_ie, masked)
    BY <2>1, <2>4, <2>7, Zenon DEF Follows
  <2> QED BY <1>1, <1>2, <1>3, <2>5, <2>8, Zenon DEF MaskInv
<1>9. CASE ScheduleRequest
  <2>1. current_thread # NoThread
    BY <1>9 DEF ScheduleRequest
  <2>2. \/ UNCHANGED <<current_thread, ie, saved_ie>>
        \/ \E top \in 0 .. MaxPrio :
             /\ ~NoneToPop(top) /\ current_thread' = Head(list[top])
             /\ saved_ie' = [saved_ie EXCEPT ![current_thread] = ie]
             /\ ie' = saved_ie'[Head(list[top])]
    BY <1>9 DEF ScheduleRequest, Crash, Dispatch
  <2> QED BY <1>4, <1>5, <2>1, <2>2
<1>10. CASE TickEnd
  <2>1. current_thread # NoThread
    <3>1. cursor # 0
      BY <1>0, <1>10, LenProperties, ListNumbers DEF TickEnd
    <3> QED BY <1>0, <3>1 DEF TInv, StartOK
  <2>2. \/ UNCHANGED <<current_thread, ie, saved_ie>>
        \/ \E top \in 0 .. MaxPrio :
             /\ ~NoneToPop(top) /\ current_thread' = Head(list[top])
             /\ saved_ie' = [saved_ie EXCEPT ![current_thread] = ie]
             /\ ie' = saved_ie'[Head(list[top])]
    BY <1>10 DEF TickEnd, ScheduleExpire, Crash, Dispatch
  <2> QED BY <1>4, <1>5, <2>1, <2>2
<1>11. CASE \/ TickBegin \/ TickStep \/ Yield \/ Delay \/ DeleteSelf \/ SuspendCheck
            \/ ResumeCheck \/ Section \/ IdleLoop \/ Halted
  BY <1>4, <1>11 DEF TickBegin, TickStep, Yield, Delay, DeleteSelf, SuspendCheck,
     ResumeCheck, CheckTid, Section, CreateInsert, SuspendSection, ResumeSection, IdleLoop,
     Halted, Crash, vars
<1>12. ~ DeleteOther
  BY DEF DeleteOther, InUser
<1> QED BY <1>7, <1>8, <1>9, <1>10, <1>11, <1>12 DEF Next, Tick, Call

LEMMA MaskNext ==
  ASSUME MaskInv, [IpcNext]_allVars, "delete" \notin Calls, "delete_other" \notin Calls
  PROVE  MaskInv'
<1>1. TInv /\ TInv'
  BY IpcTInv DEF MaskInv
<1>2. CASE Next /\ UNCHANGED masked
  BY <1>2, KernelFollows
<1>3. CASE UNCHANGED <<vars, masked>>
  BY <1>1, <1>3, Zenon DEF MaskInv, vars
\* The thread that waits or that wakes another keeps its bit.
<1>4. ASSUME UNCHANGED <<current_thread, ie, saved_ie, masked>>,
             list'[Terminated] = list[Terminated],
             \A t \in Threads : pc'[t] = "none" => pc[t] = "none"
      PROVE  MaskInv'
  BY <1>1, <1>4, Zenon DEF MaskInv
\* The running thread goes on, or leaves, with its bit clear.
<1>5. ASSUME Me # NoThread, UNCHANGED <<current_thread, saved_ie>>,
             ie' = FALSE, masked' = masked \cup {Me},
             list'[Terminated] = list[Terminated], pc'[Me] # "none",
             \A t \in Threads : pc'[t] = "none" => pc[t] = "none"
      PROVE  MaskInv'
  <2>1. Me \in Threads
    BY <1>1, <1>5 DEF TInv, TypeOK, Me
  <2>2. Follows(current_thread', ie', saved_ie', masked')
    BY <1>5, <2>1, ClearFollows DEF MaskInv, Me
  <2> QED BY <1>1, <1>5, <2>2, Zenon DEF MaskInv
<1>6. ASSUME NEW w \in WaitIds, Waits(w)
      PROVE  /\ list'[Terminated] = list[Terminated] /\ pc'[Me] # "none"
             /\ UNCHANGED <<current_thread, saved_ie>>
             /\ \A t \in Threads : pc'[t] = "none" => pc[t] = "none"
  <2>1. list'[Terminated] = list[Terminated]
    BY <1>1, <1>6, WaitLists, ListNumbers DEF Waits
  <2> QED BY <1>1, <1>6, <2>1 DEF Waits, Wait, TInv, TypeOK, Me
<1>7. ASSUME NEW w \in WaitIds, Wakes(w), UNCHANGED masked PROVE MaskInv'
  <2>1. list'[Terminated] = list[Terminated]
    BY <1>1, <1>7, WakeLists DEF Wakes
  <2>2. /\ UNCHANGED <<current_thread, ie, saved_ie>>
        /\ \A t \in Threads : pc'[t] = "none" => pc[t] = "none"
    BY <1>1, <1>7 DEF Wakes, Wake, TInv, TypeOK, Me
  <2> QED BY <1>4, <1>7, <2>1, <2>2
<1>8. CASE Alive /\ (KernelStep \/ Call) /\ UNCHANGED <<semVars, msgVars>>
  BY <1>2, <1>8 DEF KernelStep, Next, semVars
<1>9. ASSUME NEW w \in WaitIds, SemCall(w) PROVE MaskInv'
  <2>1. CASE SemTake(w) \/ SemCountUp(w)
    BY <1>3, <2>1 DEF SemTake, SemCountUp
  <2>2. CASE SemBlock(w)
    <3>1. Waits(w) /\ ie' = FALSE /\ masked' = masked \cup {Me} /\ Me # NoThread
      BY <2>2 DEF SemBlock, Uses, PendLeavesMasked, Waits
    <3> QED BY <1>5, <1>6, <3>1
  <2>3. CASE SemWake(w)
    <3>1. Wakes(w) /\ UNCHANGED masked
      BY <2>3 DEF SemWake, Uses, Wakes, semVars
    <3> QED BY <1>7, <3>1
  <2> QED BY <1>9, <2>1, <2>2, <2>3 DEF SemCall
<1>10. ASSUME NEW w \in WaitIds, MsgCall(w) PROVE MaskInv'
  <2>1. CASE MboxTake(w) \/ MsgqUnlink(w) \/ MboxStore(w) \/ MsgqStore(w)
    BY <1>3, <2>1 DEF MboxTake, MsgqUnlink, MboxStore, MsgqStore, semVars
  <2>2. CASE MboxWait(w) \/ MsgqWait(w)
    <3>1. Waits(w) /\ UNCHANGED <<ie, masked>>
      BY <1>1, <2>2 DEF MboxWait, MsgqWait, RecvWait, Uses, Waits, semVars, TInv, TypeOK
    <3> QED BY <1>4, <1>6, <3>1
  <2>3. CASE MsgqTryEmpty(w)
    <3>1. /\ Me # NoThread /\ pc[Me] = "user" /\ ie' = FALSE /\ masked' = masked \cup {Me}
          /\ UNCHANGED <<list, current_thread, saved_ie, pc>>
      BY <2>3 DEF MsgqTryEmpty, Uses, PendLeavesMasked
    <3> QED BY <1>5, <3>1
  <2>4. CASE SendWake(w)
    <3>1. Wakes(w) /\ UNCHANGED masked
      BY <2>4 DEF SendWake, Uses, Wakes, semVars
    <3> QED BY <1>7, <3>1
  <2> QED BY <1>10, <2>1, <2>2, <2>3, <2>4 DEF MsgCall
<1>11. CASE RecvReturn \/ MsgqFetch \/ UNCHANGED allVars
  BY <1>3, <1>11 DEF RecvReturn, MsgqFetch, allVars, semVars
<1> QED BY <1>8, <1>9, <1>10, <1>11 DEF IpcNext

LEMMA MaskInit == IpcInit => MaskInv
<1> SUFFICES ASSUME IpcInit PROVE MaskInv
  OBVIOUS
<1>1. TInv /\ current_thread = NoThread /\ masked = {}
  BY TInvInit DEF IpcInit, InitCurt, InitObjects
<1>2. list[Terminated] = << >>
  <2>1. Terminated \in ListIds /\ Terminated # MaxPrio - 1
    BY ListNumbers, PrioAssumption DEF Prios
  <2> QED BY <2>1 DEF IpcInit, InitCurt
<1>3. \A t \in Threads : saved_ie[t]
  BY DEF IpcInit, InitCurt
<1>4. Follows(current_thread, ie, saved_ie, masked)
  BY <1>1, <1>3, Zenon DEF Follows
<1> QED BY <1>1, <1>2, <1>4 DEF MaskInv

(* Interrupts are off in the threads that sem_pend or msgq_try_recv left so
   (sync.c:21-51, ipc.c:192-206) and on in all others, for any number of threads
   and switches, if no thread is deleted: thread_delete has the same fault, and a
   structure that is used again forgets it. *)
THEOREM InterruptsStay ==
  ASSUME "delete" \notin Calls, "delete_other" \notin Calls
  PROVE  IpcSpec => []InterruptsFollowThread
<1>1. MaskInv => InterruptsFollowThread
  BY Zenon DEF MaskInv, Follows, InterruptsFollowThread
<1>2. MaskInv /\ [IpcNext]_allVars => MaskInv'
  BY MaskNext
<1> QED BY <1>1, <1>2, MaskInit, PTL DEF IpcSpec
=============================================================================
