----------------------------- MODULE ListsProofs -----------------------------
(***************************************************************************)
(* Each thread is on exactly the list its state calls for, for every set   *)
(* of threads, every MAX_PRIO, MAX_THREAD and TIME_QUANTUM and every set   *)
(* of services -- provided the tick stays out of the two places where it   *)
(* does harm: after a thread has put itself on a list and before it calls  *)
(* schedule(), and between get_tid and the critical section of             *)
(* thread_create.                                                          *)
(***************************************************************************)
EXTENDS ThreadsProofs, FiniteSetTheorems

(***************************************************************************)
(* The inductive invariant.                                                *)
(***************************************************************************)

\* Where thread x is linked is where its state puts it, and it is linked
\* unless it runs.
Placed(x) ==
  /\ \A l \in ListIds : On(list, x, l) =>
       pc[x] # "none" /\ l \in Homes(state[x], prio[x])
  /\ pc[x] # "none" =>
       IF state[x] = "RUNNING" THEN x = current_thread
                               ELSE \E l \in ListIds : On(list, x, l)

AtHome == \A x \in Threads : Placed(x)

\* Only the running thread is in one of the two windows, and the tick
\* handler is then not at work.
WindowOK ==
  \A t \in Threads : pc[t] \in {"leave", "create"} =>
    t = current_thread /\ cursor = 0

\* The executing thread is RUNNING until it leaves.
CurrentOK ==
  current_thread # NoThread =>
    /\ pc[current_thread] # "none"
    /\ IF pc[current_thread] = "leave"
       THEN state[current_thread] \in {"DELAY", "BLOCK", "TERMINATE", "EVENT_WAIT"}
       ELSE state[current_thread] = "RUNNING"

\* The table and the thread ids agree.
TableOK ==
  /\ \A t \in Threads : pc[t] # "none" => thread_table[tid[t]] = t
  /\ \A i \in Tids : thread_table[i] # NoThread =>
       pc[thread_table[i]] # "none" /\ tid[thread_table[i]] = i

\* A thread under creation is not in the table yet, and its slot is free.
CreateOK ==
  \A t \in Threads : pc[t] = "create" =>
    /\ pc[arg[t]] = "none"
    /\ state[arg[t]] = "READY"
    /\ thread_table[tid[arg[t]]] = NoThread

LInv == /\ TInv /\ Once(list) /\ AtHome
        /\ WindowOK /\ CurrentOK /\ TableOK /\ CreateOK

(***************************************************************************)
(* What the parts say together.                                            *)
(***************************************************************************)

\* The lists of each state, and which state a list stands for.
LEMMA HomeLists ==
  ASSUME NEW p \in Prios
  PROVE  /\ Homes("READY", p) = {p} /\ Homes("DELAY", p) = {Delayed}
         /\ Homes("BLOCK", p) = {Blocked} /\ Homes("TERMINATE", p) = {Terminated}
         /\ Homes("RUNNING", p) = {} /\ Homes("EVENT_WAIT", p) = WaitIds
         /\ \A s \in States, l \in Prios : l \in Homes(s, p) => s = "READY" /\ p = l
         /\ \A s \in States :
              /\ Delayed \in Homes(s, p) => s = "DELAY"
              /\ Terminated \in Homes(s, p) => s = "TERMINATE"
<1>1. /\ Homes("READY", p) = {p} /\ Homes("DELAY", p) = {Delayed}
      /\ Homes("BLOCK", p) = {Blocked} /\ Homes("TERMINATE", p) = {Terminated}
      /\ Homes("RUNNING", p) = {} /\ Homes("EVENT_WAIT", p) = WaitIds
  BY DEF Homes
<1>2. \A s \in States : s \in {"READY", "DELAY", "BLOCK", "TERMINATE",
                               "RUNNING", "EVENT_WAIT"}
  BY DEF States
<1> QED BY <1>1, <1>2, ListNumbers

\* A running thread that has not left for a list is on none.
LEMMA CurrentUnlinked ==
  ASSUME LInv, current_thread # NoThread, pc[current_thread] # "leave"
  PROVE  /\ current_thread \in Threads
         /\ state[current_thread] = "RUNNING"
         /\ pc[current_thread] # "none"
         /\ \A l \in ListIds : ~On(list, current_thread, l)
<1>1. current_thread \in Threads /\ prio[current_thread] \in Prios
  BY DEF LInv, TInv, TypeOK
<1>2. state[current_thread] = "RUNNING" /\ pc[current_thread] # "none"
  BY DEF LInv, CurrentOK
<1>3. Homes("RUNNING", prio[current_thread]) = {}
  BY <1>1, HomeLists
<1> QED BY <1>1, <1>2, <1>3 DEF LInv, AtHome, Placed

\* Thread t goes to list l with the state that list is for.
LEMMA Moved ==
  ASSUME TInv, AtHome, NEW t \in Threads, NEW l \in ListIds,
         \A x \in Threads, m \in ListIds :
           On(list', x, m) <=> (On(list, x, m) /\ x # t) \/ (x = t /\ m = l),
         l \in Homes(state'[t], prio'[t]), state'[t] # "RUNNING",
         pc'[t] # "none",
         \A x \in Threads \ {t} :
           /\ state'[x] = state[x] /\ prio'[x] = prio[x]
           /\ pc'[x] = "none" <=> pc[x] = "none",
         current_thread' = current_thread
  PROVE  AtHome'
<1> SUFFICES ASSUME NEW x \in Threads PROVE Placed(x)'
  BY DEF AtHome
<1>1. CASE x = t
  BY <1>1 DEF Placed
<1>2. CASE x # t
  <2>1. \A m \in ListIds : On(list', x, m) <=> On(list, x, m)
    BY <1>2
  <2> QED BY <1>2, <2>1 DEF AtHome, Placed
<1> QED BY <1>1, <1>2

\* No list changes, and no living thread's state or priority.
LEMMA Unmoved ==
  ASSUME AtHome, list' = list, current_thread' = current_thread,
         \A x \in Threads :
           /\ pc'[x] = "none" <=> pc[x] = "none"
           /\ pc[x] # "none" => state'[x] = state[x] /\ prio'[x] = prio[x]
  PROVE  AtHome'
<1> SUFFICES ASSUME NEW x \in Threads PROVE Placed(x)'
  BY DEF AtHome
<1>1. \A m \in ListIds : On(list', x, m) <=> On(list, x, m)
  OBVIOUS
<1>2. CASE pc[x] = "none"
  BY <1>1, <1>2 DEF AtHome, Placed
<1>3. CASE pc[x] # "none"
  BY <1>1, <1>3 DEF AtHome, Placed
<1> QED BY <1>2, <1>3

\* Neither the table nor an id changes, and no thread appears or goes.
LEMMA TableKept ==
  ASSUME TypeOK, TableOK, thread_table' = thread_table, tid' = tid,
         \A x \in Threads : pc'[x] = "none" <=> pc[x] = "none"
  PROVE  TableOK'
<1>1. \A i \in Tids : thread_table[i] # NoThread => thread_table[i] \in Threads
  BY DEF TypeOK
<1> QED BY <1>1 DEF TableOK

LEMMA LInvInit == InitCurt => LInv
<1> SUFFICES ASSUME InitCurt PROVE LInv
  OBVIOUS
<1>1. TInv
  BY TInvInit
<1>2. MaxPrio - 1 \in Prios /\ MaxPrio - 1 \in ListIds
  BY PrioAssumption, ListNumbers DEF Prios
<1>3. /\ \A l \in ListIds : list[l] = IF l = MaxPrio - 1 THEN <<Idle>> ELSE << >>
      /\ state[Idle] = "READY" /\ prio[Idle] = MaxPrio - 1
      /\ pc = [t \in Threads |-> IF t = Idle THEN "user" ELSE "none"]
      /\ current_thread = NoThread /\ cursor = 0
  BY ThreadAssumption DEF InitCurt
<1>4. \A l \in ListIds : \A i \in DOMAIN list[l] :
        l = MaxPrio - 1 /\ i = 1 /\ list[l][i] = Idle
  BY <1>3
<1>5. Once(list)
  BY <1>4 DEF Once
<1>6. AtHome
  <2> SUFFICES ASSUME NEW x \in Threads PROVE Placed(x)
    BY DEF AtHome
  <2>1. MaxPrio - 1 \in Homes("READY", MaxPrio - 1)
    BY <1>2, HomeLists
  <2>2. On(list, Idle, MaxPrio - 1)
    <3>1. 1 \in DOMAIN list[MaxPrio - 1] /\ list[MaxPrio - 1][1] = Idle
      BY <1>2, <1>3
    <3> QED BY <3>1 DEF On
  <2>3. \A l \in ListIds : On(list, x, l) => x = Idle /\ l = MaxPrio - 1
    BY <1>4 DEF On
  <2> QED BY <1>2, <1>3, <2>1, <2>2, <2>3 DEF Placed
<1>7. WindowOK /\ CurrentOK /\ CreateOK
  BY <1>3 DEF WindowOK, CurrentOK, CreateOK
<1>8. TableOK
  <2>1. 0 \in Tids
    BY TableAssumption DEF Tids
  <2> QED BY <1>3, <2>1, ThreadAssumption DEF TableOK, InitCurt
<1> QED BY <1>1, <1>5, <1>6, <1>7, <1>8 DEF LInv

(***************************************************************************)
(* The actions.  TInv is preserved by TInvNext; each lemma is about the    *)
(* other parts, named together by Rest.                                    *)
(***************************************************************************)

Rest == Once(list) /\ AtHome /\ WindowOK /\ CurrentOK /\ TableOK /\ CreateOK

\* A structure that holds no thread is on no list and in no table slot.
LEMMA UnusedFree ==
  ASSUME LInv, NEW u \in Threads, pc[u] = "none"
  PROVE  /\ \A l \in ListIds : ~On(list, u, l)
         /\ \A i \in Tids : thread_table[i] # u
<1>1. u # NoThread
  BY ThreadAssumption
<1> QED BY <1>1 DEF LInv, AtHome, Placed, TableOK

LEMMA MainCreateRest == ASSUME LInv, MainCreate PROVE Rest'
<1>1. PICK u \in Threads, i \in Tids, p \in UserPrios :
        /\ Unused(u) /\ IsFreeTid(i)
        /\ FillStruct(u, i, p) /\ EnterTable(u, i, p)
        /\ pc' = [pc EXCEPT ![u] = "user"]
        /\ UNCHANGED <<current_thread, ie, arg, cursor, fault>>
  BY DEF MainCreate
<1>2. TypeOK /\ TInv /\ AtHome /\ Once(list)
  BY DEF LInv, TInv
<1>3. /\ p \in Prios /\ p \in ListIds /\ pc[u] = "none" /\ current_thread = NoThread
      /\ list' = InsertBack(list, p, u)
      /\ list \in [ListIds -> Seq(Threads)]
  BY <1>1, <1>2, CallAssumption, ListNumbers
     DEF Unused, EnterTable, MainCreate, TypeOK
<1>4. /\ \A l \in ListIds : ~On(list, u, l)
      /\ \A j \in Tids : thread_table[j] # u
  BY <1>3, UnusedFree
<1>5. /\ Once(list')
      /\ \A x \in Threads, m \in ListIds :
           On(list', x, m) <=> On(list, x, m) \/ (x = u /\ m = p)
  BY <1>2, <1>3, <1>4, InsertBackOnce
<1>6. /\ state' = [state EXCEPT ![u] = "READY"]
      /\ prio' = [prio EXCEPT ![u] = p]
      /\ tid' = [tid EXCEPT ![u] = i]
      /\ thread_table' = [thread_table EXCEPT ![i] = u]
      /\ thread_table[i] = NoThread
  BY <1>1 DEF FillStruct, EnterTable, IsFreeTid
<1>7. AtHome'
  <2>1. \A x \in Threads \ {u} :
          /\ state'[x] = state[x] /\ prio'[x] = prio[x]
          /\ pc'[x] = "none" <=> pc[x] = "none"
    BY <1>1, <1>2, <1>6 DEF TypeOK
  <2>2. state'[u] = "READY" /\ prio'[u] = p /\ pc'[u] = "user"
    BY <1>1, <1>2, <1>6 DEF TypeOK
  <2>3. p \in Homes("READY", p)
    BY <1>3, HomeLists
  <2>4. \A x \in Threads, m \in ListIds :
          On(list', x, m) <=> (On(list, x, m) /\ x # u) \/ (x = u /\ m = p)
    BY <1>4, <1>5
  <2>5. p \in Homes(state'[u], prio'[u])
    BY <2>2, <2>3
  <2>6. current_thread' = current_thread
    BY <1>1
  <2> HIDE DEF LInv
  <2> QED BY <1>2, <1>3, <2>1, <2>2, <2>4, <2>5, <2>6, Moved
<1>8. \A t \in Threads : pc[t] \notin {"leave", "create"}
  BY <1>3, ThreadAssumption DEF LInv, WindowOK
<1>9. WindowOK' /\ CurrentOK' /\ CreateOK'
  <2>1. \A t \in Threads : pc'[t] \notin {"leave", "create"}
    BY <1>1, <1>2, <1>8 DEF TypeOK
  <2>2. current_thread' = NoThread
    BY <1>1, <1>3
  <2> QED BY <2>1, <2>2 DEF WindowOK, CurrentOK, CreateOK
<1>10. TableOK'
  <2>1. \A t \in Threads : pc[t] # "none" => tid[t] # i /\ t # u
    BY <1>3, <1>6, ThreadAssumption DEF LInv, TableOK
  <2>2. \A t \in Threads : pc'[t] # "none" => thread_table'[tid'[t]] = t
    BY <1>1, <1>2, <1>6, <2>1 DEF LInv, TableOK, TypeOK
  <2>3. \A j \in Tids : thread_table'[j] # NoThread =>
          pc'[thread_table'[j]] # "none" /\ tid'[thread_table'[j]] = j
    <3> SUFFICES ASSUME NEW j \in Tids, thread_table'[j] # NoThread
                 PROVE  /\ pc'[thread_table'[j]] # "none"
                        /\ tid'[thread_table'[j]] = j
      OBVIOUS
    <3>1. CASE j = i
      BY <1>1, <1>2, <1>6, <3>1 DEF TypeOK
    <3>2. CASE j # i
      <4>1. thread_table'[j] = thread_table[j] /\ thread_table[j] \in Threads \ {u}
        BY <1>2, <1>4, <1>6, <3>2 DEF TypeOK
      <4> QED BY <1>1, <1>2, <1>6, <4>1 DEF TypeOK, LInv, TableOK
    <3> QED BY <3>1, <3>2
  <2> QED BY <2>2, <2>3 DEF TableOK
<1> QED BY <1>5, <1>7, <1>9, <1>10 DEF Rest

LEMMA StartCurtRest == ASSUME LInv, StartCurt PROVE Rest'
<1>1. PICK top \in Prios :
        /\ IsTopPrio(top)
        /\ current_thread' = Head(list[top])
        /\ list' = DeleteFront(list, top)
        /\ state' = [state EXCEPT ![Head(list[top])] = "RUNNING"]
        /\ UNCHANGED <<idVars, saved_ie, pc, arg, cursor, fault>>
  BY DEF StartCurt
<1>2. TypeOK /\ AtHome /\ Once(list) /\ StartOK /\ current_thread = NoThread
  BY DEF LInv, TInv, StartCurt
<1> DEFINE n == Head(list[top])
<1>3. top \in ListIds /\ list[top] # << >> /\ list \in [ListIds -> Seq(Threads)]
  <2>1. prio_exist_flag[top]
    BY <1>1, PrioAssumption DEF IsTopPrio, Prios
  <2> QED BY <1>2, <2>1, ListNumbers DEF StartOK, TypeOK
<1>4. /\ Once(list')
      /\ \A x \in Threads, m \in ListIds :
           On(list', x, m) <=> On(list, x, m) /\ x # n
      /\ n \in Threads
      /\ On(list, n, top)
  BY <1>1, <1>2, <1>3, DeleteFrontOnce
<1> HIDE DEF n
<1>5. pc[n] # "none" /\ state'[n] = "RUNNING" /\ current_thread' = n
  BY <1>1, <1>2, <1>3, <1>4 DEF AtHome, Placed, TypeOK, n
<1>6. \A t \in Threads : pc[t] \notin {"leave", "create"}
  BY <1>2, ThreadAssumption DEF LInv, WindowOK
<1>7. \A x \in Threads \ {n} : state'[x] = state[x]
  BY <1>1, <1>2, <1>4 DEF TypeOK, n
<1>8. UNCHANGED <<pc, prio, tid, thread_table>>
  BY <1>1 DEF idVars
<1>9. AtHome'
  <2> SUFFICES ASSUME NEW x \in Threads PROVE Placed(x)'
    BY DEF AtHome
  <2>1. CASE x = n
    BY <1>4, <1>5, <2>1 DEF Placed
  <2>2. CASE x # n
    <3>1. \A m \in ListIds : On(list', x, m) <=> On(list, x, m)
      BY <1>4, <2>2
    <3>2. pc[x] # "none" => state[x] # "RUNNING"
      BY <1>2, ThreadAssumption DEF AtHome, Placed
    <3> QED BY <1>2, <1>7, <1>8, <2>2, <3>1, <3>2 DEF AtHome, Placed
  <2> QED BY <2>1, <2>2
<1>10. WindowOK' /\ CurrentOK' /\ CreateOK'
  BY <1>4, <1>5, <1>6, <1>8 DEF WindowOK, CurrentOK, CreateOK
<1>11. TableOK'
  BY <1>2, <1>8, TableKept DEF LInv
<1> QED BY <1>4, <1>9, <1>10, <1>11 DEF Rest

\* The thread that schedule() takes is not the one that gives up the
\* processor, and the latter is put back exactly when it was RUNNING.
LEMMA DispatchRest ==
  ASSUME LInv, current_thread # NoThread, NEW top \in 0 .. MaxPrio,
         ~NoneToPop(top), NEW e \in BOOLEAN,
         e => state[current_thread] = "RUNNING", Dispatch(top, e),
         pc' \in [Threads -> PCs], UNCHANGED <<prio, tid, thread_table>>,
         \A t \in Threads : pc'[t] = "none" <=> pc[t] = "none",
         \A t \in Threads : pc'[t] \notin {"leave", "create"}
  PROVE  Rest'
<1> DEFINE n == Head(list[top])
           c == current_thread
           popped == DeleteFront(list, top)
<1>1. /\ TypeOK /\ AtHome /\ Once(list)
      /\ list \in [ListIds -> Seq(Threads)]
      /\ c \in Threads /\ prio[c] \in Prios /\ prio[c] \in ListIds
  BY ListNumbers DEF LInv, TInv, TypeOK
<1>2. top \in Prios /\ top \in ListIds /\ list[top] # << >>
  BY PrioAssumption, ListNumbers DEF NoneToPop, Prios
<1>3. /\ Once(popped)
      /\ \A x \in Threads, m \in ListIds :
           On(popped, x, m) <=> On(list, x, m) /\ x # n
      /\ n \in Threads
      /\ On(list, n, top)
      /\ popped \in [ListIds -> Seq(Threads)]
  BY <1>1, <1>2, DeleteFrontOnce, DeleteFrontProperties
<1>4. pc[n] # "none" /\ state[n] = "READY"
  <2>1. pc[n] # "none" /\ top \in Homes(state[n], prio[n])
    BY <1>1, <1>2, <1>3 DEF AtHome, Placed
  <2>2. state[n] \in States /\ prio[n] \in Prios
    BY <1>1, <1>3 DEF TypeOK
  <2> HIDE DEF n
  <2> QED BY <1>2, <2>1, <2>2, HomeLists
<1>5. /\ n # c
      /\ pc[c] # "none"
      /\ state[c] \in {"DELAY", "BLOCK", "TERMINATE", "EVENT_WAIT", "RUNNING"}
  BY <1>4 DEF LInv, CurrentOK
<1>6. /\ current_thread' = n
      /\ state[c] = "RUNNING" =>
           /\ list' = InsertBack(popped, prio[c], c)
           /\ state' = [[state EXCEPT ![n] = "RUNNING"] EXCEPT ![c] = "READY"]
      /\ state[c] # "RUNNING" =>
           /\ list' = popped
           /\ state' = [state EXCEPT ![n] = "RUNNING"]
  <2>1. [state EXCEPT ![n] = "RUNNING"][c] = state[c]
    BY <1>1, <1>3, <1>5 DEF TypeOK
  <2> QED BY <2>1 DEF Dispatch
<1>7. /\ state'[n] = "RUNNING"
      /\ state'[c] = IF state[c] = "RUNNING" THEN "READY" ELSE state[c]
      /\ \A x \in Threads \ {n, c} : state'[x] = state[x]
  <2> HIDE DEF n, c
  <2> QED BY <1>1, <1>3, <1>5, <1>6 DEF TypeOK
<1> HIDE DEF n, popped, c
<1>8. /\ Once(list')
      /\ \A x \in Threads, m \in ListIds :
           On(list', x, m) <=>
             \/ On(list, x, m) /\ x # n
             \/ state[c] = "RUNNING" /\ x = c /\ m = prio[c]
  <2>1. CASE state[c] # "RUNNING"
    BY <1>3, <1>6, <2>1
  <2>2. CASE state[c] = "RUNNING"
    <3>1. \A m \in ListIds : ~On(list, c, m)
      <4>1. Homes("RUNNING", prio[c]) = {}
        BY <1>1, HomeLists
      <4> QED BY <1>1, <2>2, <4>1 DEF AtHome, Placed
    <3>2. \A m \in ListIds : ~On(popped, c, m)
      BY <1>1, <1>3, <3>1
    <3> QED BY <1>1, <1>3, <1>6, <2>2, <3>2, InsertBackOnce
  <2> QED BY <2>1, <2>2
<1>9. AtHome'
  <2> SUFFICES ASSUME NEW x \in Threads PROVE Placed(x)'
    BY DEF AtHome
  <2>1. CASE x = n
    BY <1>4, <1>5, <1>6, <1>7, <1>8, <2>1 DEF Placed
  <2>2. CASE x = c /\ state[c] = "RUNNING"
    <3>1. prio[c] \in Homes("READY", prio[c])
      BY <1>1, HomeLists
    <3>2. \A m \in ListIds : On(list', x, m) <=> m = prio[c]
      <4>1. \A m \in ListIds : ~On(list, c, m)
        <5>1. Homes("RUNNING", prio[c]) = {}
          BY <1>1, HomeLists
        <5> QED BY <1>1, <2>2, <5>1 DEF AtHome, Placed
      <4> QED BY <1>1, <1>8, <2>2, <4>1
    <3> QED BY <1>1, <1>5, <1>7, <2>2, <3>1, <3>2 DEF Placed
  <2>3. CASE x # n /\ ~(x = c /\ state[c] = "RUNNING")
    <3>1. \A m \in ListIds : On(list', x, m) <=> On(list, x, m)
      BY <1>8, <2>3
    <3>2. state'[x] = state[x] /\ prio'[x] = prio[x]
      BY <1>7, <2>3
    <3>3. pc[x] # "none" => state[x] # "RUNNING"
      BY <1>1, <2>3 DEF AtHome, Placed, c
    <3> QED BY <1>1, <3>1, <3>2, <3>3 DEF AtHome, Placed
  <2> QED BY <2>1, <2>2, <2>3
<1>10. WindowOK' /\ CurrentOK' /\ CreateOK'
  BY <1>3, <1>4, <1>6, <1>7 DEF WindowOK, CurrentOK, CreateOK
<1>11. TableOK'
  BY <1>1, TableKept DEF LInv
<1> QED BY <1>8, <1>9, <1>10, <1>11 DEF Rest

\* Nothing that Rest is about changes.
LEMMA RestKept ==
  ASSUME LInv, UNCHANGED <<list, current_thread, thread_table, tid, prio,
                           state, pc, arg, cursor>>
  PROVE  Rest'
<1>1. Once(list)' /\ AtHome'
  BY Unmoved DEF LInv
<1>2. TableOK'
  BY TableKept DEF LInv, TInv
<1>3. WindowOK' /\ CurrentOK' /\ CreateOK'
  BY DEF LInv, WindowOK, CurrentOK, CreateOK
<1> QED BY <1>1, <1>2, <1>3 DEF Rest

\* The running thread, in its own code or at a service, moves on without
\* touching a list.
LEMMA MyStepRest ==
  ASSUME LInv, current_thread # NoThread, pc[current_thread] # "leave",
         NEW s \in PCs \ {"none", "leave", "create"},
         pc' = [pc EXCEPT ![current_thread] = s],
         UNCHANGED <<list, current_thread, idVars, state, cursor>>
  PROVE  Rest'
<1>1. current_thread \in Threads /\ TypeOK /\ pc \in [Threads -> PCs]
  BY DEF LInv, TInv, TypeOK
<1>2. pc[current_thread] # "none"
  BY DEF LInv, CurrentOK
<1>3. \A x \in Threads : pc'[x] = "none" <=> pc[x] = "none"
  BY <1>1, <1>2
<1>4. Once(list)' /\ AtHome'
  BY <1>3, Unmoved DEF LInv, idVars
<1>5. TableOK'
  BY <1>1, <1>3, TableKept DEF LInv, idVars
<1>6. \A x \in Threads : pc'[x] \notin {"leave", "create"}
  BY <1>1 DEF LInv, WindowOK
<1>7. pc'[current_thread] = s
  BY <1>1
<1>8. WindowOK' /\ CurrentOK' /\ CreateOK'
  BY <1>6, <1>7 DEF LInv, WindowOK, CurrentOK, CreateOK
<1> QED BY <1>4, <1>5, <1>8 DEF Rest

LEMMA CrashRest == ASSUME LInv, NEW f, Crash(f) PROVE Rest'
BY RestKept DEF Crash, idVars

LEMMA ScheduleRequestRest == ASSUME LInv, ScheduleRequest PROVE Rest'
<1> DEFINE c == current_thread
<1>1. /\ c # NoThread /\ pc[c] \in {"sched", "leave"}
      /\ c \in Threads /\ pc \in [Threads -> PCs]
  BY DEF ScheduleRequest, LInv, TInv, TypeOK
<1>2. PICK top \in 0 .. MaxPrio :
       \/ /\ Keeps(top)
          /\ pc' = [pc EXCEPT ![c] = "user"]
          /\ UNCHANGED <<list, current_thread, idVars, state, cursor>>
       \/ Crash(PopFault(top))
       \/ /\ ~NoneToPop(top) /\ Dispatch(top, FALSE)
          /\ pc' = [pc EXCEPT ![c] = "user"]
          /\ UNCHANGED idVars
  BY DEF ScheduleRequest
<1>3. CASE /\ Keeps(top)
           /\ pc' = [pc EXCEPT ![c] = "user"]
           /\ UNCHANGED <<list, current_thread, idVars, state, cursor>>
  <2>1. pc[c] # "leave"
    BY <1>1, <1>3 DEF Keeps, LInv, CurrentOK
  <2> QED BY <1>1, <1>3, <2>1, MyStepRest DEF PCs
<1>4. CASE Crash(PopFault(top))
  BY <1>4, CrashRest
<1>5. CASE /\ ~NoneToPop(top) /\ Dispatch(top, FALSE)
           /\ pc' = [pc EXCEPT ![c] = "user"]
           /\ UNCHANGED idVars
  <2>1. /\ pc' \in [Threads -> PCs]
        /\ \A t \in Threads : pc'[t] = "none" <=> pc[t] = "none"
    BY <1>1, <1>5 DEF PCs
  <2>2. \A t \in Threads : pc'[t] \notin {"leave", "create"}
    BY <1>1, <1>5 DEF LInv, WindowOK
  <2> QED BY <1>1, <1>5, <2>1, <2>2, DispatchRest DEF idVars
<1> QED BY <1>2, <1>3, <1>4, <1>5

\* The tick handler is at work: the interrupted thread is RUNNING.
LEMMA TickBeginRest ==
  ASSUME LInv, "leave" \notin TickPoints, "create" \notin TickPoints, TickBegin
  PROVE  Rest'
<1>1. /\ current_thread \in Threads
      /\ pc[current_thread] \notin {"leave", "create"}
      /\ UNCHANGED <<list, current_thread, idVars, state, pc, arg>>
  BY DEF TickBegin, LInv, TInv, TypeOK
<1>2. Once(list)' /\ AtHome'
  BY <1>1, Unmoved DEF LInv, idVars
<1>3. TableOK'
  BY <1>1, TableKept DEF LInv, TInv, idVars
<1>4. WindowOK' /\ CurrentOK' /\ CreateOK'
  BY <1>1 DEF LInv, WindowOK, CurrentOK, CreateOK, idVars
<1> QED BY <1>2, <1>3, <1>4 DEF Rest

LEMMA NoWindowInTick ==
  ASSUME LInv, cursor # 0
  PROVE  /\ \A t \in Threads : pc[t] \notin {"leave", "create"}
         /\ current_thread # NoThread
         /\ state[current_thread] = "RUNNING"
<1>1. \A t \in Threads : pc[t] \notin {"leave", "create"}
  BY DEF LInv, WindowOK
<1>2. current_thread # NoThread
  BY DEF LInv, TInv, StartOK
<1>3. current_thread \in Threads
  BY <1>2 DEF LInv, TInv, TypeOK
<1>4. state[current_thread] = "RUNNING"
  BY <1>1, <1>2, <1>3 DEF LInv, CurrentOK
<1> QED BY <1>1, <1>2, <1>4

LEMMA TickStepRest == ASSUME LInv, TickStep PROVE Rest'
<1> DEFINE t == list[Delayed][cursor]
           cut == [list EXCEPT ![Delayed] = RemoveAt(@, cursor)]
<1>1. /\ TypeOK /\ AtHome /\ Once(list)
      /\ list \in [ListIds -> Seq(Threads)]
      /\ Delayed \in ListIds
      /\ cursor \in DOMAIN list[Delayed]
  BY ListNumbers DEF LInv, TInv, TypeOK, TickStep
<1>2. cursor \in 1 .. Len(list[Delayed]) /\ t \in Threads /\ On(list, t, Delayed)
  <2>1. list[Delayed] \in Seq(Threads)
    BY <1>1
  <2> QED BY <1>1, <2>1, LenProperties DEF On
<1>3. /\ \A x \in Threads : pc[x] \notin {"leave", "create"}
      /\ current_thread # NoThread
      /\ state[current_thread] = "RUNNING"
  BY <1>2, NoWindowInTick
<1>4. pc[t] # "none" /\ state[t] = "DELAY" /\ prio[t] \in Prios /\ prio[t] \in ListIds
  <2>1. pc[t] # "none" /\ Delayed \in Homes(state[t], prio[t])
    BY <1>1, <1>2 DEF AtHome, Placed
  <2>2. state[t] \in States /\ prio[t] \in Prios
    BY <1>1, <1>2 DEF TypeOK
  <2> HIDE DEF t
  <2> QED BY <2>1, <2>2, HomeLists, ListNumbers
<1>5. t # current_thread
  BY <1>3, <1>4
<1>6. UNCHANGED <<current_thread, idVars, pc, arg>>
  BY DEF TickStep
<1>7. TableOK'
  BY <1>1, <1>6, TableKept DEF LInv, idVars
<1>8. CASE list' = InsertBack(cut, prio[t], t) /\ state' = [state EXCEPT ![t] = "READY"]
  <2>1. /\ Once(cut)
        /\ \A x \in Threads, m \in ListIds : On(cut, x, m) <=> On(list, x, m) /\ x # t
    BY <1>1, <1>2, RemoveAtOnce
  <2>2. cut \in [ListIds -> Seq(Threads)]
    <3>1. RemoveAt(list[Delayed], cursor) \in Seq(Threads)
      BY <1>1, <1>2, RemoveAtProperties
    <3> QED BY <1>1, <3>1
  <2> HIDE DEF t, cut
  <2>3. \A m \in ListIds : ~On(cut, t, m)
    BY <1>2, <2>1
  <2>4. /\ Once(list')
        /\ \A x \in Threads, m \in ListIds :
             On(list', x, m) <=> On(cut, x, m) \/ (x = t /\ m = prio[t])
    BY <1>2, <1>4, <1>8, <2>1, <2>2, <2>3, InsertBackOnce
  <2>5. \A x \in Threads, m \in ListIds :
          On(list', x, m) <=> (On(list, x, m) /\ x # t) \/ (x = t /\ m = prio[t])
    BY <2>1, <2>4
  <2>6. /\ state'[t] = "READY" /\ prio'[t] = prio[t] /\ pc'[t] # "none"
        /\ \A x \in Threads \ {t} :
             /\ state'[x] = state[x] /\ prio'[x] = prio[x]
             /\ pc'[x] = "none" <=> pc[x] = "none"
    BY <1>1, <1>2, <1>4, <1>6, <1>8 DEF TypeOK, idVars
  <2>7. prio[t] \in Homes(state'[t], prio'[t])
    BY <1>4, <2>6, HomeLists
  <2>8. AtHome'
    <3>1. TInv
      BY DEF LInv
    <3> QED BY <1>1, <1>2, <1>4, <1>6, <2>5, <2>6, <2>7, <3>1, Moved
  <2>9. WindowOK' /\ CreateOK'
    BY <1>3, <1>6 DEF WindowOK, CreateOK
  <2>10. CurrentOK'
    <3>1. current_thread \in Threads
      BY <1>1, <1>3 DEF TypeOK
    <3>2. state'[current_thread] = "RUNNING"
      BY <1>3, <1>5, <2>6, <3>1
    <3> QED BY <1>3, <1>6, <3>1, <3>2 DEF LInv, CurrentOK
  <2> QED BY <1>7, <2>4, <2>8, <2>9, <2>10 DEF Rest
<1>9. CASE UNCHANGED <<list, state>>
  <2>1. Once(list)' /\ AtHome'
    BY <1>1, <1>6, <1>9, Unmoved DEF idVars
  <2>2. WindowOK' /\ CreateOK' /\ CurrentOK'
    BY <1>3, <1>6, <1>9 DEF LInv, WindowOK, CreateOK, CurrentOK
  <2> QED BY <1>7, <2>1, <2>2 DEF Rest
<1>10. \/ list' = InsertBack(cut, prio[t], t) /\ state' = [state EXCEPT ![t] = "READY"]
       \/ UNCHANGED <<list, state>>
  BY DEF TickStep
<1> QED BY <1>8, <1>9, <1>10

LEMMA TickEndRest == ASSUME LInv, TickEnd PROVE Rest'
<1>1. cursor # 0
  <2>1. Len(list[Delayed]) \in Nat
    BY ListNumbers, LenProperties DEF LInv, TInv, TypeOK
  <2> QED BY <2>1 DEF TickEnd
<1>2. /\ \A t \in Threads : pc[t] \notin {"leave", "create"}
      /\ current_thread # NoThread /\ state[current_thread] = "RUNNING"
  BY <1>1, NoWindowInTick
<1>3. CASE cursor' = 0 /\ UNCHANGED <<list, current_thread, idVars, state, pc, arg>>
  <2>1. Once(list)' /\ AtHome'
    BY <1>3, Unmoved DEF LInv, idVars
  <2>2. TableOK'
    BY <1>3, TableKept DEF LInv, TInv, idVars
  <2>3. WindowOK' /\ CurrentOK' /\ CreateOK'
    BY <1>2, <1>3 DEF LInv, WindowOK, CurrentOK, CreateOK
  <2> QED BY <2>1, <2>2, <2>3 DEF Rest
<1>4. CASE ScheduleExpire
  <2>1. PICK top \in 0 .. MaxPrio :
         \/ cursor' = 0 /\ UNCHANGED <<list, current_thread, idVars, state, pc, arg>>
         \/ Crash(PopFault(top))
         \/ /\ ~NoneToPop(top) /\ Dispatch(top, TRUE)
            /\ UNCHANGED <<idVars, pc>>
    BY <1>4 DEF ScheduleExpire
  <2>2. CASE Crash(PopFault(top))
    BY <2>2, CrashRest
  <2>3. CASE /\ ~NoneToPop(top) /\ Dispatch(top, TRUE)
             /\ UNCHANGED <<idVars, pc>>
    <3>1. pc' \in [Threads -> PCs]
      BY <2>3 DEF LInv, TInv, TypeOK
    <3> QED BY <1>2, <2>3, <3>1, DispatchRest DEF idVars
  <2> QED BY <1>3, <2>1, <2>2, <2>3
<1> QED BY <1>3, <1>4 DEF TickEnd

LEMMA IdleLoopRest == ASSUME LInv, IdleLoop PROVE Rest'
<1>1. /\ current_thread = Idle /\ cursor = 0 /\ pc[Idle] = "user" /\ Idle \in Threads
      /\ TypeOK /\ TInv /\ AtHome /\ Once(list)
      /\ Idle # NoThread
      /\ UNCHANGED <<current_thread, state, prio, tid, arg, cursor>>
  BY ThreadAssumption DEF IdleLoop, LInv, TInv
<1>2. state[Idle] = "RUNNING" /\ \A l \in ListIds : ~On(list, Idle, l)
  BY <1>1, CurrentUnlinked
<1>3. CASE pc' = [pc EXCEPT ![Idle] = "sched"] /\ UNCHANGED <<list, thread_table>>
  <2>1. \A x \in Threads : pc'[x] = "none" <=> pc[x] = "none"
    BY <1>1, <1>3 DEF TypeOK
  <2>2. Once(list)' /\ AtHome'
    BY <1>1, <1>3, <2>1, Unmoved
  <2>3. TableOK'
    BY <1>1, <1>3, <2>1, TableKept DEF LInv
  <2>4. \A x \in Threads : pc'[x] \notin {"leave", "create"}
    BY <1>1, <1>3 DEF LInv, WindowOK, TypeOK
  <2>5. pc'[Idle] = "sched"
    BY <1>1, <1>3 DEF TypeOK
  <2>6. WindowOK' /\ CurrentOK' /\ CreateOK'
    BY <1>1, <1>2, <2>4, <2>5 DEF WindowOK, CurrentOK, CreateOK
  <2> QED BY <2>2, <2>3, <2>6 DEF Rest
<1>4. CASE list[Terminated] # << >>
  <2> DEFINE t == Head(list[Terminated])
  <2>1. /\ list' = DeleteFront(list, Terminated)
        /\ thread_table' = [thread_table EXCEPT ![tid[t]] = NoThread]
        /\ pc' = [pc EXCEPT ![t] = "none", ![Idle] = "sched"]
    BY <1>4 DEF IdleLoop
  <2>2. /\ Once(list')
        /\ \A x \in Threads, m \in ListIds : On(list', x, m) <=> On(list, x, m) /\ x # t
        /\ t \in Threads
        /\ On(list, t, Terminated)
    <3>1. list \in [ListIds -> Seq(Threads)] /\ Terminated \in ListIds
      BY <1>1, ListNumbers DEF TypeOK
    <3> QED BY <1>1, <1>4, <2>1, <3>1, DeleteFrontOnce
  <2> HIDE DEF t
  <2>3. t # Idle
    BY <1>2, <2>2, ListNumbers
  <2>4. pc'[t] = "none" /\ pc'[Idle] = "sched"
        /\ \A x \in Threads \ {t, Idle} : pc'[x] = pc[x]
    BY <1>1, <2>1, <2>2, <2>3 DEF TypeOK
  <2>5. pc[t] # "none"
    BY <1>1, <2>2, ListNumbers DEF AtHome, Placed
  <2>6. AtHome'
    <3> SUFFICES ASSUME NEW x \in Threads PROVE Placed(x)'
      BY DEF AtHome
    <3>1. CASE x = t
      BY <2>2, <2>4, <3>1 DEF Placed
    <3>2. CASE x # t
      <4>1. \A m \in ListIds : On(list', x, m) <=> On(list, x, m)
        BY <2>2, <3>2
      <4>2. pc'[x] = "none" <=> pc[x] = "none"
        BY <1>1, <2>4, <3>2
      <4> QED BY <1>1, <4>1, <4>2 DEF AtHome, Placed
    <3> QED BY <3>1, <3>2
  <2>7. TableOK'
    <3>1. tid[t] \in Tids /\ thread_table[tid[t]] = t
      BY <1>1, <2>2, <2>5 DEF LInv, TableOK, TypeOK
    <3>2. ASSUME NEW x \in Threads, pc'[x] # "none"
          PROVE  thread_table'[tid'[x]] = x
      <4>1. pc[x] # "none" /\ x # t
        BY <1>1, <2>4, <3>2
      <4>2. thread_table[tid[x]] = x /\ tid[x] \in Tids
        BY <1>1, <4>1 DEF LInv, TableOK, TypeOK
      <4>3. tid[x] # tid[t]
        BY <3>1, <4>1, <4>2
      <4> QED BY <1>1, <2>1, <4>2, <4>3 DEF TypeOK
    <3>3. ASSUME NEW i \in Tids, thread_table'[i] # NoThread
          PROVE  pc'[thread_table'[i]] # "none" /\ tid'[thread_table'[i]] = i
      <4>1. i # tid[t] /\ thread_table'[i] = thread_table[i]
        BY <1>1, <2>1, <3>1, <3>3 DEF TypeOK
      <4>2. /\ thread_table[i] \in Threads
            /\ pc[thread_table[i]] # "none" /\ tid[thread_table[i]] = i
        BY <1>1, <3>3, <4>1 DEF LInv, TableOK, TypeOK
      <4> QED BY <1>1, <2>4, <4>1, <4>2
    <3> QED BY <3>2, <3>3 DEF TableOK
  <2>8. \A x \in Threads : pc'[x] \notin {"leave", "create"}
    BY <1>1, <2>4 DEF LInv, WindowOK
  <2>9. WindowOK' /\ CurrentOK' /\ CreateOK'
    BY <1>1, <1>2, <2>4, <2>8 DEF WindowOK, CurrentOK, CreateOK
  <2> QED BY <2>2, <2>6, <2>7, <2>9 DEF Rest
<1> QED BY <1>3, <1>4 DEF IdleLoop

(***************************************************************************)
(* The services.                                                           *)
(***************************************************************************)

\* The running thread is linked into a list that its new state is for.
LEMMA LinkedRest ==
  ASSUME LInv, current_thread # NoThread, cursor = 0,
         pc[current_thread] \notin {"leave", "create"},
         NEW l \in ListIds, NEW s \in {"DELAY", "BLOCK", "TERMINATE", "EVENT_WAIT"},
         l \in Homes(s, prio[current_thread]),
         state' = [state EXCEPT ![current_thread] = s],
         pc' = [pc EXCEPT ![current_thread] = "leave"],
         Once(list'),
         \A x \in Threads, m \in ListIds :
           On(list', x, m) <=> On(list, x, m) \/ (x = current_thread /\ m = l),
         UNCHANGED <<current_thread, idVars, cursor>>
  PROVE  Rest'
<1> DEFINE c == current_thread
<1>1. TypeOK /\ TInv /\ AtHome /\ c \in Threads
  BY DEF LInv, TInv, TypeOK
<1>2. pc[c] # "none" /\ \A m \in ListIds : ~On(list, c, m)
  BY CurrentUnlinked
<1>3. /\ state' = [state EXCEPT ![c] = s]
      /\ pc' = [pc EXCEPT ![c] = "leave"]
      /\ \A x \in Threads, m \in ListIds :
           On(list', x, m) <=> On(list, x, m) \/ (x = c /\ m = l)
  OBVIOUS
<1>4. /\ state'[c] = s /\ prio'[c] = prio[c] /\ pc'[c] = "leave"
      /\ \A x \in Threads \ {c} :
           /\ state'[x] = state[x] /\ prio'[x] = prio[x] /\ pc'[x] = pc[x]
  BY <1>1, <1>3 DEF TypeOK, idVars
<1> HIDE DEF c
<1>5. AtHome'
  <2>1. \A x \in Threads, m \in ListIds :
          On(list', x, m) <=> (On(list, x, m) /\ x # c) \/ (x = c /\ m = l)
    BY <1>2, <1>3
  <2>2. l \in Homes(state'[c], prio'[c])
    BY <1>4 DEF c
  <2> QED BY <1>1, <1>4, <2>1, <2>2, Moved
<1>6. TableOK'
  <2>1. \A x \in Threads : pc'[x] = "none" <=> pc[x] = "none"
    BY <1>1, <1>2, <1>4
  <2> QED BY <1>1, <2>1, TableKept DEF LInv, idVars
<1>7. \A x \in Threads : pc'[x] = "create" => FALSE
  BY <1>1, <1>4 DEF LInv, WindowOK, c
<1>8. WindowOK' /\ CurrentOK' /\ CreateOK'
  BY <1>1, <1>4, <1>7 DEF LInv, WindowOK, CurrentOK, CreateOK, c
<1> QED BY <1>5, <1>6, <1>8 DEF Rest

\* It puts itself at the back of the list.
LEMMA LeaveRest ==
  ASSUME LInv, current_thread # NoThread, cursor = 0,
         pc[current_thread] \notin {"leave", "create"},
         NEW l \in ListIds, NEW s \in {"DELAY", "BLOCK", "TERMINATE"},
         l \in Homes(s, prio[current_thread]), Leave(l, s),
         UNCHANGED <<current_thread, idVars, cursor>>
  PROVE  Rest'
<1>1. /\ Once(list) /\ current_thread \in Threads /\ list \in [ListIds -> Seq(Threads)]
      /\ \A m \in ListIds : ~On(list, current_thread, m)
  BY CurrentUnlinked DEF LInv, TInv, TypeOK
<1>2. /\ list' = InsertBack(list, l, current_thread)
      /\ state' = [state EXCEPT ![current_thread] = s]
      /\ pc' = [pc EXCEPT ![current_thread] = "leave"]
  BY DEF Leave, Me
<1>3. /\ Once(list')
      /\ \A x \in Threads, m \in ListIds :
           On(list', x, m) <=> On(list, x, m) \/ (x = current_thread /\ m = l)
  BY <1>1, <1>2, InsertBackOnce
<1> QED BY <1>2, <1>3, LinkedRest

\* The running thread moves another one, t, which the lists cut no longer
\* hold, to list l.
LEMMA MoveOtherRest ==
  ASSUME LInv, current_thread # NoThread, cursor = 0,
         pc[current_thread] \notin {"leave", "create"},
         NEW t \in Threads, state[t] # "RUNNING", pc[t] # "none",
         NEW l \in ListIds, NEW s \in {"READY", "BLOCK"},
         l \in Homes(s, prio[t]),
         NEW cut \in [ListIds -> Seq(Threads)], Once(cut),
         \A x \in Threads, m \in ListIds : On(cut, x, m) <=> On(list, x, m) /\ x # t,
         list' = InsertBack(cut, l, t),
         state' = [state EXCEPT ![t] = s],
         pc' = [pc EXCEPT ![current_thread] = "sched"],
         UNCHANGED <<current_thread, idVars, cursor>>
  PROVE  Rest'
<1> DEFINE c == current_thread
<1>1. TypeOK /\ TInv /\ AtHome /\ c \in Threads
  BY DEF LInv, TInv, TypeOK
<1>2. pc[c] # "none" /\ state[c] = "RUNNING" /\ c # t
  BY CurrentUnlinked
<1>3. /\ Once(list')
      /\ \A x \in Threads, m \in ListIds :
           On(list', x, m) <=> On(cut, x, m) \/ (x = t /\ m = l)
  <2>1. \A m \in ListIds : ~On(cut, t, m)
    OBVIOUS
  <2> QED BY <2>1, InsertBackOnce
<1>4. /\ state'[t] = s /\ prio' = prio /\ pc'[t] = pc[t] /\ pc'[c] = "sched"
      /\ \A x \in Threads \ {t} : state'[x] = state[x]
      /\ \A x \in Threads \ {c} : pc'[x] = pc[x]
  BY <1>1, <1>2 DEF TypeOK, idVars
<1> HIDE DEF c
<1>5. \A x \in Threads : pc'[x] = "none" <=> pc[x] = "none"
  BY <1>1, <1>2, <1>4
<1>6. AtHome'
  <2>1. \A x \in Threads, m \in ListIds :
          On(list', x, m) <=> (On(list, x, m) /\ x # t) \/ (x = t /\ m = l)
    BY <1>3
  <2>2. l \in Homes(state'[t], prio'[t])
    BY <1>4
  <2> QED BY <1>1, <1>4, <1>5, <2>1, <2>2, Moved
<1>7. TableOK'
  BY <1>1, <1>5, TableKept DEF LInv, idVars
<1>8. \A x \in Threads : pc'[x] \notin {"leave", "create"}
  BY <1>1, <1>4 DEF LInv, WindowOK, c
<1>9. WindowOK' /\ CurrentOK' /\ CreateOK'
  BY <1>1, <1>2, <1>4, <1>8 DEF WindowOK, CurrentOK, CreateOK, c
<1> QED BY <1>3, <1>6, <1>7, <1>9 DEF Rest

\* The other thread is searched for on all lists.
LEMMA MovedAway ==
  ASSUME LInv, NEW t \in Threads
  PROVE  /\ Delete(list, t) \in [ListIds -> Seq(Threads)] /\ Once(Delete(list, t))
         /\ \A x \in Threads, m \in ListIds :
              On(Delete(list, t), x, m) <=> On(list, x, m) /\ x # t
BY DeleteOnce, DeleteProperties DEF LInv, TInv, TypeOK

\* A thread in its own code.
LEMMA InUserFacts ==
  ASSUME LInv, NEW call, InUser(call)
  PROVE  /\ current_thread # NoThread /\ cursor = 0 /\ pc[current_thread] = "user"
         /\ current_thread \in Threads /\ prio[current_thread] \in Prios
BY DEF InUser, Me, LInv, TInv, TypeOK

LEMMA YieldRest == ASSUME LInv, Yield PROVE Rest'
<1>1. current_thread # NoThread /\ pc[current_thread] = "user"
  BY InUserFacts DEF Yield
<1>2. /\ pc' = [pc EXCEPT ![current_thread] = "sched"]
      /\ UNCHANGED <<list, current_thread, idVars, state, cursor>>
  BY DEF Yield, Me
<1> QED BY <1>1, <1>2, MyStepRest DEF PCs

LEMMA DelayRest == ASSUME LInv, Delay PROVE Rest'
<1>1. /\ current_thread # NoThread /\ cursor = 0 /\ pc[current_thread] = "user"
      /\ prio[current_thread] \in Prios
  BY InUserFacts DEF Delay
<1>2. Delayed \in ListIds /\ Delayed \in Homes("DELAY", prio[current_thread])
  BY <1>1, HomeLists, ListNumbers
<1>3. Leave(Delayed, "DELAY") /\ UNCHANGED <<current_thread, idVars, cursor>>
  BY DEF Delay
<1> QED BY <1>1, <1>2, <1>3, LeaveRest

LEMMA DeleteSelfRest == ASSUME LInv, DeleteSelf PROVE Rest'
<1>1. /\ current_thread # NoThread /\ cursor = 0 /\ pc[current_thread] = "user"
      /\ prio[current_thread] \in Prios
  BY InUserFacts DEF DeleteSelf
<1>2. Terminated \in ListIds /\ Terminated \in Homes("TERMINATE", prio[current_thread])
  BY <1>1, HomeLists, ListNumbers
<1>3. Leave(Terminated, "TERMINATE") /\ UNCHANGED <<current_thread, idVars, cursor>>
  BY DEF DeleteSelf
<1> QED BY <1>1, <1>2, <1>3, LeaveRest

LEMMA DeleteOtherRest == ASSUME LInv, DeleteOther PROVE Rest'
BY RestKept DEF DeleteOther, idVars

\* The check of the table leaves interrupts on and touches nothing else.
LEMMA CheckTidRest ==
  ASSUME LInv, NEW call, InUser(call), NEW i, NEW s \in {"suspend", "resume"},
         CheckTid(i, s)
  PROVE  Rest'
<1>1. current_thread # NoThread /\ pc[current_thread] = "user"
  BY InUserFacts
<1>2. /\ pc' = [pc EXCEPT ![current_thread] = s]
      /\ UNCHANGED <<list, current_thread, idVars, state, cursor>>
  BY DEF CheckTid, Me
<1> QED BY <1>1, <1>2, MyStepRest DEF PCs

LEMMA SuspendCheckRest == ASSUME LInv, SuspendCheck PROVE Rest'
BY CheckTidRest DEF SuspendCheck

LEMMA ResumeCheckRest == ASSUME LInv, ResumeCheck PROVE Rest'
BY CheckTidRest DEF ResumeCheck

\* The slot a service reads in its critical section holds a living thread.
LEMMA SlotAlive ==
  ASSUME LInv, NEW i \in 0 .. MaxThread, ~BadPointer(i)
  PROVE  /\ i \in Tids /\ thread_table[i] \in Threads
         /\ pc[thread_table[i]] # "none" /\ prio[thread_table[i]] \in Prios
<1>1. i \in Tids /\ thread_table[i] # NoThread
  BY DEF BadPointer
<1>2. thread_table[i] \in Threads
  BY <1>1 DEF LInv, TInv, TypeOK
<1> QED BY <1>1, <1>2 DEF LInv, TInv, TypeOK, TableOK

\* Where a service stands when it enters its critical section.
LEMMA SectionFacts ==
  ASSUME LInv, NEW s \in {"suspend", "resume"}, AtSection(s)
  PROVE  /\ current_thread # NoThread /\ cursor = 0 /\ pc[current_thread] = s
         /\ current_thread \in Threads /\ prio[current_thread] \in Prios
         /\ arg[current_thread] \in 0 .. MaxThread
         /\ state[current_thread] = "RUNNING"
<1>1. /\ current_thread # NoThread /\ cursor = 0 /\ pc[current_thread] = s
      /\ current_thread \in Threads /\ prio[current_thread] \in Prios
  BY DEF AtSection, Me, LInv, TInv, TypeOK
<1>2. state[current_thread] = "RUNNING"
  BY <1>1, CurrentUnlinked
<1> QED BY <1>1, <1>2 DEF LInv, TInv, ArgOK

LEMMA SuspendSectionRest == ASSUME LInv, SuspendSection PROVE Rest'
<1> DEFINE c == current_thread
           i == arg[c]
           t == thread_table[i]
<1>1. /\ c # NoThread /\ cursor = 0 /\ pc[c] = "suspend" /\ c \in Threads
      /\ prio[c] \in Prios /\ i \in 0 .. MaxThread /\ state[c] = "RUNNING"
  BY SectionFacts DEF SuspendSection
<1>2. CASE Crash(PointerFault(i))
  BY <1>2, CrashRest
<1>3. CASE /\ ~BadPointer(i) /\ tid[c] = i
           /\ state' = [state EXCEPT ![t] = "BLOCK"]
           /\ list' = InsertBack(list, Blocked, t)
           /\ pc' = [pc EXCEPT ![c] = IF t = c THEN "leave" ELSE "sched"]
           /\ UNCHANGED <<current_thread, idVars, cursor>>
  <2>1. t = c
    BY <1>1, <1>3 DEF LInv, TableOK
  <2>2. Leave(Blocked, "BLOCK")
    BY <1>3, <2>1 DEF Leave, Me
  <2>3. Blocked \in ListIds /\ Blocked \in Homes("BLOCK", prio[c])
    BY <1>1, HomeLists, ListNumbers
  <2> QED BY <1>1, <1>3, <2>2, <2>3, LeaveRest
<1>4. CASE /\ ~BadPointer(i) /\ tid[c] # i /\ CanSuspend(t)
           /\ state' = [state EXCEPT ![t] = "BLOCK"]
           /\ list' = InsertBack(Delete(list, t), Blocked, t)
           /\ pc' = [pc EXCEPT ![c] = IF t = c THEN "leave" ELSE "sched"]
           /\ UNCHANGED <<current_thread, idVars, cursor>>
  <2>1. /\ t \in Threads /\ pc[t] # "none" /\ prio[t] \in Prios
        /\ state[t] = "READY"
    BY <1>1, <1>4, SlotAlive DEF CanSuspend
  <2>2. t # c
    BY <1>1, <2>1
  <2>3. Blocked \in ListIds /\ Blocked \in Homes("BLOCK", prio[t])
    BY <2>1, HomeLists, ListNumbers
  <2>4. state[t] # "RUNNING" /\ pc[c] \notin {"leave", "create"}
        /\ pc' = [pc EXCEPT ![c] = "sched"]
    BY <1>1, <1>4, <2>1, <2>2
  <2> HIDE DEF t
  <2> QED BY <1>1, <1>4, <2>1, <2>3, <2>4, MovedAway, MoveOtherRest
<1>5. CASE /\ pc' = [pc EXCEPT ![c] = "user"]
           /\ UNCHANGED <<list, current_thread, idVars, state, cursor>>
  BY <1>1, <1>5, MyStepRest DEF PCs
<1> QED BY <1>2, <1>3, <1>4, <1>5 DEF SuspendSection, Me

LEMMA ResumeSectionRest == ASSUME LInv, ResumeSection PROVE Rest'
<1> DEFINE c == current_thread
           i == arg[c]
           t == thread_table[i]
<1>1. /\ c # NoThread /\ cursor = 0 /\ pc[c] = "resume" /\ c \in Threads
      /\ prio[c] \in Prios /\ i \in 0 .. MaxThread /\ state[c] = "RUNNING"
  BY SectionFacts DEF ResumeSection
<1>2. CASE Crash(PointerFault(i))
  BY <1>2, CrashRest
<1>3. CASE /\ ~BadPointer(i) /\ state[t] = "BLOCK"
           /\ state' = [state EXCEPT ![t] = "READY"]
           /\ list' = InsertBack(Delete(list, t), prio[t], t)
           /\ pc' = [pc EXCEPT ![c] = "sched"]
           /\ UNCHANGED <<current_thread, idVars, cursor>>
  <2>1. t \in Threads /\ pc[t] # "none" /\ prio[t] \in Prios
    BY <1>1, <1>3, SlotAlive
  <2>2. prio[t] \in ListIds /\ prio[t] \in Homes("READY", prio[t])
    BY <2>1, HomeLists, ListNumbers
  <2>3. state[t] # "RUNNING" /\ pc[c] \notin {"leave", "create"}
    BY <1>1, <1>3
  <2> HIDE DEF t
  <2> QED BY <1>1, <1>3, <2>1, <2>2, <2>3, MovedAway, MoveOtherRest
<1>4. CASE /\ pc' = [pc EXCEPT ![c] = "user"]
           /\ UNCHANGED <<list, current_thread, idVars, state, cursor>>
  BY <1>1, <1>4, MyStepRest DEF PCs
<1> QED BY <1>2, <1>3, <1>4 DEF ResumeSection, Me

LEMMA CreateFillRest == ASSUME LInv, CreateFill PROVE Rest'
<1> DEFINE c == current_thread
<1>1. /\ c # NoThread /\ cursor = 0 /\ pc[c] = "user" /\ c \in Threads
      /\ TypeOK /\ TInv /\ AtHome /\ Once(list)
  BY InUserFacts DEF CreateFill, LInv, TInv
<1>2. PICK u \in Threads, i \in Tids, p \in UserPrios :
        /\ pc[u] = "none" /\ IsFreeTid(i) /\ FillStruct(u, i, p)
        /\ pc' = [pc EXCEPT ![c] = "create"]
        /\ arg' = [arg EXCEPT ![c] = u]
  BY DEF CreateFill, Unused, Me
<1>3. UNCHANGED <<list, current_thread, thread_table, cursor>>
  BY DEF CreateFill
<1>4. u # c
  BY <1>1, <1>2
<1>5. /\ pc'[c] = "create" /\ arg'[c] = u /\ state'[u] = "READY" /\ tid'[u] = i
      /\ \A x \in Threads \ {c} : pc'[x] = pc[x]
      /\ \A x \in Threads \ {u} :
           state'[x] = state[x] /\ prio'[x] = prio[x] /\ tid'[x] = tid[x]
      /\ thread_table[i] = NoThread
  BY <1>1, <1>2 DEF FillStruct, IsFreeTid, TypeOK
<1>6. \A j \in Tids : thread_table[j] # u
  BY <1>2, UnusedFree
<1>7. state[c] = "RUNNING"
  BY <1>1, CurrentUnlinked
<1> HIDE DEF c
<1>8. \A x \in Threads : pc'[x] = "none" <=> pc[x] = "none"
  BY <1>1, <1>5
<1>9. Once(list)' /\ AtHome'
  <2>1. \A x \in Threads : pc[x] # "none" => state'[x] = state[x] /\ prio'[x] = prio[x]
    BY <1>2, <1>5
  <2> QED BY <1>1, <1>3, <1>8, <2>1, Unmoved
<1>10. TableOK'
  <2>1. ASSUME NEW x \in Threads, pc'[x] # "none"
        PROVE  thread_table'[tid'[x]] = x
    <3>1. x # u /\ pc[x] # "none"
      BY <1>2, <1>8, <2>1
    <3> QED BY <1>3, <1>5, <3>1 DEF LInv, TableOK
  <2>2. ASSUME NEW j \in Tids, thread_table'[j] # NoThread
        PROVE  pc'[thread_table'[j]] # "none" /\ tid'[thread_table'[j]] = j
    <3>1. thread_table[j] \in Threads \ {u}
      BY <1>1, <1>3, <1>6, <2>2 DEF TypeOK
    <3> QED BY <1>3, <1>5, <1>8, <2>2, <3>1 DEF LInv, TableOK
  <2> QED BY <2>1, <2>2 DEF TableOK
<1>11. \A x \in Threads \ {c} : pc'[x] \notin {"leave", "create"}
  BY <1>5 DEF LInv, WindowOK, c
<1>12. WindowOK' /\ CurrentOK'
  BY <1>1, <1>3, <1>4, <1>5, <1>7, <1>11 DEF WindowOK, CurrentOK, c
<1>13. CreateOK'
  <2>1. pc'[u] = "none" /\ thread_table'[tid'[u]] = NoThread
    BY <1>2, <1>3, <1>4, <1>5
  <2> QED BY <1>5, <1>11, <2>1 DEF CreateOK
<1> QED BY <1>9, <1>10, <1>12, <1>13 DEF Rest

LEMMA CreateInsertRest == ASSUME LInv, CreateInsert PROVE Rest'
<1> DEFINE c == current_thread
           u == arg[c]
<1>1. /\ c # NoThread /\ cursor = 0 /\ pc[c] = "create" /\ c \in Threads
      /\ TypeOK /\ TInv /\ AtHome /\ Once(list)
      /\ list \in [ListIds -> Seq(Threads)]
  BY DEF CreateInsert, AtSection, Me, LInv, TInv, TypeOK
<1>2. /\ u \in Threads /\ pc[u] = "none" /\ state[u] = "READY"
      /\ thread_table[tid[u]] = NoThread
  BY <1>1 DEF LInv, TInv, ArgOK, CreateOK
<1>3. prio[u] \in Prios /\ prio[u] \in ListIds /\ tid[u] \in Tids /\ u # c
  BY <1>1, <1>2, ListNumbers DEF TypeOK
<1>4. /\ thread_table' = [thread_table EXCEPT ![tid[u]] = u]
      /\ list' = InsertBack(list, prio[u], u)
      /\ pc' = [pc EXCEPT ![u] = "user",
                          ![c] = IF prio[c] > prio[u] THEN "sched" ELSE "user"]
      /\ UNCHANGED <<current_thread, state, prio, tid, cursor>>
  BY DEF CreateInsert, EnterTable, Me
<1>5. /\ \A m \in ListIds : ~On(list, u, m)
      /\ \A j \in Tids : thread_table[j] # u
  BY <1>2, UnusedFree
<1>6. state[c] = "RUNNING"
  BY <1>1, CurrentUnlinked
<1> HIDE DEF u, c
<1>7. /\ pc'[u] = "user" /\ pc'[c] \in {"sched", "user"}
      /\ \A x \in Threads \ {u, c} : pc'[x] = pc[x]
  BY <1>1, <1>2, <1>3, <1>4 DEF TypeOK
<1>8. /\ Once(list')
      /\ \A x \in Threads, m \in ListIds :
           On(list', x, m) <=> On(list, x, m) \/ (x = u /\ m = prio[u])
  BY <1>1, <1>2, <1>3, <1>4, <1>5, InsertBackOnce
<1>9. AtHome'
  <2>1. \A x \in Threads, m \in ListIds :
          On(list', x, m) <=> (On(list, x, m) /\ x # u) \/ (x = u /\ m = prio[u])
    BY <1>5, <1>8
  <2>2. prio[u] \in Homes(state'[u], prio'[u]) /\ state'[u] # "RUNNING"
    BY <1>2, <1>3, <1>4, HomeLists
  <2>3. \A x \in Threads \ {u} :
          /\ state'[x] = state[x] /\ prio'[x] = prio[x]
          /\ pc'[x] = "none" <=> pc[x] = "none"
    BY <1>1, <1>4, <1>7
  <2>4. pc'[u] # "none" /\ current_thread' = current_thread
    BY <1>4, <1>7
  <2> QED BY <1>1, <1>2, <1>3, <2>1, <2>2, <2>3, <2>4, Moved
<1>10. TableOK'
  <2>1. ASSUME NEW x \in Threads, pc'[x] # "none"
        PROVE  thread_table'[tid'[x]] = x
    <3>1. CASE x = u
      BY <1>1, <1>3, <1>4, <3>1 DEF TypeOK
    <3>2. CASE x # u
      <4>1. pc[x] # "none"
        BY <1>1, <1>7, <2>1, <3>2
      <4>2. thread_table[tid[x]] = x /\ tid[x] \in Tids
        BY <1>1, <4>1 DEF LInv, TableOK, TypeOK
      <4>3. tid[x] # tid[u]
        BY <1>2, <4>2, ThreadAssumption
      <4> QED BY <1>1, <1>4, <4>2, <4>3 DEF TypeOK
    <3> QED BY <3>1, <3>2
  <2>2. ASSUME NEW j \in Tids, thread_table'[j] # NoThread
        PROVE  pc'[thread_table'[j]] # "none" /\ tid'[thread_table'[j]] = j
    <3>1. CASE j = tid[u]
      <4>1. thread_table'[j] = u
        BY <1>1, <1>3, <1>4, <3>1 DEF TypeOK
      <4> QED BY <1>4, <1>7, <3>1, <4>1
    <3>2. CASE j # tid[u]
      <4>1. thread_table'[j] = thread_table[j]
        BY <1>1, <1>4, <3>2 DEF TypeOK
      <4>2. /\ thread_table[j] \in Threads \ {u}
            /\ pc[thread_table[j]] # "none" /\ tid[thread_table[j]] = j
        BY <1>1, <1>5, <2>2, <4>1 DEF LInv, TableOK, TypeOK
      <4> QED BY <1>1, <1>4, <1>7, <4>1, <4>2
    <3> QED BY <3>1, <3>2
  <2> QED BY <2>1, <2>2 DEF TableOK
<1>11. \A x \in Threads : pc'[x] \notin {"leave", "create"}
  BY <1>7 DEF LInv, WindowOK, c
<1>12. WindowOK' /\ CurrentOK' /\ CreateOK'
  BY <1>1, <1>4, <1>6, <1>7, <1>11 DEF WindowOK, CurrentOK, CreateOK, c
<1> QED BY <1>8, <1>9, <1>10, <1>12 DEF Rest

(***************************************************************************)
(* The theorem.                                                            *)
(***************************************************************************)

LEMMA LInvNext ==
  ASSUME "leave" \notin TickPoints, "create" \notin TickPoints, LInv, [Next]_vars
  PROVE  LInv'
<1>1. TInv'
  BY TInvNext DEF LInv
<1>2. Rest'
  <2>1. CASE UNCHANGED vars
    BY <2>1, RestKept DEF vars
  <2>2. CASE Next
    <3>1. CASE MainCreate
      BY <3>1, MainCreateRest
    <3>2. CASE StartCurt
      BY <3>2, StartCurtRest
    <3>3. CASE Tick
      BY <3>3, TickBeginRest, TickStepRest, TickEndRest DEF Tick
    <3>4. CASE Call
      BY <3>4, YieldRest, DelayRest, DeleteSelfRest, DeleteOtherRest,
         CreateFillRest, SuspendCheckRest, ResumeCheckRest DEF Call
    <3>5. CASE Section
      BY <3>5, CreateInsertRest, SuspendSectionRest, ResumeSectionRest
         DEF Section
    <3>6. CASE ScheduleRequest
      BY <3>6, ScheduleRequestRest
    <3>7. CASE IdleLoop
      BY <3>7, IdleLoopRest
    <3>8. CASE Halted
      BY <2>1, <3>8 DEF Halted
    <3> QED BY <2>2, <3>1, <3>2, <3>3, <3>4, <3>5, <3>6, <3>7, <3>8 DEF Next
  <2> QED BY <2>1, <2>2
<1> QED BY <1>1, <1>2 DEF LInv, Rest

LEMMA LInvExecuting == LInv => ExecutingIsRunning
  BY CurrentUnlinked DEF ExecutingIsRunning, Linked, OnList, On

LEMMA LInvLists == LInv => ListsMatchStates
<1> SUFFICES ASSUME LInv PROVE ListsMatchStates
  OBVIOUS
<1>1. NodesOnce
  BY DEF LInv, Once, NodesOnce
<1>2. /\ \A l \in ListIds : \A i \in DOMAIN list[l] : list[l][i] \in Threads
      /\ AtHome
  <2>1. \A l \in ListIds : list[l] \in Seq(Threads)
    BY DEF LInv, TInv, TypeOK
  <2>2. ASSUME NEW l \in ListIds, NEW i \in DOMAIN list[l]
        PROVE  list[l][i] \in Threads
    BY <2>1, LenProperties
  <2> QED BY <2>2 DEF LInv
<1>3. LinkedAtHome
  BY <1>2 DEF LinkedAtHome, AtHome, Placed, On
<1>4. NoThreadLost
  BY <1>2 DEF NoThreadLost, AtHome, Placed, On, Linked, OnList
<1>5. ExecutingIsRunning
  BY LInvExecuting
<1> QED BY <1>1, <1>3, <1>4, <1>5 DEF ListsMatchStates

\* Outside the two windows, every service and the tick leave each thread on
\* exactly the list of its state, no node is linked twice and no thread is
\* lost: list and state move together in thread.c and kernel.c.
THEOREM ListsCorrect ==
  ASSUME "leave" \notin TickPoints, "create" \notin TickPoints
  PROVE  Spec => []ListsMatchStates
<1>1. LInv /\ [Next]_vars => LInv'
  BY LInvNext
<1> QED BY <1>1, LInvInit, LInvLists, PTL DEF Spec

(***************************************************************************)
(* The number of threads.                                                  *)
(***************************************************************************)

\* The slots of a table that are in use.
Used(T) == {i \in Tids : T[i] # NoThread}

CountOK == total_thread_cnt = Cardinality(Used(thread_table))

LEMMA UsedFinite == \A T : IsFiniteSet(Used(T))
<1>1. IsFiniteSet(Tids)
  BY TableAssumption, FS_Interval DEF Tids
<1> QED BY <1>1, FS_Subset DEF Used

\* A free slot is filled.
LEMMA CountFill ==
  ASSUME TypeOK, CountOK, NEW i \in Tids, NEW u \in Threads,
         thread_table[i] = NoThread,
         thread_table' = [thread_table EXCEPT ![i] = u],
         total_thread_cnt' = total_thread_cnt + 1
  PROVE  CountOK'
<1>1. Used(thread_table') = Used(thread_table) \cup {i} /\ i \notin Used(thread_table)
  BY ThreadAssumption DEF Used, TypeOK
<1>2. Cardinality(Used(thread_table) \cup {i}) = Cardinality(Used(thread_table)) + 1
  BY <1>1, UsedFinite, FS_AddElement
<1> QED BY <1>1, <1>2 DEF CountOK

\* A slot in use is given back.
LEMMA CountFree ==
  ASSUME TypeOK, CountOK, NEW i \in Tids, thread_table[i] # NoThread,
         thread_table' = [thread_table EXCEPT ![i] = NoThread],
         total_thread_cnt' = total_thread_cnt - 1
  PROVE  CountOK'
<1>1. Used(thread_table') = Used(thread_table) \ {i} /\ i \in Used(thread_table)
  BY DEF Used, TypeOK
<1>2. Cardinality(Used(thread_table) \ {i}) = Cardinality(Used(thread_table)) - 1
  BY <1>1, UsedFinite, FS_RemoveElement
<1> QED BY <1>1, <1>2 DEF CountOK

LEMMA CountNext == ASSUME LInv, CountOK, [Next]_vars PROVE CountOK'
<1>1. TypeOK
  BY DEF LInv, TInv
<1>2. CASE UNCHANGED <<thread_table, total_thread_cnt>>
  BY <1>2 DEF CountOK
<1>3. CASE MainCreate
  <2>1. PICK u \in Threads, i \in Tids, p \in UserPrios :
          IsFreeTid(i) /\ EnterTable(u, i, p)
    BY <1>3 DEF MainCreate
  <2> QED BY <1>1, <2>1, CountFill DEF IsFreeTid, EnterTable
<1>4. CASE CreateInsert
  <2> DEFINE u == arg[current_thread]
  <2>1. current_thread \in Threads /\ pc[current_thread] = "create"
    BY <1>1, <1>4 DEF CreateInsert, AtSection, Me, TypeOK
  <2>2. u \in Threads /\ thread_table[tid[u]] = NoThread
    BY <2>1 DEF LInv, TInv, ArgOK, CreateOK
  <2>3. tid[u] \in Tids
    BY <1>1, <2>2 DEF TypeOK
  <2>4. EnterTable(u, tid[u], prio[u])
    BY <1>4 DEF CreateInsert, Me
  <2> HIDE DEF u
  <2> QED BY <1>1, <2>2, <2>3, <2>4, CountFill DEF EnterTable
<1>5. CASE IdleLoop
  <2>1. CASE list[Terminated] # << >>
    <3> DEFINE t == Head(list[Terminated])
    <3>1. /\ thread_table' = [thread_table EXCEPT ![tid[t]] = NoThread]
          /\ total_thread_cnt' = total_thread_cnt - 1
      BY <1>5, <2>1 DEF IdleLoop
    <3>2. t \in Threads /\ On(list, t, Terminated)
      <4>1. /\ list \in [ListIds -> Seq(Threads)] /\ Once(list)
            /\ Terminated \in ListIds
        BY <1>1, ListNumbers DEF LInv, TypeOK
      <4> QED BY <2>1, <4>1, DeleteFrontOnce
    <3> HIDE DEF t
    <3>3. pc[t] # "none"
      BY <3>2, ListNumbers DEF LInv, AtHome, Placed
    <3>4. tid[t] \in Tids /\ thread_table[tid[t]] # NoThread
      BY <1>1, <3>2, <3>3, ThreadAssumption DEF LInv, TableOK, TypeOK
    <3> QED BY <1>1, <3>1, <3>4, CountFree
  <2> QED BY <1>2, <1>5, <2>1 DEF IdleLoop
<1>6. CASE \/ StartCurt \/ Tick \/ ScheduleRequest \/ SuspendSection
           \/ ResumeSection \/ Halted \/ UNCHANGED vars
  BY <1>2, <1>6 DEF StartCurt, Tick, TickBegin, TickStep, TickEnd,
     ScheduleExpire, ScheduleRequest, SuspendSection, ResumeSection, Crash,
     idVars, Halted, vars
<1>7. CASE Call
  BY <1>2, <1>7 DEF Call, Yield, Delay, DeleteSelf, DeleteOther, CreateFill,
     SuspendCheck, ResumeCheck, CheckTid, idVars
<1> QED BY <1>3, <1>4, <1>5, <1>6, <1>7 DEF Next, Section

\* Under the same two assumptions, each living thread is in the slot its tid
\* names, nothing else is in thread_table, and total_thread_cnt counts them.
THEOREM TableCorrect ==
  ASSUME "leave" \notin TickPoints, "create" \notin TickPoints
  PROVE  Spec => []TableExact
<1>1. InitCurt => CountOK
  <2> SUFFICES ASSUME InitCurt PROVE CountOK
    OBVIOUS
  <2>1. 0 \in Tids
    BY TableAssumption DEF Tids
  <2>2. Used(thread_table) = {0}
    BY <2>1, ThreadAssumption DEF Used, InitCurt
  <2> QED BY <2>2, FS_Singleton DEF CountOK, InitCurt
<1>2. LInv /\ [Next]_vars => LInv'
  BY LInvNext
<1>3. LInv /\ CountOK /\ [Next]_vars => CountOK'
  BY CountNext
<1>4. LInv /\ CountOK => TableExact
  BY DEF LInv, TableOK, CountOK, Used, TableExact
<1> QED BY <1>1, <1>2, <1>3, <1>4, LInvInit, PTL DEF Spec
=============================================================================
