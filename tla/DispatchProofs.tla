--------------------------- MODULE DispatchProofs ---------------------------
(***************************************************************************)
(* What schedule() promises wherever the tick comes: who is dispatched,    *)
(* which flag may outlive its list, that no counter passes zero -- for     *)
(* every set of threads, every MAX_PRIO, MAX_THREAD and TIME_QUANTUM and   *)
(* every set of services.  Three further theorems name the services under  *)
(* which interrupts stay on, schedule() always finds a thread, and, with   *)
(* the tick out of its two windows, the kernel implements                  *)
(* PriorityScheduler.                                                      *)
(***************************************************************************)
EXTENDS ListsProofs

(***************************************************************************)
(* The inductive invariant.  ListsProofs' LInv does not survive a tick in  *)
(* one of the two windows; what does is weaker: a thread that is on a list *)
(* is on one its state allows, as long as no node is linked twice -- and   *)
(* every step that would break this links a node twice.                    *)
(***************************************************************************)

\* Thread x may be on list l: it lives, list l is for its state, a delayed
\* thread has ticks left, and one that waits for start_curt has quantum left.
MayBeOn(x, l) ==
  /\ pc[x] # "none"
  /\ l \in Homes(state[x], prio[x])
  /\ l = Delayed => delayed_time[x] > 0
  /\ current_thread = NoThread => time_quantum[x] > 0

Lodged == \A x \in Threads, l \in ListIds : On(list, x, l) => MayBeOn(x, l)

\* Whatever thread_table holds lives and carries the number of its slot.
TableHere ==
  \A i \in Tids : thread_table[i] # NoThread =>
    pc[thread_table[i]] # "none" /\ tid[thread_table[i]] = i

\* The structures that threads are being created in are not in use, and no
\* two creations share one.
CreateHere ==
  \A t \in Threads : pc[t] = "create" =>
    /\ pc[arg[t]] = "none" /\ state[arg[t]] = "READY"
    /\ \A s \in Threads \ {t} : pc[s] = "create" => arg[s] # arg[t]

\* The executing thread lives and has quantum left, on either side of a tick.
CurrentHere ==
  current_thread # NoThread =>
    pc[current_thread] # "none" /\ time_quantum[current_thread] > 0

HInv == /\ TInv /\ TableHere /\ CreateHere /\ CurrentHere
        /\ Once(list) => Lodged

(***************************************************************************)
(* Lists.                                                                  *)
(***************************************************************************)

\* NodesOnce is Once of the kernel's lists.
LEMMA AliveOnce == Alive <=> fault = "none" /\ Once(list)
BY DEF Alive, NodesOnce, Once

\* insert_back_list of a thread that was on a list already links it twice.
LEMMA InsertBackNew ==
  ASSUME NEW L \in [ListIds -> Seq(Threads)], NEW l \in ListIds,
         NEW t \in Threads, Once(InsertBack(L, l, t))
  PROVE  \A m \in ListIds : ~On(L, t, m)
<1> DEFINE K == InsertBack(L, l, t)
<1>1. /\ K \in [ListIds -> Seq(Threads)]
      /\ \A m \in ListIds \ {l} : K[m] = L[m]
      /\ Len(K[l]) = Len(L[l]) + 1
      /\ \A i \in 1 .. Len(L[l]) : K[l][i] = L[l][i]
      /\ K[l][Len(L[l]) + 1] = t
  <2>1. InsertedBack(K, L, l, t)
    BY InsertBackIs
  <2> HIDE DEF K
  <2> QED BY <2>1 DEF InsertedBack
<1>2. Once(K)
  OBVIOUS
<1> HIDE DEF K
<1>3. \A m \in ListIds : /\ DOMAIN L[m] = 1 .. Len(L[m]) /\ Len(L[m]) \in Nat
                         /\ DOMAIN K[m] = 1 .. Len(K[m]) /\ Len(K[m]) \in Nat
  BY <1>1, LenProperties
<1> SUFFICES ASSUME NEW m \in ListIds, NEW i \in DOMAIN L[m], L[m][i] = t
             PROVE  FALSE
  BY DEF On
<1>4. i \in DOMAIN K[m] /\ K[m][i] = t
  <2>1. CASE m = l
    <3>1. i \in 1 .. Len(L[l])
      BY <1>3, <2>1
    <3>2. K[l][i] = L[l][i]
      BY <1>1, <3>1
    <3>3. i \in DOMAIN K[l]
      BY <1>1, <1>3, <3>1
    <3> QED BY <2>1, <3>2, <3>3
  <2>2. CASE m # l
    BY <1>1, <2>2
  <2> QED BY <2>1, <2>2
<1>5. Len(L[l]) + 1 \in DOMAIN K[l]
  BY <1>1, <1>3
<1>6. m = l /\ i = Len(L[l]) + 1
  BY <1>1, <1>2, <1>4, <1>5 DEF Once
<1> QED BY <1>3, <1>6

\* Where the threads are after insert_back_list, if no node is linked twice.
LEMMA InsertBackOn ==
  ASSUME NEW L \in [ListIds -> Seq(Threads)], NEW l \in ListIds,
         NEW t \in Threads
  PROVE  \A x \in Threads, m \in ListIds :
           On(InsertBack(L, l, t), x, m) <=> On(L, x, m) \/ (x = t /\ m = l)
<1> DEFINE K == InsertBack(L, l, t)
<1>1. /\ K \in [ListIds -> Seq(Threads)]
      /\ \A m \in ListIds \ {l} : K[m] = L[m]
      /\ Len(K[l]) = Len(L[l]) + 1
      /\ \A i \in 1 .. Len(L[l]) : K[l][i] = L[l][i]
      /\ K[l][Len(L[l]) + 1] = t
  <2>1. InsertedBack(K, L, l, t)
    BY InsertBackIs
  <2> HIDE DEF K
  <2> QED BY <2>1 DEF InsertedBack
<1> HIDE DEF K
<1>2. /\ DOMAIN L[l] = 1 .. Len(L[l]) /\ Len(L[l]) \in Nat
      /\ DOMAIN K[l] = 1 .. Len(K[l]) /\ Len(K[l]) \in Nat
  BY <1>1, LenProperties
<1>3. ASSUME NEW x \in Threads
      PROVE  On(K, x, l) <=> On(L, x, l) \/ x = t
  <2>1. ASSUME On(K, x, l) PROVE On(L, x, l) \/ x = t
    <3>1. PICK i \in 1 .. Len(L[l]) + 1 : K[l][i] = x
      BY <1>1, <1>2, <2>1 DEF On
    <3>2. CASE i \in 1 .. Len(L[l])
      BY <1>1, <1>2, <3>1, <3>2 DEF On
    <3>3. CASE i = Len(L[l]) + 1
      BY <1>1, <3>1, <3>3
    <3> QED BY <1>2, <3>2, <3>3
  <2>2. ASSUME On(L, x, l) PROVE On(K, x, l)
    <3>1. PICK i \in 1 .. Len(L[l]) : L[l][i] = x
      BY <1>2, <2>2 DEF On
    <3> QED BY <1>1, <1>2, <3>1, SMTT(40) DEF On
  <2>3. On(K, t, l)
    <3>1. Len(L[l]) + 1 \in DOMAIN K[l]
      BY <1>1, <1>2
    <3> QED BY <1>1, <3>1 DEF On
  <2> QED BY <2>1, <2>2, <2>3
<1>4. \A x \in Threads, m \in ListIds \ {l} : On(K, x, m) <=> On(L, x, m)
  BY <1>1 DEF On
<1> QED BY <1>3, <1>4 DEF K

(***************************************************************************)
(* How a step keeps Lodged.                                                *)
(***************************************************************************)

\* No list grows: the threads still linked keep what Lodged says of them.
LEMMA LodgedShrunk ==
  ASSUME Lodged,
         \A x \in Threads, m \in ListIds : On(list', x, m) =>
           On(list, x, m) /\ (MayBeOn(x, m) => MayBeOn(x, m)')
  PROVE  Lodged'
BY DEF Lodged

\* Thread t goes to list l, and the other threads stay where they are.
LEMMA LodgedMoved ==
  ASSUME Lodged, NEW t \in Threads, NEW l \in ListIds,
         \A x \in Threads, m \in ListIds :
           On(list', x, m) => (On(list, x, m) /\ x # t) \/ (x = t /\ m = l),
         MayBeOn(t, l)',
         \A x \in Threads \ {t} :
           /\ state'[x] = state[x] /\ prio'[x] = prio[x]
           /\ delayed_time'[x] = delayed_time[x]
           /\ pc[x] # "none" => pc'[x] # "none"
           /\ time_quantum'[x] = time_quantum[x],
         current_thread' = current_thread
  PROVE  Lodged'
<1> SUFFICES ASSUME NEW x \in Threads, NEW m \in ListIds, On(list', x, m)
             PROVE  MayBeOn(x, m)'
  BY DEF Lodged
<1>1. CASE x = t /\ m = l
  BY <1>1
<1>2. CASE On(list, x, m) /\ x # t
  BY <1>2 DEF Lodged, MayBeOn
<1> QED BY <1>1, <1>2

(***************************************************************************)
(* The actions.  TInv is preserved by TInvNext; each lemma is about the    *)
(* other parts, named together by Here.                                    *)
(***************************************************************************)

Here == /\ TableHere /\ CreateHere /\ CurrentHere
        /\ Once(list) => Lodged

LEMMA HInvInit == InitCurt => HInv
<1> SUFFICES ASSUME InitCurt PROVE HInv
  OBVIOUS
<1>1. TInv
  BY TInvInit
<1>2. MaxPrio - 1 \in Prios /\ MaxPrio - 1 \in ListIds
  BY PrioAssumption, ListNumbers DEF Prios
<1>3. /\ \A l \in ListIds : list[l] = IF l = MaxPrio - 1 THEN <<Idle>> ELSE << >>
      /\ state[Idle] = "READY" /\ prio[Idle] = MaxPrio - 1
      /\ pc = [t \in Threads |-> IF t = Idle THEN "user" ELSE "none"]
      /\ time_quantum[Idle] = TimeQuantum
      /\ current_thread = NoThread
  BY ThreadAssumption DEF InitCurt
<1>4. Lodged
  <2> SUFFICES ASSUME NEW x \in Threads, NEW l \in ListIds, On(list, x, l)
               PROVE  MayBeOn(x, l)
    BY DEF Lodged
  <2>1. x = Idle /\ l = MaxPrio - 1
    BY <1>3 DEF On
  <2>2. l \in Homes("READY", MaxPrio - 1) /\ l # Delayed
    BY <1>2, <2>1, HomeLists, ListNumbers
  <2> QED BY <1>3, <2>1, <2>2, CounterAssumption DEF MayBeOn
<1>5. CreateHere /\ CurrentHere
  BY <1>3 DEF CreateHere, CurrentHere
<1>6. TableHere
  <2>1. 0 \in Tids
    BY TableAssumption DEF Tids
  <2> QED BY <1>3, <2>1, ThreadAssumption DEF TableHere, InitCurt
<1> QED BY <1>1, <1>4, <1>5, <1>6 DEF HInv

\* No thread changes its list, state, priority or slot, none appears or
\* goes, and none begins a creation.
LEMMA HereKept ==
  ASSUME HInv,
         UNCHANGED <<list, current_thread, thread_table, state, prio,
                     delayed_time, tid>>,
         current_thread = NoThread => UNCHANGED time_quantum,
         current_thread # NoThread => time_quantum'[current_thread] > 0,
         \A x \in Threads :
           /\ pc'[x] = "none" <=> pc[x] = "none"
           /\ pc'[x] = "create" => pc[x] = "create" /\ arg'[x] = arg[x]
  PROVE  Here'
<1>1. TableHere'
  <2>1. \A i \in Tids : thread_table[i] # NoThread => thread_table[i] \in Threads
    BY DEF HInv, TInv, TypeOK
  <2> QED BY <2>1 DEF HInv, TableHere
<1>2. CreateHere'
  BY DEF HInv, TInv, ArgOK, CreateHere
<1>3. CurrentHere'
  <2>1. current_thread # NoThread => current_thread \in Threads
    BY DEF HInv, TInv, TypeOK
  <2> QED BY <2>1 DEF HInv, CurrentHere
<1>4. Once(list)' => Lodged'
  BY LodgedShrunk DEF HInv, MayBeOn
<1> QED BY <1>1, <1>2, <1>3, <1>4 DEF Here

\* The running thread, alive, goes on to another place of its code.
LEMMA MyStepHere ==
  ASSUME HInv, current_thread # NoThread,
         NEW s \in {"user", "sched", "suspend", "resume"},
         pc' = [pc EXCEPT ![current_thread] = s],
         \A x \in Threads \ {current_thread} : arg'[x] = arg[x],
         UNCHANGED <<list, current_thread, thread_table, state, prio,
                     delayed_time, tid>>,
         time_quantum'[current_thread] > 0
  PROVE  Here'
<1>1. current_thread \in Threads /\ pc \in [Threads -> PCs]
  BY DEF HInv, TInv, TypeOK
<1>2. pc[current_thread] # "none"
  BY DEF HInv, CurrentHere
<1>3. \A x \in Threads :
        /\ pc'[x] = "none" <=> pc[x] = "none"
        /\ pc'[x] = "create" => pc[x] = "create" /\ arg'[x] = arg[x]
  BY <1>1, <1>2
<1> QED BY <1>3, HereKept

LEMMA CrashHere == ASSUME HInv, NEW f, Crash(f) PROVE Here'
BY HereKept DEF Crash, idVars, HInv, CurrentHere

LEMMA MainCreateHere == ASSUME HInv, Once(list), MainCreate PROVE Here'
<1>1. PICK u \in Threads, i \in Tids, p \in UserPrios :
        /\ Unused(u) /\ FillStruct(u, i, p) /\ EnterTable(u, i, p)
        /\ pc' = [pc EXCEPT ![u] = "user"]
        /\ UNCHANGED <<current_thread, arg>>
  BY DEF MainCreate
<1>2. /\ TypeOK /\ Lodged /\ current_thread = NoThread /\ p \in Prios /\ p \in ListIds
      /\ list \in [ListIds -> Seq(Threads)] /\ p # Delayed
  BY CallAssumption, ListNumbers DEF HInv, TInv, TypeOK, MainCreate
<1>3. /\ pc[u] = "none" /\ \A t \in Threads : arg[t] # u
      /\ \A m \in ListIds : ~On(list, u, m)
  BY <1>1, <1>2 DEF Unused, Lodged, MayBeOn
<1>4. /\ list' = InsertBack(list, p, u)
      /\ thread_table' = [thread_table EXCEPT ![i] = u]
      /\ tid'[u] = i /\ prio'[u] = p /\ state'[u] = "READY" /\ pc'[u] = "user"
      /\ time_quantum'[u] = TimeQuantum
      /\ \A x \in Threads \ {u} :
           /\ tid'[x] = tid[x] /\ prio'[x] = prio[x] /\ state'[x] = state[x]
           /\ pc'[x] = pc[x] /\ delayed_time'[x] = delayed_time[x]
           /\ time_quantum'[x] = time_quantum[x]
  BY <1>1, <1>2 DEF FillStruct, EnterTable, TypeOK
<1>5. Lodged'
  <2>1. \A x \in Threads, m \in ListIds :
          On(list', x, m) => (On(list, x, m) /\ x # u) \/ (x = u /\ m = p)
    BY <1>2, <1>3, <1>4, InsertBackOn
  <2>2. p \in Homes("READY", p)
    BY <1>2, HomeLists
  <2>3. MayBeOn(u, p)'
    BY <1>2, <1>4, <2>2, CounterAssumption DEF MayBeOn
  <2>4. current_thread' = current_thread
    BY <1>1
  <2> QED BY <1>2, <1>4, <2>1, <2>3, <2>4, LodgedMoved
<1>6. TableHere'
  <2> SUFFICES ASSUME NEW j \in Tids, thread_table'[j] # NoThread
               PROVE  /\ pc'[thread_table'[j]] # "none"
                      /\ tid'[thread_table'[j]] = j
    BY DEF TableHere
  <2>1. CASE j = i
    BY <1>2, <1>4, <2>1 DEF TypeOK
  <2>2. CASE j # i
    <3>1. thread_table'[j] = thread_table[j] /\ thread_table[j] \in Threads
      BY <1>2, <1>4, <2>2 DEF TypeOK
    <3>2. pc[thread_table[j]] # "none" /\ tid[thread_table[j]] = j
      BY <2>2, <3>1 DEF HInv, TableHere
    <3> QED BY <1>3, <1>4, <3>1, <3>2
  <2> QED BY <2>1, <2>2
<1>7. CreateHere'
  <2>1. \A t \in Threads : pc'[t] = "create" =>
          pc[t] = "create" /\ arg'[t] = arg[t] /\ arg[t] \in Threads \ {u}
    BY <1>1, <1>3, <1>4 DEF HInv, TInv, ArgOK
  <2> QED BY <1>4, <2>1 DEF HInv, CreateHere
<1>8. CurrentHere'
  BY <1>1, <1>2 DEF CurrentHere
<1> QED BY <1>5, <1>6, <1>7, <1>8 DEF Here

LEMMA StartCurtHere == ASSUME HInv, Once(list), StartCurt PROVE Here'
<1>1. PICK top \in Prios :
        /\ IsTopPrio(top)
        /\ current_thread' = Head(list[top])
        /\ list' = DeleteFront(list, top)
        /\ state' = [state EXCEPT ![Head(list[top])] = "RUNNING"]
        /\ UNCHANGED <<idVars, time_quantum, delayed_time, pc, arg>>
  BY DEF StartCurt
<1> DEFINE n == Head(list[top])
<1>2. /\ TypeOK /\ Lodged /\ StartOK /\ current_thread = NoThread
      /\ list \in [ListIds -> Seq(Threads)]
  BY DEF HInv, TInv, TypeOK, StartCurt
<1>3. top \in ListIds /\ list[top] # << >>
  <2>1. prio_exist_flag[top]
    BY <1>1, PrioAssumption DEF IsTopPrio, Prios
  <2> QED BY <1>2, <2>1, ListNumbers DEF StartOK
<1>4. /\ \A x \in Threads, m \in ListIds :
           On(list', x, m) <=> On(list, x, m) /\ x # n
      /\ n \in Threads /\ On(list, n, top)
  BY <1>1, <1>2, <1>3, DeleteFrontOnce
<1> HIDE DEF n
<1>5. /\ pc[n] # "none" /\ time_quantum[n] > 0 /\ current_thread' = n
      /\ n # NoThread
      /\ \A x \in Threads \ {n} : state'[x] = state[x]
  BY <1>1, <1>2, <1>3, <1>4, ThreadAssumption DEF Lodged, MayBeOn, TypeOK, n
<1>6. UNCHANGED <<thread_table, tid, prio, time_quantum, delayed_time, pc, arg>>
  BY <1>1 DEF idVars
<1>7. Lodged'
  <2>1. \A x \in Threads, m \in ListIds : On(list', x, m) =>
          On(list, x, m) /\ (MayBeOn(x, m) => MayBeOn(x, m)')
    BY <1>2, <1>4, <1>5, <1>6 DEF MayBeOn
  <2> QED BY <1>2, <2>1, LodgedShrunk
<1>8. TableHere'
  BY <1>6 DEF HInv, TableHere
<1>9. CreateHere'
  <2>1. \A t \in Threads : pc[t] = "create" => arg[t] \in Threads \ {n}
    BY <1>5 DEF HInv, TInv, ArgOK, CreateHere
  <2> QED BY <1>5, <1>6, <2>1 DEF HInv, CreateHere
<1>10. CurrentHere'
  BY <1>5, <1>6 DEF CurrentHere
<1> QED BY <1>7, <1>8, <1>9, <1>10 DEF Here

\* What schedule() takes: a READY thread of the list's priority.
LEMMA TopReady ==
  ASSUME TypeOK, Once(list), Lodged, NEW top \in 0 .. MaxPrio, ~NoneToPop(top)
  PROVE  /\ top \in Prios /\ top \in ListIds /\ list[top] # << >>
         /\ Head(list[top]) \in Threads
         /\ On(list, Head(list[top]), top)
         /\ pc[Head(list[top])] # "none"
         /\ state[Head(list[top])] = "READY"
         /\ prio[Head(list[top])] = top
<1> DEFINE n == Head(list[top])
<1>1. top \in Prios /\ top \in ListIds /\ list[top] # << >>
  BY PrioAssumption, ListNumbers DEF NoneToPop, Prios
<1>2. n \in Threads /\ On(list, n, top)
  BY <1>1, DeleteFrontOnce DEF TypeOK
<1> HIDE DEF n
<1>3. /\ pc[n] # "none" /\ top \in Homes(state[n], prio[n])
      /\ state[n] \in States /\ prio[n] \in Prios
  BY <1>1, <1>2 DEF Lodged, MayBeOn, TypeOK
<1>4. state[n] = "READY" /\ prio[n] = top
  BY <1>1, <1>3, HomeLists
<1> QED BY <1>1, <1>2, <1>3, <1>4 DEF n

\* The common part of the two cases of schedule() that switch threads.
LEMMA DispatchHere ==
  ASSUME HInv, Once(list), current_thread # NoThread,
         NEW top \in 0 .. MaxPrio, ~NoneToPop(top), NEW e \in BOOLEAN,
         Dispatch(top, e),
         UNCHANGED <<thread_table, prio, delayed_time, tid, arg>>,
         time_quantum'[Head(list[top])] > 0,
         \A x \in Threads :
           /\ pc'[x] = "none" <=> pc[x] = "none"
           /\ pc'[x] = "create" => pc[x] = "create"
  PROVE  Here'
<1> DEFINE n == Head(list[top])
           c == current_thread
           popped == DeleteFront(list, top)
<1>1. /\ TypeOK /\ Lodged /\ list \in [ListIds -> Seq(Threads)]
      /\ c \in Threads /\ prio[c] \in Prios /\ prio[c] \in ListIds
      /\ prio[c] # Delayed /\ pc[c] # "none"
  BY ListNumbers DEF HInv, TInv, TypeOK, CurrentHere
<1>2. /\ top \in ListIds /\ list[top] # << >>
      /\ n \in Threads /\ pc[n] # "none"
  BY <1>1, TopReady
<1>3. /\ \A x \in Threads, m \in ListIds :
           On(popped, x, m) <=> On(list, x, m) /\ x # n
      /\ popped \in [ListIds -> Seq(Threads)]
  BY <1>1, <1>2, DeleteFrontOnce, DeleteFrontProperties
<1>4. /\ current_thread' = n
      /\ \/ /\ list' = popped /\ state' = [state EXCEPT ![n] = "RUNNING"]
         \/ /\ list' = InsertBack(popped, prio[c], c)
            /\ state' = [[state EXCEPT ![n] = "RUNNING"] EXCEPT ![c] = "READY"]
  BY DEF Dispatch
<1> HIDE DEF n, c, popped
<1>5. n # NoThread /\ \A x \in Threads \ {n, c} : state'[x] = state[x]
  BY <1>1, <1>2, <1>4, ThreadAssumption DEF TypeOK
<1>6. ASSUME Once(list') PROVE Lodged'
  <2> SUFFICES ASSUME NEW x \in Threads, NEW m \in ListIds, On(list', x, m)
               PROVE  MayBeOn(x, m)'
    BY DEF Lodged
  <2>1. CASE list' = popped /\ state' = [state EXCEPT ![n] = "RUNNING"]
    <3>1. On(list, x, m) /\ x # n
      BY <1>3, <2>1
    <3>2. MayBeOn(x, m) /\ state'[x] = state[x]
      BY <1>1, <1>2, <2>1, <3>1 DEF Lodged, TypeOK
    <3> QED BY <1>4, <1>5, <3>2 DEF MayBeOn
  <2>2. CASE /\ list' = InsertBack(popped, prio[c], c)
             /\ state' = [[state EXCEPT ![n] = "RUNNING"] EXCEPT ![c] = "READY"]
    <3>1. \A l \in ListIds : ~On(popped, c, l)
      BY <1>1, <1>3, <1>6, <2>2, InsertBackNew
    <3>2. On(popped, x, m) \/ (x = c /\ m = prio[c])
      BY <1>1, <1>3, <2>2, InsertBackOn
    <3>3. CASE x = c /\ m = prio[c]
      <4>1. state'[c] = "READY" /\ prio[c] \in Homes("READY", prio[c])
        BY <1>1, <1>2, <2>2, HomeLists DEF TypeOK
      <4> QED BY <1>1, <1>4, <1>5, <3>3, <4>1 DEF MayBeOn
    <3>4. CASE On(popped, x, m)
      <4>1. x # c /\ x # n /\ MayBeOn(x, m)
        BY <1>1, <1>3, <3>1, <3>4 DEF Lodged
      <4> QED BY <1>4, <1>5, <4>1 DEF MayBeOn
    <3> QED BY <3>2, <3>3, <3>4
  <2> QED BY <1>4, <2>1, <2>2
<1>7. TableHere'
  <2>1. \A i \in Tids : thread_table[i] # NoThread => thread_table[i] \in Threads
    BY <1>1 DEF TypeOK
  <2> QED BY <2>1 DEF HInv, TableHere
<1>8. CreateHere'
  <2>1. \A t \in Threads : pc[t] = "create" => arg[t] \in Threads \ {n, c}
    BY <1>1, <1>2 DEF HInv, TInv, ArgOK, CreateHere
  <2> QED BY <1>5, <2>1 DEF HInv, CreateHere
<1>9. CurrentHere'
  BY <1>2, <1>4 DEF CurrentHere, n
<1> QED BY <1>6, <1>7, <1>8, <1>9 DEF Here

LEMMA ScheduleRequestHere == ASSUME HInv, Once(list), ScheduleRequest PROVE Here'
<1> DEFINE c == current_thread
<1>1. /\ c # NoThread /\ pc[c] # "create" /\ pc[c] # "none"
      /\ c \in Threads /\ pc \in [Threads -> PCs] /\ TypeOK
      /\ time_quantum \in [Threads -> 0 .. UMax]
  BY DEF ScheduleRequest, HInv, TInv, TypeOK
<1>2. PICK top \in 0 .. MaxPrio :
       \/ /\ time_quantum' = [time_quantum EXCEPT ![c] = TimeQuantum]
          /\ pc' = [pc EXCEPT ![c] = "user"]
          /\ UNCHANGED <<list, current_thread, state, idVars, delayed_time, arg>>
       \/ Crash(PopFault(top))
       \/ /\ ~NoneToPop(top) /\ Dispatch(top, FALSE)
          /\ time_quantum' =
               [time_quantum EXCEPT ![Head(list[top])] = TimeQuantum]
          /\ pc' = [pc EXCEPT ![c] = "user"]
          /\ UNCHANGED <<idVars, delayed_time, arg>>
  BY DEF ScheduleRequest
<1>3. CASE /\ time_quantum' = [time_quantum EXCEPT ![c] = TimeQuantum]
           /\ pc' = [pc EXCEPT ![c] = "user"]
           /\ UNCHANGED <<list, current_thread, state, idVars, delayed_time, arg>>
  BY <1>1, <1>3, MyStepHere, CounterAssumption DEF idVars
<1>4. CASE Crash(PopFault(top))
  BY <1>4, CrashHere
<1>5. CASE /\ ~NoneToPop(top) /\ Dispatch(top, FALSE)
           /\ time_quantum' =
                [time_quantum EXCEPT ![Head(list[top])] = TimeQuantum]
           /\ pc' = [pc EXCEPT ![c] = "user"]
           /\ UNCHANGED <<idVars, delayed_time, arg>>
  <2>1. Head(list[top]) \in Threads
    BY <1>1, <1>5, TopReady DEF HInv
  <2>2. time_quantum'[Head(list[top])] > 0
    BY <1>1, <1>5, <2>1, CounterAssumption
  <2>3. \A x \in Threads :
          /\ pc'[x] = "none" <=> pc[x] = "none"
          /\ pc'[x] = "create" => pc[x] = "create"
    BY <1>1, <1>5
  <2> QED BY <1>1, <1>5, <2>2, <2>3, DispatchHere DEF idVars
<1> QED BY <1>2, <1>3, <1>4, <1>5

LEMMA TickStepHere == ASSUME HInv, Once(list), TickStep PROVE Here'
<1>1. /\ TypeOK /\ Lodged /\ list \in [ListIds -> Seq(Threads)]
      /\ Delayed \in ListIds /\ cursor \in DOMAIN list[Delayed]
  BY ListNumbers DEF HInv, TInv, TypeOK, TickStep
<1>2. PICK t \in Threads : t = list[Delayed][cursor]
  <2>1. list[Delayed] \in Seq(Threads)
    BY <1>1
  <2> QED BY <1>1, <2>1, LenProperties
<1>3. cursor \in 1 .. Len(list[Delayed]) /\ On(list, t, Delayed)
  <2>1. list[Delayed] \in Seq(Threads)
    BY <1>1
  <2> QED BY <1>1, <1>2, <2>1, LenProperties DEF On
<1>4. MayBeOn(t, Delayed) /\ prio[t] \in Prios
  BY <1>1, <1>3 DEF Lodged, TypeOK
<1>5. PICK l \in Prios : l = prio[t]
  BY <1>4
<1>6. current_thread # NoThread /\ current_thread \in Threads
  BY <1>3 DEF HInv, TInv, StartOK, TypeOK
<1> DEFINE cut == [list EXCEPT ![Delayed] = RemoveAt(@, cursor)]
<1>7. /\ UNCHANGED <<current_thread, thread_table, tid, prio, pc, arg>>
      /\ delayed_time' = [delayed_time EXCEPT ![t] = Decrement(@)]
      /\ \/ /\ list' = InsertBack(cut, l, t)
            /\ state' = [state EXCEPT ![t] = "READY"]
            /\ time_quantum' = [time_quantum EXCEPT ![t] = TimeQuantum]
         \/ /\ delayed_time'[t] # 0
            /\ UNCHANGED <<list, state, time_quantum>>
  BY <1>2, <1>5 DEF TickStep, idVars
<1>8. /\ \A x \in Threads, m \in ListIds : On(cut, x, m) <=> On(list, x, m) /\ x # t
      /\ cut \in [ListIds -> Seq(Threads)]
  <2>1. RemoveAt(list[Delayed], cursor) \in Seq(Threads)
    BY <1>1, <1>3, RemoveAtProperties
  <2> QED BY <1>1, <1>2, <1>3, <2>1, RemoveAtOnce DEF HInv
<1> HIDE DEF cut
<1>9. pc[t] # "none" /\ l \in ListIds /\ l # Delayed
  BY <1>4, ListNumbers DEF MayBeOn
<1>10. /\ delayed_time'[t] # 0 => delayed_time'[t] > 0
       /\ \A x \in Threads \ {t} : delayed_time'[x] = delayed_time[x]
  <2>1. delayed_time[t] \in 0 .. UMax /\ delayed_time'[t] = Decrement(delayed_time[t])
    BY <1>1, <1>7 DEF TypeOK
  <2>2. Decrement(delayed_time[t]) \in 0 .. UMax
    BY <2>1, CounterAssumption DEF Decrement
  <2>3. \A x \in Threads \ {t} : delayed_time'[x] = delayed_time[x]
    BY <1>1, <1>7 DEF TypeOK
  <2> QED BY <2>1, <2>2, <2>3
<1>11. Lodged'
  <2>1. CASE /\ list' = InsertBack(cut, l, t)
             /\ state' = [state EXCEPT ![t] = "READY"]
             /\ time_quantum' = [time_quantum EXCEPT ![t] = TimeQuantum]
    <3>1. \A x \in Threads, m \in ListIds : On(list', x, m) =>
            (On(list, x, m) /\ x # t) \/ (x = t /\ m = l)
      BY <1>8, <1>9, <2>1, InsertBackOn
    <3>2. state'[t] = "READY" /\ prio'[t] = l /\ l \in Homes("READY", l)
      BY <1>1, <1>5, <1>7, <2>1, HomeLists DEF TypeOK
    <3>3. MayBeOn(t, l)'
      BY <1>6, <1>7, <1>9, <3>2 DEF MayBeOn
    <3>4. \A x \in Threads \ {t} :
            /\ state'[x] = state[x] /\ prio'[x] = prio[x]
            /\ delayed_time'[x] = delayed_time[x]
            /\ pc[x] # "none" => pc'[x] # "none"
            /\ time_quantum'[x] = time_quantum[x]
      BY <1>1, <1>7, <1>10, <2>1 DEF TypeOK
    <3>5. current_thread' = current_thread
      BY <1>7
    <3> QED BY <1>1, <1>9, <3>1, <3>3, <3>4, <3>5, LodgedMoved
  <2>2. CASE delayed_time'[t] # 0 /\ UNCHANGED <<list, state, time_quantum>>
    <3>1. \A x \in Threads, m \in ListIds : On(list', x, m) =>
            On(list, x, m) /\ (MayBeOn(x, m) => MayBeOn(x, m)')
      BY <1>7, <1>10, <2>2 DEF MayBeOn
    <3> QED BY <1>1, <3>1, LodgedShrunk
  <2> QED BY <1>7, <2>1, <2>2
<1>12. TableHere'
  BY <1>7 DEF HInv, TableHere
<1>13. CreateHere'
  <2>1. \A x \in Threads : pc[x] = "create" =>
          arg[x] \in Threads \ {t} /\ state'[arg[x]] = state[arg[x]]
    <3>1. \A x \in Threads : pc[x] = "create" => arg[x] \in Threads \ {t}
      BY <1>9 DEF HInv, TInv, ArgOK, CreateHere
    <3> QED BY <1>1, <1>7, <3>1 DEF TypeOK
  <2> QED BY <1>7, <2>1 DEF HInv, CreateHere
<1>14. CurrentHere'
  <2>1. /\ time_quantum[current_thread] > 0
        /\ time_quantum \in [Threads -> 0 .. UMax]
    BY <1>1, <1>6 DEF HInv, CurrentHere, TypeOK
  <2>2. \/ time_quantum' = [time_quantum EXCEPT ![t] = TimeQuantum]
        \/ time_quantum' = time_quantum
    BY <1>7
  <2>3. time_quantum'[current_thread] > 0
    BY <1>6, <2>1, <2>2, CounterAssumption
  <2> QED BY <1>7, <2>3 DEF HInv, CurrentHere
<1> QED BY <1>11, <1>12, <1>13, <1>14 DEF Here

LEMMA TickEndHere == ASSUME HInv, Once(list), TickEnd PROVE Here'
<1>1. /\ current_thread # NoThread /\ current_thread \in Threads
      /\ TypeOK /\ time_quantum \in [Threads -> 0 .. UMax]
  <2>1. Len(list[Delayed]) \in Nat
    BY ListNumbers, LenProperties DEF HInv, TInv, TypeOK
  <2> QED BY <2>1 DEF TickEnd, HInv, TInv, StartOK, TypeOK
<1>2. ASSUME NEW q \in 1 .. UMax,
             time_quantum' = [time_quantum EXCEPT ![current_thread] = q],
             UNCHANGED <<list, current_thread, idVars, state, delayed_time, pc, arg>>
      PROVE  Here'
  BY <1>1, <1>2, HereKept DEF idVars
<1>3. CASE ScheduleExpire
  <2>1. PICK top \in 0 .. MaxPrio :
         \/ /\ time_quantum' =
                 [time_quantum EXCEPT ![current_thread] = TimeQuantum]
            /\ UNCHANGED <<list, current_thread, idVars, state, delayed_time, pc,
                           arg>>
         \/ Crash(PopFault(top))
         \/ /\ ~NoneToPop(top) /\ Dispatch(top, TRUE)
            /\ time_quantum' = [time_quantum EXCEPT
                                  ![current_thread] = 0,
                                  ![Head(list[top])] = TimeQuantum]
            /\ UNCHANGED <<idVars, delayed_time, pc, arg>>
    BY <1>3 DEF ScheduleExpire
  <2>2. CASE Crash(PopFault(top))
    BY <2>2, CrashHere
  <2>3. CASE /\ ~NoneToPop(top) /\ Dispatch(top, TRUE)
             /\ time_quantum' = [time_quantum EXCEPT
                                   ![current_thread] = 0,
                                   ![Head(list[top])] = TimeQuantum]
             /\ UNCHANGED <<idVars, delayed_time, pc, arg>>
    <3>1. Head(list[top]) \in Threads
      BY <1>1, <2>3, TopReady DEF HInv
    <3>2. time_quantum'[Head(list[top])] > 0
      BY <1>1, <2>3, <3>1, CounterAssumption
    <3> QED BY <1>1, <2>3, <3>2, DispatchHere DEF idVars
  <2> QED BY <1>2, <2>1, <2>2, <2>3, CounterAssumption
<1>4. CASE /\ Decrement(time_quantum[current_thread]) # 0
           /\ time_quantum' =
                [time_quantum EXCEPT ![current_thread] = Decrement(@)]
           /\ UNCHANGED <<list, current_thread, idVars, state, delayed_time, pc,
                          arg>>
  <2>1. Decrement(time_quantum[current_thread]) \in 1 .. UMax
    BY <1>1, <1>4, CounterAssumption DEF Decrement
  <2> QED BY <1>2, <1>4, <2>1
<1> QED BY <1>3, <1>4 DEF TickEnd

LEMMA IdleLoopHere == ASSUME HInv, Once(list), IdleLoop PROVE Here'
<1>1. /\ current_thread = Idle /\ pc[Idle] = "user" /\ Idle \in Threads
      /\ Idle # NoThread /\ TypeOK /\ Lodged
      /\ UNCHANGED <<current_thread, state, prio, time_quantum, delayed_time, tid,
                     arg>>
  BY ThreadAssumption DEF IdleLoop, HInv, TInv
<1>2. time_quantum[Idle] > 0
  BY <1>1 DEF HInv, CurrentHere
<1>3. CASE pc' = [pc EXCEPT ![Idle] = "sched"] /\ UNCHANGED <<list, thread_table>>
  BY <1>1, <1>2, <1>3, MyStepHere
<1>4. CASE list[Terminated] # << >>
  <2> DEFINE t == Head(list[Terminated])
  <2>1. /\ list' = DeleteFront(list, Terminated)
        /\ thread_table' = [thread_table EXCEPT ![tid[t]] = NoThread]
        /\ pc' = [pc EXCEPT ![t] = "none", ![Idle] = "sched"]
    BY <1>4 DEF IdleLoop
  <2>2. /\ \A x \in Threads, m \in ListIds : On(list', x, m) <=> On(list, x, m) /\ x # t
        /\ t \in Threads
    <3>1. list \in [ListIds -> Seq(Threads)] /\ Terminated \in ListIds
      BY <1>1, ListNumbers DEF TypeOK
    <3> QED BY <1>4, <2>1, <3>1, DeleteFrontOnce
  <2> HIDE DEF t
  <2>3. /\ pc'[Idle] = "sched"
        /\ \A x \in Threads \ {Idle} : pc'[x] = IF x = t THEN "none" ELSE pc[x]
    BY <1>1, <2>1, <2>2 DEF TypeOK
  <2>4. Lodged'
    <3>1. \A x \in Threads, m \in ListIds : On(list', x, m) =>
            On(list, x, m) /\ (MayBeOn(x, m) => MayBeOn(x, m)')
      BY <1>1, <2>2, <2>3 DEF MayBeOn
    <3> QED BY <1>1, <3>1, LodgedShrunk
  <2>5. TableHere'
    <3> SUFFICES ASSUME NEW i \in Tids, thread_table'[i] # NoThread
                 PROVE  /\ pc'[thread_table'[i]] # "none"
                        /\ tid'[thread_table'[i]] = i
      BY DEF TableHere
    <3>1. i # tid[t] /\ thread_table'[i] = thread_table[i]
      BY <1>1, <2>1, <2>2 DEF TypeOK
    <3>2. /\ thread_table[i] \in Threads
          /\ pc[thread_table[i]] # "none" /\ tid[thread_table[i]] = i
      BY <1>1, <3>1 DEF HInv, TableHere, TypeOK
    <3> QED BY <1>1, <2>3, <3>1, <3>2
  <2>6. CreateHere'
    <3>1. \A x \in Threads : pc'[x] = "create" => pc[x] = "create"
      BY <1>1, <2>3
    <3>2. \A x \in Threads : pc[x] = "create" => arg[x] \in Threads \ {Idle}
      BY <1>1 DEF HInv, TInv, ArgOK, CreateHere
    <3>3. \A x \in Threads \ {Idle} : pc[x] = "none" => pc'[x] = "none"
      BY <2>3
    <3> QED BY <1>1, <3>1, <3>2, <3>3 DEF HInv, CreateHere
  <2>7. CurrentHere'
    BY <1>1, <1>2, <2>3 DEF CurrentHere
  <2> QED BY <2>4, <2>5, <2>6, <2>7 DEF Here
<1> QED BY <1>3, <1>4 DEF IdleLoop

\* The running thread puts thread t, itself or another, on list l: L is what
\* the lists are once t is unlinked, or the lists themselves.
LEMMA MoveHere ==
  ASSUME HInv, Once(list), current_thread # NoThread,
         NEW L \in [ListIds -> Seq(Threads)],
         \A x \in Threads, m \in ListIds : On(L, x, m) => On(list, x, m),
         NEW t \in Threads, pc[t] # "none",
         NEW l \in ListIds, NEW s \in States, l \in Homes(s, prio[t]),
         l = Delayed => delayed_time'[t] > 0,
         \A x \in Threads \ {t} : delayed_time'[x] = delayed_time[x],
         list' = InsertBack(L, l, t),
         state' = [state EXCEPT ![t] = s],
         NEW q \in {"sched", "leave"},
         pc' = [pc EXCEPT ![current_thread] = q],
         \A x \in Threads \ {current_thread} : arg'[x] = arg[x],
         UNCHANGED <<current_thread, idVars, time_quantum>>
  PROVE  Here'
<1> DEFINE c == current_thread
<1>1. /\ TypeOK /\ Lodged /\ c \in Threads /\ pc[c] # "none"
      /\ time_quantum[c] > 0
  BY DEF HInv, TInv, TypeOK, CurrentHere
<1>2. /\ state'[t] = s /\ prio' = prio /\ tid' = tid /\ pc'[c] = q
      /\ thread_table' = thread_table
      /\ \A x \in Threads \ {t} : state'[x] = state[x]
      /\ \A x \in Threads \ {c} : pc'[x] = pc[x]
  BY <1>1 DEF TypeOK, idVars
<1> HIDE DEF c
<1>3. \A x \in Threads : pc'[x] = "none" <=> pc[x] = "none"
  BY <1>1, <1>2
<1>4. ASSUME Once(list') PROVE Lodged'
  <2>1. \A m \in ListIds : ~On(L, t, m)
    BY <1>4, InsertBackNew
  <2>2. \A x \in Threads, m \in ListIds : On(list', x, m) =>
          (On(list, x, m) /\ x # t) \/ (x = t /\ m = l)
    BY <2>1, InsertBackOn
  <2>3. MayBeOn(t, l)'
    BY <1>2, <1>3 DEF MayBeOn
  <2> QED BY <1>1, <1>2, <1>3, <2>2, <2>3, LodgedMoved
<1>5. TableHere'
  <2>1. \A i \in Tids : thread_table[i] # NoThread => thread_table[i] \in Threads
    BY <1>1 DEF TypeOK
  <2> QED BY <1>2, <1>3, <2>1 DEF HInv, TableHere
<1>6. CreateHere'
  <2>1. \A x \in Threads : pc'[x] = "create" =>
          pc[x] = "create" /\ arg'[x] = arg[x] /\ arg[x] \in Threads \ {t}
    BY <1>1, <1>2 DEF HInv, TInv, ArgOK, CreateHere, c
  <2> QED BY <1>2, <1>3, <2>1 DEF HInv, CreateHere
<1>7. CurrentHere'
  BY <1>1, <1>2 DEF CurrentHere, c
<1> QED BY <1>4, <1>5, <1>6, <1>7 DEF Here

\* A thread that puts itself on a list.
LEMMA LeaveHere ==
  ASSUME HInv, Once(list), NEW call, InUser(call), NEW l \in ListIds,
         NEW s \in States, l \in Homes(s, prio[current_thread]), Leave(l, s),
         l = Delayed => delayed_time'[current_thread] > 0,
         \A x \in Threads \ {current_thread} : delayed_time'[x] = delayed_time[x],
         UNCHANGED <<current_thread, idVars, time_quantum, arg>>
  PROVE  Here'
<1>1. PICK c \in Threads : c = current_thread
  BY DEF HInv, TInv, TypeOK, InUser, Me
<1>2. /\ list \in [ListIds -> Seq(Threads)] /\ current_thread # NoThread
      /\ pc[c] # "none"
  BY <1>1 DEF HInv, TInv, TypeOK, CurrentHere, InUser, Me
<1>3. /\ list' = InsertBack(list, l, c)
      /\ state' = [state EXCEPT ![c] = s]
      /\ pc' = [pc EXCEPT ![current_thread] = "leave"]
      /\ l \in Homes(s, prio[c])
      /\ l = Delayed => delayed_time'[c] > 0
      /\ \A x \in Threads \ {c} : delayed_time'[x] = delayed_time[x]
  BY <1>1 DEF Leave, Me
<1>4. \A x \in Threads, m \in ListIds : On(list, x, m) => On(list, x, m)
  OBVIOUS
<1> QED BY <1>2, <1>3, <1>4, MoveHere

LEMMA DelayHere == ASSUME HInv, Once(list), Delay PROVE Here'
<1>1. PICK c \in Threads : c = current_thread
  BY DEF HInv, TInv, TypeOK, Delay, InUser, Me
<1>2. delayed_time \in [Threads -> 0 .. UMax] /\ prio[c] \in Prios
  BY DEF HInv, TInv, TypeOK
<1>3. PICK n \in 0 .. MaxDelay :
        DelayAllowed(n) /\ delayed_time' = [delayed_time EXCEPT ![c] = n]
  BY <1>1 DEF Delay, Me
<1>4. n > 0
  BY <1>3 DEF DelayAllowed
<1>5. /\ delayed_time'[current_thread] > 0
      /\ \A x \in Threads \ {current_thread} : delayed_time'[x] = delayed_time[x]
  BY <1>1, <1>2, <1>3, <1>4
<1>6. /\ Delayed \in Homes("DELAY", prio[current_thread])
      /\ Delayed \in ListIds /\ "DELAY" \in States
  BY <1>1, <1>2, HomeLists, ListNumbers DEF States
<1>7. /\ InUser("delay") /\ Leave(Delayed, "DELAY")
      /\ UNCHANGED <<current_thread, idVars, time_quantum, arg>>
  BY DEF Delay
<1> QED BY <1>5, <1>6, <1>7, LeaveHere

LEMMA DeleteSelfHere == ASSUME HInv, Once(list), DeleteSelf PROVE Here'
<1>1. current_thread \in Threads /\ prio[current_thread] \in Prios
  BY DEF HInv, TInv, TypeOK, DeleteSelf, InUser, Me
<1>2. /\ Terminated \in Homes("TERMINATE", prio[current_thread])
      /\ Terminated \in ListIds /\ "TERMINATE" \in States /\ Terminated # Delayed
  BY <1>1, HomeLists, ListNumbers DEF States
<1>3. /\ InUser("delete") /\ Leave(Terminated, "TERMINATE")
      /\ UNCHANGED <<current_thread, idVars, time_quantum, arg, delayed_time>>
  BY DEF DeleteSelf
<1> QED BY <1>2, <1>3, LeaveHere

\* The check of the table leaves interrupts on and touches nothing else.
LEMMA CheckTidHere ==
  ASSUME HInv, NEW call, InUser(call), NEW i, NEW s \in {"suspend", "resume"},
         CheckTid(i, s)
  PROVE  Here'
<1>1. current_thread # NoThread /\ time_quantum[current_thread] > 0
  BY DEF InUser, Me, HInv, CurrentHere
<1>2. /\ pc' = [pc EXCEPT ![current_thread] = s]
      /\ \A x \in Threads \ {current_thread} : arg'[x] = arg[x]
      /\ UNCHANGED <<list, current_thread, thread_table, state, prio,
                     delayed_time, tid, time_quantum>>
  BY DEF CheckTid, Me, idVars, HInv, TInv, TypeOK
<1> QED BY <1>1, <1>2, MyStepHere

\* A service that finds nothing to do returns.
LEMMA ReturnHere ==
  ASSUME HInv, current_thread # NoThread,
         pc' = [pc EXCEPT ![Me] = "user"],
         arg' = [arg EXCEPT ![Me] = NoThread],
         UNCHANGED <<list, current_thread, idVars, state, time_quantum,
                     delayed_time>>
  PROVE  Here'
<1>1. time_quantum[current_thread] > 0
  BY DEF HInv, CurrentHere
<1>2. /\ pc' = [pc EXCEPT ![current_thread] = "user"]
      /\ \A x \in Threads \ {current_thread} : arg'[x] = arg[x]
      /\ UNCHANGED <<list, current_thread, thread_table, state, prio,
                     delayed_time, tid>>
      /\ time_quantum'[current_thread] > 0
  BY <1>1 DEF Me, idVars, HInv, TInv, TypeOK
<1> QED BY <1>2, MyStepHere

\* The thread a service reads from its slot in the critical section.
LEMMA SlotHere ==
  ASSUME HInv, NEW s \in {"suspend", "resume"}, AtSection(s),
         ~BadPointer(arg[Me])
  PROVE  /\ current_thread # NoThread
         /\ thread_table[arg[Me]] \in Threads
         /\ pc[thread_table[arg[Me]]] # "none"
         /\ prio[thread_table[arg[Me]]] \in Prios
<1>1. current_thread # NoThread /\ pc[Me] = s
  BY DEF AtSection, Me
<1>2. arg[Me] \in Tids /\ thread_table[arg[Me]] \in Threads
  BY <1>1, SectionThread DEF HInv
<1> QED BY <1>1, <1>2, ThreadAssumption DEF HInv, TInv, TypeOK, TableHere

LEMMA SuspendSectionHere == ASSUME HInv, Once(list), SuspendSection PROVE Here'
<1> DEFINE i == arg[Me]
<1>1. AtSection("suspend") /\ current_thread # NoThread
  BY DEF SuspendSection, AtSection, Me
<1>2. CASE Crash(PointerFault(i))
  BY <1>2, CrashHere
<1>3. CASE /\ ~BadPointer(i)
           /\ state' = [state EXCEPT ![thread_table[i]] = "BLOCK"]
           /\ list' = InsertBack(IF tid[Me] = i THEN list
                                 ELSE Delete(list, thread_table[i]),
                                 Blocked, thread_table[i])
           /\ pc' = [pc EXCEPT ![Me] = IF thread_table[i] = Me THEN "leave"
                                                               ELSE "sched"]
           /\ arg' = [arg EXCEPT ![Me] = NoThread]
           /\ UNCHANGED <<current_thread, idVars, time_quantum, delayed_time>>
  <2>1. PICK t \in Threads : t = thread_table[i] /\ pc[t] # "none" /\ prio[t] \in Prios
    BY <1>1, <1>3, SlotHere
  <2> DEFINE L == IF tid[Me] = i THEN list ELSE Delete(list, t)
             q == IF t = Me THEN "leave" ELSE "sched"
  <2>2. /\ L \in [ListIds -> Seq(Threads)]
        /\ \A x \in Threads, m \in ListIds : On(L, x, m) => On(list, x, m)
    BY <2>1, DeleteProperties, DeleteOnce DEF HInv, TInv, TypeOK
  <2>3. /\ Blocked \in ListIds /\ Blocked # Delayed /\ "BLOCK" \in States
        /\ Blocked \in Homes("BLOCK", prio[t]) /\ q \in {"sched", "leave"}
    BY <2>1, HomeLists, ListNumbers DEF States
  <2>4. /\ list' = InsertBack(L, Blocked, t)
        /\ state' = [state EXCEPT ![t] = "BLOCK"]
        /\ pc' = [pc EXCEPT ![current_thread] = q]
    BY <1>3, <2>1 DEF Me
  <2>5. /\ \A x \in Threads \ {current_thread} : arg'[x] = arg[x]
        /\ UNCHANGED <<current_thread, idVars, time_quantum>>
        /\ \A x \in Threads \ {t} : delayed_time'[x] = delayed_time[x]
    BY <1>3 DEF Me, HInv, TInv, TypeOK
  <2> HIDE DEF L, q
  <2> QED BY <1>1, <2>1, <2>2, <2>3, <2>4, <2>5, MoveHere
<1>4. CASE /\ pc' = [pc EXCEPT ![Me] = "user"]
           /\ arg' = [arg EXCEPT ![Me] = NoThread]
           /\ UNCHANGED <<list, current_thread, idVars, state, time_quantum,
                          delayed_time>>
  BY <1>1, <1>4, ReturnHere
<1> QED BY <1>2, <1>3, <1>4 DEF SuspendSection

LEMMA ResumeSectionHere == ASSUME HInv, Once(list), ResumeSection PROVE Here'
<1> DEFINE i == arg[Me]
<1>1. AtSection("resume") /\ current_thread # NoThread
  BY DEF ResumeSection, AtSection, Me
<1>2. CASE Crash(PointerFault(i))
  BY <1>2, CrashHere
<1>3. CASE /\ ~BadPointer(i)
           /\ state' = [state EXCEPT ![thread_table[i]] = "READY"]
           /\ list' = InsertBack(Delete(list, thread_table[i]),
                                 prio[thread_table[i]], thread_table[i])
           /\ pc' = [pc EXCEPT ![Me] = "sched"]
           /\ arg' = [arg EXCEPT ![Me] = NoThread]
           /\ UNCHANGED <<current_thread, idVars, time_quantum, delayed_time>>
  <2>1. PICK t \in Threads : t = thread_table[i] /\ pc[t] # "none" /\ prio[t] \in Prios
    BY <1>1, <1>3, SlotHere
  <2>2. PICK l \in ListIds : l = prio[t] /\ l # Delayed
    BY <2>1, ListNumbers
  <2> DEFINE L == Delete(list, t)
  <2>3. /\ L \in [ListIds -> Seq(Threads)]
        /\ \A x \in Threads, m \in ListIds : On(L, x, m) => On(list, x, m)
    BY <2>1, DeleteProperties, DeleteOnce DEF HInv, TInv, TypeOK
  <2>4. "READY" \in States /\ l \in Homes("READY", prio[t])
    BY <2>1, <2>2, HomeLists DEF States
  <2>5. /\ list' = InsertBack(L, l, t)
        /\ state' = [state EXCEPT ![t] = "READY"]
        /\ pc' = [pc EXCEPT ![current_thread] = "sched"]
    BY <1>3, <2>1, <2>2 DEF Me
  <2>6. /\ \A x \in Threads \ {current_thread} : arg'[x] = arg[x]
        /\ UNCHANGED <<current_thread, idVars, time_quantum>>
        /\ \A x \in Threads \ {t} : delayed_time'[x] = delayed_time[x]
    BY <1>3 DEF Me, HInv, TInv, TypeOK
  <2> HIDE DEF L
  <2> QED BY <1>1, <2>1, <2>2, <2>3, <2>4, <2>5, <2>6, MoveHere
<1>4. CASE /\ pc' = [pc EXCEPT ![Me] = "user"]
           /\ arg' = [arg EXCEPT ![Me] = NoThread]
           /\ UNCHANGED <<list, current_thread, idVars, state, time_quantum,
                          delayed_time>>
  BY <1>1, <1>4, ReturnHere
<1> QED BY <1>2, <1>3, <1>4 DEF ResumeSection

LEMMA CreateFillHere == ASSUME HInv, Once(list), CreateFill PROVE Here'
<1>1. PICK c \in Threads : /\ c = current_thread /\ c # NoThread /\ pc[c] = "user"
                           /\ time_quantum[c] > 0
  BY DEF CreateFill, InUser, Me, HInv, TInv, TypeOK, CurrentHere
<1>2. PICK u \in Threads, i \in Tids, p \in UserPrios :
        /\ Unused(u) /\ FillStruct(u, i, p)
        /\ pc' = [pc EXCEPT ![c] = "create"]
        /\ arg' = [arg EXCEPT ![c] = u]
        /\ UNCHANGED <<list, current_thread, thread_table>>
  BY <1>1 DEF CreateFill, Me
<1>3. TypeOK /\ Lodged
  BY DEF HInv, TInv
<1>4. /\ pc[u] = "none" /\ u # c /\ \A t \in Threads : arg[t] # u
      /\ \A m \in ListIds : ~On(list, u, m)
  BY <1>1, <1>2, <1>3 DEF Unused, Lodged, MayBeOn
<1>5. /\ state'[u] = "READY" /\ pc'[c] = "create" /\ arg'[c] = u
      /\ \A x \in Threads \ {c} : pc'[x] = pc[x] /\ arg'[x] = arg[x]
      /\ \A x \in Threads \ {u} :
           /\ state'[x] = state[x] /\ prio'[x] = prio[x] /\ tid'[x] = tid[x]
           /\ time_quantum'[x] = time_quantum[x]
           /\ delayed_time'[x] = delayed_time[x]
  BY <1>2, <1>3 DEF FillStruct, TypeOK
<1>6. Lodged'
  <2>1. \A x \in Threads, m \in ListIds : On(list', x, m) =>
          On(list, x, m) /\ (MayBeOn(x, m) => MayBeOn(x, m)')
    <3> SUFFICES ASSUME NEW x \in Threads, NEW m \in ListIds, On(list', x, m)
                 PROVE  On(list, x, m) /\ (MayBeOn(x, m) => MayBeOn(x, m)')
      OBVIOUS
    <3>1. On(list, x, m) /\ x # u
      BY <1>2, <1>4
    <3> QED BY <1>1, <1>2, <1>5, <3>1 DEF MayBeOn
  <2> QED BY <1>3, <2>1, LodgedShrunk
<1>7. TableHere'
  <2> SUFFICES ASSUME NEW j \in Tids, thread_table'[j] # NoThread
               PROVE  /\ pc'[thread_table'[j]] # "none"
                      /\ tid'[thread_table'[j]] = j
    BY DEF TableHere
  <2>1. /\ thread_table'[j] = thread_table[j] /\ thread_table[j] \in Threads
        /\ pc[thread_table[j]] # "none" /\ tid[thread_table[j]] = j
    BY <1>2, <1>3 DEF HInv, TableHere, TypeOK
  <2> QED BY <1>4, <1>5, <2>1
<1>8. CreateHere'
  <2>1. ASSUME NEW t \in Threads, pc'[t] = "create"
        PROVE  /\ pc'[arg'[t]] = "none" /\ state'[arg'[t]] = "READY"
               /\ t # c => pc[t] = "create" /\ arg'[t] = arg[t] /\ arg'[t] # u
    <3>1. CASE t = c
      BY <1>4, <1>5, <3>1
    <3>2. CASE t # c
      <4>1. pc[t] = "create" /\ arg'[t] = arg[t] /\ arg[t] \in Threads \ {u}
        BY <1>4, <1>5, <2>1, <3>2 DEF HInv, TInv, ArgOK
      <4>2. pc[arg[t]] = "none" /\ state[arg[t]] = "READY"
        BY <4>1 DEF HInv, CreateHere
      <4>3. arg[t] # c
        BY <1>1, <4>2
      <4> QED BY <1>5, <4>1, <4>2, <4>3
    <3> QED BY <3>1, <3>2
  <2>2. ASSUME NEW t \in Threads, pc'[t] = "create",
               NEW s \in Threads \ {t}, pc'[s] = "create"
        PROVE  arg'[s] # arg'[t]
    <3>1. CASE s # c /\ t # c
      BY <2>1, <2>2, <3>1 DEF HInv, CreateHere
    <3>2. CASE s = c \/ t = c
      BY <1>5, <2>1, <2>2, <3>2
    <3> QED BY <3>1, <3>2
  <2> QED BY <2>1, <2>2 DEF CreateHere
<1>9. CurrentHere'
  BY <1>1, <1>2, <1>4, <1>5 DEF CurrentHere
<1> QED BY <1>6, <1>7, <1>8, <1>9 DEF Here

LEMMA CreateInsertHere == ASSUME HInv, Once(list), CreateInsert PROVE Here'
<1>1. PICK c \in Threads : /\ c = current_thread /\ c # NoThread /\ pc[c] = "create"
                           /\ time_quantum[c] > 0
  BY DEF CreateInsert, AtSection, Me, HInv, TInv, TypeOK, CurrentHere
<1>2. PICK u \in Threads : u = arg[c]
  BY <1>1 DEF HInv, TInv, ArgOK
<1>3. /\ TypeOK /\ Lodged /\ list \in [ListIds -> Seq(Threads)]
      /\ pc[u] = "none" /\ state[u] = "READY" /\ u # c
      /\ \A s \in Threads \ {c} : pc[s] = "create" => arg[s] # u
  BY <1>1, <1>2 DEF HInv, TInv, TypeOK, CreateHere
<1>4. PICK l \in Prios : l = prio[u] /\ l \in ListIds /\ l # Delayed
  BY <1>3, ListNumbers DEF TypeOK
<1>5. /\ thread_table' = [thread_table EXCEPT ![tid[u]] = u]
      /\ list' = InsertBack(list, l, u)
      /\ pc' = [pc EXCEPT ![u] = "user",
                          ![c] = IF prio[c] > prio[u] THEN "sched" ELSE "user"]
      /\ arg' = [arg EXCEPT ![c] = NoThread]
      /\ UNCHANGED <<current_thread, state, prio, time_quantum, delayed_time, tid>>
  BY <1>1, <1>2, <1>4 DEF CreateInsert, EnterTable, Me
<1>6. /\ pc'[u] = "user" /\ pc'[c] \in {"sched", "user"}
      /\ \A x \in Threads \ {u, c} : pc'[x] = pc[x]
      /\ \A x \in Threads \ {c} : arg'[x] = arg[x]
  BY <1>3, <1>5 DEF TypeOK
<1>7. \A m \in ListIds : ~On(list, u, m)
  BY <1>3 DEF Lodged, MayBeOn
<1>8. Lodged'
  <2>1. \A x \in Threads, m \in ListIds : On(list', x, m) =>
          (On(list, x, m) /\ x # u) \/ (x = u /\ m = l)
    <3>1. \A x \in Threads, m \in ListIds :
            On(InsertBack(list, l, u), x, m) <=> On(list, x, m) \/ (x = u /\ m = l)
      BY <1>3, <1>4, InsertBackOn
    <3> QED BY <1>5, <1>7, <3>1
  <2>2. l \in Homes("READY", l)
    BY <1>4, HomeLists
  <2>3. MayBeOn(u, l)'
    BY <1>1, <1>3, <1>4, <1>5, <1>6, <2>2 DEF MayBeOn
  <2>4. \A x \in Threads \ {u} : pc[x] # "none" => pc'[x] # "none"
    BY <1>6
  <2> QED BY <1>3, <1>4, <1>5, <2>1, <2>3, <2>4, LodgedMoved
<1>9. TableHere'
  <2> SUFFICES ASSUME NEW j \in Tids, thread_table'[j] # NoThread
               PROVE  /\ pc'[thread_table'[j]] # "none"
                      /\ tid'[thread_table'[j]] = j
    BY DEF TableHere
  <2>1. CASE j = tid[u]
    BY <1>3, <1>5, <1>6, <2>1 DEF TypeOK
  <2>2. CASE j # tid[u]
    <3>1. /\ thread_table'[j] = thread_table[j] /\ thread_table[j] \in Threads
          /\ pc[thread_table[j]] # "none" /\ tid[thread_table[j]] = j
      BY <1>3, <1>5, <2>2 DEF HInv, TableHere, TypeOK
    <3> QED BY <1>5, <1>6, <3>1, ZenonT(40)
  <2> QED BY <2>1, <2>2
<1>10. CreateHere'
  <2>1. \A t \in Threads : pc'[t] = "create" =>
          /\ t # c /\ pc[t] = "create" /\ arg'[t] = arg[t]
          /\ arg[t] \in Threads \ {u, c} /\ pc[arg[t]] = "none"
    BY <1>1, <1>3, <1>6 DEF HInv, TInv, ArgOK, CreateHere
  <2>2. \A t \in Threads : pc[t] = "create" => state[arg[t]] = "READY"
    BY DEF HInv, CreateHere
  <2>3. \A t \in Threads : pc'[t] = "create" =>
          pc'[arg'[t]] = "none" /\ state'[arg'[t]] = "READY"
    <3> SUFFICES ASSUME NEW t \in Threads, pc'[t] = "create"
                 PROVE  pc'[arg'[t]] = "none" /\ state'[arg'[t]] = "READY"
      OBVIOUS
    <3>1. /\ arg'[t] = arg[t] /\ arg[t] \in Threads \ {u, c}
          /\ pc[arg[t]] = "none" /\ state[arg[t]] = "READY"
      BY <2>1, <2>2
    <3>2. pc'[arg[t]] = "none"
      BY <1>6, <3>1
    <3> QED BY <1>5, <3>1, <3>2
  <2>4. ASSUME NEW t \in Threads, pc'[t] = "create",
               NEW s \in Threads \ {t}, pc'[s] = "create"
        PROVE  arg'[s] # arg'[t]
    <3>1. /\ pc[t] = "create" /\ arg'[t] = arg[t]
          /\ pc[s] = "create" /\ arg'[s] = arg[s]
      BY <2>1, <2>4
    <3> QED BY <3>1 DEF HInv, CreateHere
  <2> QED BY <2>3, <2>4 DEF CreateHere
<1>11. CurrentHere'
  BY <1>1, <1>5, <1>6 DEF CurrentHere
<1> QED BY <1>8, <1>9, <1>10, <1>11 DEF Here

LEMMA HInvNext == HInv /\ [Next]_vars => HInv'
<1> SUFFICES ASSUME HInv, [Next]_vars PROVE HInv'
  OBVIOUS
<1>1. TInv'
  BY TInvNext DEF HInv
<1>2. CASE UNCHANGED vars
  <2>1. Here'
    BY <1>2, HereKept DEF vars, HInv, CurrentHere
  <2> QED BY <1>1, <2>1 DEF HInv, Here
<1>3. CASE Next /\ Once(list)
  <2> SUFFICES Here'
    BY <1>1 DEF HInv, Here
  <2>1. CASE MainCreate
    BY <1>3, <2>1, MainCreateHere
  <2>2. CASE StartCurt
    BY <1>3, <2>2, StartCurtHere
  <2>3. CASE TickBegin
    BY <2>3, HereKept DEF TickBegin, idVars, HInv, CurrentHere
  <2>4. CASE TickStep \/ TickEnd
    BY <1>3, <2>4, TickStepHere, TickEndHere
  <2>5. CASE Yield
    BY <2>5, MyStepHere DEF Yield, InUser, Me, idVars, HInv, CurrentHere
  <2>6. CASE DeleteOther
    BY <2>6, HereKept DEF DeleteOther, idVars, HInv, CurrentHere
  <2>7. CASE SuspendCheck \/ ResumeCheck
    BY <2>7, CheckTidHere DEF SuspendCheck, ResumeCheck
  <2>8. CASE Delay \/ DeleteSelf \/ CreateFill
    BY <1>3, <2>8, DelayHere, DeleteSelfHere, CreateFillHere
  <2>9. CASE Section
    BY <1>3, <2>9, CreateInsertHere, SuspendSectionHere, ResumeSectionHere
       DEF Section
  <2>10. CASE ScheduleRequest \/ IdleLoop
    BY <1>3, <2>10, ScheduleRequestHere, IdleLoopHere
  <2>11. CASE UNCHANGED vars
    BY <2>11, HereKept DEF vars, HInv, CurrentHere
  <2> QED BY <1>3, <2>1, <2>2, <2>3, <2>4, <2>5, <2>6, <2>7, <2>8, <2>9, <2>10,
             <2>11 DEF Next, Tick, Call, Halted
<1>4. CASE Next /\ ~Once(list)
  BY <1>2, <1>4, AliveOnce DEF Next, Halted
<1> QED BY <1>2, <1>3, <1>4

LEMMA HInvAlways == Spec => []HInv
<1> QED BY HInvInit, HInvNext, PTL DEF Spec

(***************************************************************************)
(* The unsigned counters.                                                  *)
(***************************************************************************)

\* Outside the tick handler the running thread has quantum left and every
\* delayed thread has ticks left: `time_quantum--' and `delayed_time--' never
\* pass zero, wherever the tick came before.
THEOREM CountersCorrect == Spec => []CountersPositive
<1>1. HInv => CountersPositive
  <2> SUFFICES ASSUME HInv, Alive
               PROVE  /\ current_thread # NoThread =>
                           time_quantum[current_thread] > 0
                      /\ \A i \in DOMAIN list[Delayed] :
                           delayed_time[list[Delayed][i]] > 0
    BY DEF CountersPositive
  <2>1. current_thread # NoThread => time_quantum[current_thread] > 0
    BY DEF HInv, CurrentHere
  <2>2. ASSUME NEW i \in DOMAIN list[Delayed]
        PROVE  delayed_time[list[Delayed][i]] > 0
    <3>1. Delayed \in ListIds /\ list[Delayed] \in Seq(Threads)
      BY ListNumbers DEF HInv, TInv, TypeOK
    <3>2. list[Delayed][i] \in Threads /\ On(list, list[Delayed][i], Delayed)
      BY <2>2, <3>1, LenProperties DEF On
    <3> QED BY <3>1, <3>2, AliveOnce DEF HInv, Lodged, MayBeOn
  <2> QED BY <2>1, <2>2
<1> QED BY <1>1, HInvAlways, PTL

(***************************************************************************)
(* Flags over empty lists.                                                 *)
(***************************************************************************)

\* A flag outlives its list only while a thread of its priority is blocked,
\* and only if b: with b false no flag does.
StaleOK(b) ==
  \A p \in Prios : prio_exist_flag[p] /\ list[p] = << >> =>
    b /\ \E t \in Threads : On(list, t, Blocked) /\ prio[t] = p

\* No flag outlives its list by this step, and blocked_list loses nothing.
LEMMA StaleKept ==
  ASSUME NEW b \in BOOLEAN, StaleOK(b),
         \A p \in Prios : prio_exist_flag'[p] /\ list'[p] = << >> =>
           prio_exist_flag[p] /\ list[p] = << >>,
         \A t \in Threads : On(list, t, Blocked) =>
           On(list', t, Blocked) /\ prio'[t] = prio[t]
  PROVE  StaleOK(b)'
BY DEF StaleOK

\* Which lists are empty after each list operator.
LEMMA EmptyAfterInsert ==
  ASSUME NEW L \in [ListIds -> Seq(Threads)], NEW l \in ListIds,
         NEW t \in Threads, NEW m \in ListIds, InsertBack(L, l, t)[m] = << >>
  PROVE  L[m] = << >> /\ m # l
<1>1. Len(L[l]) \in Nat
  BY LenProperties
<1>2. m # l
  <2> SUFFICES ASSUME m = l PROVE FALSE
    OBVIOUS
  <2>1. Len(InsertBack(L, l, t)[l]) = Len(L[l]) + 1
    BY InsertBackProperties
  <2> QED BY <1>1, <2>1
<1> QED BY <1>2, InsertBackProperties

LEMMA EmptyAfterDelete ==
  ASSUME NEW L \in [ListIds -> Seq(Threads)], NEW t \in Threads,
         NEW m \in ListIds, Delete(L, t)[m] = << >>
  PROVE  L[m] = << >> \/ On(L, t, m)
BY DeleteOff

\* A thread goes to the back of a ready list, and the flag is set with it.
LEMMA StaleReady ==
  ASSUME TypeOK, NEW b \in BOOLEAN, StaleOK(b), NEW L \in [ListIds -> Seq(Threads)], NEW l \in Prios,
         NEW t \in Threads,
         \A p \in Prios : L[p] = << >> => list[p] = << >>,
         \A x \in Threads : On(list, x, Blocked) =>
           On(L, x, Blocked) \/ x = t,
         On(list, t, Blocked) => prio[t] = l,
         \A x \in Threads \ {t} : prio'[x] = prio[x],
         list' = InsertBack(L, l, t),
         prio_exist_flag' = [prio_exist_flag EXCEPT ![l] = TRUE]
  PROVE  StaleOK(b)'
<1>1. l \in ListIds /\ Blocked \in ListIds
  BY ListNumbers
<1> SUFFICES ASSUME NEW p \in Prios, prio_exist_flag'[p], list'[p] = << >>
             PROVE  b /\ \E x \in Threads : On(list', x, Blocked) /\ prio'[x] = p
  BY DEF StaleOK
<1>2. p \in ListIds
  BY ListNumbers
<1>3. L[p] = << >> /\ p # l
  BY <1>1, <1>2, EmptyAfterInsert
<1>4. prio_exist_flag[p] /\ list[p] = << >>
  BY <1>3 DEF TypeOK
<1>5. PICK x \in Threads : b /\ On(list, x, Blocked) /\ prio[x] = p
  BY <1>4 DEF StaleOK
<1>6. x # t /\ On(L, x, Blocked)
  BY <1>3, <1>5
<1>7. On(InsertBack(L, l, t), x, Blocked)
  BY <1>1, <1>6, InsertBackOn
<1> QED BY <1>5, <1>6, <1>7

LEMMA DispatchStale ==
  ASSUME TInv, NEW b \in BOOLEAN, StaleOK(b), current_thread # NoThread, NEW top \in 0 .. MaxPrio,
         ~NoneToPop(top), NEW e \in BOOLEAN, Dispatch(top, e), prio' = prio
  PROVE  StaleOK(b)'
<1>1. PICK c \in Threads, q \in Prios : c = current_thread /\ q = prio[c]
  BY DEF TInv, TypeOK
<1>2. /\ top \in Prios /\ top \in ListIds /\ list[top] # << >>
      /\ list \in [ListIds -> Seq(Threads)] /\ q \in ListIds
      /\ Blocked \in ListIds /\ Blocked # top
  <2>1. top \in Prios /\ list[top] # << >>
    BY PrioAssumption DEF NoneToPop, Prios
  <2>2. list \in [ListIds -> Seq(Threads)]
    BY DEF TInv, TypeOK
  <2> QED BY <2>1, <2>2, ListNumbers
<1> DEFINE popped == DeleteFront(list, top)
           g == FlagAfterPop(top)
<1>3. /\ popped \in [ListIds -> Seq(Threads)]
      /\ popped[top] = Tail(list[top])
      /\ \A m \in ListIds \ {top} : popped[m] = list[m]
  <2>1. popped[top] = Tail(list[top])
    BY <1>2 DEF DeleteFront
  <2> QED BY <1>2, <2>1, DeleteFrontProperties
<1>4. /\ Tail(list[top]) = << >> => ~g[top]
      /\ \A p \in Prios \ {top} : g[p] = prio_exist_flag[p]
      /\ g \in [Prios -> BOOLEAN]
  BY <1>2 DEF FlagAfterPop, TInv, TypeOK
<1>5. \/ list' = popped /\ prio_exist_flag' = g
      \/ /\ list' = InsertBack(popped, q, c)
         /\ prio_exist_flag' = [g EXCEPT ![q] = TRUE]
  BY <1>1 DEF Dispatch
<1> HIDE DEF popped, g
<1>6. \A p \in Prios : g[p] /\ popped[p] = << >> =>
        prio_exist_flag[p] /\ list[p] = << >>
  BY <1>3, <1>4, ListNumbers
<1>7. \A t \in Threads : On(list, t, Blocked) => On(popped, t, Blocked)
  BY <1>2, <1>3 DEF On
<1>8. CASE list' = popped /\ prio_exist_flag' = g
  BY <1>6, <1>7, <1>8, StaleKept
<1>9. CASE /\ list' = InsertBack(popped, q, c)
           /\ prio_exist_flag' = [g EXCEPT ![q] = TRUE]
  <2>1. ASSUME NEW p \in Prios, prio_exist_flag'[p], list'[p] = << >>
        PROVE  prio_exist_flag[p] /\ list[p] = << >>
    <3>1. popped[p] = << >> /\ p # q
      <4>1. p \in ListIds /\ InsertBack(popped, q, c)[p] = << >>
        BY <1>9, <2>1, ListNumbers
      <4>2. popped \in [ListIds -> Seq(Threads)] /\ q \in ListIds
        BY <1>2, <1>3
      <4> QED BY <4>1, <4>2, EmptyAfterInsert
    <3>2. g[p]
      BY <1>4, <1>9, <2>1, <3>1
    <3> QED BY <1>6, <3>1, <3>2
  <2>2. \A t \in Threads : On(list, t, Blocked) => On(list', t, Blocked)
    <3>1. \A t \in Threads : On(popped, t, Blocked) =>
            On(InsertBack(popped, q, c), t, Blocked)
      BY <1>2, <1>3, InsertBackOn
    <3> QED BY <1>7, <1>9, <3>1
  <2> QED BY <2>1, <2>2, StaleKept
<1> QED BY <1>5, <1>8, <1>9

\* A thread joins a list other than the ready lists.
LEMMA StaleElsewhere ==
  ASSUME TypeOK, NEW b \in BOOLEAN, StaleOK(b), NEW l \in {Delayed, Terminated}, NEW t \in Threads,
         list' = InsertBack(list, l, t), UNCHANGED <<prio_exist_flag, prio>>
  PROVE  StaleOK(b)'
<1>1. /\ list \in [ListIds -> Seq(Threads)] /\ l \in ListIds
      /\ Blocked \in ListIds
  BY ListNumbers DEF TypeOK
<1>2. ASSUME NEW p \in Prios, list'[p] = << >> PROVE list[p] = << >>
  <2>1. p \in ListIds /\ InsertBack(list, l, t)[p] = << >>
    BY <1>2, ListNumbers
  <2> QED BY <1>1, <2>1, EmptyAfterInsert
<1>3. \A x \in Threads : On(list, x, Blocked) => On(list', x, Blocked)
  BY <1>1, InsertBackOn
<1> QED BY <1>2, <1>3, StaleKept

LEMMA SuspendSectionStale ==
  ASSUME HInv, Once(list), NEW b \in BOOLEAN, StaleOK(b), SuspendSection,
         b \/ arg[Me] = tid[Me]
  PROVE  StaleOK(b)'
<1> DEFINE i == arg[Me]
<1>1. /\ AtSection("suspend") /\ TypeOK /\ Lodged
      /\ list \in [ListIds -> Seq(Threads)] /\ Blocked \in ListIds
  BY ListNumbers DEF SuspendSection, HInv, TInv, TypeOK
<1>2. CASE UNCHANGED <<list, prio_exist_flag, prio>>
  BY <1>2, StaleKept
<1>3. CASE /\ ~BadPointer(i)
           /\ list' = InsertBack(IF tid[Me] = i THEN list
                                 ELSE Delete(list, thread_table[i]),
                                 Blocked, thread_table[i])
           /\ UNCHANGED <<prio_exist_flag, prio>>
  <2>1. PICK t \in Threads : t = thread_table[i] /\ prio[t] \in Prios
    BY <1>1, <1>3, SlotHere
  <2> DEFINE L == IF tid[Me] = i THEN list ELSE Delete(list, t)
  <2>2. /\ L \in [ListIds -> Seq(Threads)]
        /\ \A x \in Threads \ {t}, m \in ListIds : On(list, x, m) => On(L, x, m)
        /\ \A p \in Prios : L[p] = << >> =>
             list[p] = << >> \/ (b /\ On(list, t, p))
    <3>1. CASE tid[Me] = i
      BY <1>1, <3>1
    <3>2. CASE tid[Me] # i
      <4>1. /\ Delete(list, t) \in [ListIds -> Seq(Threads)]
            /\ \A x \in Threads \ {t}, m \in ListIds :
                 On(list, x, m) => On(Delete(list, t), x, m)
        BY <1>1, DeleteProperties, DeleteOnce
      <4>2. \A p \in Prios : Delete(list, t)[p] = << >> =>
              list[p] = << >> \/ On(list, t, p)
        BY <1>1, EmptyAfterDelete, ListNumbers
      <4> QED BY <3>2, <4>1, <4>2
    <3> QED BY <3>1, <3>2
  <2>3. list' = InsertBack(L, Blocked, t)
    BY <1>3, <2>1
  <2> HIDE DEF L
  <2> SUFFICES ASSUME NEW p \in Prios, prio_exist_flag'[p], list'[p] = << >>
               PROVE  b /\ \E x \in Threads : On(list', x, Blocked) /\ prio'[x] = p
    BY DEF StaleOK
  <2>4. p \in ListIds /\ L[p] = << >>
    BY <1>1, <2>2, <2>3, EmptyAfterInsert, ListNumbers
  <2>5. \A x \in Threads : On(list', x, Blocked) <=> On(L, x, Blocked) \/ x = t
    BY <1>1, <2>2, <2>3, InsertBackOn
  <2>6. CASE list[p] = << >>
    <3>1. PICK x \in Threads : b /\ On(list, x, Blocked) /\ prio[x] = p
      BY <1>3, <2>6 DEF StaleOK
    <3>2. On(list', x, Blocked)
      BY <1>1, <2>2, <2>5, <3>1
    <3> QED BY <1>3, <3>1, <3>2
  <2>7. CASE b /\ On(list, t, p)
    <3>1. p \in Homes(state[t], prio[t]) /\ state[t] \in States
      BY <1>1, <2>4, <2>7 DEF Lodged, MayBeOn, TypeOK
    <3>2. prio[t] = p
      BY <2>1, <3>1, HomeLists
    <3> QED BY <1>3, <2>5, <2>7, <3>2
  <2> QED BY <2>2, <2>4, <2>6, <2>7
<1> QED BY <1>2, <1>3 DEF SuspendSection, Crash, idVars

LEMMA ResumeSectionStale ==
  ASSUME HInv, Once(list), NEW b \in BOOLEAN, StaleOK(b), ResumeSection
  PROVE  StaleOK(b)'
<1> DEFINE i == arg[Me]
<1>1. /\ AtSection("resume") /\ TypeOK /\ Lodged
      /\ list \in [ListIds -> Seq(Threads)] /\ Blocked \in ListIds
  BY ListNumbers DEF ResumeSection, HInv, TInv, TypeOK
<1>2. CASE UNCHANGED <<list, prio_exist_flag, prio>>
  BY <1>2, StaleKept
<1>3. CASE /\ ~BadPointer(i) /\ state[thread_table[i]] = "BLOCK"
           /\ list' = InsertBack(Delete(list, thread_table[i]),
                                 prio[thread_table[i]], thread_table[i])
           /\ prio_exist_flag' =
                [prio_exist_flag EXCEPT ![prio[thread_table[i]]] = TRUE]
           /\ prio' = prio
  <2>1. PICK t \in Threads : t = thread_table[i] /\ prio[t] \in Prios
    BY <1>1, <1>3, SlotHere
  <2>2. PICK l \in Prios : l = prio[t]
    BY <2>1
  <2> DEFINE L == Delete(list, t)
  <2>3. /\ L \in [ListIds -> Seq(Threads)]
        /\ \A x \in Threads, m \in ListIds : On(L, x, m) <=> On(list, x, m) /\ x # t
    BY <1>1, DeleteProperties, DeleteOnce DEF HInv
  <2>4. \A p \in Prios : L[p] = << >> => list[p] = << >> \/ On(list, t, p)
    BY <1>1, EmptyAfterDelete, ListNumbers
  <2>5. \A p \in Prios : ~On(list, t, p)
    <3>1. state[t] = "BLOCK" /\ Homes("BLOCK", prio[t]) = {Blocked}
      BY <1>3, <2>1, HomeLists
    <3> QED BY <1>1, <3>1, ListNumbers DEF Lodged, MayBeOn
  <2>6. list' = InsertBack(L, l, t)
        /\ prio_exist_flag' = [prio_exist_flag EXCEPT ![l] = TRUE]
    BY <1>3, <2>1, <2>2
  <2> HIDE DEF L
  <2> QED BY <1>1, <1>3, <2>2, <2>3, <2>4, <2>5, <2>6, StaleReady, ZenonT(40)
<1> QED BY <1>2, <1>3 DEF ResumeSection, Crash, idVars

LEMMA StaleNext ==
  ASSUME HInv, NEW b \in BOOLEAN, StaleOK(b), [Next]_vars,
         b \/ \A t \in Threads : pc[t] = "suspend" => arg[t] = tid[t]
  PROVE  StaleOK(b)'
<1>1. CASE UNCHANGED <<list, prio_exist_flag, prio>>
  BY <1>1, StaleKept
<1>2. CASE ~Once(list)
  BY <1>1, <1>2, AliveOnce DEF Next, Halted, vars
<1> SUFFICES ASSUME Once(list) PROVE StaleOK(b)'
  BY <1>2
<1>3. /\ TInv /\ TypeOK /\ Lodged
      /\ list \in [ListIds -> Seq(Threads)]
      /\ Blocked \in ListIds
  BY ListNumbers DEF HInv, TInv, TypeOK
<1>4. CASE MainCreate
  <2>1. PICK u \in Threads, i \in Tids, p \in UserPrios :
          Unused(u) /\ FillStruct(u, i, p) /\ EnterTable(u, i, p)
    BY <1>4 DEF MainCreate
  <2>2. p \in Prios /\ ~On(list, u, Blocked)
    BY <1>3, <2>1, CallAssumption DEF Unused, Lodged, MayBeOn
  <2>3. /\ list' = InsertBack(list, p, u)
        /\ prio_exist_flag' = [prio_exist_flag EXCEPT ![p] = TRUE]
        /\ \A x \in Threads \ {u} : prio'[x] = prio[x]
    BY <1>3, <2>1 DEF FillStruct, EnterTable, TypeOK
  <2> QED BY <1>3, <2>2, <2>3, StaleReady
<1>5. CASE CreateFill
  <2>1. PICK u \in Threads, i \in Tids, p \in UserPrios :
          Unused(u) /\ FillStruct(u, i, p)
    BY <1>5 DEF CreateFill
  <2>2. ~On(list, u, Blocked)
    BY <1>3, <2>1 DEF Unused, Lodged, MayBeOn
  <2>3. \A x \in Threads \ {u} : prio'[x] = prio[x]
    BY <1>3, <2>1 DEF FillStruct, TypeOK
  <2>4. UNCHANGED <<list, prio_exist_flag>>
    BY <1>5 DEF CreateFill
  <2>5. \A t \in Threads : On(list, t, Blocked) =>
          On(list', t, Blocked) /\ prio'[t] = prio[t]
    BY <2>2, <2>3, <2>4
  <2> QED BY <2>4, <2>5, StaleKept
<1>6. CASE CreateInsert
  <2>1. PICK u \in Threads : u = arg[Me] /\ pc[u] = "none"
    BY <1>6 DEF CreateInsert, AtSection, Me, HInv, TInv, TypeOK, ArgOK, CreateHere
  <2>2. PICK l \in Prios : l = prio[u]
    BY <1>3, <2>1 DEF TypeOK
  <2>3. ~On(list, u, Blocked)
    BY <1>3, <2>1 DEF Lodged, MayBeOn
  <2>4. /\ list' = InsertBack(list, l, u)
        /\ prio_exist_flag' = [prio_exist_flag EXCEPT ![l] = TRUE]
        /\ prio' = prio
    BY <1>6, <2>1, <2>2 DEF CreateInsert, EnterTable
  <2> QED BY <1>3, <2>3, <2>4, StaleReady
<1>7. CASE StartCurt
  <2>1. PICK top \in Prios : /\ IsTopPrio(top)
                             /\ list' = DeleteFront(list, top)
                             /\ prio_exist_flag' = FlagAfterPop(top)
    BY <1>7 DEF StartCurt
  <2>2. list[top] # << >> /\ top \in ListIds /\ prio' = prio /\ Blocked # top
    <3>1. prio_exist_flag[top]
      BY <2>1, PrioAssumption DEF IsTopPrio, Prios
    <3> QED BY <1>3, <1>7, <3>1, ListNumbers DEF TInv, StartOK, StartCurt, idVars
  <2>3. /\ list'[top] = Tail(list[top])
        /\ \A m \in ListIds \ {top} : list'[m] = list[m]
    <3>1. list'[top] = Tail(list[top])
      BY <1>3, <2>1, <2>2 DEF DeleteFront
    <3> QED BY <1>3, <2>1, <2>2, <3>1, DeleteFrontProperties
  <2>4. /\ Tail(list[top]) = << >> => ~prio_exist_flag'[top]
        /\ \A p \in Prios \ {top} : prio_exist_flag'[p] = prio_exist_flag[p]
    BY <1>3, <2>1 DEF FlagAfterPop, TypeOK
  <2>5. \A p \in Prios : prio_exist_flag'[p] /\ list'[p] = << >> =>
          prio_exist_flag[p] /\ list[p] = << >>
    BY <2>3, <2>4, ListNumbers
  <2>6. \A t \in Threads : On(list, t, Blocked) => On(list', t, Blocked)
    BY <1>3, <2>2, <2>3 DEF On
  <2> QED BY <2>2, <2>5, <2>6, StaleKept
<1>8. CASE TickStep
  <2>1. PICK t \in Threads : /\ t = list[Delayed][cursor]
                             /\ cursor \in 1 .. Len(list[Delayed])
    <3>1. list[Delayed] \in Seq(Threads) /\ cursor \in DOMAIN list[Delayed]
      BY <1>3, <1>8, ListNumbers DEF TickStep
    <3> QED BY <3>1, LenProperties
  <2>2. PICK l \in Prios : l = prio[t]
    BY <1>3 DEF TypeOK
  <2> DEFINE cut == [list EXCEPT ![Delayed] = RemoveAt(@, cursor)]
  <2>3. /\ cut \in [ListIds -> Seq(Threads)]
        /\ \A m \in ListIds \ {Delayed} : cut[m] = list[m]
    <3>1. RemoveAt(list[Delayed], cursor) \in Seq(Threads)
      BY <1>3, <2>1, RemoveAtProperties, ListNumbers
    <3> QED BY <1>3, <3>1
  <2>4. ~On(list, t, Blocked)
    <3>1. On(list, t, Delayed)
      <4>1. DOMAIN list[Delayed] = 1 .. Len(list[Delayed])
        BY <1>3, LenProperties, ListNumbers
      <4> QED BY <2>1, <4>1 DEF On
    <3> QED BY <3>1, <1>3, ListNumbers DEF Once, On
  <2>5. /\ \/ UNCHANGED <<list, prio_exist_flag>>
           \/ /\ list' = InsertBack(cut, l, t)
              /\ prio_exist_flag' = [prio_exist_flag EXCEPT ![l] = TRUE]
        /\ prio' = prio
    BY <1>8, <2>1, <2>2 DEF TickStep, idVars
  <2>6. /\ \A p \in Prios : cut[p] = << >> => list[p] = << >>
        /\ \A x \in Threads : On(list, x, Blocked) => On(cut, x, Blocked)
    BY <2>3, ListNumbers DEF On
  <2> HIDE DEF cut
  <2>7. CASE UNCHANGED <<list, prio_exist_flag>>
    BY <1>1, <2>5, <2>7
  <2>8. CASE /\ list' = InsertBack(cut, l, t)
             /\ prio_exist_flag' = [prio_exist_flag EXCEPT ![l] = TRUE]
    BY <1>3, <2>3, <2>4, <2>5, <2>6, <2>8, StaleReady
  <2> QED BY <2>5, <2>7, <2>8
<1>9. CASE TickEnd \/ ScheduleRequest
  <2>1. current_thread # NoThread
    <3>1. TickEnd => cursor # 0
      BY <1>3, LenProperties, ListNumbers DEF TickEnd
    <3> QED BY <1>3, <1>9, <3>1 DEF ScheduleRequest, TInv, StartOK
  <2>2. \/ UNCHANGED <<list, prio_exist_flag, prio>>
        \/ \E top \in 0 .. MaxPrio, e \in BOOLEAN :
             ~NoneToPop(top) /\ Dispatch(top, e) /\ prio' = prio
    BY <1>9 DEF TickEnd, ScheduleExpire, ScheduleRequest, Crash, idVars
  <2> QED BY <1>1, <1>3, <2>1, <2>2, DispatchStale
<1>10. CASE IdleLoop
  <2>1. CASE list[Terminated] # << >>
    <3>1. \A m \in ListIds \ {Terminated} : list'[m] = list[m]
      <4>1. list' = DeleteFront(list, Terminated)
        BY <1>10, <2>1 DEF IdleLoop
      <4> QED BY <1>3, <2>1, <4>1, DeleteFrontProperties, ListNumbers
    <3>2. UNCHANGED <<prio_exist_flag, prio>>
      BY <1>10 DEF IdleLoop
    <3>3. /\ \A p \in Prios : list'[p] = list[p]
          /\ list'[Blocked] = list[Blocked]
      BY <3>1, ListNumbers
    <3>4. \A t \in Threads : On(list, t, Blocked) => On(list', t, Blocked)
      BY <3>3 DEF On
    <3> QED BY <3>2, <3>3, <3>4, StaleKept
  <2> QED BY <1>1, <1>10, <2>1 DEF IdleLoop
<1>11. CASE Delay \/ DeleteSelf
  <2>1. PICK c \in Threads : c = current_thread
    BY <1>3, <1>11 DEF Delay, DeleteSelf, InUser, Me, TypeOK
  <2>2. PICK l \in {Delayed, Terminated} : list' = InsertBack(list, l, c)
    BY <1>11, <2>1 DEF Delay, DeleteSelf, Leave, Me
  <2>3. UNCHANGED <<prio_exist_flag, prio>>
    BY <1>11 DEF Delay, DeleteSelf, idVars
  <2> QED BY <1>3, <2>2, <2>3, StaleElsewhere
<1>12. CASE SuspendSection \/ ResumeSection
  <2>1. SuspendSection => b \/ arg[Me] = tid[Me]
    BY <1>3 DEF SuspendSection, AtSection, Me, TypeOK
  <2> QED BY <1>12, <2>1, SuspendSectionStale, ResumeSectionStale
<1>13. CASE \/ TickBegin \/ Yield \/ DeleteOther \/ SuspendCheck \/ ResumeCheck
            \/ Halted \/ UNCHANGED vars
  BY <1>1, <1>13 DEF TickBegin, Yield, DeleteOther, SuspendCheck, ResumeCheck,
     CheckTid, Halted, vars, idVars
<1> QED BY <1>4, <1>5, <1>6, <1>7, <1>8, <1>9, <1>10, <1>11, <1>12, <1>13
     DEF Next, Tick, Call, Section

\* A prio_exist_flag stays set over an empty ready list only while a thread
\* of that priority is on blocked_list: thread_suspend is the one service
\* that does not clear it, and thread_resume fills the list again.
THEOREM StaleCorrect == Spec => []StaleFlagBlocked
<1>1. InitCurt => StaleOK(TRUE)
  <2> SUFFICES ASSUME InitCurt, NEW p \in Prios, prio_exist_flag[p]
               PROVE  list[p] # << >>
    BY DEF StaleOK
  <2>1. p = MaxPrio - 1 /\ p \in ListIds
    BY ListNumbers DEF InitCurt
  <2>2. list[p] = <<Idle>>
    BY <2>1 DEF InitCurt
  <2> QED BY <2>2
<1>2. HInv /\ StaleOK(TRUE) /\ [Next]_vars => StaleOK(TRUE)'
  BY StaleNext
<1>3. StaleOK(TRUE) => StaleFlagBlocked
  BY DEF StaleOK, StaleFlagBlocked, OnList, On
<1> QED BY <1>1, <1>2, <1>3, HInvAlways, PTL DEF Spec

(***************************************************************************)
(* Who is dispatched.                                                      *)
(***************************************************************************)

\* What every step below starts from.
DInv == HInv /\ ReadyFlagged

LEMMA DInvAlways == Spec => []DInv
BY HInvAlways, FlagsCorrect, PTL DEF DInv

\* The list schedule() pops holds the highest priority: the flags below it
\* are clear, so those lists are empty.
LEMMA TopHighest ==
  ASSUME DInv, NEW top \in 0 .. MaxPrio, IsTopPrio(top),
         NEW p \in Prios, list[p] # << >>
  PROVE  p >= top
BY PrioAssumption DEF DInv, ReadyFlagged, IsTopPrio, Prios

\* A switch is to the front of the highest list, and the thread that is put
\* back belongs no higher.
LEMMA DispatchTop ==
  ASSUME DInv, Once(list), current_thread # NoThread,
         NEW top \in 0 .. MaxPrio, IsTopPrio(top), ~NoneToPop(top),
         NEW e \in BOOLEAN, Dispatch(top, e), current_thread' # current_thread,
         e => ~OutranksReady(top), ~Keeps(top),
         NEW p \in Prios, p < prio[current_thread']
  PROVE  list'[p] = << >>
<1>1. PICK c \in Threads, q \in Prios : c = current_thread /\ q = prio[c]
  BY DEF DInv, HInv, TInv, TypeOK
<1>2. /\ list \in [ListIds -> Seq(Threads)] /\ state \in [Threads -> States]
      /\ TypeOK /\ Lodged
  BY DEF DInv, HInv, TInv, TypeOK
<1>3. PICK n \in Threads : /\ n = Head(list[top]) /\ prio[n] = top
                           /\ top \in Prios /\ top \in ListIds
                           /\ list[top] # << >>
  BY <1>2, TopReady
<1>4. current_thread' = n /\ n # c /\ p < top
  BY <1>1, <1>3 DEF Dispatch
<1>5. list[p] = << >>
  BY <1>4, TopHighest DEF Prios
<1> DEFINE popped == DeleteFront(list, top)
<1>6. /\ popped \in [ListIds -> Seq(Threads)]
      /\ \A m \in ListIds \ {top} : popped[m] = list[m]
  BY <1>2, <1>3, DeleteFrontProperties
<1>7. \/ list' = popped
      \/ /\ list' = InsertBack(popped, q, c)
         /\ e \/ [state EXCEPT ![n] = "RUNNING"][c] = "RUNNING"
  BY <1>1, <1>3 DEF Dispatch
<1> HIDE DEF popped
<1>8. p \in ListIds /\ p # top /\ popped[p] = << >> /\ q \in ListIds
  BY <1>4, <1>5, <1>6, ListNumbers DEF Prios
<1>9. ASSUME e \/ [state EXCEPT ![n] = "RUNNING"][c] = "RUNNING" PROVE p # q
  <2>1. ~OutranksReady(top)
    BY <1>1, <1>2, <1>4, <1>9 DEF Keeps
  <2> QED BY <1>1, <1>4, <2>1 DEF OutranksReady, Prios
<1>10. CASE list' = popped
  BY <1>8, <1>10
<1>11. CASE list' = InsertBack(popped, q, c) /\ p # q
  BY <1>6, <1>8, <1>11, InsertBackProperties
<1> QED BY <1>7, <1>9, <1>10, <1>11

\* Every dispatch -- start_curt, a thread's own schedule(), the end of a
\* quantum -- is to a thread that no READY thread on a list outranks,
\* whatever the tick moved to the ready lists before it.
THEOREM DispatchCorrect == Spec => DispatchHighest
<1> DEFINE A == current_thread' # current_thread =>
                  \A p \in Prios : p < prio[current_thread'] => list'[p] = << >>
<1>1. ASSUME DInv, [Next]_vars PROVE [A]_vars
  <2> SUFFICES ASSUME Next, Alive, current_thread' # current_thread,
                      NEW p \in Prios, p < prio[current_thread']
               PROVE  list'[p] = << >>
    BY <1>1 DEF Next, Halted
  <2>1. /\ HInv /\ Once(list) /\ TypeOK /\ Lodged
        /\ list \in [ListIds -> Seq(Threads)]
    BY <1>1, AliveOnce DEF DInv, HInv, TInv, TypeOK
  <2>2. \/ StartCurt \/ TickEnd \/ ScheduleRequest
    BY DEF Next, MainCreate, Tick, TickBegin, TickStep, Call, Yield, Delay,
       DeleteSelf, DeleteOther, CreateFill, SuspendCheck, ResumeCheck, CheckTid,
       Section, CreateInsert, SuspendSection, ResumeSection, IdleLoop, Crash,
       Halted, vars
  <2>3. CASE StartCurt
    <3>1. PICK top \in Prios : /\ IsTopPrio(top)
                               /\ current_thread' = Head(list[top])
                               /\ list' = DeleteFront(list, top)
      BY <2>3 DEF StartCurt
    <3>2. top \in 0 .. MaxPrio /\ top # MaxPrio /\ top \in ListIds
      BY PrioAssumption, ListNumbers DEF Prios
    <3>3. ~NoneToPop(top)
      <4>1. prio_exist_flag[top]
        BY <3>1, PrioAssumption DEF IsTopPrio, Prios
      <4>2. list[top] # << >>
        BY <2>1, <2>3, <4>1 DEF HInv, TInv, StartOK, StartCurt
      <4> QED BY <3>2, <4>2 DEF NoneToPop
    <3>4. prio[Head(list[top])] = top /\ list[top] # << >>
      BY <2>1, <3>2, <3>3, TopReady
    <3>5. p < top /\ p # top /\ p \in ListIds
      BY <3>1, <3>4, ListNumbers DEF Prios
    <3>6. list[p] = << >>
      BY <1>1, <3>1, <3>2, <3>5, TopHighest DEF Prios
    <3>7. \A m \in ListIds \ {top} : DeleteFront(list, top)[m] = list[m]
      BY <2>1, <3>2, <3>4, DeleteFrontProperties
    <3> QED BY <3>1, <3>5, <3>6, <3>7
  <2>4. CASE TickEnd \/ ScheduleRequest
    <3>1. current_thread # NoThread
      <4>1. TickEnd => cursor # 0
        BY <2>1, LenProperties, ListNumbers DEF TickEnd
      <4> QED BY <2>1, <2>4, <4>1 DEF ScheduleRequest, HInv, TInv, StartOK
    <3>2. PICK top \in 0 .. MaxPrio, e \in BOOLEAN :
            /\ IsTopPrio(top) /\ ~NoneToPop(top) /\ Dispatch(top, e)
            /\ e => ~OutranksReady(top)
            /\ ~Keeps(top)
      <4>1. CASE TickEnd
        <5>1. ScheduleExpire
          BY <4>1 DEF TickEnd
        <5>2. PICK top \in 0 .. MaxPrio :
                /\ IsTopPrio(top) /\ ~NoneToPop(top) /\ Dispatch(top, TRUE)
                /\ ~OutranksReady(top)
          BY <5>1 DEF ScheduleExpire, Crash
        <5> QED BY <5>2 DEF Keeps
      <4>2. CASE ScheduleRequest
        BY <4>2 DEF ScheduleRequest, Crash
      <4> QED BY <2>4, <4>1, <4>2
    <3> QED BY <1>1, <2>1, <3>1, <3>2, DispatchTop
  <2> QED BY <2>2, <2>3, <2>4
<1> QED BY <1>1, DInvAlways, PTL DEF Spec, DispatchHighest

\* schedule() refills the running thread's quantum only when no ready list
\* above its own holds a thread: one the tick woke waits at most for the rest
\* of the quantum under way.
THEOREM NoRefill == Spec => NoRefillUnderInversion
<1> DEFINE A == \A t \in Threads :
                  /\ current_thread # NoThread /\ current_thread' = current_thread
                  /\ state[current_thread] = "RUNNING"
                  /\ OnList(t, prio[t]) /\ OnList(t, prio[t])'
                  /\ prio[t] < prio[current_thread]
                  => time_quantum'[current_thread] <= time_quantum[current_thread]
<1>1. ASSUME DInv, [Next]_vars PROVE [A]_vars
  <2> SUFFICES ASSUME Next, Alive, NEW t \in Threads,
                      current_thread # NoThread,
                      current_thread' = current_thread,
                      state[current_thread] = "RUNNING",
                      OnList(t, prio[t]), prio[t] < prio[current_thread]
               PROVE  time_quantum'[current_thread] <= time_quantum[current_thread]
    BY <1>1 DEF Next, Halted
  <2>1. /\ HInv /\ Once(list) /\ TypeOK /\ Lodged
        /\ list \in [ListIds -> Seq(Threads)]
        /\ time_quantum \in [Threads -> 0 .. UMax]
    BY <1>1, AliveOnce DEF DInv, HInv, TInv, TypeOK
  <2>2. PICK c \in Threads : /\ c = current_thread /\ state[c] = "RUNNING"
                             /\ pc[c] # "none" /\ time_quantum[c] \in 1 .. UMax
                             /\ prio[c] \in Prios
    BY <2>1 DEF TypeOK, HInv, CurrentHere
  <2>3. PICK p \in Prios : p = prio[t] /\ p < prio[c] /\ list[p] # << >>
    <3>1. list[prio[t]] # << >>
      BY DEF OnList
    <3> QED BY <2>1, <2>2, <3>1 DEF TypeOK
  <2>4. ASSUME NEW top \in 0 .. MaxPrio, IsTopPrio(top)
        PROVE  ~OutranksReady(top)
    <3>1. p >= top
      BY <1>1, <2>3, <2>4, TopHighest
    <3> QED BY <2>2, <2>3, <3>1 DEF OutranksReady, Prios
  <2>5. ASSUME NEW top \in 0 .. MaxPrio, ~NoneToPop(top)
        PROVE  Head(list[top]) # c
    BY <2>1, <2>2, <2>5, TopReady
  <2>6. SUFFICES ASSUME time_quantum'[c] # time_quantum[c]
                 PROVE  time_quantum'[c] <= time_quantum[c]
    BY <2>2
  <2>7. CASE CreateFill
    <3>1. PICK u \in Threads : Unused(u) /\ time_quantum' =
                                 [time_quantum EXCEPT ![u] = TimeQuantum]
      BY <2>7 DEF CreateFill, FillStruct
    <3> QED BY <2>1, <2>2, <2>6, <3>1 DEF Unused
  <2>8. CASE TickStep
    <3>1. PICK x \in Threads : /\ x = list[Delayed][cursor]
                               /\ On(list, x, Delayed)
      <4>1. list[Delayed] \in Seq(Threads) /\ cursor \in DOMAIN list[Delayed]
        BY <2>1, <2>8, ListNumbers DEF TickStep
      <4> QED BY <4>1, LenProperties DEF On
    <3>2. x # c
      <4>1. Delayed \in Homes(state[x], prio[x]) /\ prio[c] \in Prios
        BY <2>1, <2>2, <3>1, ListNumbers DEF Lodged, MayBeOn
      <4> QED BY <2>2, <4>1, HomeLists
    <3> QED BY <2>1, <2>6, <2>8, <3>1, <3>2 DEF TickStep
  <2>9. CASE TickEnd
    <3>1. CASE ScheduleExpire
      <4>1. PICK top \in 0 .. MaxPrio :
              /\ IsTopPrio(top)
              /\ \/ OutranksReady(top)
                 \/ Crash(PopFault(top))
                 \/ ~NoneToPop(top) /\ current_thread' = Head(list[top])
        BY <3>1 DEF ScheduleExpire, Dispatch
      <4> QED BY <2>2, <2>4, <2>5, <2>6, <4>1 DEF Crash
    <3>2. CASE time_quantum' = [time_quantum EXCEPT ![c] = Decrement(@)]
      BY <2>1, <2>2, <3>2 DEF Decrement
    <3> QED BY <2>2, <2>9, <3>1, <3>2 DEF TickEnd
  <2>10. CASE ScheduleRequest
    <3>1. PICK top \in 0 .. MaxPrio :
            /\ IsTopPrio(top)
            /\ \/ OutranksReady(top)
               \/ Crash(PopFault(top))
               \/ ~NoneToPop(top) /\ current_thread' = Head(list[top])
      BY <2>10 DEF ScheduleRequest, Keeps, Dispatch
    <3> QED BY <2>2, <2>4, <2>5, <2>6, <3>1 DEF Crash
  <2>11. CASE MainCreate \/ StartCurt
    BY <2>11 DEF MainCreate, StartCurt
  <2>12. ASSUME UNCHANGED time_quantum PROVE FALSE
    BY <2>6, <2>12
  <2> QED BY <2>7, <2>8, <2>9, <2>10, <2>11, <2>12
     DEF Next, Tick, TickBegin, Call, Yield, Delay, DeleteSelf, DeleteOther,
     SuspendCheck, ResumeCheck, CheckTid, Section, CreateInsert, SuspendSection,
     ResumeSection, IdleLoop, Crash, Halted, vars
<1> QED BY <1>1, DInvAlways, PTL DEF Spec, NoRefillUnderInversion

(***************************************************************************)
(* The interrupt bit.                                                      *)
(***************************************************************************)

\* Interrupts are on from start_curt on, and each thread will run with them
\* on when it is switched to.
OnInv == /\ TInv
         /\ current_thread # NoThread => ie = TRUE
         /\ saved_ie = [t \in Threads |-> TRUE]

\* A thread that is switched out leaves the bit it runs with, which is set.
LEMMA SavedOn ==
  ASSUME NEW s, s = [t \in Threads |-> TRUE], NEW c, NEW i, i = TRUE
  PROVE  [s EXCEPT ![c] = i] = s
OBVIOUS

LEMMA OnNext ==
  ASSUME OnInv, [Next]_vars, "delete_other" \notin Calls
  PROVE  OnInv'
<1>1. TInv /\ TInv'
  BY TInvNext DEF OnInv
<1>2. ASSUME saved_ie' = saved_ie, current_thread' # NoThread => ie' = TRUE
      PROVE  OnInv'
  BY <1>1, <1>2 DEF OnInv
<1>3. CASE UNCHANGED <<current_thread, ie, saved_ie>>
  BY <1>2, <1>3 DEF OnInv
\* A switch of the processor.
<1>4. ASSUME current_thread # NoThread, NEW top \in 0 .. MaxPrio, ~NoneToPop(top),
             saved_ie' = [saved_ie EXCEPT ![current_thread] = ie],
             ie' = saved_ie'[Head(list[top])]
      PROVE  OnInv'
  <2>1. top \in ListIds /\ list[top] # << >>
    BY <1>4, PrioAssumption, ListNumbers DEF NoneToPop, Prios
  <2>2. Head(list[top]) \in Threads
    BY <1>1, <2>1, DeleteFrontProperties DEF TInv, TypeOK
  <2>3. saved_ie' = saved_ie
    BY <1>4, SavedOn DEF OnInv
  <2>4. ie' = TRUE
    BY <1>4, <2>2, <2>3 DEF OnInv
  <2> QED BY <1>2, <2>3, <2>4
<1>5. CASE MainCreate \/ CreateFill
  <2>1. PICK u \in Threads : saved_ie' = [saved_ie EXCEPT ![u] = TRUE]
    BY <1>5 DEF MainCreate, CreateFill, FillStruct
  <2>2. saved_ie' = saved_ie
    BY <2>1, SavedOn DEF OnInv
  <2>3. UNCHANGED <<current_thread, ie>>
    BY <1>5 DEF MainCreate, CreateFill
  <2> QED BY <1>2, <2>2, <2>3 DEF OnInv
<1>6. CASE StartCurt
  <2>1. PICK top \in Prios : /\ IsTopPrio(top)
                             /\ ie' = saved_ie[Head(list[top])]
    BY <1>6 DEF StartCurt
  <2>2. prio_exist_flag[top]
    BY <2>1, PrioAssumption DEF IsTopPrio, Prios
  <2>3. list[top] # << >>
    BY <1>1, <1>6, <2>2 DEF TInv, StartOK, StartCurt
  <2>4. Head(list[top]) \in Threads
    BY <1>1, <2>1, <2>3, DeleteFrontProperties, ListNumbers DEF TInv, TypeOK
  <2>5. ie' = TRUE /\ saved_ie' = saved_ie
    BY <1>6, <2>1, <2>4 DEF OnInv, StartCurt
  <2> QED BY <1>2, <2>5
<1>7. CASE ScheduleRequest \/ TickEnd
  <2>1. current_thread # NoThread
    <3>1. TickEnd => cursor # 0
      BY <1>1, LenProperties, ListNumbers DEF TickEnd, TInv, TypeOK
    <3> QED BY <1>1, <1>7, <3>1 DEF ScheduleRequest, TInv, StartOK
  <2>2. \/ UNCHANGED <<current_thread, ie, saved_ie>>
        \/ \E top \in 0 .. MaxPrio :
             /\ ~NoneToPop(top)
             /\ saved_ie' = [saved_ie EXCEPT ![current_thread] = ie]
             /\ ie' = saved_ie'[Head(list[top])]
    BY <1>7 DEF ScheduleRequest, TickEnd, ScheduleExpire, Crash
  <2> QED BY <1>3, <1>4, <2>1, <2>2
<1>8. ~DeleteOther
  BY DEF DeleteOther, InUser
<1>9. CASE \/ TickBegin \/ TickStep \/ Yield \/ Delay \/ DeleteSelf \/ SuspendCheck
           \/ ResumeCheck \/ Section \/ IdleLoop \/ Halted \/ UNCHANGED vars
  BY <1>3, <1>9 DEF TickBegin, TickStep, Yield, Delay, DeleteSelf, SuspendCheck,
     ResumeCheck, CheckTid, Section, CreateInsert, SuspendSection, ResumeSection,
     IdleLoop, Halted, Crash, vars
<1> QED BY <1>5, <1>6, <1>7, <1>8, <1>9 DEF Next, Tick, Call

\* No thread runs with interrupts off, for any number of switches and wherever
\* the tick comes, as long as no thread deletes another: each service gives
\* back the Status register it found.  (thread_delete of another thread does
\* not, run ie_leak.)
THEOREM InterruptsStayOn ==
  ASSUME "delete_other" \notin Calls
  PROVE  Spec => []InterruptsOn
<1>1. InitCurt => OnInv
  BY TInvInit DEF InitCurt, OnInv
<1>2. OnInv /\ [Next]_vars => OnInv'
  BY OnNext
<1>3. OnInv => InterruptsOn
  BY DEF OnInv, InterruptsOn
<1> QED BY <1>1, <1>2, <1>3, PTL DEF Spec

(***************************************************************************)
(* The kernel finds a thread.                                              *)
(***************************************************************************)

\* The idle thread is always ready or running, at the lowest priority.
IdleHere == /\ prio[Idle] = MaxPrio - 1
            /\ state[Idle] \in {"READY", "RUNNING"}
            /\ pc[Idle] \in {"user", "sched"}

\* The other threads, and those under creation, are above it.
AboveIdle ==
  /\ \A t \in Threads \ {Idle} : pc[t] # "none" => prio[t] < MaxPrio - 1
  /\ \A t \in Threads : pc[t] = "create" => prio[arg[t]] < MaxPrio - 1

\* What thread_suspend and thread_resume checked still holds in their
\* critical sections: as long as a thread is inside one of them, the idle
\* thread, which alone empties a slot, does not run.
ArgsHere ==
  \A t \in Threads : pc[t] \in {"suspend", "resume"} =>
    /\ pc[t] = "suspend" => arg[t] = tid[t]
    /\ arg[t] \in Tids /\ thread_table[arg[t]] # NoThread
    /\ current_thread # Idle /\ state[t] \in {"READY", "RUNNING"}

CPart == IdleHere /\ AboveIdle /\ ArgsHere /\ fault = "none"

\* A tick in one of the windows can make a thread that is leaving READY again,
\* and two creations can take one slot.  Even so, a READY thread is on its
\* ready list, only the executing thread is RUNNING, and it is READY or RUNNING
\* until it leaves.
Settled ==
  /\ \A t \in Threads : pc[t] # "none" =>
       /\ state[t] = "READY" => On(list, t, prio[t])
       /\ state[t] = "RUNNING" => t = current_thread
  /\ current_thread # NoThread /\ pc[current_thread] # "leave" =>
       state[current_thread] \in {"READY", "RUNNING"}

\* All this as long as no node is linked twice.
CInv == /\ DInv /\ StaleOK(FALSE) /\ fault = "none"
        /\ Once(list) => CPart /\ Settled

\* CInv where the model goes on.
Live == CInv /\ Once(list)

LEMMA LiveFacts ==
  ASSUME Live
  PROVE  /\ DInv /\ HInv /\ TInv /\ TypeOK /\ StaleOK(FALSE) /\ CPart /\ Settled
         /\ Lodged /\ TableHere /\ CreateHere /\ CurrentHere
         /\ Idle \in Threads /\ NoThread \notin Threads
         /\ pc \in [Threads -> PCs] /\ state \in [Threads -> States]
         /\ arg \in [Threads -> Threads \cup (0 .. MaxThread) \cup {NoThread}]
         /\ list \in [ListIds -> Seq(Threads)]
         /\ prio \in [Threads -> Prios] /\ tid \in [Threads -> Tids]
         /\ thread_table \in [Tids -> Threads \cup {NoThread}]
         /\ current_thread \in Threads \cup {NoThread}
BY ThreadAssumption DEF Live, CInv, DInv, HInv, TInv, TypeOK

\* When the running thread cannot run on, schedule() has a thread to pop: if
\* no flag were set the idle thread would be on no list, hence running.
LEMMA FindsThread ==
  ASSUME Live, current_thread # NoThread, NEW top \in 0 .. MaxPrio,
         IsTopPrio(top), ~Keeps(top)
  PROVE  ~NoneToPop(top)
<1>1. MaxPrio \in Nat \ {0} /\ MaxPrio - 1 \in Prios
  BY PrioAssumption DEF Prios
<1>2. Idle \in Threads /\ prio[Idle] = MaxPrio - 1 /\ pc[Idle] # "none"
      /\ state[Idle] \in {"READY", "RUNNING"}
  BY LiveFacts DEF CPart, IdleHere
<1>3. top # MaxPrio
  <2> SUFFICES ASSUME top = MaxPrio PROVE FALSE
    OBVIOUS
  <2>1. list[MaxPrio - 1] = << >>
    BY <1>1, LiveFacts DEF DInv, ReadyFlagged, IsTopPrio
  <2>2. CASE state[Idle] = "READY"
    <3>1. On(list, Idle, MaxPrio - 1)
      BY <1>2, <2>2, LiveFacts DEF Settled
    <3> QED BY <2>1, <3>1 DEF On
  <2>3. CASE state[Idle] = "RUNNING"
    <3>1. Idle = current_thread
      BY <1>2, <2>3, LiveFacts DEF Settled
    <3> QED BY <1>1, <1>2, <2>3, <3>1 DEF Keeps, OutranksReady
  <2> QED BY <1>2, <2>2, <2>3
<1>4. prio_exist_flag[top] /\ top \in Prios
  BY <1>1, <1>3 DEF IsTopPrio, Prios
<1>5. list[top] # << >>
  BY <1>4, LiveFacts DEF StaleOK
<1> QED BY <1>3, <1>5 DEF NoneToPop

\* While a thread is inside thread_suspend or thread_resume, schedule() does
\* not switch to the idle thread.
LEMMA NextNotIdle ==
  ASSUME Live, NEW top \in 0 .. MaxPrio, IsTopPrio(top), ~NoneToPop(top),
         NEW t \in Threads, pc[t] \in {"suspend", "resume"},
         t = current_thread => ~OutranksReady(top)
  PROVE  Head(list[top]) # Idle
<1>1. TypeOK /\ Once(list) /\ Lodged /\ DInv /\ CPart
  BY LiveFacts DEF Live
<1>2. PICK p \in Prios : p = prio[t] /\ p < MaxPrio - 1
  <2>1. t # Idle
    BY <1>1 DEF CPart, IdleHere
  <2> QED BY <1>1, <2>1 DEF CPart, AboveIdle, TypeOK
<1>3. top <= p
  <2>1. CASE t = current_thread
    BY <1>2, <2>1 DEF OutranksReady, Prios
  <2>2. CASE t # current_thread
    <3>1. state[t] = "READY"
      BY <1>1, <2>2, LiveFacts DEF CPart, ArgsHere, Settled
    <3>2. list[p] # << >>
      BY <1>2, <3>1, LiveFacts DEF Settled, On
    <3> QED BY <1>1, <3>2, TopHighest DEF Prios
  <2> QED BY <2>1, <2>2
<1>4. prio[Head(list[top])] = top
  BY <1>1, TopReady
<1> QED BY <1>1, <1>2, <1>3, <1>4, PrioAssumption DEF CPart, IdleHere, Prios

\* A step in which no thread enters a service and no priority changes.
LEMMA CPartKept ==
  ASSUME CPart, UNCHANGED <<prio, tid, fault>>,
         state'[Idle] \in {"READY", "RUNNING"}, pc'[Idle] \in {"user", "sched"},
         \A t \in Threads : pc'[t] # "none" => pc[t] # "none",
         \A t \in Threads : pc'[t] \in {"create", "suspend", "resume"} =>
           pc'[t] = pc[t] /\ arg'[t] = arg[t],
         \A t \in Threads : pc'[t] \in {"suspend", "resume"} =>
           /\ state'[t] \in {"READY", "RUNNING"} /\ current_thread' # Idle
           /\ thread_table' = thread_table
  PROVE  CPart'
<1>1. IdleHere' /\ (fault = "none")'
  BY DEF CPart, IdleHere
<1>2. AboveIdle'
  BY DEF CPart, AboveIdle
<1>3. ArgsHere'
  BY DEF CPart, ArgsHere
<1> QED BY <1>1, <1>2, <1>3 DEF CPart

\* No thread is taken off a list or becomes READY or RUNNING.
LEMMA SettledKept ==
  ASSUME Settled,
         UNCHANGED <<current_thread, prio>>,
         \A t \in Threads : pc'[t] # "none" /\ state'[t] \in {"READY", "RUNNING"} =>
           pc[t] # "none" /\ state'[t] = state[t],
         \A t \in Threads, l \in ListIds : On(list, t, l) => On(list', t, l),
         prio \in [Threads -> ListIds],
         current_thread # NoThread /\ pc'[current_thread] # "leave" =>
           /\ pc[current_thread] # "leave"
           /\ state'[current_thread] = state[current_thread]
  PROVE  Settled'
<1>1. ASSUME NEW t \in Threads, pc'[t] # "none"
      PROVE  /\ state'[t] = "READY" => On(list', t, prio'[t])
             /\ state'[t] = "RUNNING" => t = current_thread'
  <2>1. prio[t] \in ListIds
    OBVIOUS
  <2> QED BY <1>1, <2>1 DEF Settled
<1>2. current_thread' # NoThread /\ pc'[current_thread'] # "leave" =>
        state'[current_thread'] \in {"READY", "RUNNING"}
  BY DEF Settled
<1> QED BY <1>1, <1>2 DEF Settled

\* A step that leaves the states, the threads, the table and the lists alone,
\* and moves at most the running thread, not inside a service, to another place.
LEMMA CPartMoves ==
  ASSUME Live, UNCHANGED <<idVars, fault, state, current_thread, list>>,
         \/ UNCHANGED <<pc, arg>>
         \/ \E p \in {"user", "sched"} :
              /\ pc' = [pc EXCEPT ![Me] = p]
              /\ Me \in Threads /\ pc[Me] \notin {"none", "leave"}
              /\ \A t \in Threads \ {Me} : arg'[t] = arg[t]
  PROVE  CPart' /\ Settled'
<1>0. /\ CPart /\ Settled /\ pc \in [Threads -> PCs] /\ Idle \in Threads
      /\ prio \in [Threads -> ListIds]
      /\ UNCHANGED <<prio, tid, thread_table>>
  BY LiveFacts, ListNumbers DEF idVars
<1>1. CASE UNCHANGED <<pc, arg>>
  <2>1. CPart'
    BY <1>0, <1>1, CPartKept DEF CPart, IdleHere, ArgsHere
  <2>2. Settled'
    BY <1>0, <1>1 DEF Settled
  <2> QED BY <2>1, <2>2
<1>2. ASSUME NEW c \in Threads, c = Me, NEW p \in {"user", "sched"},
             pc' = [pc EXCEPT ![c] = p], pc[c] \notin {"none", "leave"},
             \A t \in Threads \ {c} : arg'[t] = arg[t]
      PROVE  CPart' /\ Settled'
  <2>1. /\ pc'[Idle] \in {"user", "sched"}
        /\ \A t \in Threads : pc'[t] # "none" => pc[t] # "none"
        /\ \A t \in Threads : pc'[t] \in {"create", "suspend", "resume"} =>
             t # c /\ pc'[t] = pc[t]
        /\ pc'[c] = p
    BY <1>0, <1>2 DEF CPart, IdleHere
  <2>2. CPart'
    BY <1>0, <1>2, <2>1, CPartKept DEF CPart, IdleHere, ArgsHere
  <2>3. Settled'
    BY <1>0, <1>2, <2>1, SettledKept DEF Me
  <2> QED BY <2>2, <2>3
<1> QED BY <1>1, <1>2

\* A thread is dispatched and another put back on its ready list.
LEMMA CPartDispatch ==
  ASSUME Live, current_thread # NoThread, NEW top \in 0 .. MaxPrio,
         IsTopPrio(top), ~NoneToPop(top), NEW e \in BOOLEAN, Dispatch(top, e),
         UNCHANGED <<idVars, fault, arg>>,
         \/ pc' = [pc EXCEPT ![current_thread] = "user"]
         \/ pc' = pc /\ ~OutranksReady(top)
  PROVE  CPart' /\ Settled'
<1>1. /\ CPart /\ Settled /\ TypeOK /\ Once(list) /\ Lodged /\ Idle \in Threads
      /\ pc \in [Threads -> PCs] /\ state \in [Threads -> States]
      /\ list \in [ListIds -> Seq(Threads)] /\ NoThread \notin Threads
      /\ UNCHANGED <<prio, tid, thread_table>>
  BY LiveFacts DEF Live, idVars
<1>2. PICK c \in Threads : c = current_thread /\ pc[c] # "none"
  BY LiveFacts DEF CurrentHere
<1>3. PICK n \in Threads : n = Head(list[top]) /\ top \in ListIds /\ list[top] # << >>
  BY <1>1, TopReady
<1>4. /\ current_thread' = n
      /\ \/ /\ n # c /\ state[c] # "RUNNING" /\ state' = [state EXCEPT ![n] = "RUNNING"]
            /\ list' = DeleteFront(list, top)
         \/ /\ state' = [[state EXCEPT ![n] = "RUNNING"] EXCEPT ![c] = "READY"]
            /\ list' = InsertBack(DeleteFront(list, top), prio[c], c)
  BY <1>1, <1>2, <1>3 DEF Dispatch
<1>5. ASSUME NEW t \in Threads, state[t] \in {"READY", "RUNNING"}
      PROVE  state'[t] \in {"READY", "RUNNING"}
  BY <1>1, <1>4, <1>5
<1>6. state'[Idle] \in {"READY", "RUNNING"}
  BY <1>1, <1>5 DEF CPart, IdleHere
<1>7. /\ \A t \in Threads : pc'[t] # "none" => pc[t] # "none"
      /\ \A t \in Threads : pc'[t] \in {"create", "suspend", "resume"} =>
           pc'[t] = pc[t]
      /\ pc'[Idle] \in {"user", "sched"}
  BY <1>1, <1>2 DEF CPart, IdleHere
<1>8. ASSUME NEW t \in Threads, pc'[t] \in {"suspend", "resume"}
      PROVE  state'[t] \in {"READY", "RUNNING"} /\ n # Idle
  <2>1. pc[t] = pc'[t] /\ (t = current_thread => ~OutranksReady(top))
    BY <1>1, <1>2, <1>7, <1>8
  <2>2. n # Idle
    BY <1>3, <1>8, <2>1, NextNotIdle
  <2>3. state[t] \in {"READY", "RUNNING"}
    BY <1>1, <1>8, <2>1 DEF CPart, ArgsHere
  <2> QED BY <1>5, <2>2, <2>3
<1>9. CPart'
  BY <1>1, <1>4, <1>6, <1>7, <1>8, CPartKept
<1>10. ASSUME NEW x \in Threads, x # n, NEW l \in ListIds, On(list, x, l)
       PROVE  On(list', x, l)
  <2> DEFINE popped == DeleteFront(list, top)
  <2>1. On(popped, x, l)
    BY <1>1, <1>3, <1>10, DeleteFrontOnce
  <2>2. popped \in [ListIds -> Seq(Threads)] /\ prio[c] \in ListIds
    BY <1>1, <1>3, DeleteFrontProperties, ListNumbers DEF TypeOK
  <2>3. On(InsertBack(popped, prio[c], c), x, l)
    BY <2>1, <2>2, InsertBackOn
  <2> QED BY <1>4, <2>1, <2>3
<1>11. state'[c] = "READY" => On(list', c, prio[c])
  <2> DEFINE popped == DeleteFront(list, top)
  <2>1. popped \in [ListIds -> Seq(Threads)] /\ prio[c] \in ListIds
    BY <1>1, <1>3, DeleteFrontProperties, ListNumbers DEF TypeOK
  <2>2. On(InsertBack(popped, prio[c], c), c, prio[c])
    BY <2>1, InsertBackOn
  <2>3. CASE n # c /\ state' = [state EXCEPT ![n] = "RUNNING"]
    BY <1>1, <1>2, <1>10, <2>1, <2>3 DEF Settled
  <2> QED BY <1>4, <2>2, <2>3
<1>12. ASSUME NEW x \in Threads, pc'[x] # "none"
       PROVE  /\ state'[x] = "READY" => On(list', x, prio[x])
              /\ state'[x] = "RUNNING" => x = n
  <2>1. CASE x = c
    BY <1>1, <1>4, <1>11, <2>1
  <2>2. CASE x # c /\ x # n
    <3>1. state'[x] = state[x] /\ pc[x] # "none" /\ prio[x] \in ListIds
      BY <1>1, <1>4, <1>7, <1>12, <2>2, ListNumbers DEF TypeOK
    <3> QED BY <1>1, <1>2, <1>10, <2>2, <3>1 DEF Settled
  <2>3. CASE x # c /\ x = n
    BY <1>1, <1>4, <2>3
  <2> QED BY <2>1, <2>2, <2>3
<1>13. state'[n] \in {"READY", "RUNNING"}
  BY <1>1, <1>4
<1>14. Settled'
  BY <1>1, <1>4, <1>12, <1>13 DEF Settled
<1> QED BY <1>9, <1>14

LEMMA ScheduleRequestFinds == ASSUME Live, ScheduleRequest PROVE CPart' /\ Settled'
<1>1. /\ current_thread # NoThread /\ current_thread \in Threads /\ Settled
      /\ pc[current_thread] \in {"sched", "leave"} /\ pc \in [Threads -> PCs]
  BY LiveFacts DEF ScheduleRequest
<1>2. PICK top \in 0 .. MaxPrio :
        /\ IsTopPrio(top)
        /\ \/ /\ Keeps(top) /\ pc' = [pc EXCEPT ![current_thread] = "user"]
              /\ UNCHANGED <<list, current_thread, state, idVars, arg, fault>>
           \/ ~Keeps(top) /\ NoneToPop(top)
           \/ /\ ~NoneToPop(top) /\ Dispatch(top, FALSE)
              /\ pc' = [pc EXCEPT ![current_thread] = "user"]
              /\ UNCHANGED <<idVars, arg, fault>>
  BY DEF ScheduleRequest
<1>3. CASE /\ Keeps(top) /\ pc' = [pc EXCEPT ![current_thread] = "user"]
           /\ UNCHANGED <<list, current_thread, state, idVars, arg, fault>>
  <2>1. state[current_thread] = "RUNNING"
    BY <1>3 DEF Keeps
  <2>2. CPart'
    <3>1. /\ \A t \in Threads : pc'[t] # "none" => pc[t] # "none"
          /\ \A t \in Threads : pc'[t] \in {"create", "suspend", "resume"} => pc'[t] = pc[t]
          /\ pc'[Idle] \in {"user", "sched"}
      BY <1>1, <1>3, LiveFacts DEF CPart, IdleHere
    <3> QED BY <1>3, <3>1, LiveFacts, CPartKept DEF CPart, IdleHere, ArgsHere, idVars
  <2>3. Settled'
    <3>1. \A t \in Threads : pc'[t] # "none" => pc[t] # "none"
      BY <1>1, <1>3
    <3> QED BY <1>1, <1>3, <2>1, <3>1 DEF Settled, idVars
  <2> QED BY <2>2, <2>3
<1>4. CASE ~Keeps(top) /\ NoneToPop(top)
  BY <1>1, <1>2, <1>4, FindsThread
<1>5. CASE /\ ~NoneToPop(top) /\ Dispatch(top, FALSE)
           /\ pc' = [pc EXCEPT ![current_thread] = "user"]
           /\ UNCHANGED <<idVars, arg, fault>>
  BY <1>1, <1>2, <1>5, CPartDispatch
<1> QED BY <1>2, <1>3, <1>4, <1>5

LEMMA TickEndFinds == ASSUME Live, TickEnd PROVE CPart' /\ Settled'
<1>1. current_thread # NoThread
  <2>1. Len(list[Delayed]) \in Nat
    BY LiveFacts, ListNumbers, LenProperties
  <2> QED BY <2>1, LiveFacts DEF TickEnd, TInv, StartOK
<1>2. CASE UNCHANGED <<list, current_thread, state, idVars, pc, arg, fault>>
  BY <1>2, CPartMoves
<1>3. CASE ScheduleExpire
  <2>1. PICK top \in 0 .. MaxPrio :
          /\ IsTopPrio(top)
          /\ \/ UNCHANGED <<list, current_thread, state, idVars, pc, arg, fault>>
             \/ ~OutranksReady(top) /\ NoneToPop(top)
             \/ /\ ~OutranksReady(top) /\ ~NoneToPop(top) /\ Dispatch(top, TRUE)
                /\ UNCHANGED <<idVars, pc, arg, fault>>
    BY <1>3 DEF ScheduleExpire
  <2>2. CASE ~OutranksReady(top) /\ NoneToPop(top)
    BY <1>1, <2>1, <2>2, FindsThread DEF Keeps
  <2>3. CASE /\ ~OutranksReady(top) /\ ~NoneToPop(top) /\ Dispatch(top, TRUE)
             /\ UNCHANGED <<idVars, pc, arg, fault>>
    BY <1>1, <2>1, <2>3, CPartDispatch
  <2> QED BY <1>2, <2>1, <2>2, <2>3
<1> QED BY <1>2, <1>3 DEF TickEnd

LEMMA TickStepFinds == ASSUME Live, TickStep PROVE CPart' /\ Settled'
<1>1. /\ CPart /\ Settled /\ state \in [Threads -> States] /\ Idle \in Threads
      /\ list \in [ListIds -> Seq(Threads)] /\ prio \in [Threads -> ListIds]
      /\ UNCHANGED <<current_thread, idVars, pc, arg, fault, prio>>
  BY LiveFacts, ListNumbers DEF TickStep, idVars
<1>2. PICK t \in Threads : t = list[Delayed][cursor] /\ cursor \in 1 .. Len(list[Delayed])
                           /\ Delayed \in ListIds
  BY <1>1, ListNumbers, LenProperties, ElementOfSeq DEF TickStep
<1>3. \/ UNCHANGED <<list, state>>
      \/ /\ state' = [state EXCEPT ![t] = "READY"]
         /\ list' = InsertBack([list EXCEPT ![Delayed] = RemoveAt(@, cursor)], prio[t], t)
  BY <1>2 DEF TickStep
<1>4. \A x \in Threads : state[x] \in {"READY", "RUNNING"} =>
        state'[x] \in {"READY", "RUNNING"}
  BY <1>1, <1>3
<1>5. CPart'
  BY <1>1, <1>4, CPartKept DEF CPart, IdleHere, ArgsHere, idVars
<1>6. CASE UNCHANGED <<list, state>>
  BY <1>1, <1>5, <1>6 DEF Settled
<1>7. CASE /\ state' = [state EXCEPT ![t] = "READY"]
           /\ list' = InsertBack([list EXCEPT ![Delayed] = RemoveAt(@, cursor)], prio[t], t)
  <2> DEFINE K == [list EXCEPT ![Delayed] = RemoveAt(@, cursor)]
  <2>1. K \in [ListIds -> Seq(Threads)] /\ prio[t] \in ListIds
    BY <1>1, <1>2, RemoveAtProperties
  <2>2. \A x \in Threads, l \in ListIds : On(K, x, l) <=> On(list, x, l) /\ x # t
    BY <1>1, <1>2, RemoveAtOnce DEF Live
  <2>3. \A x \in Threads, l \in ListIds :
          On(list', x, l) <=> On(K, x, l) \/ (x = t /\ l = prio[t])
    BY <1>7, <2>1, InsertBackOn
  <2> HIDE DEF K
  <2>4. ASSUME NEW x \in Threads, pc'[x] # "none"
        PROVE  /\ state'[x] = "READY" => On(list', x, prio'[x])
               /\ state'[x] = "RUNNING" => x = current_thread'
    <3>1. CASE x = t
      BY <1>1, <1>7, <2>1, <2>3, <3>1
    <3>2. CASE x # t
      <4>1. prio[x] \in ListIds /\ state'[x] = state[x]
        BY <1>1, <1>7, <3>2
      <4> QED BY <1>1, <2>2, <2>3, <2>4, <3>2, <4>1 DEF Settled
    <3> QED BY <3>1, <3>2
  <2>5. current_thread' # NoThread /\ pc'[current_thread'] # "leave" =>
          state'[current_thread'] \in {"READY", "RUNNING"}
    BY <1>1, <1>4, LiveFacts DEF Settled
  <2> QED BY <1>5, <2>4, <2>5 DEF Settled
<1> QED BY <1>3, <1>6, <1>7

LEMMA IdleLoopFinds == ASSUME Live, IdleLoop PROVE CPart' /\ Settled'
<1>1. /\ CPart /\ Settled /\ TypeOK /\ Lodged /\ Idle \in Threads /\ current_thread = Idle
      /\ pc[Idle] = "user" /\ pc \in [Threads -> PCs]
      /\ list \in [ListIds -> Seq(Threads)] /\ prio \in [Threads -> ListIds]
      /\ UNCHANGED <<prio, tid, fault, state, current_thread, arg>>
  BY LiveFacts, ListNumbers DEF IdleLoop
<1>2. CASE list[Terminated] = << >>
  <2>1. pc' = [pc EXCEPT ![Idle] = "sched"] /\ UNCHANGED <<idVars, list>>
    BY <1>2 DEF IdleLoop, idVars
  <2> QED BY <1>1, <2>1, CPartMoves DEF Me
<1>3. CASE list[Terminated] # << >>
  <2>1. PICK t \in Threads : t = Head(list[Terminated]) /\ On(list, t, Terminated)
    BY <1>1, <1>3, DeleteFrontOnce, ListNumbers DEF Live
  <2>2. Terminated \in Homes(state[t], prio[t]) /\ prio[t] \in Prios
        /\ state[t] \in States
    BY <1>1, <2>1, ListNumbers DEF Lodged, MayBeOn, TypeOK
  <2>3. t # Idle
    <3>1. state[t] = "TERMINATE"
      BY <2>2, HomeLists
    <3> QED BY <1>1, <3>1 DEF CPart, IdleHere
  <2>4. /\ pc' = [pc EXCEPT ![t] = "none", ![Idle] = "sched"]
        /\ list' = DeleteFront(list, Terminated)
    BY <1>3, <2>1 DEF IdleLoop
  <2>5. /\ pc'[Idle] = "sched"
        /\ \A x \in Threads : pc'[x] # "none" => pc[x] # "none" /\ x # t
        /\ \A x \in Threads : pc'[x] \in {"create", "suspend", "resume"} =>
             pc'[x] = pc[x]
    BY <1>1, <2>3, <2>4
  <2>6. \A x \in Threads : pc[x] \notin {"suspend", "resume"}
    BY <1>1 DEF CPart, ArgsHere
  <2>7. CPart'
    BY <1>1, <2>5, <2>6, CPartKept DEF CPart, IdleHere
  <2>8. \A x \in Threads, l \in ListIds : On(list', x, l) <=> On(list, x, l) /\ x # t
    BY <1>1, <1>3, <2>1, <2>4, DeleteFrontOnce, ListNumbers DEF Live
  <2>9. ASSUME NEW x \in Threads, pc'[x] # "none"
        PROVE  /\ state'[x] = "READY" => On(list', x, prio'[x])
               /\ state'[x] = "RUNNING" => x = current_thread'
    <3>1. prio[x] \in ListIds /\ pc[x] # "none" /\ x # t
      BY <1>1, <2>5, <2>9
    <3> QED BY <1>1, <2>8, <3>1 DEF Settled
  <2>10. state'[Idle] \in {"READY", "RUNNING"}
    BY <1>1 DEF CPart, IdleHere
  <2> QED BY <1>1, <2>7, <2>9, <2>10 DEF Settled
<1> QED BY <1>2, <1>3

LEMMA StartCurtFinds == ASSUME Live, StartCurt PROVE CPart' /\ Settled'
<1>1. /\ CPart /\ Settled /\ TypeOK /\ Once(list) /\ Lodged /\ Idle \in Threads
      /\ state \in [Threads -> States] /\ list \in [ListIds -> Seq(Threads)]
      /\ prio \in [Threads -> ListIds]
      /\ current_thread = NoThread /\ NoThread \notin Threads
      /\ UNCHANGED <<prio, tid, fault, thread_table, pc, arg>>
  BY LiveFacts, ListNumbers DEF StartCurt, idVars, Live
<1>2. PICK top \in Prios : /\ IsTopPrio(top)
                           /\ current_thread' = Head(list[top])
                           /\ state' = [state EXCEPT ![Head(list[top])] = "RUNNING"]
                           /\ list' = DeleteFront(list, top)
  BY DEF StartCurt
<1>3. top \in 0 .. MaxPrio /\ top < MaxPrio /\ top # MaxPrio
  BY PrioAssumption DEF Prios
<1>4. ~NoneToPop(top)
  <2>1. list[top] # << >>
    BY <1>2, <1>3, LiveFacts DEF IsTopPrio, StartCurt, TInv, StartOK
  <2> QED BY <1>3, <2>1 DEF NoneToPop
<1>5. \A t \in Threads : state[t] \in {"READY", "RUNNING"} =>
        state'[t] \in {"READY", "RUNNING"}
  BY <1>1, <1>2
<1>6. \A t \in Threads : pc[t] \in {"suspend", "resume"} => current_thread' # Idle
  <2>1. \A t \in Threads : t # current_thread
    BY <1>1
  <2> QED BY <1>2, <1>3, <1>4, <2>1, NextNotIdle
<1>7. CPart'
  BY <1>1, <1>5, <1>6, CPartKept DEF CPart, IdleHere, ArgsHere
<1>8. PICK n \in Threads : /\ n = Head(list[top])
                           /\ \A x \in Threads, l \in ListIds :
                                On(list', x, l) <=> On(list, x, l) /\ x # n
  BY <1>1, <1>2, <1>3, <1>4, DeleteFrontOnce, TopReady, SMTT(40)
<1>9. ASSUME NEW x \in Threads, pc'[x] # "none"
      PROVE  /\ state'[x] = "READY" => On(list', x, prio'[x])
             /\ state'[x] = "RUNNING" => x = current_thread'
  <2>1. CASE x = n
    BY <1>1, <1>2, <1>8, <2>1
  <2>2. CASE x # n
    <3>1. state'[x] = state[x] /\ prio[x] \in ListIds
      BY <1>1, <1>2, <1>8, <2>2
    <3> QED BY <1>1, <1>8, <1>9, <2>2, <3>1 DEF Settled
  <2> QED BY <2>1, <2>2
<1>10. state'[n] = "RUNNING"
  BY <1>1, <1>2, <1>8
<1> QED BY <1>2, <1>7, <1>8, <1>9, <1>10 DEF Settled

\* The running thread, not the idle one, puts itself on a list.
LEMMA GoesFinds ==
  ASSUME Live, Me # NoThread, pc[Me] \notin {"sched", "resume", "create"},
         pc[Me] = "user" => Me # Idle,
         NEW s \in States \ {"READY", "RUNNING"}, state' = [state EXCEPT ![Me] = s],
         \A x \in Threads, m \in ListIds : On(list, x, m) => On(list', x, m),
         pc' = [pc EXCEPT ![Me] = "leave"],
         \A t \in Threads \ {Me} : arg'[t] = arg[t],
         UNCHANGED <<current_thread, idVars, fault>>
  PROVE  CPart' /\ Settled'
<1>1. /\ CPart /\ Settled /\ state \in [Threads -> States] /\ pc \in [Threads -> PCs]
      /\ Idle \in Threads /\ list \in [ListIds -> Seq(Threads)]
      /\ prio \in [Threads -> ListIds]
      /\ UNCHANGED <<current_thread, prio, tid, thread_table, fault>>
  BY LiveFacts, ListNumbers DEF idVars
<1>2. PICK c \in Threads : c = Me /\ c # Idle /\ pc[c] # "none" /\ pc[c] # "resume"
  BY <1>1, LiveFacts DEF Me, CurrentHere, CPart, IdleHere
<1>3. \A t \in Threads \ {c} : state'[t] = state[t] /\ pc'[t] = pc[t]
  BY <1>1, <1>2
<1>4. pc'[c] = "leave" /\ state'[c] = s
  BY <1>1, <1>2
<1>5. \A t \in Threads : pc'[t] # "none" => pc[t] # "none"
  BY <1>2, <1>3
<1>6. \A t \in Threads : pc'[t] \in {"create", "suspend", "resume"} =>
           pc'[t] = pc[t] /\ arg'[t] = arg[t] /\ state'[t] = state[t]
  BY <1>2, <1>3, <1>4
<1>7. CPart'
  BY <1>1, <1>2, <1>3, <1>5, <1>6, CPartKept DEF CPart, IdleHere, ArgsHere
<1>8. Settled'
  BY <1>1, <1>2, <1>3, <1>4, <1>5, SettledKept DEF Me
<1> QED BY <1>7, <1>8

LEMMA LeaveFinds ==
  ASSUME Live, Me # NoThread, pc[Me] \notin {"sched", "resume", "create"},
         pc[Me] = "user" => Me # Idle,
         NEW s \in States \ {"READY", "RUNNING"}, state' = [state EXCEPT ![Me] = s],
         NEW l \in ListIds, list' = InsertBack(list, l, Me),
         pc' = [pc EXCEPT ![Me] = "leave"],
         \A t \in Threads \ {Me} : arg'[t] = arg[t],
         UNCHANGED <<current_thread, idVars, fault>>
  PROVE  CPart' /\ Settled'
<1>1. list \in [ListIds -> Seq(Threads)] /\ Me \in Threads
  BY LiveFacts DEF Me
<1>2. \A x \in Threads, m \in ListIds : On(list, x, m) => On(list', x, m)
  BY <1>1, InsertBackOn
<1> QED BY <1>2, GoesFinds

\* thread_suspend of the running thread itself: what is in its slot is the
\* thread, or one that is on no list -- or that is then linked twice.
LEMMA SuspendSectionFinds ==
  ASSUME Live, SuspendSection
  PROVE  fault' = "none" /\ (Once(list') => CPart' /\ Settled')
<1>1. /\ CPart /\ Settled /\ TypeOK /\ Me \in Threads /\ pc[Me] = "suspend"
      /\ Me # NoThread /\ NoThread \notin Threads /\ Idle \in Threads
      /\ list \in [ListIds -> Seq(Threads)] /\ prio \in [Threads -> ListIds]
      /\ Blocked \in ListIds
      /\ pc \in [Threads -> PCs] /\ state \in [Threads -> States]
      /\ arg \in [Threads -> Threads \cup (0 .. MaxThread) \cup {NoThread}]
      /\ thread_table \in [Tids -> Threads \cup {NoThread}]
  BY LiveFacts, ListNumbers DEF SuspendSection, AtSection, Me
<1>2. arg[Me] = tid[Me] /\ arg[Me] \in Tids /\ thread_table[arg[Me]] # NoThread
  BY <1>1 DEF CPart, ArgsHere
<1>3. PICK t \in Threads : t = thread_table[arg[Me]] /\ pc[t] # "none"
  BY <1>1, <1>2, LiveFacts DEF TableHere
<1>4. /\ state' = [state EXCEPT ![t] = "BLOCK"]
      /\ list' = InsertBack(list, Blocked, t)
      /\ pc' = [pc EXCEPT ![Me] = IF t = Me THEN "leave" ELSE "sched"]
      /\ arg' = [arg EXCEPT ![Me] = NoThread]
      /\ UNCHANGED <<current_thread, idVars, fault>>
  BY <1>2, <1>3 DEF SuspendSection, BadPointer
<1>5. \A x \in Threads \ {Me} : arg'[x] = arg[x]
  BY <1>1, <1>4
<1>6. fault' = "none"
  BY <1>1, <1>4 DEF CPart
<1>7. CASE t = Me
  BY <1>1, <1>4, <1>5, <1>6, <1>7, LeaveFinds DEF States
<1>8. ASSUME t # Me, Once(list') PROVE CPart' /\ Settled'
  <2>1. \A l \in ListIds : ~On(list, t, l)
    BY <1>1, <1>4, <1>8, InsertBackNew
  <2>2. prio[t] \in ListIds /\ state[t] \notin {"READY", "RUNNING"}
    BY <1>1, <1>3, <1>8, <2>1 DEF Settled, Me
  <2>3. t # Idle /\ Me # Idle
    BY <1>1, <2>2 DEF CPart, IdleHere
  <2>4. /\ \A x \in Threads \ {t} : state'[x] = state[x]
        /\ \A x \in Threads \ {Me} : pc'[x] = pc[x]
        /\ state'[t] = "BLOCK" /\ pc'[Me] = "sched"
        /\ UNCHANGED <<current_thread, prio, tid, thread_table, fault>>
    BY <1>1, <1>4, <1>8 DEF idVars
  <2>5. \A x \in Threads : pc[x] \in {"suspend", "resume"} => x # t
    BY <1>1, <2>2 DEF CPart, ArgsHere
  <2>6. /\ \A x \in Threads : pc'[x] # "none" => pc[x] # "none"
        /\ \A x \in Threads : pc'[x] \in {"create", "suspend", "resume"} =>
             x # Me /\ pc'[x] = pc[x] /\ arg'[x] = arg[x]
    BY <1>1, <1>5, <2>4
  <2>7. CPart'
    BY <1>1, <2>3, <2>4, <2>5, <2>6, CPartKept DEF CPart, IdleHere, ArgsHere
  <2>8. \A x \in Threads, m \in ListIds : On(list, x, m) => On(list', x, m)
    BY <1>1, <1>4, InsertBackOn
  <2>9. \A x \in Threads : pc'[x] # "none" /\ state'[x] \in {"READY", "RUNNING"} =>
          pc[x] # "none" /\ state'[x] = state[x]
    BY <2>4, <2>6
  <2>10. Settled'
    BY <1>1, <1>8, <2>4, <2>8, <2>9, SettledKept DEF Me
  <2> QED BY <2>7, <2>10
<1> QED BY <1>6, <1>7, <1>8

LEMMA ResumeSectionFinds == ASSUME Live, ResumeSection PROVE CPart' /\ Settled'
<1>1. /\ CPart /\ Settled /\ TypeOK /\ Me \in Threads /\ pc[Me] = "resume"
      /\ pc \in [Threads -> PCs] /\ state \in [Threads -> States]
      /\ arg \in [Threads -> Threads \cup (0 .. MaxThread) \cup {NoThread}]
      /\ Idle \in Threads /\ NoThread \notin Threads
      /\ list \in [ListIds -> Seq(Threads)] /\ prio \in [Threads -> ListIds]
      /\ thread_table \in [Tids -> Threads \cup {NoThread}]
  BY LiveFacts, ListNumbers DEF ResumeSection, AtSection, Me
<1>2. arg[Me] \in Tids /\ ~BadPointer(arg[Me])
  BY <1>1 DEF CPart, ArgsHere, BadPointer
<1>3. PICK p \in {"user", "sched"} :
        /\ pc' = [pc EXCEPT ![Me] = p]
        /\ arg' = [arg EXCEPT ![Me] = NoThread]
        /\ UNCHANGED <<current_thread, idVars, fault>>
  BY <1>2 DEF ResumeSection
<1>4. PICK t \in Threads :
        \/ UNCHANGED <<list, state>>
        \/ /\ state' = [state EXCEPT ![t] = "READY"]
           /\ list' = InsertBack(Delete(list, t), prio[t], t)
  <2>1. thread_table[arg[Me]] \in Threads
    BY <1>1, <1>2 DEF BadPointer
  <2> QED BY <1>2, <2>1 DEF ResumeSection
<1>5. \A x \in Threads : state[x] \in {"READY", "RUNNING"} =>
        state'[x] \in {"READY", "RUNNING"}
  BY <1>1, <1>4
<1>6. /\ \A x \in Threads : pc'[x] # "none" => pc[x] # "none"
      /\ \A x \in Threads : pc'[x] \in {"create", "suspend", "resume"} =>
           pc'[x] = pc[x] /\ arg'[x] = arg[x]
      /\ pc'[Idle] = pc[Idle]
  BY <1>1, <1>3 DEF CPart, IdleHere
<1>7. CPart'
  BY <1>1, <1>3, <1>5, <1>6, CPartKept DEF CPart, IdleHere, ArgsHere, idVars
<1>8. state'[Me] \in {"READY", "RUNNING"} /\ current_thread' = Me /\ prio' = prio
  BY <1>1, <1>3, <1>5 DEF CPart, ArgsHere, Me, idVars
<1>9. CASE UNCHANGED <<list, state>>
  <2>1. \A x \in Threads : pc'[x] # "none" =>
          /\ state'[x] = "READY" => On(list', x, prio'[x])
          /\ state'[x] = "RUNNING" => x = current_thread'
    BY <1>1, <1>6, <1>8, <1>9 DEF Settled, Me
  <2> QED BY <1>7, <1>8, <2>1 DEF Settled
<1>10. CASE /\ state' = [state EXCEPT ![t] = "READY"]
            /\ list' = InsertBack(Delete(list, t), prio[t], t)
  <2>1. /\ Delete(list, t) \in [ListIds -> Seq(Threads)] /\ prio[t] \in ListIds
        /\ \A x \in Threads, l \in ListIds :
             On(Delete(list, t), x, l) <=> On(list, x, l) /\ x # t
    BY <1>1, DeleteProperties, DeleteOnce DEF Live
  <2>2. \A x \in Threads, l \in ListIds :
          On(list', x, l) <=> On(Delete(list, t), x, l) \/ (x = t /\ l = prio[t])
    BY <1>10, <2>1, InsertBackOn
  <2>3. ASSUME NEW x \in Threads, pc'[x] # "none"
        PROVE  /\ state'[x] = "READY" => On(list', x, prio'[x])
               /\ state'[x] = "RUNNING" => x = current_thread'
    <3>1. CASE x = t
      BY <1>1, <1>8, <1>10, <2>1, <2>2, <3>1
    <3>2. CASE x # t
      <4>1. prio[x] \in ListIds /\ state'[x] = state[x] /\ pc[x] # "none"
        BY <1>1, <1>6, <1>10, <2>3, <3>2
      <4> QED BY <1>1, <1>8, <2>1, <2>2, <3>2, <4>1 DEF Settled, Me
    <3> QED BY <3>1, <3>2
  <2> QED BY <1>7, <1>8, <2>3 DEF Settled
<1> QED BY <1>4, <1>9, <1>10

\* The thread that was created is READY on its list.
LEMMA CreateInsertFinds == ASSUME Live, CreateInsert PROVE CPart' /\ Settled'
<1>1. /\ CPart /\ Settled /\ TypeOK /\ Idle \in Threads /\ NoThread \notin Threads
      /\ pc \in [Threads -> PCs] /\ thread_table \in [Tids -> Threads \cup {NoThread}]
      /\ arg \in [Threads -> Threads \cup (0 .. MaxThread) \cup {NoThread}]
      /\ tid \in [Threads -> Tids] /\ prio \in [Threads -> ListIds]
      /\ list \in [ListIds -> Seq(Threads)]
      /\ UNCHANGED <<state, prio, tid, current_thread, fault>>
  BY LiveFacts, ListNumbers DEF CreateInsert
<1>2. PICK c \in Threads : c = Me /\ pc[c] = "create" /\ c # Idle
  BY <1>1 DEF CreateInsert, AtSection, Me, TypeOK, CPart, IdleHere
<1>3. PICK u \in Threads : /\ u = arg[c] /\ pc[u] = "none" /\ u # c /\ u # Idle
                           /\ prio[u] < MaxPrio - 1 /\ state[u] = "READY"
  BY <1>1, <1>2, LiveFacts DEF TInv, ArgOK, CreateHere, CPart, IdleHere, AboveIdle
<1>4. PICK p \in {"user", "sched"} : pc' = [pc EXCEPT ![u] = "user", ![c] = p]
  BY <1>2, <1>3 DEF CreateInsert
<1>5. /\ thread_table' = [thread_table EXCEPT ![tid[u]] = u]
      /\ arg' = [arg EXCEPT ![c] = NoThread]
      /\ list' = InsertBack(list, prio[u], u)
  BY <1>2, <1>3 DEF CreateInsert, EnterTable
<1>6. /\ \A t \in Threads \ {u, c} : pc'[t] = pc[t] /\ arg'[t] = arg[t]
      /\ pc'[u] = "user" /\ pc'[c] = p
  BY <1>1, <1>3, <1>4, <1>5
<1>7. IdleHere'
  BY <1>1, <1>2, <1>3, <1>6 DEF CPart, IdleHere
<1>8. AboveIdle'
  <2>1. ASSUME NEW t \in Threads \ {Idle}, pc'[t] # "none"
        PROVE  prio[t] < MaxPrio - 1
    BY <1>1, <1>2, <1>3, <1>6, <2>1 DEF CPart, AboveIdle
  <2>2. ASSUME NEW t \in Threads, pc'[t] = "create"
        PROVE  prio[arg'[t]] < MaxPrio - 1
    BY <1>1, <1>6, <2>2 DEF CPart, AboveIdle
  <2> QED BY <1>1, <2>1, <2>2 DEF AboveIdle
<1>9. ArgsHere'
  <2>1. \A i \in Tids : thread_table[i] # NoThread => thread_table'[i] # NoThread
    BY <1>1, <1>5
  <2>2. ASSUME NEW t \in Threads, pc'[t] \in {"suspend", "resume"}
        PROVE  /\ pc'[t] = "suspend" => arg'[t] = tid[t]
               /\ arg'[t] \in Tids /\ thread_table'[arg'[t]] # NoThread
               /\ current_thread # Idle /\ state[t] \in {"READY", "RUNNING"}
    <3>1. pc[t] = pc'[t] /\ arg'[t] = arg[t]
      BY <1>6, <2>2
    <3> QED BY <1>1, <2>1, <2>2, <3>1 DEF CPart, ArgsHere
  <2> QED BY <1>1, <2>2 DEF ArgsHere
<1>10. \A x \in Threads, l \in ListIds :
         On(list', x, l) <=> On(list, x, l) \/ (x = u /\ l = prio[u])
  <2>1. prio[u] \in ListIds /\ list \in [ListIds -> Seq(Threads)]
    BY <1>1
  <2>2. \A x \in Threads, l \in ListIds :
          On(InsertBack(list, prio[u], u), x, l) <=> On(list, x, l) \/ (x = u /\ l = prio[u])
    BY <2>1, InsertBackOn
  <2> QED BY <1>5, <2>2
<1>11. ASSUME NEW x \in Threads, pc'[x] # "none"
       PROVE  /\ state'[x] = "READY" => On(list', x, prio'[x])
              /\ state'[x] = "RUNNING" => x = current_thread'
  <2>1. prio[x] \in ListIds
    BY <1>1
  <2>2. CASE x = u
    BY <1>1, <1>3, <1>10, <2>1, <2>2
  <2>3. CASE x # u
    <3>1. pc[x] # "none"
      BY <1>2, <1>6, <1>11, <2>3
    <3> QED BY <1>1, <1>10, <2>1, <3>1 DEF Settled
  <2> QED BY <2>2, <2>3
<1>12. current_thread' # NoThread /\ state'[current_thread'] \in {"READY", "RUNNING"}
  BY <1>1, <1>2 DEF Settled, Me
<1> QED BY <1>1, <1>7, <1>8, <1>9, <1>11, <1>12 DEF CPart, Settled

\* thread_create fills a structure nobody uses.
LEMMA FillFinds ==
  ASSUME Live, NEW u \in Threads, Unused(u), NEW i \in Tids,
         NEW p \in Prios, p < MaxPrio - 1, FillStruct(u, i, p),
         UNCHANGED <<current_thread, fault>>,
         \A j \in Tids : thread_table[j] # NoThread => thread_table'[j] # NoThread,
         \/ /\ pc' = [pc EXCEPT ![u] = "user"] /\ arg' = arg
            /\ current_thread = NoThread /\ list' = InsertBack(list, p, u)
         \/ \E c \in Threads \ {Idle} :
              /\ pc[c] = "user" /\ pc' = [pc EXCEPT ![c] = "create"]
              /\ arg' = [arg EXCEPT ![c] = u] /\ list' = list
  PROVE  CPart' /\ Settled'
<1>0. /\ CPart /\ Settled /\ TypeOK /\ Idle \in Threads /\ NoThread \notin Threads
      /\ list \in [ListIds -> Seq(Threads)] /\ prio \in [Threads -> ListIds]
      /\ p \in ListIds
  BY LiveFacts, ListNumbers
<1>1. /\ u # Idle /\ pc[u] = "none" /\ \A t \in Threads : arg[t] # u
      /\ prio'[u] = p
      /\ \A t \in Threads \ {u} : /\ prio'[t] = prio[t] /\ tid'[t] = tid[t]
                                  /\ state'[t] = state[t]
  BY <1>0 DEF Unused, FillStruct, TypeOK
<1>2. PICK c \in Threads : /\ c # Idle /\ (c = u \/ pc[c] = "user")
                           /\ pc'[c] \in {"user", "create"}
                           /\ pc'[c] = "create" => arg'[c] = u /\ c # u
                           /\ c = u => current_thread = NoThread /\ list' = InsertBack(list, p, u)
                           /\ c # u => list' = list
                           /\ \A t \in Threads \ {c} : /\ pc'[t] = pc[t]
                                                       /\ arg'[t] = arg[t]
  <2>1. CASE /\ pc' = [pc EXCEPT ![u] = "user"] /\ arg' = arg
             /\ current_thread = NoThread /\ list' = InsertBack(list, p, u)
    BY <1>0, <1>1, <2>1 DEF TypeOK
  <2>2. ASSUME NEW c \in Threads \ {Idle}, pc[c] = "user", list' = list,
               pc' = [pc EXCEPT ![c] = "create"], arg' = [arg EXCEPT ![c] = u]
        PROVE  /\ c # Idle /\ (c = u \/ pc[c] = "user")
               /\ pc'[c] \in {"user", "create"}
               /\ pc'[c] = "create" => arg'[c] = u /\ c # u
               /\ c # u /\ list' = list
               /\ \A t \in Threads \ {c} : pc'[t] = pc[t] /\ arg'[t] = arg[t]
    BY <1>0, <1>1, <2>2 DEF TypeOK
  <2> QED BY <2>1, <2>2
<1>4. IdleHere'
  BY <1>0, <1>1, <1>2 DEF CPart, IdleHere
<1>5. AboveIdle'
  <2>1. ASSUME NEW t \in Threads \ {Idle}, pc'[t] # "none"
        PROVE  prio'[t] < MaxPrio - 1
    <3>1. CASE t = u
      BY <1>1, <3>1
    <3>2. CASE t # u
      <4>1. pc[t] # "none"
        BY <1>2, <2>1, <3>2
      <4> QED BY <1>0, <1>1, <3>2, <4>1 DEF CPart, AboveIdle
    <3> QED BY <3>1, <3>2
  <2>2. ASSUME NEW t \in Threads, pc'[t] = "create"
        PROVE  prio'[arg'[t]] < MaxPrio - 1
    <3>1. CASE t = c
      BY <1>1, <1>2, <2>2, <3>1
    <3>2. CASE t # c
      <4>1. pc[t] = "create" /\ arg'[t] = arg[t] /\ arg[t] # u
        BY <1>1, <1>2, <2>2, <3>2
      <4>2. prio[arg[t]] < MaxPrio - 1
        BY <1>0, <4>1 DEF CPart, AboveIdle
      <4>3. prio'[arg[t]] = prio[arg[t]]
        BY <4>1 DEF FillStruct
      <4> QED BY <4>1, <4>2, <4>3
    <3> QED BY <3>1, <3>2
  <2> QED BY <2>1, <2>2 DEF AboveIdle
<1>6. ArgsHere'
  <2>1. ASSUME NEW t \in Threads, pc'[t] \in {"suspend", "resume"}
        PROVE  pc[t] = pc'[t] /\ t # u /\ arg'[t] = arg[t]
    <3>1. t # c
      BY <1>2, <2>1
    <3>2. pc'[t] = pc[t] /\ arg'[t] = arg[t]
      BY <1>2, <3>1
    <3> QED BY <1>1, <2>1, <3>2
  <2>2. ASSUME NEW t \in Threads, pc'[t] \in {"suspend", "resume"}
        PROVE  /\ pc'[t] = "suspend" => arg'[t] = tid'[t]
               /\ arg'[t] \in Tids /\ thread_table'[arg'[t]] # NoThread
               /\ current_thread' # Idle /\ state'[t] \in {"READY", "RUNNING"}
    <3>1. pc[t] = pc'[t] /\ t # u /\ arg'[t] = arg[t]
      BY <2>1, <2>2
    <3>2. /\ pc[t] = "suspend" => arg[t] = tid[t]
          /\ arg[t] \in Tids /\ thread_table[arg[t]] # NoThread
          /\ current_thread # Idle /\ state[t] \in {"READY", "RUNNING"}
      BY <1>0, <2>2, <3>1 DEF CPart, ArgsHere
    <3>3. tid'[t] = tid[t] /\ state'[t] = state[t]
      BY <1>1, <3>1
    <3> QED BY <3>1, <3>2, <3>3
  <2> QED BY <2>2 DEF ArgsHere
<1>7. \A x \in Threads, l \in ListIds :
        On(list', x, l) <=> On(list, x, l) \/ (c = u /\ x = u /\ l = p)
  <2>1. CASE c = u
    <3>1. \A x \in Threads, l \in ListIds :
            On(InsertBack(list, p, u), x, l) <=> On(list, x, l) \/ (x = u /\ l = p)
      BY <1>0, InsertBackOn
    <3> QED BY <1>2, <2>1, <3>1
  <2> QED BY <1>2, <2>1
<1>8. ASSUME NEW x \in Threads, pc'[x] # "none"
      PROVE  /\ state'[x] = "READY" => On(list', x, prio'[x])
             /\ state'[x] = "RUNNING" => x = current_thread'
  <2>1. CASE x = u
    <3>1. c = u /\ state'[u] = "READY"
      BY <1>0, <1>1, <1>2, <1>8, <2>1 DEF FillStruct, TypeOK
    <3> QED BY <1>0, <1>1, <1>7, <2>1, <3>1
  <2>2. CASE x # u
    <3>1. pc[x] # "none" /\ prio[x] \in ListIds
      BY <1>0, <1>2, <1>8, <2>2
    <3> QED BY <1>0, <1>1, <1>7, <2>2, <3>1 DEF Settled
  <2> QED BY <2>1, <2>2
<1>9. current_thread' # NoThread /\ pc'[current_thread'] # "leave" =>
        state'[current_thread'] \in {"READY", "RUNNING"}
  <2> SUFFICES ASSUME current_thread # NoThread, pc'[current_thread] # "leave"
               PROVE  state'[current_thread] \in {"READY", "RUNNING"}
    OBVIOUS
  <2>1. current_thread \in Threads /\ current_thread # u /\ c # u
    BY <1>1, <1>2, LiveFacts DEF CurrentHere
  <2>2. pc[current_thread] # "leave"
    BY <1>2, <2>1
  <2> QED BY <1>0, <1>1, <2>1, <2>2 DEF Settled
<1>10. Settled'
  BY <1>8, <1>9 DEF Settled
<1> QED BY <1>0, <1>4, <1>5, <1>6, <1>10 DEF CPart

\* The running thread enters thread_suspend, for itself, or thread_resume.
LEMMA CheckFinds ==
  ASSUME Live, NEW c \in Threads, c = Me, c # Idle, pc[c] = "user",
         NEW p \in {"suspend", "resume"}, NEW i, CheckTid(i, p),
         p = "suspend" => i = tid[c], i \in Tids, thread_table[i] # NoThread
  PROVE  CPart' /\ Settled'
<1>1. /\ pc' = [pc EXCEPT ![c] = p] /\ arg' = [arg EXCEPT ![c] = i]
      /\ UNCHANGED <<current_thread, idVars, state, fault, list>>
      /\ pc \in [Threads -> PCs] /\ Idle \in Threads /\ NoThread \notin Threads
      /\ arg \in [Threads -> Threads \cup (0 .. MaxThread) \cup {NoThread}]
      /\ CPart /\ Settled /\ prio \in [Threads -> ListIds]
  BY LiveFacts, ListNumbers DEF CheckTid
<1>2. /\ pc'[c] = p /\ arg'[c] = i
      /\ \A t \in Threads \ {c} : pc'[t] = pc[t] /\ arg'[t] = arg[t]
  BY <1>1
<1>3. state[c] \in {"READY", "RUNNING"} /\ current_thread # Idle
  BY <1>1 DEF Settled, Me
<1>4. IdleHere' /\ AboveIdle'
  BY <1>1, <1>2 DEF CPart, IdleHere, AboveIdle, idVars
<1>5. ArgsHere'
  <2>1. ASSUME NEW t \in Threads, pc'[t] \in {"suspend", "resume"}
        PROVE  /\ pc'[t] = "suspend" => arg'[t] = tid[t]
               /\ arg'[t] \in Tids /\ thread_table[arg'[t]] # NoThread
               /\ current_thread # Idle /\ state[t] \in {"READY", "RUNNING"}
    <3>1. CASE t = c
      BY <1>2, <1>3, <3>1
    <3>2. CASE t # c
      BY <1>1, <1>2, <2>1, <3>2 DEF CPart, ArgsHere
    <3> QED BY <3>1, <3>2
  <2> QED BY <1>1, <2>1 DEF ArgsHere, idVars
<1>6. Settled'
  <2>1. \A t \in Threads : pc'[t] # "none" => pc[t] # "none"
    BY <1>2
  <2> QED BY <1>1, <1>2, <1>3, <2>1 DEF Settled, Me, idVars
<1> QED BY <1>1, <1>4, <1>5, <1>6 DEF CPart

LEMMA CPartNext ==
  ASSUME Live, Next, "suspend_other" \notin Calls, CallTids \subseteq Tids,
         UserPrios \subseteq Prios \ {MaxPrio - 1}
  PROVE  fault' = "none" /\ (Once(list') => CPart' /\ Settled')
<1>1. /\ TypeOK /\ CPart /\ NoThread \notin Threads
      /\ tid \in [Threads -> Tids] /\ current_thread \in Threads \cup {NoThread}
      /\ \A j \in Tids : thread_table[j] \in Threads \cup {NoThread}
  BY LiveFacts
<1>2. CPart' => fault' = "none"
  BY DEF CPart
<1>3. ASSUME NEW p \in UserPrios PROVE p \in Prios /\ p < MaxPrio - 1
  BY <1>3, PrioAssumption DEF Prios
<1>4. CASE SuspendCheck \/ ResumeCheck
  <2>1. PICK c \in Threads : c = Me /\ c # Idle /\ pc[c] = "user"
    BY <1>1, <1>4 DEF SuspendCheck, ResumeCheck, InUser, Me
  <2>2. CASE SuspendCheck
    <3>1. CheckTid(tid[c], "suspend")
      BY <2>1, <2>2 DEF SuspendCheck, InUser
    <3>2. tid[c] \in Tids /\ thread_table[tid[c]] # NoThread
      BY <1>1, <3>1, TableAssumption DEF CheckTid, Present, Tids
    <3> QED BY <1>2, <2>1, <3>1, <3>2, CheckFinds
  <2>3. CASE ResumeCheck
    <3>1. PICK i \in Tids : CheckTid(i, "resume")
      BY <2>3 DEF ResumeCheck
    <3>2. thread_table[i] # NoThread
      BY <3>1, TableAssumption DEF CheckTid, Present, Tids
    <3> QED BY <1>2, <2>1, <3>1, <3>2, CheckFinds
  <2> QED BY <1>4, <2>2, <2>3
<1>5. CASE MainCreate
  <2>1. PICK u \in Threads, i \in Tids, p \in UserPrios :
          Unused(u) /\ FillStruct(u, i, p) /\ EnterTable(u, i, p)
          /\ pc' = [pc EXCEPT ![u] = "user"]
    BY <1>5 DEF MainCreate
  <2>2. /\ \A j \in Tids : thread_table[j] # NoThread => thread_table'[j] # NoThread
        /\ list' = InsertBack(list, p, u)
    BY <1>1, <2>1 DEF EnterTable, TypeOK
  <2>3. UNCHANGED <<current_thread, fault, arg>> /\ current_thread = NoThread
    BY <1>5 DEF MainCreate
  <2> QED BY <1>2, <1>3, <2>1, <2>2, <2>3, FillFinds
<1>6. CASE CreateFill
  <2>1. PICK u \in Threads, i \in Tids, p \in UserPrios :
          /\ Unused(u) /\ FillStruct(u, i, p)
          /\ pc' = [pc EXCEPT ![Me] = "create"]
          /\ arg' = [arg EXCEPT ![Me] = u]
    BY <1>6 DEF CreateFill
  <2>2. PICK c \in Threads \ {Idle} : c = Me /\ pc[c] = "user"
    BY <1>1, <1>6 DEF CreateFill, InUser, Me
  <2>3. UNCHANGED <<current_thread, fault, thread_table, list>>
    BY <1>6 DEF CreateFill
  <2> QED BY <1>2, <1>3, <2>1, <2>2, <2>3, FillFinds
<1>7. CASE Delay \/ DeleteSelf
  <2>1. /\ Me # NoThread /\ Me # Idle /\ pc[Me] = "user"
        /\ pc' = [pc EXCEPT ![Me] = "leave"]
        /\ UNCHANGED <<current_thread, idVars, fault, arg>>
    BY <1>7 DEF Delay, DeleteSelf, InUser, Leave
  <2>2. PICK s \in {"DELAY", "TERMINATE"}, l \in ListIds :
          /\ state' = [state EXCEPT ![Me] = s] /\ list' = InsertBack(list, l, Me)
    BY <1>7, ListNumbers DEF Delay, DeleteSelf, Leave
  <2> QED BY <1>2, <2>1, <2>2, LeaveFinds DEF States
<1>8. CASE Yield
  <2>1. /\ UNCHANGED <<idVars, fault, state, current_thread, list, arg>>
        /\ pc' = [pc EXCEPT ![Me] = "sched"] /\ Me \in Threads /\ pc[Me] = "user"
    BY <1>1, <1>8 DEF Yield, InUser, Me
  <2> QED BY <1>2, <2>1, CPartMoves
<1>9. CASE \/ TickBegin \/ DeleteOther \/ Halted
  <2>1. UNCHANGED <<idVars, fault, state, current_thread, list, pc, arg>>
    BY <1>9 DEF TickBegin, DeleteOther, Halted, idVars, vars
  <2> QED BY <1>2, <2>1, CPartMoves
<1>10. CASE Section
  BY <1>2, <1>10, CreateInsertFinds, SuspendSectionFinds, ResumeSectionFinds DEF Section
<1>11. CASE TickStep \/ TickEnd \/ ScheduleRequest \/ IdleLoop \/ StartCurt
  BY <1>2, <1>11, TickStepFinds, TickEndFinds, ScheduleRequestFinds, IdleLoopFinds,
     StartCurtFinds
<1> QED BY <1>4, <1>5, <1>6, <1>7, <1>8, <1>9, <1>10, <1>11
     DEF Next, Tick, Call

LEMMA CInvInit == InitCurt => CInv
<1> SUFFICES ASSUME InitCurt PROVE CInv
  OBVIOUS
<1>1. HInv /\ MaxPrio - 1 \in Prios /\ Prios \subseteq ListIds
  BY HInvInit, ListNumbers, PrioAssumption DEF Prios
<1>2. \A p \in Prios : /\ list[p] # << >> => prio_exist_flag[p]
                       /\ prio_exist_flag[p] => list[p] # << >>
  BY ListNumbers DEF InitCurt
<1>3. CPart
  BY ThreadAssumption
     DEF InitCurt, CPart, IdleHere, AboveIdle, ArgsHere
<1>4. Settled
  <2>1. On(list, Idle, MaxPrio - 1)
    BY <1>1 DEF InitCurt, On
  <2> QED BY <2>1, ThreadAssumption DEF InitCurt, Settled
<1> QED BY <1>1, <1>2, <1>3, <1>4 DEF CInv, DInv, ReadyFlagged, StaleOK, CPart

\* What a step that only sets the IE bit or a counter leaves alone.
LEMMA CInvKept ==
  ASSUME CInv, DInv',
         UNCHANGED <<list, prio_exist_flag, current_thread, idVars, state, pc, arg, fault>>
  PROVE  CInv'
<1>1. StaleOK(FALSE)'
  BY DEF CInv, StaleOK
<1>2. Once(list) => CPart' /\ Settled'
  BY DEF CInv, CPart, IdleHere, AboveIdle, ArgsHere, Settled, On, idVars
<1> QED BY <1>1, <1>2 DEF CInv

LEMMA CInvNext ==
  ASSUME CInv, [Next]_vars, "suspend_other" \notin Calls, CallTids \subseteq Tids,
         UserPrios \subseteq Prios \ {MaxPrio - 1}
  PROVE  CInv'
<1>1. DInv'
  <2>1. Flagged(list', prio_exist_flag')
    BY ReadyFlaggedNext DEF CInv, DInv, HInv, ReadyFlagged, Flagged
  <2>2. HInv'
    BY HInvNext DEF CInv, DInv
  <2> QED BY <2>1, <2>2 DEF DInv, ReadyFlagged, Flagged
<1>2. CASE UNCHANGED vars
  BY <1>1, <1>2, CInvKept DEF vars, idVars
<1>3. CASE ~Once(list) /\ Next
  BY <1>2, <1>3, AliveOnce DEF Next, Halted
<1>4. CASE Live /\ Next
  <2>1. \A t \in Threads : pc[t] = "suspend" => arg[t] = tid[t]
    BY <1>4, LiveFacts DEF CPart, ArgsHere
  <2>2. StaleOK(FALSE)'
    BY <1>4, <2>1, LiveFacts, StaleNext
  <2>3. fault' = "none" /\ (Once(list') => CPart' /\ Settled')
    BY <1>4, CPartNext
  <2> QED BY <1>1, <2>2, <2>3 DEF CInv
<1> QED BY <1>2, <1>3, <1>4 DEF Live

\* Wherever the tick comes, the kernel never unlinks the tail of an empty ready
\* list, never indexes ready_list[MAX_PRIO] and never follows a thread pointer
\* that is not there, as long as its lists are lists.  The conditions are
\* needed: suspending another thread leaves a flag over an empty list (run
\* stale_flag); an id of MAX_THREAD passes the range checks of the services; and
\* a user thread at the idle thread's priority lets the idle thread reap the
\* thread that thread_resume has just checked.
THEOREM NeverCrashes ==
  ASSUME "suspend_other" \notin Calls, CallTids \subseteq Tids,
         UserPrios \subseteq Prios \ {MaxPrio - 1}
  PROVE  Spec => []NoCrash
<1>1. CInv /\ [Next]_vars => CInv'
  BY CInvNext
<1>2. CInv => NoCrash
  BY DEF CInv, NoCrash
<1> QED BY <1>1, <1>2, CInvInit, PTL DEF Spec

(***************************************************************************)
(* The kernel as a priority scheduler.  LInv says where each thread is;    *)
(* what follows says, for each kind of step, which step of                 *)
(* PriorityScheduler it is.                                                *)
(***************************************************************************)

Level(t) == IF pc[t] = "none" THEN MaxPrio ELSE prio[t]
Able == current_thread # NoThread /\ state[current_thread] = "RUNNING"

PriorityStep ==
  [Prioritized!Next]_<<[t \in Threads |-> IF pc[t] = "none" THEN MaxPrio ELSE prio[t]],
                       [p \in Prios |-> list[p]], current_thread,
                       current_thread # NoThread /\ state[current_thread] = "RUNNING">>

\* What a step may leave alone.
LevelsKept == \A t \in Threads : Level(t)' = Level(t)
QueuesKept == \A p \in Prios : list'[p] = list[p]
RunnerKept == current_thread' = current_thread /\ Able' = Able

\* Thread t goes behind the others of ready list p.
Grown(p, t) ==
  \A q \in Prios : list'[q] = IF q = p THEN Append(list[q], t) ELSE list[q]

LEMMA MappedLevels ==
  LevelsKept => [t \in Threads |-> IF pc'[t] = "none" THEN MaxPrio ELSE prio'[t]]
                  = [t \in Threads |-> IF pc[t] = "none" THEN MaxPrio ELSE prio[t]]
BY DEF LevelsKept, Level

LEMMA MappedGrown ==
  ASSUME NEW p \in Prios, NEW t, Grown(p, t)
  PROVE  [q \in Prios |-> list'[q]]
           = [[q \in Prios |-> list[q]] EXCEPT ![p] = Append(@, t)]
BY DEF Grown

LEMMA PriorityStutters ==
  ASSUME LevelsKept, QueuesKept, RunnerKept
  PROVE  PriorityStep
<1>1. [p \in Prios |-> list'[p]] = [p \in Prios |-> list[p]]
  BY DEF QueuesKept
<1> QED BY <1>1, MappedLevels DEF PriorityStep, RunnerKept, Able

\* insert_back_list, on a ready list or on another one.
LEMMA InsertGrows ==
  ASSUME NEW L \in [ListIds -> Seq(Threads)], NEW l \in ListIds,
         NEW t \in Threads, NEW q \in Prios
  PROVE  InsertBack(L, l, t)[q] = IF q = l THEN Append(L[q], t) ELSE L[q]
BY ListNumbers DEF InsertBack

LEMMA InsertElsewhere ==
  ASSUME NEW L \in [ListIds -> Seq(Threads)], NEW l \in ListIds \ Prios, NEW t
  PROVE  \A q \in Prios : InsertBack(L, l, t)[q] = L[q]
BY ListNumbers DEF InsertBack

\* A new thread, from main or by thread_create.
LEMMA AdmitStep ==
  ASSUME NEW u \in Threads, NEW p \in Prios, pc[u] = "none", pc'[u] # "none",
         prio'[u] = p, \A t \in Threads \ {u} : Level(t)' = Level(t),
         Grown(p, u), RunnerKept
  PROVE  PriorityStep
<1>1. [t \in Threads |-> IF pc'[t] = "none" THEN MaxPrio ELSE prio'[t]]
        = [[t \in Threads |-> IF pc[t] = "none" THEN MaxPrio ELSE prio[t]]
             EXCEPT ![u] = p]
  BY DEF Level
<1>2. Prioritized!Admit(u, p)
  BY <1>1, MappedGrown DEF Prioritized!Admit, Prioritized!Put, RunnerKept, Able
<1> QED BY <1>2 DEF PriorityStep, Prioritized!Next

\* A thread on no ready list becomes ready: its delay is over, it is resumed
\* or it gets what it waited for.
LEMMA WakeStep ==
  ASSUME NEW t \in Threads, pc[t] # "none", prio[t] \in Prios,
         t # current_thread, \A p \in Prios : ~On(list, t, p),
         LevelsKept, Grown(prio[t], t), RunnerKept
  PROVE  PriorityStep
<1>1. prio[t] # MaxPrio
  BY PrioAssumption DEF Prios
<1>2. Prioritized!Wake(t)
  BY <1>1, MappedLevels, MappedGrown
     DEF Prioritized!Wake, Prioritized!Put, Prioritized!Queued, On, RunnerKept, Able
<1> QED BY <1>2 DEF PriorityStep, Prioritized!Next

LEMMA SameRemoveAt == \A s, i : Prioritized!RemoveAt(s, i) = RemoveAt(s, i)
BY DEF Prioritized!RemoveAt, RemoveAt

\* thread_suspend of a ready thread of lower priority.
LEMMA WithdrawStep ==
  ASSUME Able, current_thread \in Threads, pc[current_thread] # "none",
         NEW t \in Threads, pc[t] # "none", prio[t] \in Prios,
         prio[current_thread] < prio[t],
         NEW i \in DOMAIN list[prio[t]], list[prio[t]][i] = t,
         \A q \in Prios : list'[q] = IF q = prio[t] THEN RemoveAt(list[q], i)
                                                    ELSE list[q],
         LevelsKept, RunnerKept
  PROVE  PriorityStep
<1>1. prio[t] # MaxPrio
  BY PrioAssumption DEF Prios
<1>2. [q \in Prios |-> list'[q]]
        = [[q \in Prios |-> list[q]] EXCEPT ![prio[t]] = RemoveAt(@, i)]
  OBVIOUS
<1> DEFINE levels == [u \in Threads |-> IF pc[u] = "none" THEN MaxPrio ELSE prio[u]]
           queues == [q \in Prios |-> list[q]]
<1>3. /\ levels[t] = prio[t] /\ levels[current_thread] = prio[current_thread]
      /\ queues[prio[t]] = list[prio[t]]
  OBVIOUS
<1>4. /\ levels' = levels
      /\ queues' = [queues EXCEPT ![prio[t]] = RemoveAt(@, i)]
  BY <1>2, MappedLevels
<1>5. (/\ current_thread # NoThread
       /\ state[current_thread] = "RUNNING")' = Able
  BY DEF RunnerKept, Able
<1> HIDE DEF levels, queues
<1>6. /\ Able /\ levels[t] # MaxPrio /\ levels[current_thread] < levels[t]
      /\ \E j \in DOMAIN queues[levels[t]] :
           /\ queues[levels[t]][j] = t
           /\ queues' = [queues EXCEPT ![levels[t]] = RemoveAt(@, j)]
  BY <1>1, <1>3, <1>4
<1>7. Prioritized!Withdraw(t)
  BY SameRemoveAt, <1>4, <1>5, <1>6 DEF Prioritized!Withdraw, RunnerKept, Able, levels, queues
<1> QED BY <1>7 DEF PriorityStep, Prioritized!Next

\* The running thread leaves for a list that is not a ready list.
LEMMA GiveUpStep ==
  ASSUME Able, ~Able', current_thread' = current_thread, LevelsKept, QueuesKept
  PROVE  PriorityStep
<1>1. [p \in Prios |-> list'[p]] = [p \in Prios |-> list[p]]
  BY DEF QueuesKept
<1>2. Prioritized!GiveUp
  BY <1>1, MappedLevels DEF Prioritized!GiveUp, Able
<1> QED BY <1>2 DEF PriorityStep, Prioritized!Next

\* The idle thread reaps a terminated thread.
LEMMA RetireStep ==
  ASSUME NEW t \in Threads, pc[t] # "none", pc'[t] = "none", prio[t] \in Prios,
         t # current_thread, \A p \in Prios : ~On(list, t, p),
         \A u \in Threads \ {t} : Level(u)' = Level(u), QueuesKept, RunnerKept
  PROVE  PriorityStep
<1>1. prio[t] # MaxPrio
  BY PrioAssumption DEF Prios
<1>2. [u \in Threads |-> IF pc'[u] = "none" THEN MaxPrio ELSE prio'[u]]
        = [[u \in Threads |-> IF pc[u] = "none" THEN MaxPrio ELSE prio[u]]
             EXCEPT ![t] = MaxPrio]
  BY DEF Level
<1>3. [p \in Prios |-> list'[p]] = [p \in Prios |-> list[p]]
  BY DEF QueuesKept
<1>4. Prioritized!Retire(t)
  BY <1>1, <1>2, <1>3
     DEF Prioritized!Retire, Prioritized!Queued, On, RunnerKept, Able
<1> QED BY <1>4 DEF PriorityStep, Prioritized!Next

\* The ready lists with the front of p popped; the step then queues a thread
\* that could run on.
Popped(L, p) == \A q \in Prios : L[q] = IF q = p THEN Tail(list[q]) ELSE list[q]

Requeued(L, p) ==
  /\ Able => /\ current_thread \in Threads /\ pc[current_thread] # "none"
             /\ prio[current_thread] \in Prios /\ p <= prio[current_thread]
             /\ \A q \in Prios :
                  list'[q] = IF q = prio[current_thread]
                             THEN Append(L[q], current_thread) ELSE L[q]
  /\ ~Able => \A q \in Prios : list'[q] = L[q]

\* schedule() and start_curt pop the front of the highest ready list.
LEMMA SwitchStep ==
  ASSUME NEW p \in Prios, list[p] # << >>,
         \A q \in Prios : q < p => list[q] = << >>,
         NEW L, Popped(L, p), Requeued(L, p),
         current_thread' = Head(list[p]), Able', LevelsKept
  PROVE  PriorityStep
<1> DEFINE levels == [u \in Threads |-> IF pc[u] = "none" THEN MaxPrio ELSE prio[u]]
           queues == [q \in Prios |-> list[q]]
           popped == [queues EXCEPT ![p] = Tail(@)]
<1>1. queues[p] = list[p] /\ \A q \in Prios : q < p => queues[q] = << >>
  OBVIOUS
<1>2. popped = [q \in Prios |-> L[q]]
  BY DEF Popped
<1>3. levels' = levels
  BY MappedLevels
<1>4. (current_thread # NoThread /\ state[current_thread] = "RUNNING")' = TRUE
  BY DEF Able
<1>5. ~Able => queues' = popped
  BY <1>2 DEF Requeued
<1>6. Able => /\ p <= levels[current_thread]
              /\ queues' = [popped EXCEPT ![levels[current_thread]] =
                              Append(@, current_thread)]
  <2> SUFFICES ASSUME Able
               PROVE  /\ p <= prio[current_thread]
                      /\ levels[current_thread] = prio[current_thread]
                      /\ queues' = [popped EXCEPT ![prio[current_thread]] =
                                      Append(@, current_thread)]
    OBVIOUS
  <2> DEFINE c == current_thread
  <2>1. /\ c \in Threads /\ pc[c] # "none" /\ prio[c] \in Prios /\ p <= prio[c]
        /\ \A q \in Prios : list'[q] = IF q = prio[c] THEN Append(L[q], c) ELSE L[q]
    BY DEF Requeued
  <2>2. levels[c] = prio[c]
    BY <2>1
  <2> HIDE DEF popped, levels
  <2>3. [popped EXCEPT ![prio[c]] = Append(@, c)]
          = [q \in Prios |-> IF q = prio[c] THEN Append(L[q], c) ELSE L[q]]
    BY <1>2, <2>1
  <2>4. queues' = [q \in Prios |-> IF q = prio[c] THEN Append(L[q], c) ELSE L[q]]
    BY <2>1
  <2> QED BY <2>1, <2>2, <2>3, <2>4
<1> HIDE DEF levels, queues, popped
<1>7. Prioritized!Switch(p)
  BY <1>1, <1>3, <1>4, <1>5, <1>6
     DEF Prioritized!Switch, Prioritized!Put, Able, levels, queues, popped
<1> QED BY <1>7 DEF PriorityStep, Prioritized!Next

\* The two cases of schedule() that switch threads.
LEMMA DispatchStep ==
  ASSUME LInv, DInv, current_thread # NoThread, NEW top \in 0 .. MaxPrio,
         IsTopPrio(top), ~NoneToPop(top), NEW e \in BOOLEAN, Dispatch(top, e),
         e => ~OutranksReady(top) /\ state[current_thread] = "RUNNING",
         ~Keeps(top), LevelsKept
  PROVE  PriorityStep
<1>1. PICK c \in Threads : /\ c = current_thread /\ pc[c] # "none"
                           /\ prio[c] \in Prios /\ prio[c] \in ListIds
                           /\ state[c] \in States
  BY ListNumbers DEF LInv, TInv, TypeOK, CurrentOK
<1>2. /\ list \in [ListIds -> Seq(Threads)] /\ state \in [Threads -> States]
      /\ TypeOK /\ Once(list) /\ Lodged
  BY DEF DInv, HInv, LInv, TInv, TypeOK
<1>3. PICK n \in Threads : /\ n = Head(list[top]) /\ state[n] = "READY"
                           /\ top \in Prios /\ top \in ListIds
                           /\ list[top] # << >>
  BY <1>2, TopReady
<1>4. n # c
  BY <1>1, <1>3 DEF LInv, CurrentOK
<1> DEFINE L == DeleteFront(list, top)
<1>5. /\ L \in [ListIds -> Seq(Threads)]
      /\ \A q \in Prios : L[q] = IF q = top THEN Tail(list[q]) ELSE list[q]
  BY <1>2, <1>3, DeleteFrontProperties, ListNumbers DEF DeleteFront
<1>6. Able <=> state[c] = "RUNNING"
  BY <1>1 DEF Able
<1>7. [state EXCEPT ![n] = "RUNNING"][c] = state[c]
  BY <1>1, <1>2, <1>4
<1>8. current_thread' = n
  BY <1>3 DEF Dispatch
<1>9. /\ Able => /\ list' = InsertBack(L, prio[c], c)
                 /\ state' = [[state EXCEPT ![n] = "RUNNING"] EXCEPT ![c] = "READY"]
      /\ ~Able => list' = L /\ state' = [state EXCEPT ![n] = "RUNNING"]
  BY <1>1, <1>3, <1>6, <1>7 DEF Dispatch
<1> HIDE DEF L
<1>10. Able'
  <2>1. state'[n] = "RUNNING"
    BY <1>1, <1>2, <1>4, <1>9
  <2> QED BY <1>8, <2>1, ThreadAssumption DEF Able
<1>11. \A q \in Prios : q < top => list[q] = << >>
  BY TopHighest DEF Prios
<1>12. Able => /\ top <= prio[c]
               /\ \A q \in Prios : list'[q] = IF q = prio[c] THEN Append(L[q], c)
                                                             ELSE L[q]
  <2> SUFFICES ASSUME Able PROVE /\ top <= prio[c]
                                 /\ list' = InsertBack(L, prio[c], c)
    BY <1>1, <1>5, InsertGrows
  <2>1. ~OutranksReady(top)
    BY <1>1, <1>6 DEF Keeps
  <2> QED BY <1>1, <1>3, <1>9, <2>1 DEF OutranksReady, Prios
<1>13. Able => /\ current_thread \in Threads /\ pc[current_thread] # "none"
               /\ prio[current_thread] \in Prios /\ top <= prio[current_thread]
               /\ \A q \in Prios :
                    list'[q] = IF q = prio[current_thread]
                               THEN Append(L[q], current_thread) ELSE L[q]
  BY <1>1, <1>12
<1>14. ~Able => \A q \in Prios : list'[q] = L[q]
  BY <1>9
<1>15. current_thread' = Head(list[top])
  BY <1>3, <1>8
<1>16. Popped(L, top) /\ Requeued(L, top)
  BY <1>5, <1>13, <1>14 DEF Popped, Requeued
<1> QED BY <1>3, <1>10, <1>11, <1>15, <1>16, SwitchStep

\* A step that leaves lists, states and the processor alone, and the priority
\* of every thread there is.
LEMMA KeptStep ==
  ASSUME UNCHANGED <<list, current_thread, state>>,
         \A t \in Threads : /\ pc'[t] = "none" <=> pc[t] = "none"
                            /\ pc[t] # "none" => prio'[t] = prio[t]
  PROVE  PriorityStep
<1>1. LevelsKept
  BY DEF LevelsKept, Level
<1>2. QueuesKept /\ RunnerKept
  BY DEF QueuesKept, RunnerKept, Able
<1> QED BY <1>1, <1>2, PriorityStutters

\* The same, when only the running thread's place in its code changes.
LEMMA MyStepKept ==
  ASSUME LInv, current_thread \in Threads, pc[current_thread] # "none",
         NEW s \in PCs \ {"none"},
         pc' = [pc EXCEPT ![current_thread] = s],
         UNCHANGED <<list, current_thread, state, prio>>
  PROVE  PriorityStep
<1>1. \A t \in Threads : pc'[t] = "none" <=> pc[t] = "none"
  BY DEF LInv, TInv, TypeOK
<1> QED BY <1>1, KeptStep

LEMMA CrashStep == ASSUME NEW f, Crash(f) PROVE PriorityStep
BY KeptStep DEF Crash, idVars

LEMMA MainCreateStep == ASSUME LInv, MainCreate PROVE PriorityStep
<1>1. PICK u \in Threads, i \in Tids, p \in UserPrios :
        /\ Unused(u) /\ FillStruct(u, i, p) /\ EnterTable(u, i, p)
        /\ pc' = [pc EXCEPT ![u] = "user"]
        /\ current_thread' = current_thread /\ current_thread = NoThread
  BY DEF MainCreate
<1>2. /\ p \in Prios /\ p \in ListIds /\ pc[u] = "none"
      /\ list \in [ListIds -> Seq(Threads)]
      /\ pc \in [Threads -> PCs] /\ prio \in [Threads -> Prios]
  BY <1>1, CallAssumption, ListNumbers DEF Unused, LInv, TInv, TypeOK
<1>3. Grown(p, u)
  BY <1>1, <1>2, InsertGrows DEF EnterTable, Grown
<1>4. /\ pc'[u] # "none" /\ prio'[u] = p
      /\ \A t \in Threads \ {u} : Level(t)' = Level(t)
  BY <1>1, <1>2 DEF FillStruct, Level
<1>5. RunnerKept
  BY <1>1 DEF RunnerKept, Able
<1> QED BY <1>2, <1>3, <1>4, <1>5, AdmitStep

LEMMA StartCurtStep == ASSUME LInv, DInv, StartCurt PROVE PriorityStep
<1>1. PICK top \in Prios :
        /\ IsTopPrio(top)
        /\ current_thread' = Head(list[top])
        /\ list' = DeleteFront(list, top)
        /\ state' = [state EXCEPT ![Head(list[top])] = "RUNNING"]
        /\ UNCHANGED <<prio, pc>>
  BY DEF StartCurt, idVars
<1>2. /\ current_thread = NoThread /\ top \in 0 .. MaxPrio
      /\ list \in [ListIds -> Seq(Threads)] /\ state \in [Threads -> States]
      /\ top \in ListIds
  <2>1. TypeOK
    BY DEF LInv, TInv
  <2>2. current_thread = NoThread
    BY DEF StartCurt
  <2> QED BY <2>1, <2>2, ListNumbers, PrioAssumption DEF TypeOK, Prios
<1>3. list[top] # << >>
  <2>1. prio_exist_flag[top]
    BY <1>1, PrioAssumption DEF IsTopPrio, Prios
  <2> QED BY <1>2, <2>1 DEF LInv, TInv, StartOK
<1> DEFINE L == DeleteFront(list, top)
<1>4. Head(list[top]) \in Threads
  BY <1>2, <1>3, DeleteFrontProperties
<1>5. Able'
  BY <1>1, <1>2, <1>4, ThreadAssumption DEF Able
<1>6. \A q \in Prios : q < top => list[q] = << >>
  BY <1>1, <1>2, TopHighest DEF Prios
<1>7. \A q \in Prios : L[q] = IF q = top THEN Tail(list[q]) ELSE list[q]
  BY <1>2, ListNumbers DEF DeleteFront
<1>8. LevelsKept
  BY <1>1 DEF LevelsKept, Level
<1>9. ~Able
  BY <1>2 DEF Able
<1>10. \A q \in Prios : list'[q] = L[q]
  BY <1>1
<1> HIDE DEF L
<1>11. Popped(L, top) /\ Requeued(L, top)
  BY <1>7, <1>9, <1>10 DEF Popped, Requeued
<1> QED BY <1>1, <1>3, <1>5, <1>6, <1>8, <1>11, SwitchStep

LEMMA ScheduleRequestStep ==
  ASSUME LInv, DInv, ScheduleRequest
  PROVE  PriorityStep
<1> DEFINE c == current_thread
<1>1. /\ c # NoThread /\ pc[c] \in {"sched", "leave"}
      /\ c \in Threads /\ pc \in [Threads -> PCs]
  BY DEF ScheduleRequest, LInv, TInv, TypeOK
<1>2. PICK top \in 0 .. MaxPrio :
       /\ IsTopPrio(top)
       /\ \/ /\ pc' = [pc EXCEPT ![c] = "user"]
             /\ UNCHANGED <<list, current_thread, prio, state>>
          \/ Crash(PopFault(top))
          \/ /\ ~Keeps(top) /\ ~NoneToPop(top) /\ Dispatch(top, FALSE)
             /\ pc' = [pc EXCEPT ![c] = "user"]
             /\ prio' = prio
  BY DEF ScheduleRequest, idVars
<1>3. CASE /\ pc' = [pc EXCEPT ![c] = "user"]
           /\ UNCHANGED <<list, current_thread, prio, state>>
  BY <1>1, <1>3, MyStepKept DEF PCs
<1>4. CASE Crash(PopFault(top))
  BY <1>4, CrashStep
<1>5. CASE /\ ~Keeps(top) /\ ~NoneToPop(top) /\ Dispatch(top, FALSE)
           /\ pc' = [pc EXCEPT ![c] = "user"]
           /\ prio' = prio
  <2>1. LevelsKept
    BY <1>1, <1>5 DEF LevelsKept, Level
  <2> QED BY <1>1, <1>2, <1>5, <2>1, DispatchStep
<1> QED BY <1>2, <1>3, <1>4, <1>5

LEMMA TickStepStep == ASSUME LInv, TickStep PROVE PriorityStep
<1> DEFINE t == list[Delayed][cursor]
           cut == [list EXCEPT ![Delayed] = RemoveAt(@, cursor)]
<1>1. /\ TypeOK /\ AtHome /\ list \in [ListIds -> Seq(Threads)]
      /\ Delayed \in ListIds /\ cursor \in DOMAIN list[Delayed]
      /\ UNCHANGED <<current_thread, prio, pc>>
  BY ListNumbers DEF LInv, TInv, TypeOK, TickStep, idVars
<1>2. cursor \in 1 .. Len(list[Delayed]) /\ t \in Threads /\ On(list, t, Delayed)
  <2>1. list[Delayed] \in Seq(Threads)
    BY <1>1
  <2> QED BY <1>1, <2>1, LenProperties DEF On
<1>3. current_thread # NoThread /\ state[current_thread] = "RUNNING"
  BY <1>2, NoWindowInTick
<1>4. /\ pc[t] # "none" /\ state[t] = "DELAY" /\ prio[t] \in Prios
      /\ prio[t] \in ListIds
  <2>1. pc[t] # "none" /\ Delayed \in Homes(state[t], prio[t])
    BY <1>1, <1>2 DEF AtHome, Placed
  <2>2. state[t] \in States /\ prio[t] \in Prios
    BY <1>1, <1>2 DEF TypeOK
  <2> HIDE DEF t
  <2> QED BY <2>1, <2>2, HomeLists, ListNumbers
<1>5. \A p \in Prios : ~On(list, t, p)
  BY <1>1, <1>2, <1>4, ListNumbers DEF LInv, Once, On
<1>6. LevelsKept
  BY <1>1 DEF LevelsKept, Level
<1>7. CASE list' = InsertBack(cut, prio[t], t) /\ state' = [state EXCEPT ![t] = "READY"]
  <2>1. cut \in [ListIds -> Seq(Threads)] /\ \A q \in Prios : cut[q] = list[q]
    <3>1. RemoveAt(list[Delayed], cursor) \in Seq(Threads)
      BY <1>1, <1>2, RemoveAtProperties
    <3> QED BY <1>1, <3>1, ListNumbers
  <2> HIDE DEF cut, t
  <2>2. Grown(prio[t], t)
    BY <1>2, <1>4, <1>7, <2>1, InsertGrows DEF Grown
  <2>3. t # current_thread
    BY <1>3, <1>4
  <2>4. RunnerKept
    BY <1>1, <1>2, <1>7, <2>3 DEF RunnerKept, Able, TypeOK
  <2> QED BY <1>2, <1>4, <1>5, <1>6, <2>2, <2>3, <2>4, WakeStep
<1>8. CASE UNCHANGED <<list, state>>
  BY <1>1, <1>8, KeptStep
<1>9. \/ list' = InsertBack(cut, prio[t], t) /\ state' = [state EXCEPT ![t] = "READY"]
      \/ UNCHANGED <<list, state>>
  BY DEF TickStep
<1> QED BY <1>7, <1>8, <1>9

LEMMA TickEndStep == ASSUME LInv, DInv, TickEnd PROVE PriorityStep
<1>1. current_thread # NoThread /\ state[current_thread] = "RUNNING"
  <2>1. Len(list[Delayed]) \in Nat
    BY ListNumbers, LenProperties DEF LInv, TInv, TypeOK
  <2>2. cursor # 0
    BY <2>1 DEF TickEnd
  <2> QED BY <2>2, NoWindowInTick
<1>2. CASE UNCHANGED <<list, current_thread, prio, state, pc>>
  BY <1>2, KeptStep
<1>3. CASE ScheduleExpire
  <2>1. PICK top \in 0 .. MaxPrio :
         /\ IsTopPrio(top)
         /\ \/ UNCHANGED <<list, current_thread, prio, state, pc>>
            \/ Crash(PopFault(top))
            \/ /\ ~OutranksReady(top) /\ ~NoneToPop(top) /\ Dispatch(top, TRUE)
               /\ UNCHANGED <<prio, pc>>
    BY <1>3 DEF ScheduleExpire, idVars
  <2>2. CASE Crash(PopFault(top))
    BY <2>2, CrashStep
  <2>3. CASE /\ ~OutranksReady(top) /\ ~NoneToPop(top) /\ Dispatch(top, TRUE)
             /\ UNCHANGED <<prio, pc>>
    <3>1. LevelsKept /\ ~Keeps(top)
      BY <2>3 DEF LevelsKept, Level, Keeps
    <3> QED BY <1>1, <2>1, <2>3, <3>1, DispatchStep
  <2> QED BY <1>2, <2>1, <2>2, <2>3
<1> QED BY <1>2, <1>3 DEF TickEnd, idVars

LEMMA IdleLoopStep == ASSUME LInv, IdleLoop PROVE PriorityStep
<1>1. /\ current_thread = Idle /\ pc[Idle] = "user" /\ Idle \in Threads
      /\ Idle # NoThread /\ TypeOK /\ AtHome /\ Once(list)
      /\ UNCHANGED <<current_thread, state, prio>>
  BY ThreadAssumption DEF IdleLoop, LInv, TInv
<1>2. CASE pc' = [pc EXCEPT ![Idle] = "sched"] /\ list' = list
  BY <1>1, <1>2, MyStepKept DEF PCs
<1>3. CASE /\ list[Terminated] # << >>
           /\ list' = DeleteFront(list, Terminated)
           /\ pc' = [pc EXCEPT ![Head(list[Terminated])] = "none", ![Idle] = "sched"]
  <2>1. PICK t \in Threads : t = Head(list[Terminated]) /\ On(list, t, Terminated)
    BY <1>1, <1>3, DeleteFrontOnce, ListNumbers DEF TypeOK
  <2>2. /\ pc[t] # "none" /\ state[t] = "TERMINATE" /\ prio[t] \in Prios
    <3>1. /\ pc[t] # "none" /\ Terminated \in Homes(state[t], prio[t])
          /\ state[t] \in States /\ prio[t] \in Prios
      BY <1>1, <2>1, ListNumbers DEF AtHome, Placed, TypeOK
    <3> QED BY <3>1, HomeLists
  <2>3. t # Idle
    BY <1>1, <2>2, CurrentUnlinked
  <2>4. \A p \in Prios : ~On(list, t, p)
    BY <1>1, <2>1, ListNumbers DEF Once, On
  <2>5. /\ pc'[t] = "none"
        /\ \A u \in Threads \ {t} : Level(u)' = Level(u)
    <3>1. /\ pc \in [Threads -> PCs]
          /\ pc' = [pc EXCEPT ![t] = "none", ![Idle] = "sched"]
      BY <1>1, <1>3, <2>1 DEF TypeOK
    <3>2. pc'[t] = "none" /\ pc'[Idle] = "sched"
          /\ \A u \in Threads \ {t, Idle} : pc'[u] = pc[u]
      BY <1>1, <2>3, <3>1
    <3> QED BY <1>1, <3>2 DEF Level
  <2>6. QueuesKept
    BY <1>1, <1>3, ListNumbers DEF QueuesKept, DeleteFront, TypeOK
  <2>7. RunnerKept
    BY <1>1 DEF RunnerKept, Able
  <2> QED BY <1>1, <2>1, <2>2, <2>3, <2>4, <2>5, <2>6, <2>7, RetireStep
<1> QED BY <1>2, <1>3 DEF IdleLoop

\* The running thread puts itself on a list that is no ready list.
LEMMA LeaveStep ==
  ASSUME LInv, current_thread \in Threads, current_thread # NoThread,
         pc[current_thread] \notin {"leave", "none"},
         NEW l \in ListIds, l \notin Prios, NEW s \in States \ {"RUNNING"},
         Leave(l, s), UNCHANGED <<current_thread, prio>>
  PROVE  PriorityStep
<1>1. Able
  BY CurrentUnlinked DEF Able
<1>2. /\ state' = [state EXCEPT ![current_thread] = s]
      /\ list' = InsertBack(list, l, current_thread)
      /\ pc' = [pc EXCEPT ![current_thread] = "leave"]
      /\ list \in [ListIds -> Seq(Threads)]
      /\ state \in [Threads -> States] /\ pc \in [Threads -> PCs]
  BY DEF Leave, Me, LInv, TInv, TypeOK
<1>3. ~Able'
  BY <1>2 DEF Able
<1>4. LevelsKept
  BY <1>2 DEF LevelsKept, Level
<1>5. QueuesKept
  BY <1>2, InsertGrows, SMTT(40) DEF QueuesKept
<1> QED BY <1>1, <1>3, <1>4, <1>5, GiveUpStep

LEMMA SuspendSectionStep == ASSUME LInv, SuspendSection PROVE PriorityStep
<1> DEFINE c == current_thread
           i == arg[c]
           t == thread_table[i]
<1>1. /\ c # NoThread /\ pc[c] = "suspend" /\ c \in Threads
      /\ i \in 0 .. MaxThread /\ state[c] = "RUNNING" /\ prio[c] \in Prios
  BY SectionFacts DEF SuspendSection
<1>2. CASE Crash(PointerFault(i))
  BY <1>2, CrashStep
<1>3. CASE /\ ~BadPointer(i) /\ tid[c] = i
           /\ state' = [state EXCEPT ![t] = "BLOCK"]
           /\ list' = InsertBack(list, Blocked, t)
           /\ pc' = [pc EXCEPT ![c] = IF t = c THEN "leave" ELSE "sched"]
           /\ UNCHANGED <<current_thread, prio>>
  <2>1. t = c
    BY <1>1, <1>3 DEF LInv, TableOK
  <2>2. Leave(Blocked, "BLOCK")
    BY <1>3, <2>1 DEF Leave, Me
  <2> QED BY <1>1, <1>3, <2>2, LeaveStep, ListNumbers DEF States
<1>4. CASE /\ ~BadPointer(i) /\ tid[c] # i /\ CanSuspend(t)
           /\ state' = [state EXCEPT ![t] = "BLOCK"]
           /\ list' = InsertBack(Delete(list, t), Blocked, t)
           /\ pc' = [pc EXCEPT ![c] = IF t = c THEN "leave" ELSE "sched"]
           /\ UNCHANGED <<current_thread, prio>>
  <2>1. /\ t \in Threads /\ pc[t] # "none" /\ prio[t] \in Prios
        /\ state[t] = "READY" /\ prio[t] > prio[c]
    BY <1>1, <1>4, SlotAlive DEF CanSuspend, Me
  <2> HIDE DEF t
  <2>2. t # c /\ pc' = [pc EXCEPT ![c] = "sched"]
    BY <1>1, <1>4, <2>1
  <2>3. /\ list \in [ListIds -> Seq(Threads)] /\ state \in [Threads -> States]
        /\ pc \in [Threads -> PCs] /\ Once(list)
        /\ Blocked \in ListIds /\ prio[t] \in ListIds
    BY <2>1, ListNumbers DEF LInv, TInv, TypeOK
  <2>4. On(list, t, prio[t])
    <3>1. PICK l \in ListIds : On(list, t, l)
      BY <2>1 DEF LInv, AtHome, Placed
    <3>2. l \in Homes("READY", prio[t])
      BY <2>1, <3>1 DEF LInv, AtHome, Placed
    <3> QED BY <2>1, <3>1, <3>2, HomeLists
  <2>5. PICK k \in 1 .. Len(list[prio[t]]) :
          list[prio[t]][k] = t /\ Delete(list, t)[prio[t]] = RemoveAt(list[prio[t]], k)
    BY <2>1, <2>3, <2>4, DeleteOn
  <2>6. k \in DOMAIN list[prio[t]]
    BY <2>3, <2>5, LenProperties
  <2>7. \A q \in Prios \ {prio[t]} : Delete(list, t)[q] = list[q]
    <3>1. \A q \in Prios \ {prio[t]} : q \in ListIds /\ ~ On(list, t, q)
      BY <2>1, <2>3, <2>4, ListNumbers DEF Once, On
    <3> QED BY <2>1, <2>3, <3>1, DeleteOff
  <2>8. Delete(list, t) \in [ListIds -> Seq(Threads)]
    BY <2>1, <2>3, DeleteProperties
  <2>9. \A q \in Prios : list'[q] = IF q = prio[t] THEN RemoveAt(list[q], k) ELSE list[q]
    <3>1. Blocked \in ListIds \ Prios
      BY ListNumbers
    <3> DEFINE D == Delete(list, t)
    <3>2. D \in [ListIds -> Seq(Threads)]
      BY <2>8
    <3>3. list' = InsertBack(D, Blocked, t)
      BY <1>4
    <3>4. D[prio[t]] = RemoveAt(list[prio[t]], k)
      BY <2>5
    <3>5. \A q \in Prios \ {prio[t]} : D[q] = list[q]
      BY <2>7
    <3> HIDE DEF D
    <3>6. \A q \in Prios : InsertBack(D, Blocked, t)[q] = D[q]
      BY <3>1, <3>2, InsertElsewhere
    <3> QED BY <3>3, <3>4, <3>5, <3>6
  <2>10. LevelsKept
    BY <1>1, <1>4, <2>2, <2>3 DEF LevelsKept, Level
  <2>11. Able /\ RunnerKept
    BY <1>1, <1>4, <2>2, <2>3 DEF RunnerKept, Able
  <2> QED BY <1>1, <2>1, <2>5, <2>6, <2>9, <2>10, <2>11, WithdrawStep
<1>5. CASE /\ pc' = [pc EXCEPT ![c] = "user"]
           /\ UNCHANGED <<list, current_thread, prio, state>>
  BY <1>1, <1>5, MyStepKept DEF PCs
<1> QED BY <1>2, <1>3, <1>4, <1>5 DEF SuspendSection, Me, idVars

LEMMA ResumeSectionStep == ASSUME LInv, ResumeSection PROVE PriorityStep
<1> DEFINE c == current_thread
           i == arg[c]
           t == thread_table[i]
<1>1. /\ c # NoThread /\ pc[c] = "resume" /\ c \in Threads
      /\ i \in 0 .. MaxThread /\ state[c] = "RUNNING"
  BY SectionFacts DEF ResumeSection
<1>2. CASE Crash(PointerFault(i))
  BY <1>2, CrashStep
<1>3. CASE /\ ~BadPointer(i) /\ state[t] = "BLOCK"
           /\ state' = [state EXCEPT ![t] = "READY"]
           /\ list' = InsertBack(Delete(list, t), prio[t], t)
           /\ pc' = [pc EXCEPT ![c] = "sched"]
           /\ UNCHANGED <<current_thread, prio>>
  <2>1. t \in Threads /\ pc[t] # "none" /\ prio[t] \in Prios
    BY <1>1, <1>3, SlotAlive
  <2>2. /\ list \in [ListIds -> Seq(Threads)] /\ state \in [Threads -> States]
        /\ pc \in [Threads -> PCs] /\ prio[t] \in ListIds /\ t # c
    BY <1>1, <1>3, <2>1, ListNumbers DEF LInv, TInv, TypeOK
  <2> HIDE DEF t
  <2>3. \A q \in Prios : ~On(list, t, q)
    <3>1. \A q \in Prios : On(list, t, q) => q \in Homes("BLOCK", prio[t])
      BY <1>3, <2>1, ListNumbers DEF LInv, AtHome, Placed
    <3> QED BY <2>1, <3>1, HomeLists, ListNumbers
  <2>4. /\ Delete(list, t) \in [ListIds -> Seq(Threads)]
        /\ \A q \in Prios : Delete(list, t)[q] = list[q]
    <3>1. /\ Delete(list, t) \in [ListIds -> Seq(Threads)]
          /\ \A q \in ListIds : (\A j \in DOMAIN list[q] : list[q][j] # t) =>
               Delete(list, t)[q] = list[q]
      BY <2>1, <2>2, DeleteProperties
    <3> QED BY <2>3, <3>1, ListNumbers DEF On
  <2>5. Grown(prio[t], t)
    BY <1>3, <2>1, <2>2, <2>4, InsertGrows, SMTT(40) DEF Grown
  <2>6. LevelsKept
    BY <1>1, <1>3, <2>2 DEF LevelsKept, Level
  <2>7. RunnerKept
    BY <1>1, <1>3, <2>2 DEF RunnerKept, Able
  <2> QED BY <2>1, <2>2, <2>3, <2>5, <2>6, <2>7, WakeStep
<1>4. CASE /\ pc' = [pc EXCEPT ![c] = "user"]
           /\ UNCHANGED <<list, current_thread, prio, state>>
  BY <1>1, <1>4, MyStepKept DEF PCs
<1> QED BY <1>2, <1>3, <1>4 DEF ResumeSection, Me, idVars

LEMMA CreateFillStep == ASSUME LInv, CreateFill PROVE PriorityStep
<1> DEFINE c == current_thread
<1>1. /\ c # NoThread /\ pc[c] = "user" /\ c \in Threads
      /\ pc \in [Threads -> PCs] /\ prio \in [Threads -> Prios]
      /\ state \in [Threads -> States]
  BY InUserFacts DEF CreateFill, LInv, TInv, TypeOK
<1>2. PICK u \in Threads : /\ pc[u] = "none"
                           /\ \E p : prio' = [prio EXCEPT ![u] = p]
                           /\ state' = [state EXCEPT ![u] = "READY"]
                           /\ pc' = [pc EXCEPT ![c] = "create"]
                           /\ UNCHANGED <<list, current_thread>>
  BY DEF CreateFill, FillStruct, Unused, Me
<1>3. u # c
  BY <1>1, <1>2
<1>4. LevelsKept
  BY <1>1, <1>2, <1>3 DEF LevelsKept, Level
<1>5. QueuesKept
  BY <1>2 DEF QueuesKept
<1>6. RunnerKept
  BY <1>1, <1>2, <1>3 DEF RunnerKept, Able
<1> QED BY <1>4, <1>5, <1>6, PriorityStutters

LEMMA CreateInsertStep == ASSUME LInv, CreateInsert PROVE PriorityStep
<1>1. PICK c \in Threads : /\ c = current_thread /\ pc[c] = "create"
                           /\ arg[c] \in Threads /\ pc[arg[c]] = "none"
  BY DEF CreateInsert, AtSection, Me, LInv, TInv, TypeOK, ArgOK, CreateOK
<1>2. PICK u \in Threads : u = arg[c]
  BY <1>1
<1>3. PICK s \in {"sched", "user"} :
        /\ list' = InsertBack(list, prio[u], u)
        /\ pc' = [pc EXCEPT ![u] = "user", ![c] = s]
        /\ UNCHANGED <<current_thread, state, prio>>
  BY <1>1, <1>2 DEF CreateInsert, EnterTable, Me
<1>4. /\ list \in [ListIds -> Seq(Threads)] /\ pc \in [Threads -> PCs]
      /\ prio[u] \in Prios /\ prio[u] \in ListIds /\ u # c /\ pc[u] = "none"
  BY <1>1, <1>2, ListNumbers DEF LInv, TInv, TypeOK
<1>5. Grown(prio[u], u)
  BY <1>3, <1>4, InsertGrows DEF Grown
<1>6. /\ pc'[u] # "none" /\ prio'[u] = prio[u]
      /\ \A t \in Threads \ {u} : Level(t)' = Level(t)
  BY <1>1, <1>3, <1>4 DEF Level
<1>7. RunnerKept
  BY <1>3 DEF RunnerKept, Able
<1> QED BY <1>4, <1>5, <1>6, <1>7, AdmitStep

\* The rest of the services: yield, delay, delete, and the checks in front of
\* the critical sections.
LEMMA CallStep == ASSUME LInv, Call PROVE PriorityStep
<1>1. CASE Yield
  <2>1. /\ current_thread \in Threads /\ pc[current_thread] # "none"
        /\ pc' = [pc EXCEPT ![current_thread] = "sched"]
        /\ UNCHANGED <<list, current_thread, state, prio>>
    BY <1>1, InUserFacts DEF Yield, Me, idVars
  <2> QED BY <2>1, MyStepKept DEF PCs
<1>2. CASE Delay
  <2>1. /\ current_thread \in Threads /\ current_thread # NoThread
        /\ pc[current_thread] = "user"
    BY <1>2, InUserFacts DEF Delay
  <2>2. Leave(Delayed, "DELAY") /\ UNCHANGED <<current_thread, prio>>
    BY <1>2 DEF Delay, idVars
  <2> QED BY <2>1, <2>2, LeaveStep, ListNumbers DEF States
<1>3. CASE DeleteSelf
  <2>1. /\ current_thread \in Threads /\ current_thread # NoThread
        /\ pc[current_thread] = "user"
    BY <1>3, InUserFacts DEF DeleteSelf
  <2>2. Leave(Terminated, "TERMINATE") /\ UNCHANGED <<current_thread, prio>>
    BY <1>3 DEF DeleteSelf, idVars
  <2> QED BY <2>1, <2>2, LeaveStep, ListNumbers DEF States
<1>4. CASE DeleteOther
  BY <1>4, KeptStep DEF DeleteOther, idVars
<1>5. CASE CreateFill
  BY <1>5, CreateFillStep
<1>6. ASSUME NEW s \in {"suspend", "resume"}, NEW i, CheckTid(i, s),
             NEW call, InUser(call)
      PROVE  PriorityStep
  <2>1. /\ current_thread \in Threads /\ pc[current_thread] # "none"
        /\ pc' = [pc EXCEPT ![current_thread] = s]
        /\ UNCHANGED <<list, current_thread, state, prio>>
    BY <1>6, InUserFacts DEF CheckTid, Me, idVars
  <2> QED BY <2>1, MyStepKept DEF PCs
<1>7. CASE SuspendCheck
  BY <1>6, <1>7 DEF SuspendCheck
<1>8. CASE ResumeCheck
  BY <1>6, <1>8 DEF ResumeCheck
<1> QED BY <1>1, <1>2, <1>3, <1>4, <1>5, <1>7, <1>8 DEF Call

\* Every step of the kernel is a step of a priority scheduler or none at all.
LEMMA PriorityNext ==
  ASSUME LInv, DInv, [Next]_vars
  PROVE  PriorityStep
<1>1. CASE UNCHANGED vars
  BY <1>1, KeptStep DEF vars
<1>2. CASE Next
  <2>1. CASE MainCreate
    BY <2>1, MainCreateStep
  <2>2. CASE StartCurt
    BY <2>2, StartCurtStep
  <2>3. CASE Tick
    <3>1. CASE TickBegin
      BY <3>1, KeptStep DEF TickBegin, idVars
    <3> QED BY <2>3, <3>1, TickStepStep, TickEndStep DEF Tick
  <2>4. CASE Call
    BY <2>4, CallStep
  <2>5. CASE Section
    BY <2>5, CreateInsertStep, SuspendSectionStep, ResumeSectionStep DEF Section
  <2>6. CASE ScheduleRequest
    BY <2>6, ScheduleRequestStep
  <2>7. CASE IdleLoop
    BY <2>7, IdleLoopStep
  <2>8. CASE Halted
    BY <1>1, <2>8 DEF Halted
  <2> QED BY <1>2, <2>1, <2>2, <2>3, <2>4, <2>5, <2>6, <2>7, <2>8 DEF Next
<1> QED BY <1>1, <1>2

LEMMA PriorityInit == InitCurt => Prioritized!Init
<1> SUFFICES ASSUME InitCurt PROVE Prioritized!Init
  OBVIOUS
<1>1. MaxPrio - 1 \in Prios /\ Idle \in Threads /\ Prios \subseteq ListIds
  BY PrioAssumption, ThreadAssumption, ListNumbers DEF Prios
<1>2. [t \in Threads |-> IF pc[t] = "none" THEN MaxPrio ELSE prio[t]]
        = [u \in Threads |-> IF u = Idle THEN MaxPrio - 1 ELSE MaxPrio]
  BY <1>1 DEF InitCurt
<1>3. [p \in Prios |-> list[p]]
        = [q \in Prios |-> IF q = MaxPrio - 1 THEN <<Idle>> ELSE << >>]
  BY <1>1 DEF InitCurt
<1>4. ~(current_thread # NoThread /\ state[current_thread] = "RUNNING")
  BY DEF InitCurt
<1>5. current_thread = NoThread
  BY DEF InitCurt
<1> QED BY <1>1, <1>2, <1>3, <1>4, <1>5 DEF Prioritized!Init

\* Outside the two windows the kernel schedules by fixed priorities: it is an
\* implementation of PriorityScheduler.
THEOREM SchedulesByPriority ==
  ASSUME "leave" \notin TickPoints, "create" \notin TickPoints
  PROVE  Spec => PrioritySpec
<1>1. InitCurt => LInv /\ Prioritized!Init
  BY LInvInit, PriorityInit
<1>2. LInv /\ [Next]_vars => LInv'
  BY LInvNext
<1>3. LInv /\ DInv /\ [Next]_vars =>
        [Prioritized!Next]_<<[t \in Threads |-> IF pc[t] = "none" THEN MaxPrio ELSE prio[t]],
                             [p \in Prios |-> list[p]], current_thread,
                             current_thread # NoThread /\ state[current_thread] = "RUNNING">>
  BY PriorityNext DEF PriorityStep
<1> QED BY <1>1, <1>2, <1>3, DInvAlways, PTL DEF Spec, PrioritySpec, Prioritized!Spec, Prioritized!absVars
=============================================================================
