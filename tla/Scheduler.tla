------------------------------ MODULE Scheduler ------------------------------
(***************************************************************************)
(* The scheduler of the CuRT kernel: src/kernel/kernel.c, with the way it  *)
(* is entered and left on the MIPS jz4740 port (interrupt enable bit,      *)
(* saved contexts, timer interrupt).  The thread services that call it are *)
(* in Threads.                                                             *)
(*                                                                         *)
(* A kernel list (kernel/list.c) is a sequence of threads.  All lists are  *)
(* in one function `list', indexed by small integers: ready_list[p] is     *)
(* list p, then come delayed_list, blocked_list, termination_wait_list and *)
(* the NumWait wait lists of semaphores, mailboxes and queues.  One list   *)
(* node is embedded in each thread_struct, so a thread can be on one list  *)
(* only; a thread that is linked a second time corrupts both lists, and    *)
(* the model goes no further than that state (see Alive).                  *)
(*                                                                         *)
(* A critical section between save_cpu_sr and restore_cpu_sr is one        *)
(* action: no interrupt is taken inside it.  What runs between two         *)
(* critical sections of a service is a program counter of its own, so that *)
(* the timer interrupt can come in between.                                *)
(***************************************************************************)
EXTENDS Integers, Sequences, FiniteSets, SequencesExt

CONSTANTS
  Threads,      \* the thread_struct objects, the idle thread's among them
  Idle,         \* idle_thread
  NoThread,     \* the NULL pointer
  MaxPrio,      \* MAX_PRIO
  MaxThread,    \* MAX_THREAD
  TimeQuantum,  \* TIME_QUANTUM
  NumWait,      \* number of wait lists outside the scheduler
  UMax,         \* the largest value of time_quantum and delayed_time (u32_t)
  TickPoints    \* where the running thread can be when a timer interrupt comes

\* "user": in its own code; "sched" and "leave": about to call
\* schedule(SCHED_THREAD_REQUEST), runnable or having put itself on a list;
\* "create", "suspend", "resume": inside that service, before its critical
\* section; "none": the structure holds no thread.
PCs == {"none", "user", "sched", "leave", "create", "suspend", "resume"}

ASSUME PrioAssumption    == MaxPrio \in Nat \ {0}
ASSUME TableAssumption   == MaxThread \in Nat \ {0}
ASSUME CounterAssumption == /\ UMax \in Nat
                            /\ TimeQuantum \in 1..UMax
ASSUME ThreadAssumption  == Idle \in Threads /\ NoThread \notin Threads
ASSUME WaitAssumption    == NumWait \in Nat
ASSUME TickAssumption    == TickPoints \subseteq PCs \ {"none"}

Prios      == 0 .. MaxPrio - 1
Delayed    == MaxPrio           \* delayed_list
Blocked    == MaxPrio + 1       \* blocked_list
Terminated == MaxPrio + 2       \* termination_wait_list
ListIds    == 0 .. MaxPrio + 2 + NumWait
WaitIds    == MaxPrio + 3 .. MaxPrio + 2 + NumWait
Tids       == 0 .. MaxThread - 1

States == {"READY", "RUNNING", "EVENT_WAIT", "BLOCK", "DELAY", "TERMINATE"}

\* How the kernel can stop: it unlinks the tail sentinel of an empty list,
\* indexes ready_list[MAX_PRIO], or follows a thread pointer that is NULL or
\* read past the end of thread_table.
Faults == {"none", "empty_pop", "oob", "null_thread", "wild_thread"}

VARIABLES
  list, prio_exist_flag, current_thread,                  \* kernel.c
  thread_table, total_thread_cnt,
  state, prio, time_quantum, delayed_time, tid,           \* thread_struct
  ie,           \* the IE bit of the Status register
  saved_ie,     \* the IE bit a thread will run with once switched to
  pc, arg,      \* where each thread is, and the argument of its service
  cursor,       \* 0, or the position of advance_time_tick on delayed_list
  fault

vars == <<list, prio_exist_flag, current_thread, thread_table,
          total_thread_cnt, state, prio, time_quantum, delayed_time, tid,
          ie, saved_ie, pc, arg, cursor, fault>>

idVars == <<thread_table, total_thread_cnt, tid, prio>>

(***************************************************************************)
(* Lists.                                                                  *)
(***************************************************************************)

OnList(t, l) == \E i \in DOMAIN list[l] : list[l][i] = t
Linked(t)    == \E l \in ListIds : OnList(t, l)

\* No node is linked twice, in one list or in two.
NodesOnce ==
  \A l, m \in ListIds : \A i \in DOMAIN list[l], j \in DOMAIN list[m] :
    list[l][i] = list[m][j] => l = m /\ i = j

\* The kernel has neither crashed nor corrupted a list.
Alive == fault = "none" /\ NodesOnce

\* MUTANT: the node is linked in front.
MutInsertBack(L, l, t) == [L EXCEPT ![l] = <<t>> \o @]

\* insert_back_list
InsertBack(L, l, t) == [L EXCEPT ![l] = Append(@, t)]

\* delete_front_list
DeleteFront(L, l) == [L EXCEPT ![l] = Tail(@)]

\* MUTANT: delete_list does not unlink the node.
MutDelete(L, t) == L

\* delete_list: the node is unlinked from whichever list holds it.
Delete(L, t) ==
  [l \in ListIds |->
     IF \E i \in DOMAIN L[l] : L[l][i] = t
     THEN RemoveAt(L[l], CHOOSE i \in DOMAIN L[l] : L[l][i] = t)
     ELSE L[l]]

(***************************************************************************)
(* get_top_prio, get_tid, unsigned decrement.                              *)
(***************************************************************************)

\* MUTANT: the scan of prio_exist_flag starts at 1.
MutIsTopPrio(p) ==
  /\ p \in 1 .. MaxPrio
  /\ p < MaxPrio => prio_exist_flag[p]
  /\ \A q \in Prios \ {0} : q < p => ~prio_exist_flag[q]

\* get_top_prio() returns p.
IsTopPrio(p) ==
  /\ p \in 0 .. MaxPrio
  /\ p < MaxPrio => prio_exist_flag[p]
  /\ \A q \in Prios : q < p => ~prio_exist_flag[q]

\* MUTANT: get_tid does not look whether the slot is free.
MutIsFreeTid(i) == i \in Tids /\ \A j \in Tids : j < i => thread_table[j] # NoThread

\* get_tid() returns i.
IsFreeTid(i) ==
  /\ i \in Tids
  /\ thread_table[i] = NoThread
  /\ \A j \in Tids : j < i => thread_table[j] # NoThread

Decrement(n) == IF n = 0 THEN UMax ELSE n - 1

(***************************************************************************)
(* schedule().                                                             *)
(***************************************************************************)

\* The kernel stops for good: exception_handler prints and loops.
Crash(f) ==
  /\ fault' = f
  /\ UNCHANGED <<list, prio_exist_flag, current_thread, idVars, state,
                 time_quantum, delayed_time, ie, saved_ie, pc, arg, cursor>>

\* delete_front_list(&ready_list[top]) finds no thread to run.
PopFault(top) == IF top = MaxPrio THEN "oob" ELSE "empty_pop"
NoneToPop(top) == top = MaxPrio \/ list[top] = <<>>

\* MUTANTS: the flag is cleared without a look at the list, or never.
MutFlagCleared(top) == [prio_exist_flag EXCEPT ![top] = FALSE]
MutFlagKept(top) == prio_exist_flag

\* prio_exist_flag after the front of ready_list[top] is taken.
FlagAfterPop(top) ==
  IF Tail(list[top]) = <<>> THEN [prio_exist_flag EXCEPT ![top] = FALSE]
                            ELSE prio_exist_flag

\* The front of ready_list[top] runs next.  The outgoing thread is put back
\* on its ready list when its quantum expired, and otherwise when its state
\* is RUNNING -- a test the code makes after it set the state of the next
\* thread, which can be the same one.
Dispatch(top, expired) ==
  LET next    == Head(list[top])
      popped  == DeleteFront(list, top)
      running == [state EXCEPT ![next] = "RUNNING"]
      requeue == expired \/ running[current_thread] = "RUNNING"
  IN /\ list' = IF requeue
                THEN InsertBack(popped, prio[current_thread], current_thread)
                ELSE popped
     /\ prio_exist_flag' =
          IF requeue
          THEN [FlagAfterPop(top) EXCEPT ![prio[current_thread]] = TRUE]
          ELSE FlagAfterPop(top)
     /\ state' = IF requeue
                 THEN [running EXCEPT ![current_thread] = "READY"]
                 ELSE running
     /\ current_thread' = next

\* MUTANT: `<=': a ready thread of the same priority does not get its turn.
MutOutranksReady(top) == prio[current_thread] <= top

\* The running thread's priority is above that of every ready thread.
OutranksReady(top) == prio[current_thread] < top

\* MUTANT: a runnable thread always keeps the processor.
MutKeeps(top) == state[current_thread] = "RUNNING"

\* The running thread, if it can run on, keeps the processor.
Keeps(top) == state[current_thread] = "RUNNING" /\ OutranksReady(top)

\* schedule(SCHED_THREAD_REQUEST), called by the running thread.  A thread
\* switched out here comes back with the IE bit it had on entry.
ScheduleRequest ==
  /\ current_thread # NoThread /\ cursor = 0
  /\ pc[current_thread] \in {"sched", "leave"}
  /\ \E top \in 0 .. MaxPrio :
       /\ IsTopPrio(top)
       /\ \/ /\ Keeps(top)
             /\ time_quantum' =
                  [time_quantum EXCEPT ![current_thread] = TimeQuantum]
             /\ pc' = [pc EXCEPT ![current_thread] = "user"]
             /\ UNCHANGED <<list, prio_exist_flag, current_thread, state, ie,
                            saved_ie, idVars, delayed_time, arg, cursor, fault>>
          \/ /\ ~Keeps(top) /\ NoneToPop(top)
             /\ Crash(PopFault(top))
          \/ /\ ~Keeps(top) /\ ~NoneToPop(top)
             /\ Dispatch(top, FALSE)
             /\ time_quantum' =
                  [time_quantum EXCEPT ![Head(list[top])] = TimeQuantum]
             /\ pc' = [pc EXCEPT ![current_thread] = "user"]
             /\ saved_ie' = [saved_ie EXCEPT ![current_thread] = ie]
             /\ ie' = saved_ie'[Head(list[top])]
             /\ UNCHANGED <<idVars, delayed_time, arg, cursor, fault>>

(***************************************************************************)
(* The timer interrupt: advance_time_tick, one thread of delayed_list per  *)
(* step, then exit_interrupt.  Nothing else runs while cursor > 0.         *)
(***************************************************************************)

TickBegin ==
  /\ current_thread # NoThread /\ cursor = 0
  /\ ie /\ pc[current_thread] \in TickPoints
  /\ cursor' = 1
  /\ UNCHANGED <<list, prio_exist_flag, current_thread, idVars, state,
                 time_quantum, delayed_time, ie, saved_ie, pc, arg, fault>>

\* MUTANT: the traversal steps past the node it has just moved.
MutCursorAfterMove == cursor + 1

\* Where the traversal goes on after thread list[Delayed][cursor] was moved:
\* the code unlinks it one step late, so that next_list is still its
\* successor on delayed_list.
CursorAfterMove == cursor

\* A thread whose delay is over goes to the back of its ready list.
TickStep ==
  /\ cursor \in DOMAIN list[Delayed]
  /\ LET t == list[Delayed][cursor] IN
       /\ delayed_time' = [delayed_time EXCEPT ![t] = Decrement(@)]
       /\ IF delayed_time'[t] = 0
          THEN /\ list' = InsertBack([list EXCEPT ![Delayed] =
                                        RemoveAt(@, cursor)], prio[t], t)
               /\ state' = [state EXCEPT ![t] = "READY"]
               /\ time_quantum' = [time_quantum EXCEPT ![t] = TimeQuantum]
               /\ prio_exist_flag' = [prio_exist_flag EXCEPT ![prio[t]] = TRUE]
               /\ cursor' = CursorAfterMove
          ELSE /\ cursor' = cursor + 1
               /\ UNCHANGED <<list, state, time_quantum, prio_exist_flag>>
  /\ UNCHANGED <<current_thread, idVars, ie, saved_ie, pc, arg, fault>>

\* schedule(SCHED_TIME_EXPIRE), called by exit_interrupt.  It never looks at
\* the state of the running thread.
ScheduleExpire ==
  \E top \in 0 .. MaxPrio :
    /\ IsTopPrio(top)
    /\ \/ /\ OutranksReady(top)
          /\ time_quantum' =
               [time_quantum EXCEPT ![current_thread] = TimeQuantum]
          /\ cursor' = 0
          /\ UNCHANGED <<list, prio_exist_flag, current_thread, state, ie,
                         saved_ie, idVars, delayed_time, pc, arg, fault>>
       \/ /\ ~OutranksReady(top) /\ NoneToPop(top)
          /\ Crash(PopFault(top))
       \/ /\ ~OutranksReady(top) /\ ~NoneToPop(top)
          /\ Dispatch(top, TRUE)
          /\ time_quantum' = [time_quantum EXCEPT
                                ![current_thread] = 0,
                                ![Head(list[top])] = TimeQuantum]
          /\ saved_ie' = [saved_ie EXCEPT ![current_thread] = ie]
          /\ ie' = saved_ie'[Head(list[top])]
          /\ cursor' = 0
          /\ UNCHANGED <<idVars, delayed_time, pc, arg, fault>>

\* The end of advance_time_tick, and exit_interrupt.
TickEnd ==
  /\ cursor = Len(list[Delayed]) + 1
  /\ IF Decrement(time_quantum[current_thread]) = 0
     THEN ScheduleExpire
     ELSE /\ time_quantum' =
               [time_quantum EXCEPT ![current_thread] = Decrement(@)]
          /\ cursor' = 0
          /\ UNCHANGED <<list, prio_exist_flag, current_thread, state, ie,
                         saved_ie, idVars, delayed_time, pc, arg, fault>>

(***************************************************************************)
(* The idle thread: reap one terminated thread, then yield.                *)
(***************************************************************************)

IdleLoop ==
  /\ current_thread = Idle /\ cursor = 0 /\ pc[Idle] = "user"
  /\ IF list[Terminated] = <<>>
     THEN /\ pc' = [pc EXCEPT ![Idle] = "sched"]
          /\ UNCHANGED <<list, thread_table, total_thread_cnt>>
     ELSE LET t == Head(list[Terminated]) IN
          /\ list' = DeleteFront(list, Terminated)
          /\ thread_table' = [thread_table EXCEPT ![tid[t]] = NoThread]
          /\ total_thread_cnt' = total_thread_cnt - 1
          /\ pc' = [pc EXCEPT ![t] = "none", ![Idle] = "sched"]
  /\ UNCHANGED <<prio_exist_flag, current_thread, state, prio, time_quantum,
                 delayed_time, tid, ie, saved_ie, arg, cursor, fault>>

(***************************************************************************)
(* init_curt (from main, interrupts off) and start_curt.                   *)
(***************************************************************************)

InitCurt ==
  /\ list = [l \in ListIds |-> IF l = MaxPrio - 1 THEN <<Idle>> ELSE <<>>]
  /\ prio_exist_flag = [p \in Prios |-> p = MaxPrio - 1]
  /\ current_thread = NoThread
  /\ thread_table = [i \in Tids |-> IF i = 0 THEN Idle ELSE NoThread]
  /\ total_thread_cnt = 1
  /\ state = [t \in Threads |-> "READY"]
  /\ prio = [t \in Threads |-> IF t = Idle THEN MaxPrio - 1 ELSE 0]
  /\ time_quantum = [t \in Threads |-> IF t = Idle THEN TimeQuantum ELSE 0]
  /\ delayed_time = [t \in Threads |-> 0]
  /\ tid = [t \in Threads |-> 0]
  /\ ie = FALSE
  /\ saved_ie = [t \in Threads |-> TRUE]
  /\ pc = [t \in Threads |-> IF t = Idle THEN "user" ELSE "none"]
  /\ arg = [t \in Threads |-> NoThread]
  /\ cursor = 0
  /\ fault = "none"

StartCurt ==
  /\ current_thread = NoThread
  /\ \E top \in Prios :
       /\ IsTopPrio(top)
       /\ current_thread' = Head(list[top])
       /\ list' = DeleteFront(list, top)
       /\ prio_exist_flag' = FlagAfterPop(top)
       /\ state' = [state EXCEPT ![Head(list[top])] = "RUNNING"]
       /\ ie' = saved_ie[Head(list[top])]
  /\ UNCHANGED <<idVars, time_quantum, delayed_time, saved_ie, pc, arg,
                 cursor, fault>>

=============================================================================
