------------------------------- MODULE Threads -------------------------------
(***************************************************************************)
(* The thread services of CuRT (src/kernel/thread.c) on top of Scheduler:  *)
(* an application creates threads from main, starts the kernel, and its    *)
(* threads then call the services named in Calls in any order, interrupted *)
(* by the timer at TickPoints.                                             *)
(***************************************************************************)
EXTENDS Scheduler

CONSTANTS
  Calls,      \* the services the application uses
  UserPrios,  \* the priorities it creates threads with
  MaxDelay,   \* the longest delay it asks for
  CallTids    \* the thread ids it passes; MaxThread is one past the table

Services == {"yield", "delay", "delete", "delete_other", "suspend_self",
             "suspend_other", "resume", "create"}

ASSUME CallAssumption == /\ Calls \subseteq Services
                         /\ UserPrios \subseteq Prios
                         /\ MaxDelay \in 0 .. UMax
                         /\ CallTids \subseteq 0 .. MaxThread

(***************************************************************************)
(* thread_table[i], also for i = MAX_THREAD, which the range checks of     *)
(* thread_delete, thread_suspend and thread_resume let through.  In the    *)
(* built image the word past the table holds prio_exist_flag[0..3].        *)
(***************************************************************************)

Present(i) == IF i < MaxThread THEN thread_table[i] # NoThread
                               ELSE \E p \in Prios : p < 4 /\ prio_exist_flag[p]

\* A service cannot use the thread pointer it read from the table.
BadPointer(i) == i \in Tids => thread_table[i] = NoThread
PointerFault(i) == IF i = MaxThread THEN "wild_thread" ELSE "null_thread"

Me == current_thread

\* The running thread is about to make a call from its own code.
InUser(call) == /\ Me # NoThread /\ Me # Idle
                /\ cursor = 0 /\ pc[Me] = "user"
                /\ call \in Calls

\* The running thread is at the critical section of a service.
AtSection(p) == Me # NoThread /\ cursor = 0 /\ pc[Me] = p

(***************************************************************************)
(* thread_create.  get_tid and the initialization of the structure run     *)
(* with interrupts on; table, flag and ready list are one section.         *)
(***************************************************************************)

Unused(u) == u # Idle /\ pc[u] = "none" /\ \A t \in Threads : arg[t] # u

\* MUTANT: init_thread_stack leaves IE clear in the first Status value.
MutFillStruct(u, i, p) ==
  /\ tid' = [tid EXCEPT ![u] = i]
  /\ prio' = [prio EXCEPT ![u] = p]
  /\ time_quantum' = [time_quantum EXCEPT ![u] = TimeQuantum]
  /\ delayed_time' = [delayed_time EXCEPT ![u] = 0]
  /\ state' = [state EXCEPT ![u] = "READY"]
  /\ saved_ie' = [saved_ie EXCEPT ![u] = FALSE]

\* The thread_struct and, with init_thread_stack, its first context.
FillStruct(u, i, p) ==
  /\ tid' = [tid EXCEPT ![u] = i]
  /\ prio' = [prio EXCEPT ![u] = p]
  /\ time_quantum' = [time_quantum EXCEPT ![u] = TimeQuantum]
  /\ delayed_time' = [delayed_time EXCEPT ![u] = 0]
  /\ state' = [state EXCEPT ![u] = "READY"]
  /\ saved_ie' = [saved_ie EXCEPT ![u] = TRUE]

EnterTable(u, i, p) ==
  /\ thread_table' = [thread_table EXCEPT ![i] = u]
  /\ prio_exist_flag' = [prio_exist_flag EXCEPT ![p] = TRUE]
  /\ total_thread_cnt' = total_thread_cnt + 1
  /\ list' = InsertBack(list, p, u)

\* From main, before start_curt: no thread runs and interrupts are off.
MainCreate ==
  /\ current_thread = NoThread
  /\ \E u \in Threads, i \in Tids, p \in UserPrios :
       /\ Unused(u) /\ IsFreeTid(i)
       /\ FillStruct(u, i, p)
       /\ EnterTable(u, i, p)
       /\ pc' = [pc EXCEPT ![u] = "user"]
  /\ UNCHANGED <<current_thread, ie, arg, cursor, fault>>

CreateFill ==
  /\ InUser("create")
  /\ \E u \in Threads, i \in Tids, p \in UserPrios :
       /\ Unused(u) /\ IsFreeTid(i)
       /\ FillStruct(u, i, p)
       /\ pc' = [pc EXCEPT ![Me] = "create"]
       /\ arg' = [arg EXCEPT ![Me] = u]
  /\ UNCHANGED <<list, prio_exist_flag, current_thread, thread_table,
                 total_thread_cnt, ie, cursor, fault>>

CreateInsert ==
  /\ AtSection("create")
  /\ LET u == arg[Me] IN
       /\ EnterTable(u, tid[u], prio[u])
       /\ pc' = [pc EXCEPT ![u] = "user",
                           ![Me] = IF prio[Me] > prio[u] THEN "sched"
                                                         ELSE "user"]
  /\ arg' = [arg EXCEPT ![Me] = NoThread]
  /\ UNCHANGED <<current_thread, state, prio, time_quantum, delayed_time, tid,
                 ie, saved_ie, cursor, fault>>

(***************************************************************************)
(* thread_yield, thread_delay, thread_delete.                              *)
(***************************************************************************)

Yield ==
  /\ InUser("yield")
  /\ pc' = [pc EXCEPT ![Me] = "sched"]
  /\ UNCHANGED <<list, prio_exist_flag, current_thread, idVars, state,
                 time_quantum, delayed_time, ie, saved_ie, arg, cursor, fault>>

\* The running thread leaves for list l; the processor is given up later.
Leave(l, s) ==
  /\ state' = [state EXCEPT ![Me] = s]
  /\ list' = InsertBack(list, l, Me)
  /\ pc' = [pc EXCEPT ![Me] = "leave"]

\* MUTANT: a delay of 0 is not refused.
MutDelayAllowed(n) == n >= 0

\* thread_delay(0) returns RET_ERR and changes nothing.
DelayAllowed(n) == n > 0

Delay ==
  /\ InUser("delay")
  /\ \E n \in 0 .. MaxDelay :
       /\ DelayAllowed(n)
       /\ delayed_time' = [delayed_time EXCEPT ![Me] = n]
  /\ Leave(Delayed, "DELAY")
  /\ UNCHANGED <<prio_exist_flag, current_thread, idVars, time_quantum, ie,
                 saved_ie, arg, cursor, fault>>

\* MUTANT: the thread goes on the wrong list.
MutDeleteSelf ==
  /\ InUser("delete") /\ Present(tid[Me])
  /\ Leave(Blocked, "TERMINATE")
  /\ UNCHANGED <<prio_exist_flag, current_thread, idVars, time_quantum,
                 delayed_time, ie, saved_ie, arg, cursor, fault>>

DeleteSelf ==
  /\ InUser("delete") /\ Present(tid[Me])
  /\ Leave(Terminated, "TERMINATE")
  /\ UNCHANGED <<prio_exist_flag, current_thread, idVars, time_quantum,
                 delayed_time, ie, saved_ie, arg, cursor, fault>>

\* thread_delete of another thread fails, after save_cpu_sr and without
\* restore_cpu_sr.
DeleteOther ==
  /\ InUser("delete_other")
  /\ \E i \in CallTids : Present(i) /\ i # tid[Me]
  /\ ie' = FALSE
  /\ UNCHANGED <<list, prio_exist_flag, current_thread, idVars, state,
                 time_quantum, delayed_time, saved_ie, pc, arg, cursor, fault>>

(***************************************************************************)
(* thread_suspend and thread_resume: the table is checked with interrupts  *)
(* on and read again in the critical section.                              *)
(***************************************************************************)

CheckTid(i, p) ==
  /\ Present(i)
  /\ pc' = [pc EXCEPT ![Me] = p]
  /\ arg' = [arg EXCEPT ![Me] = i]
  /\ UNCHANGED <<list, prio_exist_flag, current_thread, idVars, state,
                 time_quantum, delayed_time, ie, saved_ie, cursor, fault>>

SuspendCheck ==
  \/ InUser("suspend_self") /\ CheckTid(tid[Me], "suspend")
  \/ /\ InUser("suspend_other")
     /\ \E i \in CallTids : i # tid[Me] /\ CheckTid(i, "suspend")

\* Only a ready thread of lower priority can be suspended by another one.
CanSuspend(t) == prio[t] > prio[Me] /\ state[t] = "READY"

SuspendSection ==
  /\ AtSection("suspend")
  /\ LET i == arg[Me]
         t == thread_table[i]
     IN \/ BadPointer(i) /\ Crash(PointerFault(i))
        \/ /\ ~BadPointer(i) /\ (tid[Me] = i \/ CanSuspend(t))
           /\ state' = [state EXCEPT ![t] = "BLOCK"]
           /\ list' = InsertBack(IF tid[Me] = i THEN list ELSE Delete(list, t),
                                 Blocked, t)
           /\ pc' = [pc EXCEPT ![Me] = IF t = Me THEN "leave" ELSE "sched"]
           /\ arg' = [arg EXCEPT ![Me] = NoThread]
           /\ UNCHANGED <<prio_exist_flag, current_thread, idVars,
                          time_quantum, delayed_time, ie, saved_ie, cursor,
                          fault>>
        \/ /\ ~BadPointer(i) /\ tid[Me] # i /\ ~CanSuspend(t)
           /\ pc' = [pc EXCEPT ![Me] = "user"]
           /\ arg' = [arg EXCEPT ![Me] = NoThread]
           /\ UNCHANGED <<list, prio_exist_flag, current_thread, idVars, state,
                          time_quantum, delayed_time, ie, saved_ie, cursor,
                          fault>>

ResumeCheck ==
  /\ InUser("resume")
  /\ \E i \in CallTids : CheckTid(i, "resume")

ResumeSection ==
  /\ AtSection("resume")
  /\ LET i == arg[Me]
         t == thread_table[i]
     IN \/ BadPointer(i) /\ Crash(PointerFault(i))
        \/ /\ ~BadPointer(i) /\ state[t] = "BLOCK"
           /\ state' = [state EXCEPT ![t] = "READY"]
           /\ list' = InsertBack(Delete(list, t), prio[t], t)
           /\ prio_exist_flag' = [prio_exist_flag EXCEPT ![prio[t]] = TRUE]
           /\ pc' = [pc EXCEPT ![Me] = "sched"]
           /\ arg' = [arg EXCEPT ![Me] = NoThread]
           /\ UNCHANGED <<current_thread, idVars, time_quantum, delayed_time,
                          ie, saved_ie, cursor, fault>>
        \/ /\ ~BadPointer(i) /\ state[t] # "BLOCK"
           /\ pc' = [pc EXCEPT ![Me] = "user"]
           /\ arg' = [arg EXCEPT ![Me] = NoThread]
           /\ UNCHANGED <<list, prio_exist_flag, current_thread, idVars, state,
                          time_quantum, delayed_time, ie, saved_ie, cursor,
                          fault>>

(***************************************************************************)
(* The specification.                                                      *)
(***************************************************************************)

Tick == TickBegin \/ TickStep \/ TickEnd

Call == \/ Yield \/ Delay \/ DeleteSelf \/ DeleteOther
        \/ CreateFill \/ SuspendCheck \/ ResumeCheck

Section == CreateInsert \/ SuspendSection \/ ResumeSection

\* exception_handler, or lists whose pointers no longer form lists: the
\* model stops.
Halted == ~Alive /\ UNCHANGED vars

Next ==
  \/ Alive /\ MainCreate
  \/ Alive /\ StartCurt
  \/ Alive /\ Tick
  \/ Alive /\ Call
  \/ Alive /\ Section
  \/ Alive /\ ScheduleRequest
  \/ Alive /\ IdleLoop
  \/ Halted

Spec == InitCurt /\ [][Next]_vars

\* main starts the kernel; the processor executes the kernel's code of the
\* running thread between two ticks; a pending timer interrupt is taken the
\* next time interrupts are on.  Nothing is assumed of the application.
Fairness ==
  /\ WF_vars(Alive /\ StartCurt)
  /\ WF_vars(Alive /\ (TickStep \/ TickEnd))
  /\ SF_vars(Alive /\ TickBegin)
  /\ SF_vars(Alive /\ IdleLoop)
  /\ \A t \in Threads :
       SF_vars(Alive /\ current_thread = t /\ (ScheduleRequest \/ Section))

FairSpec == Spec /\ Fairness

-----------------------------------------------------------------------------
(***************************************************************************)
(* Type correctness: every variable of the kernel holds a value of its     *)
(* type, and the counters stay in an unsigned word.                        *)
(***************************************************************************)
TypeOK ==
  /\ list \in [ListIds -> Seq(Threads)]
  /\ prio_exist_flag \in [Prios -> BOOLEAN]
  /\ current_thread \in Threads \cup {NoThread}
  /\ thread_table \in [Tids -> Threads \cup {NoThread}]
  /\ total_thread_cnt \in Int
  /\ state \in [Threads -> States]
  /\ prio \in [Threads -> Prios]
  /\ time_quantum \in [Threads -> 0 .. UMax]
  /\ delayed_time \in [Threads -> 0 .. UMax]
  /\ tid \in [Threads -> Tids]
  /\ ie \in BOOLEAN
  /\ saved_ie \in [Threads -> BOOLEAN]
  /\ pc \in [Threads -> PCs]
  /\ arg \in [Threads -> Threads \cup (0 .. MaxThread) \cup {NoThread}]
  /\ cursor \in 0 .. Len(list[Delayed]) + 1
  /\ fault \in Faults

(***************************************************************************)
(* The lists against the thread states.                                    *)
(***************************************************************************)

\* The lists a thread in state s with priority p may be on.
Homes(s, p) ==
  CASE s = "READY"      -> {p}
    [] s = "DELAY"      -> {Delayed}
    [] s = "BLOCK"      -> {Blocked}
    [] s = "TERMINATE"  -> {Terminated}
    [] s = "EVENT_WAIT" -> WaitIds
    [] s = "RUNNING"    -> {}

\* Every thread a list holds has the state (and, on a ready list, the
\* priority) that list is for.
LinkedAtHome ==
  \A l \in ListIds : \A i \in DOMAIN list[l] :
    LET t == list[l][i] IN pc[t] # "none" /\ l \in Homes(state[t], prio[t])

\* No thread is lost: one that is not RUNNING is on a list, and only
\* current_thread is RUNNING.
NoThreadLost ==
  \A t \in Threads : pc[t] # "none" =>
    IF state[t] = "RUNNING" THEN t = current_thread ELSE Linked(t)

\* What the kernel took off the ready list stays off until it leaves.
ExecutingIsRunning ==
  current_thread # NoThread /\ Alive /\ pc[current_thread] = "user" =>
    state[current_thread] = "RUNNING" /\ ~Linked(current_thread)

\* At every step of the kernel, each thread is on exactly the list its state
\* calls for (kernel.c, thread.c: every state change moves the node too), and
\* the one that executes is RUNNING and on none.
ListsMatchStates == NodesOnce /\ LinkedAtHome /\ NoThreadLost /\ ExecutingIsRunning

\* A non-empty ready list has its prio_exist_flag set: get_top_prio, which
\* looks at the flags alone, overlooks no ready thread.
ReadyFlagged == \A p \in Prios : list[p] # <<>> => prio_exist_flag[p]

\* The flags alone decide which list schedule() pops.  A flag over an empty
\* list is left only by thread_suspend, while its victim is still blocked.
StaleFlagBlocked ==
  \A p \in Prios : prio_exist_flag[p] /\ list[p] = <<>> =>
    \E t \in Threads : OnList(t, Blocked) /\ prio[t] = p

\* schedule() finds a thread to pop: the kernel runs into no empty or
\* missing ready list and no dead pointer.
NoCrash == fault = "none"

\* The unsigned counters never pass zero: the running thread has quantum left
\* and a delayed thread has ticks left whenever the tick handler is not at
\* work (`time_quantum--' and `delayed_time--' test `<= 0' on a u32_t).
CountersPositive ==
  Alive /\ cursor = 0 =>
    /\ current_thread # NoThread => time_quantum[current_thread] > 0
    /\ \A i \in DOMAIN list[Delayed] : delayed_time[list[Delayed][i]] > 0

\* thread_table, tid and total_thread_cnt agree: each living thread is in the
\* slot its tid names, nothing else is in the table, and the count that
\* `stat' prints is the number of threads that `ps' lists.
TableExact ==
  /\ \A t \in Threads : pc[t] # "none" => thread_table[tid[t]] = t
  /\ \A i \in Tids : thread_table[i] # NoThread => pc[thread_table[i]] # "none"
  /\ total_thread_cnt = Cardinality({i \in Tids : thread_table[i] # NoThread})

\* A thread runs its own code with interrupts enabled: every service gives
\* back the Status register it found, across any number of switches.
InterruptsOn ==
  current_thread # NoThread /\ Alive => ie

\* A switch is to a thread that was READY (or just woken) with no READY
\* thread of higher priority left on a list.
DispatchHighest ==
  [][current_thread' # current_thread =>
       \A p \in Prios : p < prio[current_thread'] => list'[p] = <<>>]_vars

\* A running thread that a ready thread of higher priority waits for (woken
\* by the tick, which does not switch) gets no fresh quantum: the inversion
\* ends with the quantum under way.
NoRefillUnderInversion ==
  [][\A t \in Threads :
       /\ current_thread # NoThread /\ current_thread' = current_thread
       /\ state[current_thread] = "RUNNING"
       /\ OnList(t, prio[t]) /\ OnList(t, prio[t])'
       /\ prio[t] < prio[current_thread]
       => time_quantum'[current_thread] <= time_quantum[current_thread]]_vars

(***************************************************************************)
(* What the scheduler promises (PriorityScheduler).                        *)
(***************************************************************************)
Prioritized == INSTANCE PriorityScheduler WITH
    None <- NoThread, Absent <- MaxPrio,
    priority <- [t \in Threads |-> IF pc[t] = "none" THEN MaxPrio ELSE prio[t]],
    ready <- [p \in Prios |-> list[p]],
    running <- current_thread,
    able <- current_thread # NoThread /\ state[current_thread] = "RUNNING"

\* The kernel with its flags, lists, states, delays and quanta schedules by
\* fixed priorities, in turn within each of them: a thread becomes ready behind
\* its equals, the first of the highest priority is the next to run, and no
\* thread that can go on loses the processor to a lower one (kernel.c:174-257).
PrioritySpec == Prioritized!Spec

(***************************************************************************)
(* Liveness.                                                               *)
(***************************************************************************)

\* A thread of higher priority than t is runnable.
Outranked(t) ==
  \E u \in Threads : /\ pc[u] # "none" /\ state[u] \in {"READY", "RUNNING"}
                     /\ prio[u] < prio[t]

\* Round robin: a READY thread runs, however long the threads of its own
\* priority keep the processor, unless one of higher priority becomes
\* runnable.
ReadyRuns ==
  \A t \in Threads :
    pc[t] # "none" /\ state[t] = "READY"
      ~> state[t] = "RUNNING" \/ Outranked(t) \/ ~Alive

\* A delay ends.
DelayEnds ==
  \A t \in Threads : state[t] = "DELAY" ~> state[t] # "DELAY" \/ ~Alive

\* The idle thread reaps every terminated thread if it runs again and again,
\* one per turn.
TerminatedReaped ==
  []<>(current_thread = Idle) =>
    \A t \in Threads : state[t] = "TERMINATE" /\ pc[t] # "none"
                         ~> pc[t] = "none" \/ ~Alive
=============================================================================
