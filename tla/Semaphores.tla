------------------------------ MODULE Semaphores ------------------------------
(***************************************************************************)
(* Semaphores (src/kernel/sync.c) and what they share with the mailboxes   *)
(* and queues of Ipc: a thread waits on the wait list of an object and is  *)
(* woken by the thread that posts or sends.  An object is named by the     *)
(* number of its wait list in WaitIds.                                     *)
(***************************************************************************)
EXTENDS Threads

CONSTANT SemMax    \* the largest value of a semaphore (u8_t: 255)

ASSUME SemAssumption == SemMax \in Nat \ {0}

VARIABLES
  kind,        \* what the object behind a wait list is
  sem_value,   \* sem->value
  masked       \* the threads a service has left running with IE clear

semVars == <<kind, sem_value, masked>>

Kinds == {"sem", "mbox", "msgq"}

\* The running thread calls a service of object w.
Uses(w, k) == /\ Me # NoThread /\ Me # Idle
              /\ cursor = 0 /\ pc[Me] = "user"
              /\ kind[w] = k

(***************************************************************************)
(* Waiting and waking.                                                     *)
(***************************************************************************)

\* insert_before_list links the new node behind the given one.
InsertBefore(s, i, t) == InsertAt(s, i + 1, t)

\* The waiters of lower priority than the running thread.
LowerWaiters(w) == {i \in DOMAIN list[w] : prio[Me] < prio[list[w][i]]}

FirstLower(w) == CHOOSE i \in LowerWaiters(w) : \A j \in LowerWaiters(w) : i <= j

\* The running thread puts itself on the wait list, at the first waiter of
\* lower priority or at the back; schedule() is called later.
Wait(w) ==
  /\ state' = [state EXCEPT ![Me] = "EVENT_WAIT"]
  /\ list' = IF LowerWaiters(w) # {}
             THEN [list EXCEPT ![w] = InsertBefore(@, FirstLower(w), Me)]
             ELSE IF state[Me] # "EVENT_WAIT" THEN InsertBack(list, w, Me)
             ELSE list
  /\ pc' = [pc EXCEPT ![Me] = "leave"]

FlagWoken(w) == [prio_exist_flag EXCEPT ![prio[Head(list[w])]] = TRUE]

\* The first waiter becomes ready, and the running thread calls schedule().
Wake(w) ==
  LET t == Head(list[w]) IN
  /\ state' = [state EXCEPT ![t] = "READY"]
  /\ list' = InsertBack(DeleteFront(list, w), prio[t], t)
  /\ prio_exist_flag' = FlagWoken(w)
  /\ pc' = [pc EXCEPT ![Me] = "sched"]

(***************************************************************************)
(* sem_pend, sem_try_pend, sem_post.                                       *)
(***************************************************************************)

\* A token is there: take it.  sem_pend and sem_try_pend do the same.
SemTake(w) ==
  /\ Uses(w, "sem") /\ sem_value[w] > 0
  /\ sem_value' = [sem_value EXCEPT ![w] = @ - 1]
  /\ UNCHANGED <<vars, kind, masked>>

\* sem_pend calls schedule() inside its critical section and then returns:
\* the thread comes back with the IE bit clear and nothing sets it again.
PendLeavesMasked == /\ ie' = FALSE
                    /\ masked' = masked \cup {Me}

SemBlock(w) ==
  /\ Uses(w, "sem") /\ sem_value[w] = 0
  /\ Wait(w)
  /\ PendLeavesMasked
  /\ UNCHANGED <<kind, sem_value, prio_exist_flag, current_thread, idVars,
                 time_quantum, delayed_time, saved_ie, arg, cursor, fault>>

\* MUTANT: the value is counted up although a waiter takes the token.
MutSemWake(w) ==
  /\ Uses(w, "sem") /\ list[w] # <<>>
  /\ Wake(w)
  /\ sem_value' = [sem_value EXCEPT ![w] = @ + 1]
  /\ UNCHANGED <<kind, masked, current_thread, idVars, time_quantum,
                 delayed_time, ie, saved_ie, arg, cursor, fault>>

SemWake(w) ==
  /\ Uses(w, "sem") /\ list[w] # <<>>
  /\ Wake(w)
  /\ UNCHANGED <<semVars, current_thread, idVars, time_quantum, delayed_time,
                 ie, saved_ie, arg, cursor, fault>>

\* MUTANTS: the wait list is not looked at; the value is not a u8_t.
MutSemCountUp(w) ==
  /\ Uses(w, "sem")
  /\ sem_value' = [sem_value EXCEPT ![w] = (@ + 1) % (SemMax + 1)]
  /\ UNCHANGED <<vars, kind, masked>>

MutSemWide(w) ==
  /\ Uses(w, "sem") /\ list[w] = <<>>
  /\ sem_value' = [sem_value EXCEPT ![w] = @ + 1]
  /\ UNCHANGED <<vars, kind, masked>>

\* `sem->value++' on a u8_t.
SemCountUp(w) ==
  /\ Uses(w, "sem") /\ list[w] = <<>>
  /\ sem_value' = [sem_value EXCEPT ![w] = (@ + 1) % (SemMax + 1)]
  /\ UNCHANGED <<vars, kind, masked>>

SemCall(w) == SemTake(w) \/ SemBlock(w) \/ SemWake(w) \/ SemCountUp(w)
=============================================================================
