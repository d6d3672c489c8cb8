------------------------- MODULE PriorityScheduler -------------------------
(***************************************************************************)
(* What a scheduler with fixed priorities and round robin within a         *)
(* priority promises: a queue of ready threads for each priority, and one  *)
(* thread that runs.  There are no flags, no states and no other lists: a  *)
(* thread that waits for something is simply in no queue.                  *)
(***************************************************************************)
EXTENDS Naturals, Sequences, SequencesExt

CONSTANTS
    Threads, Prios,
    None,           \* no thread
    Absent          \* the priority of a thread there is not

VARIABLES
    priority,       \* of each thread there is; Absent for the others
    ready,          \* the queue of each priority, the next to run first
    running,        \* the thread that has the processor, or None
    able            \* it has not given it up

absVars == <<priority, ready, running, able>>

Queued(t) == \E p \in Prios : \E i \in DOMAIN ready[p] : ready[p][i] = t
Put(queues, p, t) == [queues EXCEPT ![p] = Append(@, t)]

Init ==
    /\ running = None /\ able = FALSE
    /\ \E t \in Threads, p \in Prios :
           /\ priority = [u \in Threads |-> IF u = t THEN p ELSE Absent]
           /\ ready = [q \in Prios |-> IF q = p THEN <<t>> ELSE <<>>]

(* A new thread is ready behind the others of its priority. *)
Admit(t, p) ==
    /\ priority[t] = Absent
    /\ priority' = [priority EXCEPT ![t] = p]
    /\ ready' = Put(ready, p, t)
    /\ UNCHANGED <<running, able>>

(* So is one that has waited. *)
Wake(t) ==
    /\ priority[t] # Absent /\ t # running /\ ~ Queued(t)
    /\ ready' = Put(ready, priority[t], t)
    /\ UNCHANGED <<priority, running, able>>

(* The running thread takes one of lower priority out of its queue. *)
Withdraw(t) ==
    /\ able /\ priority[t] # Absent /\ priority[running] < priority[t]
    /\ \E i \in DOMAIN ready[priority[t]] :
           /\ ready[priority[t]][i] = t
           /\ ready' = [ready EXCEPT ![priority[t]] = RemoveAt(@, i)]
    /\ UNCHANGED <<priority, running, able>>

(* The running thread stops being ready, for whatever it waits for. *)
GiveUp ==
    /\ able /\ able' = FALSE
    /\ UNCHANGED <<priority, ready, running>>

Retire(t) ==
    /\ priority[t] # Absent /\ t # running /\ ~ Queued(t)
    /\ priority' = [priority EXCEPT ![t] = Absent]
    /\ UNCHANGED <<ready, running, able>>

(* The first of the highest priority runs.  A thread that has not given up the
   processor loses it to none of lower priority, and queues behind its equals. *)
Switch(p) ==
    /\ ready[p] # <<>> /\ \A q \in Prios : q < p => ready[q] = <<>>
    /\ running' = Head(ready[p]) /\ able' = TRUE
    /\ LET popped == [ready EXCEPT ![p] = Tail(@)]
       IN  IF able THEN /\ p <= priority[running]
                        /\ ready' = Put(popped, priority[running], running)
                   ELSE ready' = popped
    /\ UNCHANGED priority

Next ==
    \/ GiveUp
    \/ \E p \in Prios : Switch(p)
    \/ \E t \in Threads : Wake(t) \/ Withdraw(t) \/ Retire(t)
    \/ \E t \in Threads, p \in Prios : Admit(t, p)

Spec == Init /\ [][Next]_absVars
=============================================================================
