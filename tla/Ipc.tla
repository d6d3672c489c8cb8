--------------------------------- MODULE Ipc ---------------------------------
(***************************************************************************)
(* Mailboxes and message queues (src/kernel/ipc.c), beside the semaphores  *)
(* and on top of the scheduler.  The messages an application sends are     *)
(* numbered in the order the kernel accepts them; 0 is the NULL pointer.   *)
(***************************************************************************)
EXTENDS Semaphores

CONSTANTS
  MsgStructs,   \* the msg_struct objects of the application
  NoStruct,
  MaxSends      \* bound: how many messages it sends

ASSUME IpcAssumption == /\ NoStruct \notin MsgStructs /\ MaxSends \in Nat
                        /\ NoThread \notin 1 .. MaxSends

VARIABLES
  mbox_msg,     \* mbox->msg
  msg_list,     \* msgq->msg_list
  node_msg,     \* spmsg->msg
  thread_msg,   \* thread_struct.msg
  receiving,    \* the threads inside the blocking path of a receive call
  fetching,     \* the structure a thread has unlinked and not yet read
  sent,         \* how many messages were accepted
  got           \* the thread whose receive call returned a message

msgVars == <<mbox_msg, msg_list, node_msg, thread_msg, receiving, fetching,
             sent, got>>

allVars == <<vars, semVars, msgVars>>

Msgs == 1 .. MaxSends

\* The running thread is in its own code, not on its way out of a receive.
CanCall == Me \notin receiving /\ (Me # NoThread => fetching[Me] = NoStruct)

(***************************************************************************)
(* Receiving.                                                              *)
(***************************************************************************)

\* MUTANT: schedule() is called inside the critical section, as in sem_pend.
MutRecvWait(w) ==
  /\ Wait(w)
  /\ receiving' = receiving \cup {Me}
  /\ ie' = FALSE
  /\ UNCHANGED <<semVars, mbox_msg, msg_list, node_msg, thread_msg, fetching,
                 sent, got, prio_exist_flag, current_thread, idVars,
                 time_quantum, delayed_time, saved_ie, arg, cursor, fault>>

\* mbox_recv and msgq_recv with nothing stored: wait, interrupts on again
\* before schedule() is called.
RecvWait(w) ==
  /\ Wait(w)
  /\ receiving' = receiving \cup {Me}
  /\ UNCHANGED <<semVars, mbox_msg, msg_list, node_msg, thread_msg, fetching,
                 sent, got, prio_exist_flag, current_thread, idVars,
                 time_quantum, delayed_time, ie, saved_ie, arg, cursor, fault>>

\* Back from schedule(): the call returns current_thread->msg.
RecvReturn ==
  /\ AtSection("user") /\ Me \in receiving
  /\ receiving' = receiving \ {Me}
  /\ got' = IF thread_msg[Me] = 0 THEN got ELSE [got EXCEPT ![thread_msg[Me]] = Me]
  /\ UNCHANGED <<vars, semVars, mbox_msg, msg_list, node_msg, thread_msg,
                 fetching, sent>>

\* mbox_recv and mbox_try_recv with a message there.
MboxTake(w) ==
  /\ Uses(w, "mbox") /\ mbox_msg[w] # 0
  /\ got' = [got EXCEPT ![mbox_msg[w]] = Me]
  /\ mbox_msg' = [mbox_msg EXCEPT ![w] = 0]
  /\ UNCHANGED <<vars, semVars, msg_list, node_msg, thread_msg, receiving,
                 fetching, sent>>

MboxWait(w) == Uses(w, "mbox") /\ mbox_msg[w] = 0 /\ RecvWait(w)

\* MUTANT: the newest structure is unlinked.
MutMsgqUnlink(w) ==
  /\ Uses(w, "msgq") /\ msg_list[w] # <<>>
  /\ fetching' = [fetching EXCEPT ![Me] = Last(msg_list[w])]
  /\ msg_list' = [msg_list EXCEPT ![w] = Front(@)]
  /\ UNCHANGED <<vars, semVars, mbox_msg, node_msg, thread_msg, receiving,
                 sent, got>>

\* msgq_recv and msgq_try_recv unlink the first structure; they read it only
\* after the end of the critical section.
MsgqUnlink(w) ==
  /\ Uses(w, "msgq") /\ msg_list[w] # <<>>
  /\ fetching' = [fetching EXCEPT ![Me] = Head(msg_list[w])]
  /\ msg_list' = [msg_list EXCEPT ![w] = Tail(@)]
  /\ UNCHANGED <<vars, semVars, mbox_msg, node_msg, thread_msg, receiving,
                 sent, got>>

MsgqFetch ==
  /\ AtSection("user") /\ fetching[Me] # NoStruct
  /\ got' = [got EXCEPT ![node_msg[fetching[Me]]] = Me]
  /\ fetching' = [fetching EXCEPT ![Me] = NoStruct]
  /\ UNCHANGED <<vars, semVars, mbox_msg, msg_list, node_msg, thread_msg,
                 receiving, sent>>

MsgqWait(w) == Uses(w, "msgq") /\ msg_list[w] = <<>> /\ RecvWait(w)

\* msgq_try_recv of an empty queue returns NULL from inside its critical
\* section.
MsgqTryEmpty(w) ==
  /\ Uses(w, "msgq") /\ msg_list[w] = <<>>
  /\ PendLeavesMasked
  /\ UNCHANGED <<list, prio_exist_flag, current_thread, idVars, state,
                 time_quantum, delayed_time, saved_ie, pc, arg, cursor, fault,
                 kind, sem_value, msgVars>>

(***************************************************************************)
(* Sending.  An application uses a msg_struct again once it is on no queue *)
(* and the receive call that unlinked it has returned.                     *)
(***************************************************************************)

MayUse(s) == /\ \A w \in WaitIds : \A i \in DOMAIN msg_list[w] : msg_list[w][i] # s
             /\ \A t \in Threads : fetching[t] # s

Accepted == sent < MaxSends /\ sent' = sent + 1

\* `pthread->msg = pmsg' for the first waiter.
HandOver(w) == thread_msg' = [thread_msg EXCEPT ![Head(list[w])] = sent']

\* mbox_send and msgq_send with a receiver waiting.
SendWake(w) ==
  /\ Uses(w, "mbox") \/ Uses(w, "msgq")
  /\ list[w] # <<>>
  /\ Accepted
  /\ Wake(w)
  /\ HandOver(w)
  /\ \/ kind[w] = "mbox" /\ node_msg' = node_msg
     \/ kind[w] = "msgq" /\ \E s \in MsgStructs :
          MayUse(s) /\ node_msg' = [node_msg EXCEPT ![s] = sent']
  /\ UNCHANGED <<semVars, mbox_msg, msg_list, receiving, fetching, got,
                 current_thread, idVars, time_quantum, delayed_time, ie,
                 saved_ie, arg, cursor, fault>>

\* MUTANT: mbox_send overwrites a message nobody has taken yet.
MutSlotFree(w) == TRUE

\* mbox_send returns RET_ERR if the mailbox is full.
SlotFree(w) == mbox_msg[w] = 0

MboxStore(w) ==
  /\ Uses(w, "mbox") /\ list[w] = <<>> /\ SlotFree(w)
  /\ Accepted
  /\ mbox_msg' = [mbox_msg EXCEPT ![w] = sent']
  /\ UNCHANGED <<vars, semVars, msg_list, node_msg, thread_msg, receiving,
                 fetching, got>>

MsgqStore(w) ==
  /\ Uses(w, "msgq") /\ list[w] = <<>>
  /\ Accepted
  /\ \E s \in MsgStructs :
       /\ MayUse(s)
       /\ node_msg' = [node_msg EXCEPT ![s] = sent']
       /\ msg_list' = [msg_list EXCEPT ![w] = Append(@, s)]
  /\ UNCHANGED <<vars, semVars, mbox_msg, thread_msg, receiving, fetching, got>>

MsgCall(w) ==
  \/ MboxTake(w) \/ MboxWait(w) \/ MsgqUnlink(w) \/ MsgqWait(w)
  \/ MsgqTryEmpty(w) \/ SendWake(w) \/ MboxStore(w) \/ MsgqStore(w)

(***************************************************************************)
(* The specification: main initializes the objects (sem_init, mbox_init,   *)
(* msgq_init), creates the threads and starts the kernel.                  *)
(***************************************************************************)

InitObjects ==
  /\ kind \in [WaitIds -> Kinds]
  /\ sem_value \in [WaitIds -> 0 .. SemMax]
  /\ \A w \in WaitIds : kind[w] # "sem" => sem_value[w] = 0
  /\ mbox_msg \in [WaitIds -> {0} \cup (Msgs \cap {1})]
  /\ \A w \in WaitIds : kind[w] # "mbox" => mbox_msg[w] = 0
  /\ \A v, w \in WaitIds : mbox_msg[v] # 0 /\ mbox_msg[w] # 0 => v = w
  /\ msg_list = [w \in WaitIds |-> <<>>]
  /\ node_msg = [s \in MsgStructs |-> 0]
  /\ thread_msg = [t \in Threads |-> 0]
  /\ masked = {}
  /\ receiving = {}
  /\ fetching = [t \in Threads |-> NoStruct]
  /\ sent = IF \A w \in WaitIds : mbox_msg[w] = 0 THEN 0 ELSE 1
  /\ got = [m \in Msgs |-> NoThread]

IpcInit == InitCurt /\ InitObjects

KernelStep == MainCreate \/ StartCurt \/ Tick \/ Section \/ ScheduleRequest \/ IdleLoop

IpcNext ==
  \/ Alive /\ KernelStep /\ UNCHANGED <<semVars, msgVars>>
  \/ Alive /\ CanCall /\ Call /\ UNCHANGED <<semVars, msgVars>>
  \/ Alive /\ CanCall /\ \E w \in WaitIds : SemCall(w) /\ UNCHANGED msgVars
  \/ Alive /\ CanCall /\ \E w \in WaitIds : MsgCall(w)
  \/ Alive /\ RecvReturn
  \/ Alive /\ MsgqFetch

IpcSpec == IpcInit /\ [][IpcNext]_allVars

-----------------------------------------------------------------------------
(***************************************************************************)
(* Type correctness of what this module and Semaphores add.                *)
(***************************************************************************)
IpcTypeOK ==
  /\ kind \in [WaitIds -> Kinds]
  /\ sem_value \in [WaitIds -> 0 .. SemMax]
  /\ masked \subseteq Threads
  /\ mbox_msg \in [WaitIds -> 0 .. MaxSends]
  /\ msg_list \in [WaitIds -> Seq(MsgStructs)]
  /\ node_msg \in [MsgStructs -> 0 .. MaxSends]
  /\ thread_msg \in [Threads -> 0 .. MaxSends]
  /\ receiving \subseteq Threads
  /\ fetching \in [Threads -> MsgStructs \cup {NoStruct}]
  /\ sent \in 0 .. MaxSends
  /\ got \in [Msgs -> Threads \cup {NoThread}]

\* Whether a thread runs with interrupts enabled depends on its own past
\* alone: they are off in the threads that once waited in sem_pend or found
\* a queue empty in msgq_try_recv, for good, and on in all others, whatever
\* happens in between (save_cpu_sr and restore_cpu_sr pairs, switches).
InterruptsFollowThread ==
  Alive /\ current_thread # NoThread =>
    /\ ie <=> current_thread \notin masked
    /\ \A t \in Threads \ {current_thread} :
         pc[t] # "none" => (saved_ie[t] <=> t \notin masked)

\* No wakeup is lost: while a thread waits at an object, the object has
\* nothing to give (a token, a message), so that nothing can be taken past
\* the waiters.
WaitersMeanEmpty ==
  \A w \in WaitIds : list[w] # <<>> =>
    sem_value[w] = 0 /\ mbox_msg[w] = 0 /\ msg_list[w] = <<>>

\* The places message m is in: an object, a structure being read, the
\* thread_struct of a woken receiver, the hands of the application.
Places(m) ==
  {<<"mbox", w>> : w \in {v \in WaitIds : mbox_msg[v] = m}}
    \cup {<<"msgq", s>> : s \in {x \in MsgStructs : node_msg[x] = m /\
            \E w \in WaitIds : \E i \in DOMAIN msg_list[w] : msg_list[w][i] = x}}
    \cup {<<"fetch", t>> : t \in {u \in Threads : fetching[u] # NoStruct /\
            node_msg[fetching[u]] = m}}
    \cup {<<"hand", t>> : t \in {u \in receiving : state[u] # "EVENT_WAIT" /\
            thread_msg[u] = m}}
    \cup {<<"got", t>> : t \in {u \in Threads : got[m] = u}}

\* Every accepted message is in exactly one place at any time: none is lost,
\* handed out twice or overwritten, not in thread_struct.msg between the
\* wakeup and the return of the receive call either.
MessageInOnePlace ==
  Alive => \A m \in Msgs : Cardinality(Places(m)) = IF m <= sent THEN 1 ELSE 0

\* The waiter a post or send wakes is one of the highest priority.
HighestWaiterFirst ==
  \A w \in WaitIds : \A i \in DOMAIN list[w] :
    prio[Head(list[w])] <= prio[list[w][i]]

(***************************************************************************)
(* What the objects promise (CountingSemaphore and Channel).               *)
(***************************************************************************)

\* The first object, the one of the run.
Obj == MaxPrio + 3

Waiters(w) == {t \in Threads : OnList(t, w)}

Sem == INSTANCE CountingSemaphore WITH
         Limit <- SemMax, value <- sem_value[Obj],
         waiting <- IF kind[Obj] = "sem" THEN Waiters(Obj) ELSE {}

\* sem_pend, sem_try_pend and sem_post implement a counting semaphore of u8_t
\* width under every interleaving with the timer.
SemaphoreSpec == Sem!Spec

Stored(w) == IF mbox_msg[w] # 0 THEN <<mbox_msg[w]>>
             ELSE [i \in DOMAIN msg_list[w] |-> node_msg[msg_list[w][i]]]

InHand(t) == IF fetching[t] # NoStruct THEN node_msg[fetching[t]]
             ELSE IF t \in receiving /\ state[t] # "EVENT_WAIT" THEN thread_msg[t]
             ELSE NoThread

Chan == INSTANCE Channel WITH
          Objects <- WaitIds, Receivers <- Threads, Messages <- Msgs,
          None <- NoThread, stored <- [w \in WaitIds |-> Stored(w)],
          hand <- [t \in Threads |-> InHand(t)], got <- got

\* The mailboxes and message queues are channels: first in, first out at each
\* of them, and each message to one receiver.
ChannelSpec == Chan!Spec
=============================================================================
