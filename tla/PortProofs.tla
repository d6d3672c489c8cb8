----------------------------- MODULE PortProofs -----------------------------
(***************************************************************************)
(* Theorems about Port and Contexts: a thread is resumed as it was saved,  *)
(* and what JZ_GetTimer stores is right, for every number of threads, for  *)
(* every length of the timer's period and however often they are           *)
(* interrupted and switched.                                               *)
(***************************************************************************)
EXTENDS Port, SequenceTheorems, TLAPS

-----------------------------------------------------------------------------
(***************************************************************************)
(* Stacks of contexts.                                                     *)
(***************************************************************************)

LEMMA PushPop ==
  ASSUME NEW S, NEW c \in S, NEW s \in Seq(S)
  PROVE  /\ <<c>> \o s \in Seq(S) /\ <<c>> \o s # <<>>
         /\ (<<c>> \o s)[1] = c /\ Tail(<<c>> \o s) = s
<1>1. <<c>> \in Seq(S) /\ Len(<<c>>) = 1 /\ <<c>>[1] = c
  OBVIOUS
<1>2. <<c>> \o s \in Seq(S) /\ Len(<<c>> \o s) = 1 + Len(s) /\ (<<c>> \o s)[1] = c
  BY <1>1
<1>3. Tail(<<c>> \o s) = s
  <2>1. Tail(<<c>> \o s) \in Seq(S) /\ Len(Tail(<<c>> \o s)) = Len(s)
    BY <1>2
  <2>2. \A i \in 1..Len(s) : Tail(<<c>> \o s)[i] = s[i]
    BY <1>1, <1>2
  <2> QED BY <2>1, <2>2, SeqEqual
<1> QED BY <1>2, <1>3

LEMMA Single ==
  ASSUME NEW S, NEW s \in Seq(S), s # <<>>, Tail(s) = <<>>
  PROVE  s = <<s[1]>>
<1>1. Len(Tail(s)) = Len(s) - 1 /\ Len(s) \in Nat
  BY HeadTailProperties
<1>2. Len(s) = 1
  <2>1. Len(<<>>) = 0
    OBVIOUS
  <2>2. Len(Tail(s)) = 0
    BY <2>1, Zenon
  <2> QED BY <1>1, <2>2
<1> QED BY <1>2, SeqEqual

LEMMA One ==
  ASSUME NEW S, NEW c \in S
  PROVE  <<c>> \in Seq(S) /\ <<c>> # <<>> /\ <<c>>[1] = c /\ Tail(<<c>>) = <<>>
OBVIOUS

-----------------------------------------------------------------------------
(***************************************************************************)
(* The inductive invariant.  MachineOK holds of every thread, also of one  *)
(* an interrupt has hit in the window of its first dispatch: the places    *)
(* where the port runs with interrupts off are never saved as an address.  *)
(***************************************************************************)

Closed == {"handler", "schedule", "eret_status", "jr_status"}
Word == (Points \cup Threads \cup {Junk}) \ Closed
SavedContext == [ie : BOOLEAN, exl : BOOLEAN, pc : Word, lo : Word, regs : Regs]

MachineOK ==
  /\ current_thread \in Threads
  /\ ie \in BOOLEAN /\ exl \in BOOLEAN
  /\ epc \in Word /\ k0 \in Word /\ lo \in Word
  /\ pc \in Word \cup Closed
  /\ stack \in [Threads -> Seq(SavedContext)]
  /\ frame \in [Threads -> [cpu_sr : BOOLEAN, ra : UserPoints]]
  /\ own \in [Threads -> [pc : UserPoints, regs : Regs]]
  /\ pc \in Closed => ~ (ie /\ ~ exl)
  /\ pc \notin {"handler", "eret_status", "jr_status"} => regs \in Regs

Top(t) == stack[t][1]
Below(t) == Tail(stack[t])

\* The thread has not run yet.
New(t) == /\ own[t] = [pc |-> "dh", regs |-> reg0]
          /\ stack[t] # <<>> /\ Below(t) = <<>>
          /\ Top(t) = [ie |-> TRUE, exl |-> FALSE, pc |-> "dh", lo |-> t, regs |-> reg0]

\* An interrupt took the processor from its code.
Preempted(t) == /\ stack[t] # <<>> /\ Below(t) = <<>>
                /\ Top(t) = [ie |-> TRUE, exl |-> TRUE, pc |-> own[t].pc, lo |-> t,
                             regs |-> own[t].regs]

\* It gave up the processor in schedule().
Switched(t) == /\ stack[t] # <<>> /\ Below(t) = <<>>
               /\ Top(t) = [ie |-> FALSE, exl |-> FALSE, pc |-> "switched", lo |-> t,
                            regs |-> own[t].regs]
               /\ frame[t] = [cpu_sr |-> TRUE, ra |-> own[t].pc]

\* An interrupt came during its first dispatch, where it does no harm.
Delayed(t) == /\ own[t] = [pc |-> "dh", regs |-> reg0]
              /\ stack[t] # <<>> /\ Below(t) = init_thread_stack(t)
              /\ Top(t).pc \in {"eret_loadpc", "jr_loadlo", "jr_loadpc"}
              /\ Top(t).pc = "jr_loadpc" => Top(t).lo = t
              /\ Top(t).ie /\ Top(t).exl /\ Top(t).regs = reg0

Suspended(t) == New(t) \/ Preempted(t) \/ Switched(t) \/ Delayed(t)

\* The processor on behalf of thread t, at each point of the code.
RunsAs(t) ==
  /\ pc \in UserPoints =>
       /\ pc = own[t].pc /\ ie /\ ~ exl
  /\ pc \in {"schedule", "switched"} =>
       /\ ~ ie /\ ~ exl /\ frame[t] = [cpu_sr |-> TRUE, ra |-> own[t].pc]
  /\ pc \in UserPoints \cup {"schedule", "switched"} =>
       /\ regs = own[t].regs /\ lo = t /\ stack[t] = <<>>
  /\ pc \in {"handler"} \cup EretPoints => Suspended(t)
  /\ pc \in JumpPoints => New(t)
  /\ pc \in (EretPoints \cup JumpPoints) \ {"eret_status", "jr_status"} =>
       ie = Top(t).ie /\ exl = Top(t).exl /\ regs = Top(t).regs
  /\ pc \in {"eret_epc", "jr"} => k0 = Top(t).pc
  /\ pc \in {"eret_lo", "eret"} => epc = Top(t).pc
  /\ pc = "jr_lo" => k0 = t
  /\ pc \in {"eret", "jr_loadpc", "jr"} => lo = Top(t).lo

ContextInv ==
  /\ MachineOK
  /\ \A t \in Threads \ hit : t # current_thread => Suspended(t)
  /\ current_thread \notin hit => pc \in Points /\ RunsAs(current_thread)

\* Interrupts, handlers' ends, restoring and schedule(): all but the clock and
\* the threads' own code.
ContextStep ==
  \/ Interrupt \/ Restore \/ Switch
  \/ \E next \in Threads : ExitInterrupt(next)

USE DEF UserPoints, EretPoints, JumpPoints, Points

-----------------------------------------------------------------------------
(***************************************************************************)
(* MachineOK is an invariant.                                              *)
(***************************************************************************)

LEMMA SavedTop ==
  ASSUME MachineOK, stack[current_thread] # <<>>
  PROVE  Saved \in SavedContext
BY DEF MachineOK, Saved

LEMMA PushTypes ==
  ASSUME MachineOK, NEW at \in Word, NEW off \in BOOLEAN, regs \in Regs, Push(at, off)
  PROVE  /\ stack' \in [Threads -> Seq(SavedContext)]
         /\ \A t \in Threads \ {current_thread} : stack'[t] = stack[t]
         /\ LET t == current_thread IN
              /\ stack'[t] # <<>> /\ Tail(stack'[t]) = stack[t]
              /\ stack'[t][1] = [ie |-> ie, exl |-> off, pc |-> at, lo |-> lo, regs |-> regs]
<1> DEFINE c == [ie |-> ie, exl |-> off, pc |-> at, lo |-> lo, regs |-> regs]
<1>1. c \in SavedContext
  BY DEF MachineOK, SavedContext
<1>2. stack' = [stack EXCEPT ![current_thread] = <<c>> \o @]
  BY DEF Push
<1>3. current_thread \in Threads /\ stack \in [Threads -> Seq(SavedContext)]
  BY DEF MachineOK
<1> HIDE DEF c
<1>4. stack'[current_thread] = <<c>> \o stack[current_thread]
  BY <1>2, <1>3
<1>5. /\ <<c>> \o stack[current_thread] \in Seq(SavedContext)
      /\ <<c>> \o stack[current_thread] # <<>>
      /\ (<<c>> \o stack[current_thread])[1] = c
      /\ Tail(<<c>> \o stack[current_thread]) = stack[current_thread]
  BY <1>1, <1>3, PushPop
<1>6. stack' \in [Threads -> Seq(SavedContext)]
  BY <1>2, <1>3, <1>5
<1> QED BY <1>2, <1>3, <1>4, <1>5, <1>6 DEF c

LEMMA PopTypes ==
  ASSUME MachineOK, stack[current_thread] # <<>>, Pop
  PROVE  /\ stack' \in [Threads -> Seq(SavedContext)]
         /\ \A t \in Threads \ {current_thread} : stack'[t] = stack[t]
         /\ stack'[current_thread] = Below(current_thread)
<1>1. current_thread \in Threads /\ stack \in [Threads -> Seq(SavedContext)]
  BY DEF MachineOK
<1>2. Tail(stack[current_thread]) \in Seq(SavedContext)
  BY <1>1
<1> QED BY <1>1, <1>2 DEF Pop, Below

LEMMA MachineContext ==
  ASSUME MachineOK, ContextStep
  PROVE  MachineOK'
<1> USE DEF Closed
<1>0. current_thread \in Threads /\ Junk \in Word /\ current_thread \in Word
  BY ValuesAssumption DEF MachineOK, Word
<1>1. CASE Interrupt
  <2>1. pc \in Word /\ regs \in Regs
    BY <1>1 DEF Interrupt, MachineOK
  <2>2. stack' \in [Threads -> Seq(SavedContext)]
    BY <1>1, <2>1, PushTypes DEF Interrupt
  <2> QED BY <1>0, <1>1, <2>1, <2>2 DEF Interrupt, MachineOK
<1>2. ASSUME NEW next \in Threads, ExitInterrupt(next)
      PROVE  MachineOK'
  BY <1>2 DEF ExitInterrupt, MachineOK
<1>3. CASE CallSchedule
  <2>1. frame' \in [Threads -> [cpu_sr : BOOLEAN, ra : UserPoints]]
    BY <1>3 DEF CallSchedule, MachineOK
  <2> QED BY <1>3, <2>1 DEF CallSchedule, MachineOK
<1>4. ASSUME NEW next \in Threads, context_switch(next)
      PROVE  MachineOK'
  <2>1. "switched" \in Word /\ regs \in Regs /\ exl \in BOOLEAN
    BY <1>4, ValuesAssumption DEF context_switch, MachineOK, Word
  <2>2. stack' \in [Threads -> Seq(SavedContext)]
    BY <1>4, <2>1, PushTypes DEF context_switch
  <2> QED BY <1>4, <2>1, <2>2 DEF context_switch, MachineOK
<1>5. CASE ReturnFromSchedule
  <2>1. frame0 \in [cpu_sr : BOOLEAN, ra : UserPoints]
    BY DEF frame0
  <2>2. frame' \in [Threads -> [cpu_sr : BOOLEAN, ra : UserPoints]]
    BY <1>5, <2>1 DEF ReturnFromSchedule, MachineOK
  <2>3. pc' \in UserPoints /\ ie' \in BOOLEAN /\ regs \in Regs
    BY <1>0, <1>5 DEF ReturnFromSchedule, MachineOK
  <2>4. pc' \in Word
    BY <2>3, ValuesAssumption DEF Word
  <2> QED BY <1>5, <2>2, <2>3, <2>4 DEF ReturnFromSchedule, MachineOK
<1>6. CASE RestoreStatus
  <2>1. Saved \in SavedContext
    BY <1>6, SavedTop DEF RestoreStatus, At
  <2>2. pc' \in Word
    BY <1>6, ValuesAssumption DEF RestoreStatus, Word
  <2>3. Saved.regs \in Regs /\ Saved.ie \in BOOLEAN /\ Saved.exl \in BOOLEAN
    BY <2>1 DEF SavedContext
  <2>4. pc' \notin Closed
    BY <1>6 DEF RestoreStatus
  <2> QED BY <1>0, <1>6, <2>2, <2>3, <2>4 DEF RestoreStatus, MachineOK
<1>7. CASE LoadPc \/ LoadLo
  <2>1. Saved \in SavedContext
    BY <1>7, SavedTop DEF LoadPc, LoadLo, At
  <2>2. pc' \in Word /\ pc' \notin Closed /\ k0' \in Word
    BY <1>7, <2>1, ValuesAssumption DEF LoadPc, LoadLo, Word, SavedContext
  <2> QED BY <1>7, <2>2 DEF LoadPc, LoadLo, At, MachineOK
<1>8. CASE SetEpc \/ SetLo
  <2>1. pc' \in Word /\ pc' \notin Closed
    BY <1>8, ValuesAssumption DEF SetEpc, SetLo, Word
  <2> QED BY <1>8, <2>1 DEF SetEpc, SetLo, At, MachineOK
<1>9. CASE RestoreLo
  <2>1. Saved \in SavedContext
    BY <1>9, SavedTop DEF RestoreLo, At
  <2>2. pc' \in Word /\ pc' \notin Closed /\ lo' \in Word
    BY <1>9, <2>1, ValuesAssumption DEF RestoreLo, Word, SavedContext
  <2> QED BY <1>0, <1>9, <2>2 DEF RestoreLo, At, MachineOK
<1>10. CASE Eret \/ Jump
  <2>1. stack' \in [Threads -> Seq(SavedContext)]
    BY <1>10, PopTypes DEF Eret, Jump, At
  <2>2. pc' \in Word /\ pc' \notin Closed /\ regs \in Regs
    BY <1>10 DEF Eret, Jump, At, MachineOK, Word
  <2>3. exl' \in BOOLEAN
    BY <1>10 DEF Eret, Jump, MachineOK
  <2> QED BY <1>10, <2>1, <2>2, <2>3 DEF Eret, Jump, MachineOK
<1> QED
  BY <1>1, <1>2, <1>3, <1>4, <1>5, <1>6, <1>7, <1>8, <1>9, <1>10
     DEF ContextStep, Restore, Switch

-----------------------------------------------------------------------------
(***************************************************************************)
(* ContextInv is an invariant.                                             *)
(***************************************************************************)

\* A thread keeps its suspension while nothing of it changes.
LEMMA StaysSuspended ==
  ASSUME NEW t \in Threads, Suspended(t),
         stack'[t] = stack[t], frame'[t] = frame[t], own'[t] = own[t]
  PROVE  Suspended(t)'
<1> USE DEF Top, Below, init_thread_stack
<1>1. New(t) => New(t)'
  BY DEF New
<1>2. Preempted(t) => Preempted(t)'
  BY DEF Preempted
<1>3. Switched(t) => Switched(t)'
  BY DEF Switched
<1>4. Delayed(t) => Delayed(t)'
  BY DEF Delayed
<1> QED BY <1>1, <1>2, <1>3, <1>4 DEF Suspended

\* The processor is taken away by an interrupt.
LEMMA InterruptContext ==
  ASSUME ContextInv, Interrupt
  PROVE  ContextInv'
<1> DEFINE t == current_thread
<1>0. /\ MachineOK /\ t \in Threads /\ t' = t /\ ie /\ ~ exl
      /\ pc \in Word /\ pc \notin Closed /\ regs \in Regs
      /\ frame' = frame /\ own' = own /\ hit \subseteq hit'
      /\ pc' = "handler"
      /\ t \notin hit' => t \notin hit /\ pc \notin InUse
      /\ Push(pc, TRUE)
  BY DEF ContextInv, Interrupt, MachineOK, Closed
<1>1. MachineOK'
  BY <1>0, MachineContext DEF ContextStep
<1>2. /\ \A u \in Threads \ {t} : stack'[u] = stack[u]
      /\ stack'[t] # <<>> /\ Tail(stack'[t]) = stack[t]
      /\ stack'[t][1] = [ie |-> TRUE, exl |-> TRUE, pc |-> pc, lo |-> lo, regs |-> regs]
  BY <1>0, PushTypes
<1>3. ASSUME NEW u \in Threads \ hit', u # t
      PROVE  Suspended(u)'
  <2>1. Suspended(u)
    BY <1>0, <1>3 DEF ContextInv
  <2> QED BY <1>0, <1>2, <1>3, <2>1, StaysSuspended
<1>4. ASSUME t \notin hit'
      PROVE  Suspended(t)'
  <2>0. pc \in Points /\ RunsAs(t) /\ pc \notin InUse
    BY <1>0, <1>4 DEF ContextInv
  <2>1. CASE pc \in UserPoints
    <3>1. pc = own[t].pc /\ regs = own[t].regs /\ lo = t /\ stack[t] = <<>>
      BY <2>0, <2>1 DEF RunsAs
    <3>2. Preempted(t)'
      BY <1>0, <1>2, <3>1 DEF Preempted, Top, Below
    <3> QED BY <3>2 DEF Suspended
  <2>2. CASE pc \in {"eret_loadpc", "jr_loadlo", "jr_loadpc"}
    <3>1. Suspended(t) /\ ie = Top(t).ie /\ exl = Top(t).exl /\ regs = Top(t).regs
      BY <2>0, <2>2 DEF RunsAs, Suspended
    <3>2. New(t)
      <4>1. Preempted(t) \/ Delayed(t) => Top(t).exl = TRUE
        <5>1. Top(t) \in SavedContext \/ stack[t] = <<>>
          BY <1>0, SavedTop DEF Saved, Top
        <5> QED BY <5>1 DEF Preempted, Delayed, SavedContext
      <4>2. Switched(t) => Top(t).ie = FALSE
        BY DEF Switched
      <4> QED BY <1>0, <3>1, <4>1, <4>2 DEF Suspended
    <3>3. regs = reg0 /\ (pc = "jr_loadpc" => lo = t)
      BY <2>0, <2>2, <3>1, <3>2 DEF RunsAs, New
    <3>4. stack[t] = init_thread_stack(t)
      <4> DEFINE c == [ie |-> TRUE, exl |-> FALSE, pc |-> "dh", lo |-> t, regs |-> reg0]
      <4>1. stack[t] \in Seq(SavedContext) /\ stack[t] # <<>>
            /\ Tail(stack[t]) = <<>> /\ stack[t][1] = c
        BY <1>0, <3>2 DEF New, Top, Below, MachineOK
      <4>2. init_thread_stack(t) = <<c>>
        BY DEF init_thread_stack
      <4> HIDE DEF c
      <4>3. stack[t] = <<stack[t][1]>>
        BY <4>1, Single
      <4> QED BY <4>1, <4>2, <4>3
    <3>5. Delayed(t)'
      BY <1>0, <1>2, <2>2, <3>2, <3>3, <3>4 DEF Delayed, New, Top, Below, init_thread_stack
    <3> QED BY <3>5 DEF Suspended
  <2>3. CASE pc \in {"schedule", "switched"}
    BY <1>0, <2>0, <2>3 DEF RunsAs
  <2> QED BY <1>0, <2>0, <2>1, <2>2, <2>3 DEF InUse, Closed
<1>5. t \notin hit' => RunsAs(t)'
  BY <1>0, <1>4 DEF RunsAs
<1> QED BY <1>0, <1>1, <1>3, <1>5 DEF ContextInv

\* Another thread gets the processor, or the same one gets it back.
LEMMA DispatchContext ==
  ASSUME ContextInv, NEW next \in Threads, ExitInterrupt(next) \/ context_switch(next)
  PROVE  ContextInv'
<1>t. PICK t \in Threads : t = current_thread
  BY DEF ContextInv, MachineOK
<1>0. /\ MachineOK /\ current_thread = t /\ current_thread' = next /\ pc' = "eret_status"
      /\ frame' = frame /\ own' = own /\ hit' = hit
  BY <1>t DEF ContextInv, MachineOK, ExitInterrupt, context_switch
<1>1. MachineOK'
  BY <1>0, MachineContext DEF ContextStep, Switch
<1>2. \A u \in Threads \ hit : Suspended(u)'
  <2>1. CASE ExitInterrupt(next)
    <3>1. stack' = stack /\ pc = "handler"
      BY <2>1 DEF ExitInterrupt
    <3>2. \A u \in Threads \ hit : Suspended(u)
      BY <1>0, <3>1 DEF ContextInv, RunsAs
    <3> QED BY <1>0, <3>1, <3>2, StaysSuspended
  <2>2. CASE context_switch(next)
    <3>1. pc = "schedule" /\ Push("switched", exl) /\ regs \in Regs /\ exl \in BOOLEAN
          /\ "switched" \in Word
      BY <1>0, <2>2, ValuesAssumption DEF context_switch, MachineOK, Word, Closed
    <3>2. /\ \A u \in Threads \ {t} : stack'[u] = stack[u]
          /\ stack'[t] # <<>> /\ Tail(stack'[t]) = stack[t]
          /\ stack'[t][1] = [ie |-> ie, exl |-> exl, pc |-> "switched", lo |-> lo, regs |-> regs]
      BY <1>0, <3>1, PushTypes
    <3>3. t \notin hit => Switched(t)'
      <4> SUFFICES ASSUME t \notin hit PROVE Switched(t)'
        OBVIOUS
      <4>1. /\ ~ ie /\ ~ exl /\ frame[t] = [cpu_sr |-> TRUE, ra |-> own[t].pc]
            /\ regs = own[t].regs /\ lo = t /\ stack[t] = <<>>
        BY <1>0, <3>1 DEF ContextInv, RunsAs
      <4>2. ie = FALSE /\ exl = FALSE
        BY <1>0, <4>1 DEF MachineOK
      <4> QED BY <1>0, <3>2, <4>1, <4>2 DEF Switched, Top, Below
    <3>4. ASSUME NEW u \in Threads \ hit, u # t PROVE Suspended(u)'
      <4>1. Suspended(u)
        BY <1>0, <3>4 DEF ContextInv
      <4> QED BY <1>0, <3>2, <3>4, <4>1, StaysSuspended
    <3> QED BY <3>3, <3>4 DEF Suspended
  <2> QED BY <2>1, <2>2
<1>3. next \notin hit => RunsAs(next)'
  BY <1>0, <1>2 DEF RunsAs
<1> QED BY <1>0, <1>1, <1>2, <1>3 DEF ContextInv

\* A thread calls schedule(), or returns from it.
LEMMA ScheduleContext ==
  ASSUME ContextInv, CallSchedule \/ ReturnFromSchedule
  PROVE  ContextInv'
<1>t. PICK t \in Threads : t = current_thread
  BY DEF ContextInv, MachineOK
<1>0. /\ MachineOK /\ current_thread = t /\ current_thread' = t
      /\ stack' = stack /\ own' = own /\ hit' = hit /\ lo' = lo /\ regs' = regs
      /\ exl' = exl
      /\ \A u \in Threads \ {t} : frame'[u] = frame[u]
      /\ frame \in [Threads -> [cpu_sr : BOOLEAN, ra : UserPoints]]
  BY <1>t DEF ContextInv, MachineOK, CallSchedule, ReturnFromSchedule
<1>1. MachineOK'
  BY <1>0, MachineContext DEF ContextStep, Switch
<1>2. ASSUME NEW u \in Threads \ hit, u # t PROVE Suspended(u)'
  <2>1. Suspended(u)
    BY <1>0, <1>2 DEF ContextInv
  <2> QED BY <1>0, <1>2, <2>1, StaysSuspended
<1>3. ASSUME t \notin hit PROVE pc' \in Points /\ RunsAs(t)'
  <2>0. RunsAs(t)
    BY <1>0, <1>3 DEF ContextInv
  <2>1. CASE CallSchedule
    <3>1. /\ pc = own[t].pc /\ ie = TRUE /\ ~ exl /\ regs = own[t].regs /\ lo = t
          /\ stack[t] = <<>>
      BY <1>0, <2>0, <2>1 DEF CallSchedule, RunsAs, MachineOK
    <3>2. /\ frame'[t] = [cpu_sr |-> TRUE, ra |-> own[t].pc]
          /\ ie' = FALSE /\ pc' = "schedule"
      BY <1>0, <2>1, <3>1 DEF CallSchedule
    <3> QED BY <1>0, <3>1, <3>2 DEF RunsAs
  <2>2. CASE ReturnFromSchedule
    <3>1. /\ ~ exl /\ frame[t] = [cpu_sr |-> TRUE, ra |-> own[t].pc]
          /\ regs = own[t].regs /\ lo = t /\ stack[t] = <<>>
      BY <2>0, <2>2 DEF ReturnFromSchedule, RunsAs
    <3>2. own[t].pc \in UserPoints
      BY <1>0 DEF MachineOK
    <3>3. pc' = own[t].pc /\ ie' = TRUE
      BY <1>0, <2>2, <3>1 DEF ReturnFromSchedule
    <3> QED BY <1>0, <3>1, <3>2, <3>3 DEF RunsAs
  <2> QED BY <2>1, <2>2
<1> QED BY <1>0, <1>1, <1>2, <1>3 DEF ContextInv

\* The instructions that restore a context.
LEMMA RestoreContext ==
  ASSUME ContextInv, Restore
  PROVE  ContextInv'
<1>t. PICK t \in Threads : t = current_thread
  BY DEF ContextInv, MachineOK
<1>0. /\ MachineOK /\ current_thread = t /\ current_thread' = t
      /\ own' = own /\ hit' = hit /\ frame' = frame
      /\ \A u \in Threads \ {t} : stack'[u] = stack[u]
  BY <1>t, PopTypes DEF ContextInv, MachineOK, Restore, RestoreStatus, LoadPc, SetEpc,
     RestoreLo, LoadLo, SetLo, Eret, Jump, At
<1>1. MachineOK'
  BY <1>0, MachineContext DEF ContextStep
<1>2. ASSUME NEW u \in Threads \ hit, u # t PROVE Suspended(u)'
  <2>1. Suspended(u)
    BY <1>0, <1>2 DEF ContextInv
  <2> QED BY <1>0, <1>2, <2>1, StaysSuspended
<1>3. ASSUME t \notin hit PROVE pc' \in Points /\ RunsAs(t)'
  <2>0. pc \in Points /\ RunsAs(t)
    BY <1>0, <1>3 DEF ContextInv
  <2>1. CASE RestoreStatus \/ LoadPc \/ LoadLo \/ SetEpc \/ SetLo \/ RestoreLo
    <3>1. stack' = stack /\ Saved = Top(t)
      BY <1>0, <2>1 DEF RestoreStatus, LoadPc, SetEpc, RestoreLo, LoadLo, SetLo, Saved, Top
    <3>2. /\ Top(t)' = Top(t)
          /\ Suspended(t) => Suspended(t)'
      BY <1>0, <3>1, StaysSuspended DEF Top
    <3>3. New(t) => New(t)' /\ Top(t).lo = t /\ Top(t).pc = "dh"
      BY <1>0, <3>1 DEF New, Top, Below
    <3>4. New(t) => Suspended(t)
      BY DEF Suspended
    <3>5. CASE RestoreStatus
      BY <2>0, <3>1, <3>2, <3>3, <3>5 DEF RestoreStatus, At, RunsAs
    <3>6. CASE LoadPc
      BY <2>0, <3>1, <3>2, <3>3, <3>6 DEF LoadPc, At, RunsAs
    <3>7. CASE LoadLo
      BY <2>0, <3>1, <3>2, <3>3, <3>7 DEF LoadLo, At, RunsAs
    <3>8. CASE SetEpc
      BY <2>0, <3>1, <3>2, <3>3, <3>8 DEF SetEpc, At, RunsAs
    <3>9. CASE SetLo
      BY <2>0, <3>1, <3>2, <3>3, <3>9 DEF SetLo, At, RunsAs
    <3>10. CASE RestoreLo
      BY <2>0, <3>1, <3>2, <3>3, <3>10 DEF RestoreLo, At, RunsAs
    <3> QED BY <2>1, <3>5, <3>6, <3>7, <3>8, <3>9, <3>10
  <2>2. CASE Eret
    <3>1. /\ pc = "eret" /\ stack[t] # <<>> /\ Pop /\ pc' = epc /\ exl' = FALSE
          /\ ie' = ie /\ lo' = lo /\ regs' = regs
      BY <1>0, <2>2 DEF Eret, At
    <3>2. /\ Suspended(t) /\ ie = Top(t).ie /\ regs = Top(t).regs /\ epc = Top(t).pc
          /\ lo = Top(t).lo
      BY <2>0, <3>1 DEF RunsAs
    <3>3. stack'[t] = Below(t)
      BY <1>0, <3>1, PopTypes
    <3>4. own[t].pc \in UserPoints
      BY <1>0 DEF MachineOK
    <3>5. CASE New(t)
      BY <1>0, <3>1, <3>2, <3>3, <3>5 DEF New, RunsAs
    <3>6. CASE Preempted(t)
      <4>1. pc' = own[t].pc /\ ie' = TRUE /\ regs' = own[t].regs /\ lo' = t
        BY <3>1, <3>2, <3>6 DEF Preempted
      <4>2. stack'[t] = <<>>
        BY <3>3, <3>6 DEF Preempted
      <4> QED BY <1>0, <3>1, <3>4, <4>1, <4>2 DEF RunsAs
    <3>7. CASE Switched(t)
      BY <1>0, <3>1, <3>2, <3>3, <3>7 DEF Switched, RunsAs
    <3>8. CASE Delayed(t)
      \* The interrupted dispatch goes on, with the context of init_thread_stack.
      <4>1. stack'[t] = init_thread_stack(t)
        BY <3>3, <3>8 DEF Delayed
      <4>2. New(t)' /\ Top(t)'.ie = TRUE /\ Top(t)'.exl = FALSE /\ Top(t)'.regs = reg0
            /\ Top(t)'.lo = t
        BY <1>0, <3>8, <4>1 DEF Delayed, New, Top, Below, init_thread_stack
      <4>3. ie' = TRUE /\ regs' = reg0 /\ pc' \in {"eret_loadpc", "jr_loadlo", "jr_loadpc"}
            /\ (pc' = "jr_loadpc" => lo' = t)
        BY <1>0, <3>1, <3>2, <3>8 DEF Delayed, MachineOK
      <4> QED BY <3>1, <4>2, <4>3 DEF RunsAs, Suspended
    <3> QED BY <3>2, <3>5, <3>6, <3>7, <3>8 DEF Suspended
  <2>3. CASE Jump
    <3>1. /\ pc = "jr" /\ stack[t] # <<>> /\ Pop /\ pc' = k0 /\ exl' = exl
          /\ ie' = ie /\ lo' = lo /\ regs' = regs
      BY <1>0, <2>3 DEF Jump, At
    <3>2. /\ New(t) /\ ie = Top(t).ie /\ exl = Top(t).exl /\ regs = Top(t).regs
          /\ k0 = Top(t).pc /\ lo = Top(t).lo
      BY <2>0, <3>1 DEF RunsAs
    <3>3. stack'[t] = <<>>
      BY <1>0, <3>1, <3>2, PopTypes DEF New
    <3> QED BY <1>0, <3>1, <3>2, <3>3 DEF New, RunsAs
  <2> QED BY <2>1, <2>2, <2>3 DEF Restore
<1> QED BY <1>0, <1>1, <1>2, <1>3 DEF ContextInv

\* An instruction of JZ_GetTimer.
LEMMA StepContext ==
  ASSUME ContextInv, NEW from \in UserPoints, NEW to \in UserPoints, NEW r \in Regs,
         Step(from, to, r)
  PROVE  ContextInv'
<1>t. PICK t \in Threads : t = current_thread
  BY DEF ContextInv, MachineOK
<1>0. /\ MachineOK /\ current_thread = t /\ current_thread' = t
      /\ ie' = ie /\ exl' = exl /\ epc' = epc /\ k0' = k0 /\ lo' = lo
      /\ stack' = stack /\ frame' = frame /\ hit' = hit
      /\ pc = from /\ pc' = to /\ regs' = r
      /\ own' = [own EXCEPT ![t] = [pc |-> to, regs |-> r]]
  BY <1>t DEF ContextInv, Step
<1>1. /\ own' \in [Threads -> [pc : UserPoints, regs : Regs]]
      /\ own'[t] = [pc |-> to, regs |-> r]
      /\ \A u \in Threads \ {t} : own'[u] = own[u]
  BY <1>0 DEF MachineOK
<1>2. MachineOK'
  <2>1. to \in Word /\ to \notin Closed
    BY ValuesAssumption DEF Word, Closed
  <2> QED BY <1>0, <1>1, <2>1 DEF MachineOK
<1>3. ASSUME NEW u \in Threads \ hit, u # t PROVE Suspended(u)'
  <2>1. Suspended(u)
    BY <1>0, <1>3 DEF ContextInv
  <2> QED BY <1>0, <1>1, <1>3, <2>1, StaysSuspended
<1>4. t \notin hit => RunsAs(t)'
  <2>1. t \notin hit => RunsAs(t)
    BY <1>0 DEF ContextInv
  <2> QED BY <1>0, <1>1, <2>1 DEF RunsAs
<1> QED BY <1>0, <1>2, <1>3, <1>4 DEF ContextInv

-----------------------------------------------------------------------------
(***************************************************************************)
(* The timer.                                                              *)
(***************************************************************************)

\* jz_timer_h is behind the periods that have ended by no more than the flag
\* shows it to be, and so does not overflow either.
TimerInv ==
  /\ count \in 0 .. Period - 1
  /\ match \in BOOLEAN
  /\ jz_timer_h \in 0 .. MaxPeriods /\ periods \in 0 .. MaxPeriods
  /\ jz_timer_h <= periods
  /\ match = TRUE => jz_timer_h < periods

PortInv == ContextInv /\ TimerInv

LEMMA PortInit == Init => PortInv
<1> SUFFICES ASSUME Init PROVE PortInv
  OBVIOUS
<1>1. TimerInv
  <2>1. 0 \in 0 .. Period - 1 /\ 0 \in 0 .. MaxPeriods
    BY TimerAssumption
  <2>2. count = 0 /\ jz_timer_h = 0 /\ periods = 0
    BY DEF Init
  <2>3. match \in BOOLEAN /\ ~ (match = TRUE)
    BY Zenon DEF Init
  <2> QED BY <2>1, <2>2, <2>3 DEF TimerInv
<1>2. reg0 \in Regs
  BY TimerAssumption DEF reg0, Regs
<1>3. /\ Junk \in Word /\ "dh" \in Word /\ \A t \in Threads : t \in Word
  BY ValuesAssumption DEF Word, Closed
<1>4. \A t \in Threads :
        /\ stack[t] = <<[ie |-> TRUE, exl |-> FALSE, pc |-> "dh", lo |-> t, regs |-> reg0]>>
        /\ [ie |-> TRUE, exl |-> FALSE, pc |-> "dh", lo |-> t, regs |-> reg0] \in SavedContext
        /\ own[t] = [pc |-> "dh", regs |-> reg0]
  BY <1>2, <1>3 DEF Init, CtxInit, init_thread_stack, SavedContext
<1>5. \A t \in Threads : New(t) /\ stack[t] \in Seq(SavedContext)
  BY <1>4, One, ZenonT(40) DEF New, Top, Below
<1>6. MachineOK
  <2>1. stack \in [Threads -> Seq(SavedContext)]
    BY <1>5 DEF Init, CtxInit
  <2> QED BY <1>2, <1>3, <2>1 DEF Init, CtxInit, MachineOK, Closed, frame0
<1>7. current_thread \notin hit => pc \in Points /\ RunsAs(current_thread)
  BY <1>5 DEF Init, CtxInit, RunsAs
<1> QED BY <1>1, <1>5, <1>6, <1>7 DEF PortInv, ContextInv, Suspended

LEMMA TimerNext == TimerInv /\ [Next]_vars => TimerInv'
<1> SUFFICES ASSUME TimerInv, [Next]_vars PROVE TimerInv'
  OBVIOUS
<1>0. /\ Period \in Nat \ {0} /\ MaxPeriods \in Nat
      /\ count \in Nat /\ jz_timer_h \in Nat /\ periods \in Nat /\ match \in BOOLEAN
  BY TimerAssumption DEF TimerInv
<1>1. CASE Count
  <2>1. CASE count + 1 < Period
    <3>1. count' = count + 1 /\ UNCHANGED <<match, periods, jz_timer_h>>
      BY <1>1, <2>1 DEF Count
    <3> QED BY <1>0, <2>1, <3>1 DEF TimerInv
  <2>2. CASE ~ (count + 1 < Period)
    <3>1. /\ count' = 0 /\ periods < MaxPeriods /\ match' = TRUE
          /\ periods' = periods + 1 /\ jz_timer_h' = jz_timer_h
      BY <1>1, <2>2 DEF Count
    <3> QED BY <1>0, <3>1 DEF TimerInv
  <2> QED BY <2>1, <2>2
<1>2. CASE TimerHandler
  <2>1. match = TRUE /\ jz_timer_h' = jz_timer_h + 1 /\ UNCHANGED <<count, periods>>
    BY <1>0, <1>2 DEF TimerHandler
  <2>2. match' \in BOOLEAN /\ ~ (match' = TRUE)
    BY <1>2, Zenon DEF TimerHandler
  <2> QED BY <1>0, <2>1, <2>2 DEF TimerInv
<1>3. CASE UNCHANGED timer
  BY <1>3 DEF timer, TimerInv
<1> QED
  BY <1>1, <1>2, <1>3 DEF Next, vars, OtherHandler, JZ_GetTimer, LoadHigh, LoadLow,
     Store, Step

LEMMA PortNext == PortInv /\ [Next]_vars => PortInv'
<1> SUFFICES ASSUME PortInv, [Next]_vars PROVE PortInv'
  OBVIOUS
<1> USE DEF PortInv
<1>1. CASE UNCHANGED processor
  <2>1. ContextInv'
    <3>1. UNCHANGED <<current_thread, ie, exl, epc, pc, k0, lo, regs, stack, frame, own, hit>>
      BY <1>1 DEF processor
    <3>2. MachineOK'
      BY <3>1 DEF ContextInv, MachineOK
    <3>3. \A t \in Threads : Suspended(t) => Suspended(t)'
      BY <3>1, StaysSuspended
    <3>4. \A t \in Threads : RunsAs(t) => RunsAs(t)'
      BY <3>1 DEF RunsAs, Suspended, New, Preempted, Switched, Delayed, Top, Below,
         init_thread_stack
    <3>5. current_thread \in Threads
      BY DEF ContextInv, MachineOK
    <3> QED BY <3>1, <3>2, <3>3, <3>4, <3>5 DEF ContextInv
  <2>2. TimerInv'
    BY TimerNext
  <2> QED BY <2>1, <2>2
<1>2. CASE ContextStep
  <2>1. ContextInv'
    BY <1>2, InterruptContext, DispatchContext, ScheduleContext, RestoreContext
       DEF ContextStep, Switch
  <2>2. TimerInv'
    BY TimerNext
  <2> QED BY <2>1, <2>2
<1>3. CASE JZ_GetTimer
  <2>1. PICK from, to, r :
        /\ from \in UserPoints /\ to \in UserPoints
        /\ Step(from, to, r)
        /\ (r = [regs EXCEPT !.dh = jz_timer_h] \/ r = [regs EXCEPT !.dl = count] \/ r = regs)
    BY <1>3 DEF JZ_GetTimer, LoadHigh, LoadLow, Store
  <2>2. regs \in Regs
    BY <2>1 DEF Step, ContextInv, MachineOK
  <2>3. r \in Regs
    BY <2>1, <2>2 DEF Regs, TimerInv
  <2>4. ContextInv'
    BY <2>1, <2>3, StepContext
  <2>5. TimerInv'
    BY <2>1 DEF Step, timer, TimerInv
  <2> QED BY <2>4, <2>5
<1> QED
  BY <1>1, <1>2, <1>3 DEF Next, vars, Count, TimerHandler, OtherHandler, ContextStep

(* "Restore the registers of thread" (mips_port.S:172): whichever way a thread lost
   the processor, it gets it back with its own registers, LO, program counter,
   stack and interrupt mask, for any number of threads, preemptions and switches. *)
THEOREM ContextsRight == Spec => []ResumesWhereSaved
<1>1. PortInv => ResumesWhereSaved
  <2> SUFFICES ASSUME PortInv, current_thread \notin hit PROVE
        /\ pc # Junk
        /\ pc \in UserPoints => pc = own[current_thread].pc /\ ie /\ ~ exl
        /\ pc \in UserPoints \cup {"schedule", "switched"} =>
             /\ regs = own[current_thread].regs /\ lo = current_thread
             /\ stack[current_thread] = <<>>
    BY DEF ResumesWhereSaved
  <2>1. pc \in Points /\ RunsAs(current_thread)
    BY DEF PortInv, ContextInv
  <2> QED BY <2>1, ValuesAssumption DEF RunsAs
<1> QED BY <1>1, PortInit, PortNext, PTL DEF Spec

-----------------------------------------------------------------------------
(***************************************************************************)
(* What JZ_GetTimer stores.                                                *)
(***************************************************************************)

LEMMA Monotone ==
  ASSUME NEW a \in Nat, NEW b \in Nat, NEW p \in Nat, a <= b
  PROVE  a * p <= b * p
<1>1. b = a + (b - a) /\ b - a \in Nat
  OBVIOUS
<1>2. (b - a) * p \in Nat
  BY <1>1
<1>3. b * p = a * p + (b - a) * p
  OBVIOUS
<1> QED BY <1>2, <1>3

LEMMA DivMod ==
  ASSUME NEW n \in Nat, NEW m \in Nat \ {0}
  PROVE  /\ n \div m \in Nat /\ n % m \in 0 .. m - 1
         /\ n = m * (n \div m) + (n % m)
<1>1. n \div m \in Nat /\ n % m \in 0 .. m - 1
  OBVIOUS
<1>2. n % m = n - m * (n \div m)
  BY Z3
<1>3. n \div m \in Int /\ n % m \in Int
  BY <1>1
<1>4. m * (n \div m) \in Int
  BY <1>3
<1>5. \A a, b \in Int : a = n - b => n = b + a
  OBVIOUS
<1>6. n = m * (n \div m) + (n % m)
  BY <1>2, <1>3, <1>4, <1>5, Zenon
<1> QED BY <1>1, <1>6

\* n periods of p microseconds and c counts, k to a microsecond, cut to whole
\* microseconds: not more than the counts, and less than a microsecond short.
LEMMA Truncated ==
  ASSUME NEW n \in Nat, NEW c \in Nat, NEW k \in Nat \ {0}, NEW p \in Nat
  PROVE  /\ n * p + (c \div k) \in Nat
         /\ (n * p + (c \div k)) * k <= n * (k * p) + c
         /\ n * (k * p) + c < ((n * p + (c \div k)) + 1) * k
<1>1. c \div k \in Nat /\ c % k \in 0 .. k - 1 /\ c = k * (c \div k) + (c % k)
  BY DivMod
<1>2. n * p \in Nat /\ n * (k * p) = (n * p) * k
  OBVIOUS
<1>3. ASSUME NEW q \in Nat, NEW r \in Nat, NEW m \in Nat, c = k * q + r, r < k
      PROVE  (m + q) * k <= m * k + c /\ m * k + c < ((m + q) + 1) * k
  <2>1. (m + q) * k = m * k + k * q /\ ((m + q) + 1) * k = (m * k + k * q) + k
    OBVIOUS
  <2>2. m * k \in Nat /\ k * q \in Nat
    OBVIOUS
  <2> QED BY <1>3, <2>1, <2>2
<1>4. c % k \in Nat /\ c % k < k
  BY <1>1
<1>5. /\ ((n * p) + (c \div k)) * k <= (n * p) * k + c
      /\ (n * p) * k + c < (((n * p) + (c \div k)) + 1) * k
  BY <1>1, <1>2, <1>3, <1>4
<1> QED BY <1>1, <1>2, <1>5

Taken(t) == own[t].regs.dh * Period + own[t].regs.dl

\* What a call knows of the timer between its loads, and before its store.
ReadAt(t) ==
  /\ own[t].pc = "dl" =>
       /\ own[t].regs.dh <= jz_timer_h
       /\ began[t].now <= Now
       /\ began[t].late = 0 => own[t].regs.dh = began[t].periods
  /\ own[t].pc = "store" =>
       /\ Taken(t) <= Now
       /\ began[t].late = 0 => began[t].now <= Taken(t)

ReadInv ==
  /\ PortInv
  /\ began \in [Threads -> [now : Nat, periods : Nat, late : Nat]]
  /\ tm \in [Threads -> [us : Nat, s : Nat]]
  /\ \A t \in Threads : began[t].periods <= periods
  /\ \A t \in Threads \ hit : ReadAt(t)

LEMMA NowAdvances ==
  ASSUME TimerInv, [Next]_vars
  PROVE  /\ Now \in Nat /\ Now' \in Nat /\ Now <= Now'
         /\ jz_timer_h <= jz_timer_h' /\ periods <= periods'
<1>0. /\ Period \in Nat \ {0} /\ MaxPeriods \in Nat
      /\ count \in Nat /\ count < Period /\ jz_timer_h \in Nat /\ periods \in Nat
  BY TimerAssumption DEF TimerInv
<1>1. Now \in Nat
  BY <1>0 DEF Now
<1>2. CASE Count
  <2>1. CASE count + 1 < Period
    <3>1. count' = count + 1 /\ periods' = periods /\ jz_timer_h' = jz_timer_h
      BY <1>2, <2>1 DEF Count
    <3> QED BY <1>0, <1>1, <3>1 DEF Now
  <2>2. CASE ~ (count + 1 < Period)
    <3>1. count' = 0 /\ periods' = periods + 1 /\ jz_timer_h' = jz_timer_h
      BY <1>2, <2>2 DEF Count
    <3>2. (periods + 1) * Period = periods * Period + Period
      BY <1>0
    <3> QED BY <1>0, <1>1, <3>1, <3>2 DEF Now
  <2> QED BY <2>1, <2>2
<1>3. CASE TimerHandler
  <2>1. jz_timer_h' = jz_timer_h + 1 /\ count' = count /\ periods' = periods
    BY <1>3 DEF TimerHandler
  <2> QED BY <1>0, <1>1, <2>1 DEF Now
<1>4. CASE UNCHANGED timer
  <2>1. jz_timer_h' = jz_timer_h /\ count' = count /\ periods' = periods
    BY <1>4 DEF timer
  <2> QED BY <1>0, <1>1, <2>1 DEF Now
<1> QED
  BY <1>2, <1>3, <1>4 DEF Next, vars, OtherHandler, JZ_GetTimer, LoadHigh, LoadLow,
     Store, Step

\* Nothing but its own instructions changes what a call knows.
LEMMA ReadKept ==
  ASSUME TimerInv, [Next]_vars, NEW t \in Threads, ReadAt(t),
         own[t] \in [pc : UserPoints, regs : Regs],
         began[t] \in [now : Nat, periods : Nat, late : Nat],
         own'[t] = own[t], began'[t] = began[t]
  PROVE  ReadAt(t)'
<1>1. /\ Now \in Nat /\ Now' \in Nat /\ Now <= Now' /\ jz_timer_h <= jz_timer_h'
      /\ jz_timer_h \in Nat /\ jz_timer_h' \in Nat
      /\ periods \in Nat /\ periods' \in Nat /\ periods <= periods'
  <2>1. TimerInv'
    BY TimerNext
  <2>2. /\ jz_timer_h \in Nat /\ jz_timer_h' \in Nat
        /\ periods \in Nat /\ periods' \in Nat
    BY <2>1, TimerAssumption DEF TimerInv
  <2> QED BY <2>2, NowAdvances
<1>2. /\ own[t].regs.dh \in Nat /\ own[t].regs.dl \in Nat /\ began[t].now \in Nat
      /\ began[t].periods \in Nat
  BY TimerAssumption DEF Regs
<1>3. Taken(t) \in Nat /\ Taken(t)' = Taken(t)
  BY <1>2, TimerAssumption DEF Taken
<1>4. CASE own[t].pc = "dl"
  <2>1. own[t].regs.dh <= jz_timer_h' /\ began[t].now <= Now'
    BY <1>1, <1>2, <1>4 DEF ReadAt
  <2>2. began[t].late = 0 => own[t].regs.dh = began[t].periods
    BY <1>4 DEF ReadAt
  <2> QED BY <1>4, <2>1, <2>2 DEF ReadAt
<1>5. CASE own[t].pc = "store"
  <2>1. Taken(t)' <= Now'
    BY <1>1, <1>3, <1>5 DEF ReadAt
  <2>2. began'[t].late = 0 => began'[t].now <= Taken(t)'
    BY <1>3, <1>5 DEF ReadAt
  <2> QED BY <1>5, <2>1, <2>2 DEF ReadAt
<1>6. CASE own[t].pc \notin {"dl", "store"}
  BY <1>6 DEF ReadAt
<1> QED BY <1>4, <1>5, <1>6

\* The instructions themselves.
LEMMA ReadStep ==
  ASSUME ReadInv, [Next]_vars, JZ_GetTimer, NEW t \in Threads \ hit, t = current_thread
  PROVE  /\ ReadAt(t)'
         /\ Store =>
              /\ Value(t)' * PerMicro <= Now
              /\ began[t].late = 0 => began[t].now < (Value(t)' + 1) * PerMicro
<1>0. /\ PortInv /\ MachineOK /\ TimerInv /\ t \in Threads
      /\ pc \in UserPoints /\ pc = own[t].pc /\ regs = own[t].regs /\ regs \in Regs
      /\ own \in [Threads -> [pc : UserPoints, regs : Regs]]
      /\ began \in [Threads -> [now : Nat, periods : Nat, late : Nat]]
      /\ began[t].periods <= periods
      /\ ReadAt(t)
  BY DEF JZ_GetTimer, LoadHigh, LoadLow, Store, Step, ReadInv, PortInv, ContextInv,
     RunsAs, MachineOK
<1>1. /\ Period \in Nat \ {0} /\ PerSecond \in Nat \ {0}
      /\ count \in Nat /\ jz_timer_h \in Nat /\ periods \in Nat
      /\ jz_timer_h <= periods /\ regs.dh \in Nat /\ regs.dl \in Nat
      /\ Now \in Nat
  <2>1. regs.dh \in Nat /\ regs.dl \in Nat
    BY <1>0, TimerAssumption DEF Regs
  <2>2. /\ count \in Nat /\ jz_timer_h \in Nat /\ periods \in Nat
        /\ jz_timer_h <= periods
    BY <1>0, TimerAssumption DEF TimerInv
  <2> QED BY <1>0, <2>1, <2>2, TimerAssumption, NowAdvances
<1>2. CASE LoadHigh
  <2>1. /\ own'[t].pc = "dl" /\ own'[t].regs.dh = jz_timer_h
        /\ jz_timer_h' = jz_timer_h /\ Now' = Now
    BY <1>0, <1>2 DEF LoadHigh, Step, Regs, timer, Now
  <2>2. began'[t] = [now |-> Now, periods |-> periods, late |-> periods - jz_timer_h]
    BY <1>0, <1>2 DEF LoadHigh
  <2>3. /\ began'[t].now = Now /\ began'[t].periods = periods /\ periods' = periods
        /\ began'[t].late = 0 => jz_timer_h = began'[t].periods
    BY <1>1, <1>2, <2>2 DEF LoadHigh, Step, timer
  <2>4. ReadAt(t)'
    BY <1>1, <2>1, <2>3 DEF ReadAt
  <2> QED BY <1>2, <2>4 DEF LoadHigh, Store, Step
<1>3. CASE LoadLow
  <2>1. /\ own[t].pc = "dl" /\ own'[t].pc = "store"
        /\ own'[t].regs.dh = own[t].regs.dh /\ own'[t].regs.dl = count
        /\ Now' = Now
    BY <1>0, <1>3 DEF LoadLow, Step, Regs, timer, Now
  <2>2. /\ began'[t].now = began[t].now
        /\ began'[t].late = began[t].late + periods - began[t].periods
    BY <1>0, <1>3 DEF LoadLow
  <2>3. /\ own[t].regs.dh <= jz_timer_h /\ own[t].regs.dh \in Nat
        /\ began[t].now <= Now
        /\ began[t].late = 0 => own[t].regs.dh = began[t].periods
    BY <1>0, <1>1, <2>1 DEF ReadAt
  <2>a. began[t].late \in Nat /\ began[t].periods \in Nat /\ began[t].periods <= periods
    BY <1>0
  <2>4. Taken(t)' = own[t].regs.dh * Period + count
    BY <2>1 DEF Taken
  <2>5. own[t].regs.dh * Period <= periods * Period
    <3>1. own[t].regs.dh <= periods
      BY <1>1, <2>3
    <3> QED BY <1>1, <2>3, <3>1, Monotone
  <2>6. Taken(t)' <= Now'
    <3>1. own[t].regs.dh * Period \in Nat /\ periods * Period \in Nat
      BY <1>1, <2>3
    <3>2. own[t].regs.dh * Period + count <= periods * Period + count
      BY <1>1, <2>5, <3>1
    <3> QED BY <2>1, <2>4, <3>2 DEF Now
  <2>7. began'[t].late = 0 => Taken(t)' = Now
    <3>1. began'[t].late = 0 => began[t].late = 0 /\ began[t].periods = periods
      <4>1. PICK l \in Nat, b \in Nat, q \in Nat :
              l = began[t].late /\ b = began[t].periods /\ q = periods
        BY <1>1, <2>a
      <4>2. began'[t].late = l + q - b /\ b <= q
        BY <2>2, <2>a, <4>1
      <4>3. l + q - b = 0 => l = 0 /\ b = q
        BY <4>2
      <4> QED BY <4>1, <4>2, <4>3
    <3> QED BY <2>3, <2>4, <3>1 DEF Now
  <2>8. ReadAt(t)'
    BY <2>1, <2>2, <2>3, <2>6, <2>7 DEF ReadAt
  <2> QED BY <1>3, <2>8 DEF LoadLow, Store, Step
<1>4. CASE Store
  <2>1. own[t].pc = "store" /\ own'[t].pc = "dh"
    BY <1>0, <1>4 DEF Store, Step
  <2>2. ReadAt(t)'
    BY <2>1 DEF ReadAt
  <2>3. /\ tm'[t].us = regs.dl \div PerMicro + (regs.dh % PerSecond) * PeriodMicros
        /\ tm'[t].s = regs.dh \div PerSecond
    BY <1>4, <1>0 DEF Store, ReadInv
  <2>4. PICK n \in Nat, c \in Nat, m \in Nat \ {0}, p \in Nat \ {0}, k \in Nat \ {0} :
          /\ n = regs.dh /\ c = regs.dl /\ m = PerSecond /\ p = PeriodMicros
          /\ k = PerMicro
    BY <1>1, TimerAssumption, Zenon
  <2>5. Value(t)' = n * p + (c \div k)
    <3>1. /\ n \div m \in Nat /\ n % m \in Nat /\ n = m * (n \div m) + (n % m)
          /\ c \div k \in Nat
      BY DivMod
    <3>2. PICK d \in Nat, r \in Nat, q \in Nat : d = n \div m /\ r = n % m /\ q = c \div k
      BY <3>1, Zenon
    <3>3. n = m * d + r
      BY <3>1, <3>2, Zenon
    <3>4. d * m * p + r * p = (m * d + r) * p
      OBVIOUS
    <3>5. PICK x \in Nat, y \in Nat, z \in Nat : x = d * m * p /\ y = r * p /\ z = n * p
      <4>1. d * m * p \in Nat /\ r * p \in Nat /\ n * p \in Nat
        OBVIOUS
      <4> QED BY <4>1, Zenon
    <3>6. x + y = z
      BY <3>3, <3>4, <3>5, Zenon
    <3>7. x + (q + y) = z + q
      BY <3>6
    <3>8. Value(t)' = (tm'[t].s * PerSecond * PeriodMicros) + tm'[t].us
      BY DEF Value
    <3>9. Value(t)' = d * m * p + (q + r * p)
      BY <2>3, <2>4, <3>2, <3>8, Zenon
    <3> QED BY <3>2, <3>5, <3>7, <3>9, Zenon
  <2>6. Taken(t) = n * (k * p) + c
    <3>1. Taken(t) = n * Period + c /\ Period = k * p
      BY <1>0, <2>4, TimerAssumption, Zenon DEF Taken
    <3> QED BY <3>1, Zenon
  <2>7. /\ Value(t)' \in Nat /\ Value(t)' * k <= Taken(t)
        /\ Taken(t) < (Value(t)' + 1) * k
    <3>1. /\ n * p + (c \div k) \in Nat
          /\ (n * p + (c \div k)) * k <= n * (k * p) + c
          /\ n * (k * p) + c < ((n * p + (c \div k)) + 1) * k
      BY Truncated
    <3> QED BY <2>5, <2>6, <3>1, Zenon
  <2>8. /\ Taken(t) <= Now
        /\ began[t].late = 0 => began[t].now <= Taken(t)
    BY <1>0, <2>1 DEF ReadAt
  <2>9. Taken(t) \in Nat /\ began[t].now \in Nat /\ Now \in Nat
        /\ Value(t)' * k \in Nat /\ (Value(t)' + 1) * k \in Nat
    <3>1. n * (k * p) + c \in Nat
      OBVIOUS
    <3>2. \A v \in Nat : v * k \in Nat /\ (v + 1) * k \in Nat
      OBVIOUS
    <3> QED BY <1>0, <1>1, <2>6, <2>7, <3>1, <3>2
  <2>10. Value(t)' * k <= Now /\ (began[t].late = 0 => began[t].now < (Value(t)' + 1) * k)
    <3>1. \A a, x, b \in Nat : a <= x /\ x <= b => a <= b
      OBVIOUS
    <3>2. \A a, x, b \in Nat : a <= x /\ x < b => a < b
      OBVIOUS
    <3> QED BY <2>7, <2>8, <2>9, <3>1, <3>2, Zenon
  <2> QED BY <2>2, <2>4, <2>10
<1> QED BY <1>2, <1>3, <1>4 DEF JZ_GetTimer

LEMMA ReadInit == Init => ReadInv
<1> SUFFICES ASSUME Init PROVE ReadInv
  OBVIOUS
<1>1. \A t \in Threads : own[t].pc = "dh"
  BY DEF Init, CtxInit
<1>2. /\ began \in [Threads -> [now : Nat, periods : Nat, late : Nat]]
      /\ tm \in [Threads -> [us : Nat, s : Nat]]
  BY DEF Init, NoRead
<1>3. \A t \in Threads : began[t].periods <= periods
  <2> SUFFICES ASSUME NEW t \in Threads PROVE began[t].periods <= periods
    OBVIOUS
  <2>1. began[t] = [now |-> 0, periods |-> 0, late |-> 0] /\ periods = 0
    BY DEF Init, NoRead
  <2>2. began[t].periods = 0
    BY <2>1
  <2> QED BY <2>1, <2>2
<1> QED BY <1>1, <1>2, <1>3, PortInit DEF ReadInv, ReadAt

LEMMA ReadNext == ReadInv /\ [Next]_vars => ReadInv'
<1> SUFFICES ASSUME ReadInv, [Next]_vars PROVE ReadInv'
  OBVIOUS
<1>0. /\ PortInv /\ MachineOK /\ TimerInv
      /\ own \in [Threads -> [pc : UserPoints, regs : Regs]]
      /\ began \in [Threads -> [now : Nat, periods : Nat, late : Nat]]
      /\ tm \in [Threads -> [us : Nat, s : Nat]]
      /\ \A t \in Threads : began[t].periods <= periods
      /\ periods \in Nat /\ periods' \in Nat /\ periods <= periods'
  <2>1. PortInv /\ MachineOK /\ TimerInv /\ TimerInv'
    BY TimerNext DEF ReadInv, PortInv, ContextInv
  <2>2. periods \in Nat /\ periods' \in Nat /\ periods <= periods'
    <3>1. periods \in Nat /\ periods' \in Nat
      BY <2>1, TimerAssumption DEF TimerInv
    <3> QED BY <2>1, <3>1, NowAdvances
  <2> QED BY <2>1, <2>2 DEF ReadInv, PortInv, ContextInv, MachineOK
<1>1. PortInv'
  BY <1>0, PortNext
<1>2. hit \subseteq hit'
  BY DEF Next, vars, processor, Count, Interrupt, TimerHandler, OtherHandler, ExitInterrupt,
     Restore, RestoreStatus, LoadPc, SetEpc, RestoreLo, LoadLo, SetLo, Eret, Jump, Switch,
     CallSchedule, ReturnFromSchedule, context_switch, JZ_GetTimer, LoadHigh, LoadLow,
     Store, Step
<1>3. CASE JZ_GetTimer
  <2>t. PICK t \in Threads : t = current_thread
    BY <1>0 DEF MachineOK
  <2>1. \A u \in Threads \ {t} : own'[u] = own[u] /\ began'[u] = began[u]
    BY <1>0, <1>3, <2>t DEF JZ_GetTimer, LoadHigh, LoadLow, Store, Step
  <2>2. ASSUME NEW u \in Threads \ hit' PROVE ReadAt(u)'
    <3>1. CASE u = t
      BY <1>2, <1>3, <2>t, <2>2, <3>1, ReadStep
    <3>2. CASE u # t
      <4>1. ReadAt(u)
        BY <1>2, <2>2 DEF ReadInv
      <4> QED BY <1>0, <2>1, <2>2, <3>2, <4>1, ReadKept
    <3> QED BY <3>1, <3>2
  <2>3. began' \in [Threads -> [now : Nat, periods : Nat, late : Nat]]
    <3>1. Now \in Nat /\ periods \in Nat
      <4>1. periods \in Nat
        BY <1>0, TimerAssumption DEF TimerInv
      <4> QED BY <1>0, <4>1, NowAdvances
    <3>2. CASE LoadHigh
      <4>1. [now |-> Now, periods |-> periods, late |-> periods - jz_timer_h]
              \in [now : Nat, periods : Nat, late : Nat]
        BY <1>0, <3>1, TimerAssumption DEF TimerInv
      <4> QED BY <1>0, <3>2, <4>1 DEF LoadHigh
    <3>3. CASE LoadLow
      <4>1. began[t].late + periods - began[t].periods \in Nat
        BY <1>0, <2>t, <3>1 DEF ReadInv
      <4>2. began' = [began EXCEPT ![t] = [@ EXCEPT !.late = began[t].late + periods
                                                              - began[t].periods]]
        BY <2>t, <3>3 DEF LoadLow
      <4>3. [began[t] EXCEPT !.late = began[t].late + periods - began[t].periods]
              \in [now : Nat, periods : Nat, late : Nat]
        BY <1>0, <4>1
      <4> QED BY <1>0, <4>2, <4>3
    <3>4. CASE Store
      BY <1>0, <3>4 DEF Store, NoRead
    <3> QED BY <1>3, <3>2, <3>3, <3>4 DEF JZ_GetTimer
  <2>4. tm' \in [Threads -> [us : Nat, s : Nat]]
    <3>1. CASE Store
      <4>1. regs.dh \in Nat /\ regs.dl \in Nat
        BY <1>0, <3>1, TimerAssumption DEF Store, Step, MachineOK, Regs
      <4>2. regs.dh % PerSecond \in Nat /\ regs.dh \div PerSecond \in Nat
        <5>1. PICK n \in Nat : n = regs.dh
          BY <4>1
        <5>2. n % PerSecond \in Nat /\ n \div PerSecond \in Nat
          BY TimerAssumption
        <5> QED BY <5>1, <5>2
      <4>3. regs.dl \div PerMicro + (regs.dh % PerSecond) * PeriodMicros \in Nat
        <5>1. regs.dl \div PerMicro \in Nat
          BY <4>1, DivMod, TimerAssumption
        <5>2. \A a, b, p \in Nat : a + b * p \in Nat
          OBVIOUS
        <5> QED BY <4>2, <5>1, <5>2, TimerAssumption
      <4> QED BY <1>0, <3>1, <4>2, <4>3 DEF Store
    <3>2. CASE LoadHigh \/ LoadLow
      BY <1>0, <3>2 DEF LoadHigh, LoadLow
    <3> QED BY <1>3, <3>1, <3>2 DEF JZ_GetTimer
  <2>5. \A u \in Threads : began'[u].periods <= periods'
    <3>1. CASE LoadHigh
      <4>1. began'[t] = [now |-> Now, periods |-> periods, late |-> periods - jz_timer_h]
        BY <1>0, <2>t, <3>1 DEF LoadHigh
      <4>2. began'[t].periods = periods
        BY <4>1
      <4> QED BY <1>0, <2>1, <4>2
    <3>2. CASE LoadLow
      <4>1. began'[t].periods = began[t].periods
        BY <1>0, <2>t, <3>2 DEF LoadLow
      <4> QED BY <1>0, <2>1, <4>1
    <3>3. CASE Store
      <4>1. began'[t].periods = 0
        BY <1>0, <2>t, <3>3 DEF Store, NoRead
      <4> QED BY <1>0, <2>1, <4>1
    <3> QED BY <1>3, <3>1, <3>2, <3>3 DEF JZ_GetTimer
  <2> QED BY <1>1, <2>2, <2>3, <2>4, <2>5 DEF ReadInv
<1>4. CASE UNCHANGED <<own, began, tm>>
  <2>1. ASSUME NEW u \in Threads \ hit' PROVE ReadAt(u)'
    <3>1. ReadAt(u)
      BY <1>2, <2>1 DEF ReadInv
    <3> QED BY <1>0, <1>4, <2>1, <3>1, ReadKept
  <2>2. \A u \in Threads : began'[u].periods <= periods'
    BY <1>0, <1>4
  <2> QED BY <1>0, <1>1, <1>4, <2>1, <2>2 DEF ReadInv
<1> QED
  BY <1>3, <1>4 DEF Next, vars, processor, Count, Interrupt, TimerHandler, OtherHandler,
     ExitInterrupt, Restore, RestoreStatus, LoadPc, SetEpc, RestoreLo, LoadLo, SetLo, Eret,
     Jump, Switch, CallSchedule, ReturnFromSchedule, context_switch

(* A time JZ_GetTimer stores is never later than the timer, and less than a
   microsecond earlier than its call, unless a period ended between its two loads
   or had ended uncounted (timer.c:122-141): for every clock, that is every number
   of counts in a microsecond, of microseconds in a period and of periods in a
   second. *)
THEOREM ReadingsExact == Spec => ReadingExact
<1>1. ReadInv /\ [Next]_vars =>
        [Store => \A t \in {current_thread} \ hit :
           /\ Value(t)' * PerMicro <= Now
           /\ began[t].late = 0 => began[t].now < (Value(t)' + 1) * PerMicro]_vars
  <2> SUFFICES ASSUME ReadInv, [Next]_vars, Store, NEW t \in {current_thread} \ hit
               PROVE  /\ Value(t)' * PerMicro <= Now
                      /\ began[t].late = 0 => began[t].now < (Value(t)' + 1) * PerMicro
    OBVIOUS
  <2>1. t \in Threads \ hit /\ t = current_thread
    BY DEF ReadInv, PortInv, ContextInv, MachineOK
  <2> QED BY <2>1, ReadStep DEF JZ_GetTimer
<1> QED BY <1>1, ReadInit, ReadNext, PTL DEF Spec, ReadingExact

-----------------------------------------------------------------------------
(***************************************************************************)
(* Type correctness, that is the depth of the stacks above all, also for a *)
(* thread that an interrupt has hit: it may jump to nowhere, but no stack  *)
(* ever holds more than a context the interrupt pushed over the one        *)
(* init_thread_stack made, and no thread runs its code anywhere but where  *)
(* it was.                                                                 *)
(***************************************************************************)

Mid == (EretPoints \cup JumpPoints) \ {"eret_status", "jr_status"}
Lo  == Threads \cup {Junk}
Fresh(t) == [ie |-> TRUE, exl |-> FALSE, pc |-> "dh", lo |-> t, regs |-> reg0]

\* What an interrupt and what schedule() push.
Taken1(c, S) == /\ c \in Context /\ c.regs \in Regs
                /\ c.ie = TRUE /\ c.exl = TRUE /\ c.pc \in S
Given(c)     == /\ c \in Context /\ c.regs \in Regs
                /\ c.ie = FALSE /\ c.exl = FALSE /\ c.pc = "switched"

\* The ways a thread waits for its turn.
Unstarted(t) == stack[t] = <<Fresh(t)>> /\ own[t].pc = "dh"
Resumable(t) ==
  \/ \E c : Taken1(c, {own[t].pc} \cup Mid) /\ stack[t] = <<c>>
  \/ \E c : Given(c) /\ stack[t] = <<c>> /\ frame[t].ra = own[t].pc
  \/ \E c : Taken1(c, Mid) /\ stack[t] = <<c, Fresh(t)>> /\ own[t].pc = "dh"
Waits(t) == Unstarted(t) \/ Resumable(t)

\* The first dispatch, with interrupts on: before or after it was hit.
Starting(t) ==
  /\ ie = TRUE /\ exl = FALSE
  /\ stack[t] = <<>> \/ Unstarted(t)
  /\ pc = "jr_lo" => k0 \in Lo
  /\ pc \in {"eret_epc", "jr"} => k0 \in {"dh", Junk}
  /\ pc \in {"eret_lo", "eret"} => epc \in {"dh", Junk} \cup Mid
  /\ pc = "eret" => k0 = Junk

\* Any later one.
Resuming(t) ==
  /\ pc \in EretPoints
  /\ Resumable(t)
  /\ ie = Top(t).ie /\ exl = Top(t).exl
  /\ pc = "eret_epc" => k0 = Top(t).pc
  /\ pc \in {"eret_lo", "eret"} => epc = Top(t).pc
  /\ pc = "eret" => k0 = Junk

Holds(t) ==
  /\ pc \in {"handler", "eret_status"} => Waits(t)
  /\ pc = "jr_status" => Unstarted(t)
  /\ pc \in UserPoints \cup {"schedule", "switched"} => stack[t] = <<>> /\ exl = FALSE
  /\ pc \in UserPoints => pc = own[t].pc
  /\ pc \in {"schedule", "switched"} => ie = FALSE /\ frame[t].ra = own[t].pc
  /\ pc \in Mid => Starting(t) \/ Resuming(t)
  /\ pc = Junk => stack[t] = <<>>

StackInv ==
  /\ MachineOK
  /\ pc \in Points \cup {Junk} /\ epc \in Points \cup {Junk} /\ lo \in Lo
  /\ \A t \in Threads : t # current_thread => Waits(t)
  /\ Holds(current_thread)

LEMMA Contexts2 ==
  \A c, d : /\ <<c>> # <<>> /\ <<c>>[1] = c /\ Tail(<<c>>) = <<>> /\ <<c>> \o <<>> = <<c>>
            /\ <<c, d>> # <<>> /\ <<c, d>>[1] = c /\ Tail(<<c, d>>) = <<d>>
            /\ <<c>> \o <<d>> = <<c, d>>
<1> TAKE c, d
<1> DEFINE S == {c, d}
<1>1. <<c>> \in Seq(S) /\ <<d>> \in Seq(S) /\ <<>> \in Seq(S) /\ <<c, d>> \in Seq(S)
  OBVIOUS
<1>2. Len(<<c>>) = 1 /\ Len(<<d>>) = 1 /\ Len(<<c, d>>) = 2 /\ <<c>>[1] = c /\ <<d>>[1] = d
      /\ <<c, d>>[1] = c /\ <<c, d>>[2] = d /\ <<c>> # <<>> /\ <<c, d>> # <<>>
  OBVIOUS
<1>3. <<c>> \o <<>> = <<c>>
  BY <1>1, ConcatEmptySeq
<1>4. <<c>> \o <<d>> = <<c, d>>
  <2>1. /\ <<c>> \o <<d>> \in Seq(S) /\ Len(<<c>> \o <<d>>) = 2
        /\ (<<c>> \o <<d>>)[1] = c /\ (<<c>> \o <<d>>)[2] = d
    BY <1>1, <1>2, ConcatProperties
  <2>2. \A i \in 1 .. 2 : (<<c>> \o <<d>>)[i] = <<c, d>>[i]
    BY <1>2, <2>1
  <2> QED BY <1>1, <1>2, <2>1, <2>2, SeqEqual
<1>5. Tail(<<c>> \o <<>>) = <<>> /\ Tail(<<c>> \o <<d>>) = <<d>>
  <2>1. c \in S
    OBVIOUS
  <2> HIDE DEF S
  <2> QED BY <1>1, <2>1, PushPop
<1>6. Tail(<<c>>) = <<>> /\ Tail(<<c, d>>) = <<d>>
  BY <1>3, <1>4, <1>5
<1> QED BY <1>2, <1>3, <1>4, <1>6

\* A thread goes on waiting while nothing of it changes.
LEMMA StaysWaiting ==
  ASSUME NEW t \in Threads, Waits(t),
         stack'[t] = stack[t], frame'[t] = frame[t], own'[t] = own[t]
  PROVE  Waits(t)'
<1>1. Unstarted(t) => Unstarted(t)'
  BY DEF Unstarted, Fresh
<1>2. Resumable(t) => Resumable(t)'
  BY DEF Resumable, Fresh
<1> QED BY <1>1, <1>2 DEF Waits

LEMMA ResumableTop ==
  ASSUME NEW t, Resumable(t)
  PROVE  /\ stack[t] # <<>> /\ Top(t) \in Context /\ Top(t).regs \in Regs
         /\ \/ /\ Top(t).ie = TRUE /\ Top(t).exl = TRUE /\ Top(t).pc \in {own[t].pc} \cup Mid
               /\ Below(t) = <<>>
            \/ /\ Top(t).ie = TRUE /\ Top(t).exl = TRUE /\ Top(t).pc \in Mid
               /\ Below(t) = <<Fresh(t)>> /\ own[t].pc = "dh"
            \/ /\ Top(t).ie = FALSE /\ Top(t).exl = FALSE /\ Top(t).pc = "switched"
               /\ Below(t) = <<>> /\ frame[t].ra = own[t].pc
<1>1. CASE \E c : Taken1(c, {own[t].pc} \cup Mid) /\ stack[t] = <<c>>
  <2>1. PICK c : Taken1(c, {own[t].pc} \cup Mid) /\ stack[t] = <<c>>
    BY <1>1
  <2>2. stack[t] # <<>> /\ Top(t) = c /\ Below(t) = <<>>
    BY <2>1, Contexts2 DEF Top, Below
  <2> QED BY <2>1, <2>2 DEF Taken1
<1>2. CASE \E c : Given(c) /\ stack[t] = <<c>> /\ frame[t].ra = own[t].pc
  <2>1. PICK c : Given(c) /\ stack[t] = <<c>> /\ frame[t].ra = own[t].pc
    BY <1>2
  <2>2. stack[t] # <<>> /\ Top(t) = c /\ Below(t) = <<>>
    BY <2>1, Contexts2 DEF Top, Below
  <2> QED BY <2>1, <2>2 DEF Given
<1>3. CASE \E c : Taken1(c, Mid) /\ stack[t] = <<c, Fresh(t)>> /\ own[t].pc = "dh"
  <2>1. PICK c : Taken1(c, Mid) /\ stack[t] = <<c, Fresh(t)>> /\ own[t].pc = "dh"
    BY <1>3
  <2> HIDE DEF Fresh
  <2>2. stack[t] # <<>> /\ Top(t) = c /\ Below(t) = <<Fresh(t)>>
    BY <2>1, Contexts2 DEF Top, Below
  <2> QED BY <2>1, <2>2 DEF Taken1
<1> QED BY <1>1, <1>2, <1>3 DEF Resumable

LEMMA UnstartedTop ==
  ASSUME NEW t, Unstarted(t)
  PROVE  /\ stack[t] # <<>> /\ Top(t) = Fresh(t) /\ Below(t) = <<>> /\ own[t].pc = "dh"
         /\ Top(t).ie = TRUE /\ Top(t).exl = FALSE /\ Top(t).pc = "dh" /\ Top(t).lo = t
<1>1. stack[t] # <<>> /\ Top(t) = Fresh(t) /\ Below(t) = <<>>
  <2> DEFINE c == Fresh(t)
  <2>1. stack[t] = <<c>>
    BY DEF Unstarted
  <2> HIDE DEF c
  <2>2. stack[t] # <<>> /\ Top(t) = c /\ Below(t) = <<>>
    BY <2>1, Contexts2 DEF Top, Below
  <2> QED BY <2>2 DEF c
<1> QED BY <1>1 DEF Unstarted, Fresh

LEMMA PointsApart ==
  /\ Junk \notin Points /\ Junk \notin Threads /\ Threads \cap Points = {}
  /\ Mid \subseteq Points /\ UserPoints \subseteq Points /\ reg0 \in Regs
<1>1. reg0 \in Regs
  BY TimerAssumption DEF reg0, Regs
<1> QED BY <1>1, ValuesAssumption DEF Mid

LEMMA InterruptStacks ==
  ASSUME StackInv, Interrupt, NEW t, t = current_thread
  PROVE  StackInv'
<1> DEFINE c == [ie |-> ie, exl |-> TRUE, pc |-> pc, lo |-> lo, regs |-> regs]
<1>0. /\ MachineOK /\ t \in Threads /\ current_thread' = t /\ ie = TRUE /\ exl = FALSE
      /\ regs \in Regs /\ lo \in Lo /\ pc \in Points
      /\ frame' = frame /\ own' = own /\ pc' = "handler" /\ epc' = pc /\ lo' = Junk
      /\ stack \in [Threads -> Seq(SavedContext)]
      /\ own \in [Threads -> [pc : UserPoints, regs : Regs]]
      /\ Push(pc, TRUE)
  BY PointsApart DEF StackInv, Interrupt, MachineOK, Closed
<1>1. MachineOK'
  BY <1>0, MachineContext DEF ContextStep
<1>2. pc \in UserPoints \cup Mid
  BY <1>0 DEF StackInv, Holds, MachineOK, Closed, Mid
<1>3. c \in Context /\ c.regs \in Regs /\ c.ie = TRUE /\ c.exl = TRUE /\ c.pc = pc
  BY <1>0 DEF Context, Lo
<1>4. /\ stack'[t] = <<c>> \o stack[t]
      /\ \A u \in Threads \ {t} : stack'[u] = stack[u]
  BY <1>0 DEF Push
<1>5. ASSUME NEW u \in Threads, u # t PROVE Waits(u)'
  BY <1>0, <1>4, <1>5, StaysWaiting DEF StackInv
<1> HIDE DEF c
<1>6. Waits(t)'
  <2>1. CASE pc \in UserPoints
    <3>1. pc = own[t].pc /\ stack[t] = <<>>
      BY <2>1 DEF StackInv, Holds
    <3>2. stack'[t] = <<c>>
      BY <1>4, <3>1, Contexts2
    <3>3. Taken1(c, {own'[t].pc} \cup Mid)
      BY <1>0, <1>3, <3>1 DEF Taken1
    <3> QED BY <3>2, <3>3 DEF Waits, Resumable
  <2>2. CASE pc \in Mid
    <3>1. Starting(t)
      <4>1. Starting(t) \/ Resuming(t)
        BY <2>2 DEF StackInv, Holds
      <4>2. ~ Resuming(t)
        BY <1>0, ResumableTop DEF Resuming
      <4> QED BY <4>1, <4>2
    <3>2. Taken1(c, Mid) /\ Taken1(c, {own'[t].pc} \cup Mid)
      BY <1>3, <2>2 DEF Taken1
    <3>3. CASE stack[t] = <<>>
      <4>1. stack'[t] = <<c>>
        BY <1>4, <3>3, Contexts2
      <4> QED BY <3>2, <4>1 DEF Waits, Resumable
    <3>4. CASE Unstarted(t)
      <4> DEFINE f == Fresh(t)
      <4>1. stack[t] = <<f>> /\ own'[t].pc = "dh" /\ Fresh(t)' = f
        BY <1>0, <3>4 DEF Unstarted, Fresh
      <4> HIDE DEF f
      <4>2. stack'[t] = <<c, f>>
        BY <1>4, <4>1, Contexts2
      <4> QED BY <3>2, <4>1, <4>2 DEF Waits, Resumable
    <3> QED BY <3>1, <3>3, <3>4 DEF Starting
  <2> QED BY <1>2, <2>1, <2>2
<1>7. Holds(t)'
  BY <1>0, <1>6, PointsApart DEF Holds, Mid
<1> QED BY <1>0, <1>1, <1>5, <1>7 DEF StackInv, Lo

LEMMA ExitStacks ==
  ASSUME StackInv, NEW next \in Threads, ExitInterrupt(next), NEW t, t = current_thread
  PROVE  StackInv'
<1>0. /\ t \in Threads /\ pc = "handler" /\ pc' = "eret_status" /\ current_thread' = next
      /\ stack' = stack /\ frame' = frame /\ own' = own /\ epc' = epc /\ lo' = lo
  BY DEF StackInv, MachineOK, ExitInterrupt
<1>1. MachineOK'
  BY MachineContext DEF ContextStep, StackInv
<1>2. ASSUME NEW u \in Threads PROVE Waits(u)'
  <2>1. Waits(u)
    BY <1>0 DEF StackInv, Holds
  <2> QED BY <1>0, <2>1, StaysWaiting
<1>3. Holds(next)'
  BY <1>0, <1>2, PointsApart DEF Holds, Mid
<1> QED BY <1>0, <1>1, <1>2, <1>3 DEF StackInv

LEMMA SwitchStacks ==
  ASSUME StackInv, Switch, NEW t, t = current_thread
  PROVE  StackInv'
<1>0. /\ MachineOK /\ t \in Threads /\ exl \in BOOLEAN /\ lo \in Lo
      /\ stack \in [Threads -> Seq(SavedContext)]
      /\ frame \in [Threads -> [cpu_sr : BOOLEAN, ra : UserPoints]]
      /\ own \in [Threads -> [pc : UserPoints, regs : Regs]]
  BY DEF StackInv, MachineOK
<1>1. MachineOK'
  BY MachineContext DEF ContextStep, StackInv
<1>2. CASE CallSchedule
  <2>1. /\ pc \in UserPoints /\ pc' = "schedule" /\ ie' = FALSE /\ current_thread' = t
        /\ stack' = stack /\ own' = own /\ epc' = epc /\ lo' = lo /\ exl' = exl
        /\ frame'[t].ra = pc /\ \A u \in Threads \ {t} : frame'[u] = frame[u]
    BY <1>0, <1>2 DEF CallSchedule
  <2>2. pc = own[t].pc /\ stack[t] = <<>> /\ exl = FALSE
    BY <2>1 DEF StackInv, Holds
  <2>3. ASSUME NEW u \in Threads, u # t PROVE Waits(u)'
    BY <2>1, <2>3, StaysWaiting DEF StackInv
  <2>4. Holds(t)'
    BY <2>1, <2>2, PointsApart DEF Holds, Mid
  <2> QED BY <1>0, <1>1, <2>1, <2>3, <2>4 DEF StackInv
<1>3. ASSUME NEW next \in Threads, context_switch(next) PROVE StackInv'
  <2> DEFINE c == [ie |-> ie, exl |-> exl, pc |-> "switched", lo |-> lo, regs |-> regs]
  <2>1. /\ pc = "schedule" /\ pc' = "eret_status" /\ current_thread' = next
        /\ frame' = frame /\ own' = own /\ epc' = epc /\ lo' = lo
        /\ stack'[t] = <<c>> \o stack[t] /\ \A u \in Threads \ {t} : stack'[u] = stack[u]
    BY <1>0, <1>3 DEF context_switch, Push
  <2>2. stack[t] = <<>> /\ ie = FALSE /\ exl = FALSE /\ frame[t].ra = own[t].pc /\ regs \in Regs
    BY <2>1 DEF StackInv, Holds, MachineOK
  <2>3. Given(c)
    BY <1>0, <2>2 DEF Given, Context, Lo
  <2> HIDE DEF c
  <2>4. stack'[t] = <<c>>
    BY <2>1, <2>2, Contexts2
  <2>5. Waits(t)'
    BY <2>1, <2>2, <2>3, <2>4 DEF Waits, Resumable
  <2>6. ASSUME NEW u \in Threads PROVE Waits(u)'
    <3>1. CASE u # t
      BY <2>1, <3>1, StaysWaiting DEF StackInv
    <3> QED BY <2>5, <3>1
  <2>7. Holds(next)'
    BY <2>1, <2>6, PointsApart DEF Holds, Mid
  <2> QED BY <1>0, <1>1, <1>3, <2>1, <2>6, <2>7 DEF StackInv
<1>4. CASE ReturnFromSchedule
  <2>1. /\ pc \in {"schedule", "switched"} /\ pc' = frame[t].ra /\ current_thread' = t
        /\ stack' = stack /\ own' = own /\ epc' = epc /\ lo' = lo /\ exl' = exl
        /\ \A u \in Threads \ {t} : frame'[u] = frame[u]
    BY <1>0, <1>4 DEF ReturnFromSchedule
  <2>2. /\ stack[t] = <<>> /\ exl = FALSE /\ frame[t].ra = own[t].pc
        /\ frame[t].ra \in UserPoints
    BY <1>0, <2>1 DEF StackInv, Holds
  <2>3. ASSUME NEW u \in Threads, u # t PROVE Waits(u)'
    BY <2>1, <2>3, StaysWaiting DEF StackInv
  <2>4. Holds(t)'
    BY <2>1, <2>2, PointsApart DEF Holds, Mid
  <2>5. pc' \in Points
    BY <2>1, <2>2
  <2> QED BY <1>0, <1>1, <2>1, <2>3, <2>4, <2>5 DEF StackInv
<1> QED BY <1>2, <1>3, <1>4 DEF Switch

\* Up to the return, the stack of the thread is only read.
LEMMA LoadStacks ==
  ASSUME StackInv, RestoreStatus \/ LoadPc \/ SetEpc \/ RestoreLo \/ LoadLo \/ SetLo,
         NEW t, t = current_thread
  PROVE  StackInv'
<1>0. /\ t \in Threads /\ current_thread' = t
      /\ stack' = stack /\ frame' = frame /\ own' = own
      /\ stack[t] # <<>> /\ Saved = Top(t)
  BY DEF StackInv, MachineOK, RestoreStatus, LoadPc, SetEpc, RestoreLo, LoadLo, SetLo, At,
     Saved, Top
<1>1. MachineOK'
  BY MachineContext DEF ContextStep, StackInv, Restore
<1>2. ASSUME NEW u \in Threads, u # t PROVE Waits(u)'
  BY <1>0, <1>2, StaysWaiting DEF StackInv
<1>3. /\ Unstarted(t) => Unstarted(t)'
      /\ Resumable(t) => Resumable(t)'
      /\ Top(t)' = Top(t)
  BY <1>0 DEF Unstarted, Resumable, Fresh, Top
<1>4. CASE RestoreStatus
  <2>1. /\ pc \in {"eret_status", "jr_status"} /\ ie' = Top(t).ie /\ exl' = Top(t).exl
        /\ pc' = IF pc = "jr_status" THEN "jr_loadlo" ELSE "eret_loadpc"
        /\ epc' = epc /\ lo' = lo
    BY <1>0, <1>4 DEF RestoreStatus, At
  <2>2. CASE Unstarted(t)
    <3>1. Top(t).ie = TRUE /\ Top(t).exl = FALSE
      BY <2>2, UnstartedTop
    <3>2. Starting(t)'
      BY <1>3, <2>1, <2>2, <3>1 DEF Starting
    <3>3. Holds(t)'
      BY <2>1, <3>2, PointsApart DEF Holds, Mid
    <3> QED BY <1>0, <1>1, <1>2, <2>1, <3>3 DEF StackInv
  <2>3. CASE ~ Unstarted(t)
    <3>1. pc = "eret_status" /\ Resumable(t)
      BY <2>1, <2>3 DEF StackInv, Holds, Waits
    <3>2. Resuming(t)'
      BY <1>3, <2>1, <3>1 DEF Resuming
    <3>3. Holds(t)'
      BY <2>1, <3>1, <3>2, PointsApart DEF Holds, Mid
    <3> QED BY <1>0, <1>1, <1>2, <2>1, <3>3 DEF StackInv
  <2> QED BY <2>2, <2>3
<1>5. CASE LoadPc \/ SetEpc \/ RestoreLo \/ LoadLo \/ SetLo
  <2>1. /\ ie' = ie /\ exl' = exl
        /\ pc \in Mid /\ pc' \in Mid
        /\ (pc \in EretPoints <=> pc' \in EretPoints)
    BY <1>5 DEF LoadPc, SetEpc, RestoreLo, LoadLo, SetLo, At, Mid
  <2>2. \/ LoadPc /\ pc \in {"eret_loadpc", "jr_loadpc"} /\ k0' = Top(t).pc /\ epc' = epc /\ lo' = lo
           /\ pc' \in {"jr", "eret_epc"}
        \/ SetEpc /\ pc = "eret_epc" /\ epc' = k0 /\ pc' = "eret_lo" /\ lo' = lo
        \/ RestoreLo /\ pc = "eret_lo" /\ lo' = Top(t).lo /\ k0' = Junk /\ epc' = epc /\ pc' = "eret"
        \/ LoadLo /\ pc = "jr_loadlo" /\ k0' = Top(t).lo /\ pc' = "jr_lo" /\ epc' = epc /\ lo' = lo
        \/ SetLo /\ pc = "jr_lo" /\ lo' = k0 /\ pc' = "jr_loadpc" /\ epc' = epc
    BY <1>0, <1>5 DEF LoadPc, SetEpc, RestoreLo, LoadLo, SetLo, At
  <2>3. CASE Starting(t)
    <3>1. Unstarted(t) /\ ie = TRUE /\ exl = FALSE
          /\ Top(t).pc = "dh" /\ Top(t).lo = t
      BY <1>0, <2>3, UnstartedTop DEF Starting
    <3>2. Starting(t)'
      BY <1>0, <1>3, <2>1, <2>2, <2>3, <3>1 DEF Starting, Lo
    <3>3. lo' \in Lo /\ epc' \in Points \cup {Junk}
      BY <1>0, <2>2, <2>3, <3>1 DEF Starting, StackInv, Lo
    <3>4. Holds(t)'
      BY <2>1, <3>2, PointsApart DEF Holds, Mid
    <3> QED BY <1>0, <1>1, <1>2, <2>1, <3>3, <3>4, PointsApart DEF StackInv
  <2>4. CASE Resuming(t)
    <3>1. Resumable(t) /\ Top(t) \in Context /\ pc \in EretPoints
      BY <2>4, ResumableTop DEF Resuming
    <3>2. Resuming(t)'
      BY <1>3, <2>1, <2>2, <2>4, <3>1 DEF Resuming
    <3>3. lo' \in Lo /\ epc' \in Points \cup {Junk}
      BY <2>2, <2>4, <3>1 DEF Resuming, StackInv, Context, Lo
    <3>4. Holds(t)'
      BY <2>1, <3>2, PointsApart DEF Holds, Mid
    <3> QED BY <1>0, <1>1, <1>2, <2>1, <3>3, <3>4, PointsApart DEF StackInv
  <2> QED BY <2>1, <2>3, <2>4 DEF StackInv, Holds
<1> QED BY <1>4, <1>5

\* The return pops the context, and goes where it says if it is a resumption.
LEMMA ReturnStacks ==
  ASSUME StackInv, Eret \/ Jump, NEW t, t = current_thread
  PROVE  StackInv'
<1>0. /\ MachineOK /\ t \in Threads /\ current_thread' = t
      /\ frame' = frame /\ own' = own /\ stack[t] # <<>>
      /\ epc' = epc /\ lo' = lo /\ k0' = k0 /\ ie' = ie
      /\ pc \in {"eret", "jr"}
      /\ \A u \in Threads \ {t} : stack'[u] = stack[u]
      /\ stack'[t] = Below(t)
      /\ own \in [Threads -> [pc : UserPoints, regs : Regs]]
  BY PopTypes DEF StackInv, MachineOK, Eret, Jump, At
<1>1. MachineOK'
  BY MachineContext DEF ContextStep, StackInv, Restore
<1>2. ASSUME NEW u \in Threads, u # t PROVE Waits(u)'
  BY <1>0, <1>2, StaysWaiting DEF StackInv
<1>3. /\ pc = "eret" => pc' = epc /\ exl' = FALSE
      /\ pc = "jr" => pc' = k0 /\ exl' = exl
  BY <1>0 DEF Eret, Jump, At
<1>4. CASE Starting(t)
  <2>1. Unstarted(t) /\ stack'[t] = <<>> /\ own'[t].pc = "dh" /\ ie' = TRUE /\ exl' = FALSE
    BY <1>0, <1>3, <1>4, UnstartedTop DEF Starting
  <2>2. pc' \in {"dh", Junk} \cup Mid /\ (pc' \in Mid => epc' = pc' /\ k0' = Junk)
    BY <1>0, <1>3, <1>4, PointsApart DEF Starting, Mid
  <2>3. pc' \in Mid => Starting(t)'
    BY <2>1, <2>2, PointsApart DEF Starting, Lo, Mid
  <2>4. Holds(t)'
    BY <2>1, <2>2, <2>3, PointsApart DEF Holds, Mid
  <2> QED BY <1>0, <1>1, <1>2, <2>2, <2>4, PointsApart DEF StackInv
<1>5. CASE Resuming(t)
  <2>1. pc = "eret" /\ pc' = Top(t).pc /\ epc' = pc' /\ ie' = Top(t).ie /\ exl' = FALSE /\ k0' = Junk
    BY <1>0, <1>3, <1>5 DEF Resuming
  <2>2. CASE Top(t).ie = TRUE /\ Top(t).pc \in {own[t].pc} \cup Mid /\ Below(t) = <<>>
    <3>1. pc' \in {own'[t].pc} \cup Mid /\ stack'[t] = <<>> /\ own'[t].pc \in UserPoints
      BY <1>0, <2>1, <2>2
    <3>2. pc' \in Mid => Starting(t)'
      BY <2>1, <2>2, <3>1, PointsApart DEF Starting, Lo, Mid
    <3>3. Holds(t)'
      BY <2>1, <3>1, <3>2, PointsApart DEF Holds, Mid
    <3> QED BY <1>0, <1>1, <1>2, <2>1, <3>1, <3>3, PointsApart DEF StackInv
  <2>3. CASE Top(t).ie = TRUE /\ Top(t).pc \in Mid /\ Below(t) = <<Fresh(t)>> /\ own[t].pc = "dh"
    <3>1. Unstarted(t)' /\ pc' \in Mid
      BY <1>0, <2>1, <2>3 DEF Unstarted, Fresh
    <3>2. Starting(t)'
      BY <2>1, <2>3, <3>1, PointsApart DEF Starting, Lo, Mid
    <3>3. Holds(t)'
      BY <3>1, <3>2, PointsApart DEF Holds, Mid
    <3> QED BY <1>0, <1>1, <1>2, <2>1, <3>1, <3>3, PointsApart DEF StackInv
  <2>4. CASE Top(t).ie = FALSE /\ Top(t).pc = "switched" /\ Below(t) = <<>> /\ frame[t].ra = own[t].pc
    <3>1. Holds(t)'
      BY <1>0, <2>1, <2>4, PointsApart DEF Holds, Mid
    <3> QED BY <1>0, <1>1, <1>2, <2>1, <2>4, <3>1, PointsApart DEF StackInv
  <2> QED BY <1>5, <2>2, <2>3, <2>4, ResumableTop DEF Resuming
<1> QED BY <1>0, <1>4, <1>5 DEF StackInv, Holds, Mid

LEMMA OwnStacks ==
  ASSUME StackInv, MachineOK', NEW t, t = current_thread, NEW from \in UserPoints,
         NEW to \in UserPoints, NEW r, Step(from, to, r)
  PROVE  StackInv'
<1>0. /\ t \in Threads /\ current_thread' = t /\ own'[t].pc = to
      /\ stack' = stack /\ frame' = frame /\ pc = from /\ pc' = to
      /\ exl' = exl /\ epc' = epc /\ lo' = lo
      /\ \A u \in Threads \ {t} : own'[u] = own[u]
  BY DEF StackInv, MachineOK, Step
<1>1. ASSUME NEW u \in Threads, u # t PROVE Waits(u)'
  BY <1>0, <1>1, StaysWaiting DEF StackInv
<1>2. stack[t] = <<>> /\ exl = FALSE
  BY <1>0 DEF StackInv, Holds
<1>3. Holds(t)'
  BY <1>0, <1>2, PointsApart DEF Holds, Mid
<1> QED BY <1>0, <1>1, <1>3 DEF StackInv

LEMMA StackInit == Init => StackInv
<1> SUFFICES ASSUME Init PROVE StackInv
  OBVIOUS
<1>1. MachineOK
  BY PortInit DEF PortInv, ContextInv
<1>2. \A t \in Threads : Unstarted(t) /\ Waits(t)
  BY DEF Init, CtxInit, init_thread_stack, Unstarted, Fresh, Waits
<1>3. pc = "jr_status" /\ epc = Junk /\ lo = Junk /\ current_thread \in Threads
  BY DEF Init, CtxInit
<1>4. Holds(current_thread)
  BY <1>2, <1>3, PointsApart DEF Holds, Mid
<1> QED BY <1>1, <1>2, <1>3, <1>4 DEF StackInv, Lo

LEMMA StackNext ==
  ASSUME PortInv, StackInv, [Next]_vars
  PROVE  StackInv'
<1>0. current_thread \in Threads /\ MachineOK' /\ MachineOK
  BY PortNext DEF PortInv, ContextInv, MachineOK
<1>1. CASE UNCHANGED processor
  <2>1. UNCHANGED <<current_thread, ie, exl, epc, pc, k0, lo, regs, stack, frame, own, hit>>
    BY <1>1 DEF processor
  <2>2. \A t \in Threads : Waits(t) => Waits(t)'
    BY <2>1, StaysWaiting
  <2>3. \A t \in Threads : Unstarted(t) => Unstarted(t)'
    BY <2>1 DEF Unstarted, Fresh
  <2>4. Holds(current_thread)'
    <3> DEFINE t == current_thread
    <3>1. Holds(t) /\ t \in Threads
      BY <1>0 DEF StackInv
    <3>2. Starting(t) => Starting(t)'
      BY <2>1, <2>3, <3>1 DEF Starting, Lo
    <3>3. Resuming(t) => Resuming(t)'
      BY <2>1 DEF Resuming, Resumable, Fresh, Top
    <3> QED BY <2>1, <2>2, <2>3, <3>1, <3>2, <3>3 DEF Holds
  <2> QED BY <1>0, <2>1, <2>2, <2>4 DEF StackInv, Lo
<1>2. CASE Interrupt
  BY <1>2, InterruptStacks
<1>3. ASSUME NEW next \in Threads, ExitInterrupt(next) PROVE StackInv'
  BY <1>3, ExitStacks
<1>4. CASE Switch
  BY <1>4, SwitchStacks
<1>5. CASE Restore
  BY <1>5, LoadStacks, ReturnStacks DEF Restore
<1>6. CASE JZ_GetTimer
  <2>1. PICK r : \E from, to \in UserPoints : Step(from, to, r)
    BY <1>6 DEF JZ_GetTimer, LoadHigh, LoadLow, Store
  <2>2. PICK from \in UserPoints, to \in UserPoints : Step(from, to, r)
    BY <2>1
  <2> QED BY <1>0, <2>2, OwnStacks
<1> QED
  BY <1>1, <1>2, <1>3, <1>4, <1>5, <1>6 DEF Next, vars, Count, TimerHandler, OtherHandler

\* The registers, and the times a call stores.
BoundsInv ==
  /\ regs \in Regs \cup {Junk}
  /\ hit \subseteq Threads
  /\ \A t \in Threads :
       /\ began[t].periods <= MaxPeriods /\ began[t].late <= MaxPeriods
       /\ own[t].pc = "dl" => began[t].late <= began[t].periods
  /\ \A t \in Threads : tm[t].us < PerSecond * PeriodMicros /\ tm[t].s <= MaxPeriods

LEMMA BoundsInit == Init => BoundsInv
<1> SUFFICES ASSUME Init PROVE BoundsInv
  OBVIOUS
<1>1. \A t \in Threads :
        /\ began[t].periods = 0 /\ began[t].late = 0 /\ tm[t].us = 0 /\ tm[t].s = 0
        /\ own[t].pc = "dh"
  BY DEF Init, CtxInit, NoRead
<1>2. 0 < PerSecond * PeriodMicros /\ 0 <= MaxPeriods
  <2>1. PICK p \in Nat \ {0}, m \in Nat \ {0} : p = PeriodMicros /\ m = PerSecond
    BY TimerAssumption
  <2>2. 1 * p <= m * p
    BY Monotone
  <2>3. 0 < m * p
    BY <2>2
  <2> QED BY <2>1, <2>3, TimerAssumption
<1> QED BY <1>1, <1>2 DEF Init, CtxInit, BoundsInv

LEMMA SecondsBound ==
  ASSUME NEW n \in Nat, NEW m \in Nat \ {0}, NEW p \in Nat \ {0}, NEW c \in 0 .. p - 1
  PROVE  c + (n % m) * p < m * p /\ n \div m <= n
<1>1. n \div m \in Nat /\ n % m \in 0 .. m - 1 /\ n = m * (n \div m) + (n % m)
  BY DivMod
<1>2. \A q \in 0 .. m - 1 : c + q * p < m * p
  <2> TAKE q \in 0 .. m - 1
  <2>1. (q + 1) * p <= m * p
    BY Monotone
  <2>2. (q + 1) * p = q * p + p
    OBVIOUS
  <2>3. q * p \in Nat /\ m * p \in Nat
    OBVIOUS
  <2> QED BY <2>1, <2>2, <2>3
<1>3. \A q, r \in Nat : n = m * q + r => q <= n
  <2> TAKE q \in Nat, r \in Nat
  <2>1. 1 * q <= m * q
    BY Monotone
  <2>2. m * q \in Nat
    OBVIOUS
  <2> QED BY <2>1, <2>2
<1> QED BY <1>1, <1>2, <1>3

\* The microseconds of less than a period.
LEMMA MicrosBound ==
  ASSUME NEW p \in Nat \ {0}, NEW k \in Nat \ {0}, NEW c \in 0 .. k * p - 1
  PROVE  c \div k \in 0 .. p - 1
<1>1. c \in Nat /\ c < k * p
  <2>1. k * p \in Int
    OBVIOUS
  <2> QED BY <2>1
<1>2. c \div k \in Nat /\ c % k \in Nat /\ c = k * (c \div k) + (c % k)
  BY <1>1, DivMod
<1>3. \A q, r \in Nat : c = k * q + r => q < p
  <2> SUFFICES ASSUME NEW q \in Nat, NEW r \in Nat, c = k * q + r, p <= q
               PROVE  FALSE
    OBVIOUS
  <2>1. p * k <= q * k
    BY Monotone
  <2>2. p * k = k * p /\ q * k = k * q /\ k * q \in Nat /\ k * p \in Nat
    OBVIOUS
  <2> QED BY <1>1, <2>1, <2>2
<1> QED BY <1>2, <1>3

LEMMA BoundsNext ==
  ASSUME ReadInv, StackInv, BoundsInv, [Next]_vars
  PROVE  BoundsInv'
<1>0. /\ MachineOK /\ MachineOK' /\ TimerInv /\ current_thread \in Threads
      /\ own \in [Threads -> [pc : UserPoints, regs : Regs]]
      /\ began \in [Threads -> [now : Nat, periods : Nat, late : Nat]]
      /\ tm \in [Threads -> [us : Nat, s : Nat]]
      /\ \A t \in Threads : began[t].periods <= periods
  BY PortNext DEF ReadInv, PortInv, ContextInv, MachineOK
<1>1. /\ Period \in Nat \ {0} /\ PerSecond \in Nat \ {0} /\ MaxPeriods \in Nat
      /\ count \in 0 .. Period - 1 /\ jz_timer_h \in Nat /\ periods \in Nat
      /\ jz_timer_h <= periods /\ periods <= MaxPeriods
  BY <1>0, TimerAssumption DEF TimerInv
<1>2. regs' \in Regs \cup {Junk}
  <2>1. regs' \in {regs, Junk} \/ pc' \notin {"handler", "eret_status", "jr_status"}
    BY DEF Next, vars, processor, Count, Interrupt, TimerHandler, OtherHandler, ExitInterrupt,
       Restore, RestoreStatus, LoadPc, SetEpc, RestoreLo, LoadLo, SetLo, Eret, Jump, Switch,
       CallSchedule, ReturnFromSchedule, context_switch, JZ_GetTimer, LoadHigh, LoadLow,
       Store, Step
  <2> QED BY <1>0, <2>1 DEF MachineOK, BoundsInv
<1>3. hit' \subseteq Threads
  <2>1. hit' = hit \/ hit' = hit \cup {current_thread}
    BY DEF Next, vars, processor, Count, Interrupt, TimerHandler, OtherHandler, ExitInterrupt,
       Restore, RestoreStatus, LoadPc, SetEpc, RestoreLo, LoadLo, SetLo, Eret, Jump, Switch,
       CallSchedule, ReturnFromSchedule, context_switch, JZ_GetTimer, LoadHigh, LoadLow,
       Store, Step
  <2> QED BY <1>0, <2>1 DEF BoundsInv
<1>4. CASE JZ_GetTimer
  <2>t. PICK t \in Threads : t = current_thread
    BY <1>0
  <2>0. pc = own[t].pc
    BY <1>4, <2>t DEF JZ_GetTimer, LoadHigh, LoadLow, Store, Step, StackInv, Holds
  <2>1. \A u \in Threads \ {t} : own'[u] = own[u] /\ began'[u] = began[u] /\ tm'[u] = tm[u]
    BY <1>0, <1>4, <2>t DEF JZ_GetTimer, LoadHigh, LoadLow, Store, Step
  <2>2. /\ began'[t].periods <= MaxPeriods /\ began'[t].late <= MaxPeriods
        /\ own'[t].pc = "dl" => began'[t].late <= began'[t].periods
    <3>1. CASE LoadHigh
      <4>1. began'[t] = [now |-> Now, periods |-> periods, late |-> periods - jz_timer_h]
        BY <1>0, <2>t, <3>1 DEF LoadHigh
      <4>2. began'[t].periods = periods /\ began'[t].late = periods - jz_timer_h
        BY <4>1
      <4> QED BY <1>1, <4>2
    <3>2. CASE LoadLow
      <4>1. /\ own[t].pc = "dl" /\ own'[t].pc = "store"
            /\ began'[t].periods = began[t].periods
            /\ began'[t].late = began[t].late + periods - began[t].periods
        BY <1>0, <2>t, <2>0, <3>2 DEF LoadLow, Step
      <4>2. /\ began[t].late \in Nat /\ began[t].periods \in Nat
            /\ began[t].late <= began[t].periods /\ began[t].periods <= MaxPeriods
        BY <1>0, <4>1 DEF BoundsInv
      <4>3. \A l, b \in Nat : l <= b => l + periods - b <= MaxPeriods
        BY <1>1
      <4> QED BY <4>1, <4>2, <4>3
    <3>3. CASE Store
      <4>1. began'[t] = NoRead /\ own'[t].pc = "dh"
        BY <1>0, <2>t, <3>3 DEF Store, Step
      <4>2. began'[t].periods = 0 /\ began'[t].late = 0
        BY <4>1 DEF NoRead
      <4> QED BY <1>1, <4>1, <4>2
    <3> QED BY <1>4, <3>1, <3>2, <3>3 DEF JZ_GetTimer
  <2>3. tm'[t].us < PerSecond * PeriodMicros /\ tm'[t].s <= MaxPeriods
    <3>1. CASE Store
      <4>1. regs \in Regs
        BY <1>0, <3>1 DEF Store, Step, MachineOK
      <4>2. regs.dh \in Nat /\ regs.dh <= MaxPeriods /\ regs.dl \in 0 .. Period - 1
        BY <1>1, <4>1 DEF Regs
      <4>3. /\ tm'[t].us = regs.dl \div PerMicro + (regs.dh % PerSecond) * PeriodMicros
            /\ tm'[t].s = regs.dh \div PerSecond
        BY <1>0, <2>t, <3>1 DEF Store
      <4>4. PICK n \in Nat, m \in Nat \ {0}, p \in Nat \ {0}, k \in Nat \ {0} :
              /\ n = regs.dh /\ m = PerSecond /\ p = PeriodMicros /\ k = PerMicro
              /\ Period = k * p
        BY <4>2, TimerAssumption, Zenon
      <4>5. PICK c \in 0 .. p - 1 : c = regs.dl \div PerMicro
        <5>1. regs.dl \in 0 .. k * p - 1
          BY <4>2, <4>4, Zenon
        <5>2. regs.dl \div k \in 0 .. p - 1
          BY <5>1, MicrosBound
        <5> QED BY <4>4, <5>2, Zenon
      <4>6. c + (n % m) * p < m * p /\ n \div m <= n
        BY SecondsBound
      <4>7. n \div m \in Nat
        BY DivMod
      <4>8. tm'[t].us = c + (n % m) * p /\ tm'[t].s = n \div m
        BY <4>3, <4>4, <4>5, Zenon
      <4>9. n \div m <= MaxPeriods
        BY <1>1, <4>2, <4>4, <4>6, <4>7
      <4>10. m * p = PerSecond * PeriodMicros
        BY <4>4, Zenon
      <4> QED BY <4>6, <4>8, <4>9, <4>10, Zenon
    <3>2. CASE LoadHigh \/ LoadLow
      BY <3>2 DEF LoadHigh, LoadLow, BoundsInv
    <3> QED BY <1>4, <3>1, <3>2 DEF JZ_GetTimer
  <2>4. \A u \in Threads :
          /\ began'[u].periods <= MaxPeriods /\ began'[u].late <= MaxPeriods
          /\ own'[u].pc = "dl" => began'[u].late <= began'[u].periods
          /\ tm'[u].us < PerSecond * PeriodMicros /\ tm'[u].s <= MaxPeriods
    BY <2>1, <2>2, <2>3 DEF BoundsInv
  <2> QED BY <1>2, <1>3, <2>4 DEF BoundsInv, Regs
<1>5. CASE UNCHANGED <<own, began, tm>>
  BY <1>2, <1>3, <1>5 DEF BoundsInv, Regs
<1> QED
  BY <1>4, <1>5 DEF Next, vars, processor, Count, Interrupt, TimerHandler, OtherHandler,
     ExitInterrupt, Restore, RestoreStatus, LoadPc, SetEpc, RestoreLo, LoadLo, SetLo, Eret,
     Jump, Switch, CallSchedule, ReturnFromSchedule, context_switch

\* Nobody saves more than two contexts on a stack.
LEMMA ShortStacks ==
  ASSUME StackInv, NEW t \in Threads
  PROVE  stack[t] \in Seq(Context) /\ Len(stack[t]) <= 2
<1>1. Fresh(t) \in Context
  BY PointsApart DEF Fresh, Context
<1>2. \A c, d \in Context :
        /\ <<>> \in Seq(Context) /\ <<c>> \in Seq(Context) /\ <<c, d>> \in Seq(Context)
        /\ Len(<<>>) = 0 /\ Len(<<c>>) = 1 /\ Len(<<c, d>>) = 2
  OBVIOUS
<1>3. stack[t] = <<>> \/ Waits(t)
  BY DEF StackInv, Holds, Starting, Resuming, Waits, MachineOK, Mid
<1>4. \/ stack[t] = <<>>
      \/ \E c \in Context : stack[t] = <<c>> \/ stack[t] = <<c, Fresh(t)>>
  BY <1>1, <1>3 DEF Waits, Unstarted, Resumable, Taken1, Given
<1>5. ASSUME NEW c \in Context, stack[t] = <<c, Fresh(t)>>
      PROVE  stack[t] \in Seq(Context) /\ Len(stack[t]) <= 2
  <2>1. PICK f \in Context : f = Fresh(t)
    BY <1>1
  <2>2. stack[t] = <<c, f>>
    BY <1>5, <2>1, Zenon
  <2> QED BY <1>2, <2>2
<1>6. ASSUME NEW c \in Context, stack[t] = <<c>>
      PROVE  stack[t] \in Seq(Context) /\ Len(stack[t]) <= 2
  BY <1>2, <1>6
<1>7. stack[t] = <<>> => stack[t] \in Seq(Context) /\ Len(stack[t]) <= 2
  OBVIOUS
<1> QED BY <1>4, <1>5, <1>6, <1>7, Zenon

\* A record whose fields are bounded is a record of bounded fields.
LEMMA BoundedRecords ==
  ASSUME NEW M \in Nat, NEW N \in Nat
  PROVE  /\ \A b \in [now : Nat, periods : Nat, late : Nat] :
              b.periods <= M /\ b.late <= M => b \in [now : Nat, periods : 0..M, late : 0..M]
         /\ \A b \in [us : Nat, s : Nat] :
              b.us < N /\ b.s <= M => b \in [us : 0 .. N - 1, s : 0..M]
<1>1. ASSUME NEW b \in [now : Nat, periods : Nat, late : Nat], b.periods <= M, b.late <= M
      PROVE  b \in [now : Nat, periods : 0..M, late : 0..M]
  <2>1. b.now \in Nat /\ b.periods \in 0..M /\ b.late \in 0..M
    BY <1>1
  <2> QED BY <2>1
<1>2. ASSUME NEW b \in [us : Nat, s : Nat], b.us < N, b.s <= M
      PROVE  b \in [us : 0 .. N - 1, s : 0..M]
  <2>1. b.us \in 0 .. N - 1 /\ b.s \in 0..M
    BY <1>2
  <2> QED BY <2>1
<1> QED BY <1>1, <1>2

(* Every register and word stays what it can be, every time JZ_GetTimer stores has
   fewer microseconds than a second, and the stack of no thread, not even of one
   hit in its first dispatch, holds more than two contexts (mips_port.S, timer.c). *)
THEOREM PortTypeCorrect == Spec => []TypeOK
<1> DEFINE TypeInv == ReadInv /\ StackInv /\ BoundsInv
<1>1. Init => TypeInv
  BY ReadInit, StackInit, BoundsInit
<1>2. TypeInv /\ [Next]_vars => TypeInv'
  BY ReadNext, StackNext, BoundsNext DEF ReadInv
<1>3. TypeInv => TypeOK
  <2> SUFFICES ASSUME ReadInv, StackInv, BoundsInv PROVE TypeOK
    OBVIOUS
  <2>0. MachineOK /\ TimerInv
    BY DEF ReadInv, PortInv, ContextInv
  <2>1. stack \in [Threads -> Seq(Context)] /\ \A t \in Threads : Len(stack[t]) <= 2
    BY <2>0, ShortStacks DEF MachineOK
  <2>2. CtxTypeOK
    BY <2>0, <2>1 DEF MachineOK, StackInv, BoundsInv, CtxTypeOK, Word, Lo
  <2>3. began \in [Threads -> [now : Nat, periods : 0..MaxPeriods, late : 0..MaxPeriods]]
    <3>1. \A t \in Threads :
            began[t] \in [now : Nat, periods : 0..MaxPeriods, late : 0..MaxPeriods]
      <4> SUFFICES ASSUME NEW t \in Threads
                   PROVE  began[t] \in [now : Nat, periods : 0..MaxPeriods, late : 0..MaxPeriods]
        OBVIOUS
      <4>1. began[t] \in [now : Nat, periods : Nat, late : Nat]
        BY DEF ReadInv
      <4>2. began[t].periods <= MaxPeriods /\ began[t].late <= MaxPeriods
        BY DEF BoundsInv
      <4>3. MaxPeriods \in Nat
        BY TimerAssumption
      <4> QED BY <4>1, <4>2, <4>3, BoundedRecords
    <3> QED BY <3>1 DEF ReadInv
  <2>4. tm \in [Threads -> [us : 0..PerSecond * PeriodMicros - 1, s : 0..MaxPeriods]]
    <3>1. PerSecond * PeriodMicros \in Nat /\ MaxPeriods \in Nat
      BY TimerAssumption
    <3> DEFINE m == PerSecond * PeriodMicros
    <3>2. \A t \in Threads : tm[t] \in [us : Nat, s : Nat] /\ tm[t].us < m /\ tm[t].s <= MaxPeriods
      BY DEF ReadInv, BoundsInv
    <3> HIDE DEF m
    <3>3. m \in Nat
      BY <3>1 DEF m
    <3>4. \A t \in Threads : tm[t] \in [us : 0 .. m - 1, s : 0..MaxPeriods]
      BY <3>1, <3>2, <3>3, BoundedRecords
    <3>5. tm \in [Threads -> [us : 0 .. m - 1, s : 0..MaxPeriods]]
      BY <3>4 DEF ReadInv
    <3> QED BY <3>5 DEF m
  <2> QED BY <2>0, <2>2, <2>3, <2>4 DEF TimerInv, TypeOK
<1> HIDE DEF TypeInv
<1> QED BY <1>1, <1>2, <1>3, PTL DEF Spec
=============================================================================
