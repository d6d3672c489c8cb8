-------------------------------- MODULE Port --------------------------------
(***************************************************************************)
(* Threads that read the time with JZ_GetTimer, over the contexts of       *)
(* Contexts and the second timer of the TCU (timer.c).  The counter runs   *)
(* whatever the processor does; JZ_timerHandler counts its periods in      *)
(* jz_timer_h, later than they end when interrupts are off.                *)
(***************************************************************************)
EXTENDS Integers, Sequences

CONSTANTS
    Threads, Junk,
    Readers,        \* the threads that read the time; the others only run
    PerMicro,       \* counts in a microsecond, EXTAL_CLK / 1000000 / 4: 3
    PeriodMicros,   \* microseconds in a period: 20000
    Period,         \* counts in a period, TDFR: 60000
    PerSecond,      \* periods in a second: 50
    MaxPeriods      \* bound on the periods of a run

ASSUME ReadersAssumption == Readers \subseteq Threads
ASSUME TimerAssumption ==
    /\ PerMicro \in Nat \ {0} /\ PeriodMicros \in Nat \ {0}
    /\ Period = PerMicro * PeriodMicros
    /\ PerSecond \in Nat \ {0} /\ MaxPeriods \in Nat

VARIABLES
    current_thread, ie, exl, epc, pc, k0, lo, regs, stack, frame, own, hit,
    count,          \* REG_TCU_TCNT(1)
    match,          \* the full-match flag of timer 1
    jz_timer_h,
    periods,        \* history: periods that have ended
    began,          \* history: the timer when the read a thread is in began, and
                    \* how many periods that had ended it has not seen
    tm              \* what each thread's last call stored

UserPoints == {"dh", "dl", "store"}
Regs == [dh : 0..MaxPeriods, dl : 0..Period - 1]
reg0 == [dh |-> 0, dl |-> 0]
INSTANCE Contexts WITH func <- "dh"

ASSUME ValuesAssumption ==    \* a thread is no address, and Junk is neither
    Threads \cap Points = {} /\ Junk \notin Points \cup Threads

processor == <<current_thread, ie, exl, epc, pc, k0, lo, regs, stack, frame, own, hit>>
timer == <<count, match, jz_timer_h, periods>>
vars == <<processor, timer, began, tm>>

Now == periods * Period + count

NoRead == [now |-> 0, periods |-> 0, late |-> 0]

Init ==    \* JZ_StartTimer has run
    /\ CtxInit
    /\ count = 0 /\ match = FALSE /\ jz_timer_h = 0 /\ periods = 0
    /\ began = [t \in Threads |-> NoRead]
    /\ tm = [t \in Threads |-> [us |-> 0, s |-> 0]]

TypeOK ==
    /\ CtxTypeOK
    /\ count \in 0..Period - 1 /\ match \in BOOLEAN
    /\ jz_timer_h \in 0..MaxPeriods /\ periods \in 0..MaxPeriods
    /\ began \in [Threads -> [now : Nat, periods : 0..MaxPeriods, late : 0..MaxPeriods]]
    /\ tm \in [Threads -> [us : 0..PerSecond * PeriodMicros - 1, s : 0..MaxPeriods]]

-----------------------------------------------------------------------------
(* The counter starts again when it reaches TDFR, and sets the flag. *)
Count ==
    /\ IF count + 1 < Period
       THEN count' = count + 1 /\ UNCHANGED <<match, periods>>
       ELSE /\ periods < MaxPeriods
            /\ count' = 0 /\ match' = TRUE /\ periods' = periods + 1
    /\ UNCHANGED <<processor, jz_timer_h, began, tm>>

(* An instruction runs: the processor takes a pending interrupt before it. *)
Runs == ~ (match /\ ie /\ ~ exl)

(* JZ_timerHandler; any other interrupt, the tick's for one; then exit_interrupt. *)
TimerHandler ==
    /\ match
    /\ match' = FALSE /\ jz_timer_h' = jz_timer_h + 1
    /\ \E next \in Threads : ExitInterrupt(next)
    /\ UNCHANGED <<count, periods, began, tm>>
OtherHandler == (\E next \in Threads : ExitInterrupt(next)) /\ UNCHANGED <<timer, began, tm>>

Switch == CallSchedule \/ ReturnFromSchedule \/ \E next \in Threads : context_switch(next)

(* JZ_GetTimer.  The count is 16 bits wide, so `dl == -1' never holds and the
   second look at jz_timer_h is never taken: it is two loads and a store, which
   turns counts and periods into microseconds and seconds. *)
Step(from, to, r) ==
    /\ pc = from /\ current_thread \in Readers
    /\ regs' = r /\ pc' = to
    /\ own' = [own EXCEPT ![current_thread] = [pc |-> to, regs |-> r]]
    /\ UNCHANGED <<current_thread, ie, exl, epc, k0, lo, stack, frame, hit, timer>>

LoadHigh ==
    /\ Step("dh", "dl", [regs EXCEPT !.dh = jz_timer_h])
    /\ began' = [began EXCEPT ![current_thread] =
                    [now |-> Now, periods |-> periods, late |-> periods - jz_timer_h]]
    /\ UNCHANGED tm
LoadLow ==
    /\ Step("dl", "store", [regs EXCEPT !.dl = count])
    /\ began' = [began EXCEPT ![current_thread].late =
                    @ + periods - began[current_thread].periods]
    /\ UNCHANGED tm
MutStore ==    \* mutant: the seconds stay in the microseconds
    /\ Step("store", "dh", regs)
    /\ tm' = [tm EXCEPT ![current_thread] =
                 [us |-> regs.dl \div PerMicro + regs.dh * PeriodMicros,
                  s |-> regs.dh \div PerSecond]]
    /\ began' = [began EXCEPT ![current_thread] = NoRead]
Store ==
    /\ Step("store", "dh", regs)
    /\ tm' = [tm EXCEPT ![current_thread] =
                 [us |-> regs.dl \div PerMicro + (regs.dh % PerSecond) * PeriodMicros,
                  s |-> regs.dh \div PerSecond]]
    /\ began' = [began EXCEPT ![current_thread] = NoRead]

JZ_GetTimer == LoadHigh \/ LoadLow \/ Store

Next ==
    \/ Count
    \/ Interrupt /\ UNCHANGED <<timer, began, tm>>
    \/ TimerHandler \/ OtherHandler
    \/ Runs /\ (Restore \/ Switch) /\ UNCHANGED <<timer, began, tm>>
    \/ Runs /\ JZ_GetTimer

Spec == Init /\ [][Next]_vars

-----------------------------------------------------------------------------
(* The time a call stored, in microseconds. *)
Value(t) == (tm[t].s * PerSecond * PeriodMicros) + tm[t].us

(* A reading is never ahead of the timer.  And it is less than a microsecond, which
   the division by PerMicro drops, behind the moment the call began, whoever ran
   between its loads, unless a period ended between them or had ended uncounted:
   then it is a period short, and time goes back (timer.c:125-139). *)
ReadingExact ==
    [][Store => \A t \in {current_thread} \ hit :
           /\ Value(t)' * PerMicro <= Now
           /\ began[t].late = 0 => began[t].now < (Value(t)' + 1) * PerMicro]_vars
=============================================================================
