----------------------------- MODULE Interrupts -----------------------------
(***************************************************************************)
(* The interrupt controller of the MIPS port, src/arch/mips/jz4740/        *)
(* interrupt.c, with the registers it drives.                              *)
(*                                                                         *)
(* Driver threads request, free, enable and disable interrupt sources.     *)
(* None of these calls masks interrupts, and `gpio_irq_mask[t] |= bit' is  *)
(* a load and a store, so a call is a sequence of steps: an interrupt, or  *)
(* another thread's call, comes between any two of them.  The handler side *)
(* is three steps, intc_irq, ack_irq and the handler; it runs with         *)
(* Status.EXL set, so it is not nested and no thread runs until it is      *)
(* done, but devices raise their flags at any moment.                      *)
(*                                                                         *)
(* A source is the number interrupt.c gives it: 0..31 a line of the INTC,  *)
(* 32..37 a DMA channel behind line 20, 48..175 a GPIO pin behind lines    *)
(* 28..25.                                                                 *)
(***************************************************************************)
EXTENDS Integers, FiniteSets

CONSTANTS
    Drivers,    \* threads that use interrupt sources
    Uses,       \* the sources each of them uses
    NoDriver,   \* stands for default_handler
    Irqs,       \* the sources in use: none is a group line
    MaxCalls,   \* bounds on the calls each driver makes
    MaxRaise    \* bound on the interrupts the devices raise

IRQ_DMAC == 20
IRQ_TCU0 == 23
IRQ_GPIO0 == 28
IRQ_DMA_0 == 32
NUM_DMA == 6
IRQ_GPIO_0 == 48
NUM_GPIO == 128
IRQ_MAX == IRQ_GPIO_0 + NUM_GPIO

GroupLines == {IRQ_DMAC} \cup {IRQ_GPIO0 - t : t \in 0..3}
DmaIrqs == IRQ_DMA_0 .. IRQ_DMA_0 + NUM_DMA - 1
GpioIrqs == IRQ_GPIO_0 .. IRQ_MAX - 1

ASSUME DriversAssumption == IsFiniteSet(Drivers) /\ NoDriver \notin Drivers
ASSUME UsesAssumption == Uses \in [Drivers -> SUBSET Irqs]
ASSUME IrqsAssumption ==
    Irqs \subseteq ((0..31) \ GroupLines) \cup DmaIrqs \cup GpioIrqs
ASSUME BoundsAssumption == MaxRaise \in Nat /\ MaxCalls \in [Drivers -> Nat]

VARIABLES
    unmasked,   \* lines whose bit of the INTC mask register is clear
    chan_on,    \* DMA channels with TIE set and GPIO pins with PXIM clear
    flag,       \* sources whose device flag is set: TCU_TFR, DMAIPR, PXFLG
    irq_mask,   \* gpio_irq_mask[t] at line IRQ_GPIO0 - t, dma_irq_mask at IRQ_DMAC
    handler,    \* irq_table[irq].handler: the driver that installed it
    arg,        \* irq_table[irq].arg: the driver whose argument it is
    op,         \* the call each driver is in
    holds,      \* sources each driver's request_irq returned 0 for
    isr,        \* progress of interrupt_handler
    calls,      \* history: number of calls each driver has made
    raised,     \* history: number of interrupts raised
    raced,      \* history: lines on which two calls have overlapped
    clashed,    \* history: sources two drivers were given, see Clashes
    owed        \* history: sources raised since their handler last ran

regs == <<unmasked, chan_on, irq_mask>>
table == <<handler, arg>>
vars == <<unmasked, chan_on, flag, irq_mask, handler, arg, op, holds, isr,
          calls, raised, raced, clashed, owed>>

(***************************************************************************)
(* The INTC line of a source, and the sources that have a second level.    *)
(***************************************************************************)
Line(irq) == CASE irq \in GpioIrqs -> IRQ_GPIO0 - (irq - IRQ_GPIO_0) \div 32
               [] irq \in DmaIrqs -> IRQ_DMAC
               [] OTHER -> irq

Grouped == Irqs \cap (DmaIrqs \cup GpioIrqs)

Steps == {"check", "handler", "arg", "unmask", "store", "line",
          "mask", "unstore", "unline", "unset", "unarg"}
Idle == [pc |-> "idle"]
OpType ==
    {Idle} \cup [pc : Steps, irq : Irqs, tmp : SUBSET Irqs, call : {"irq", "table"}]

TypeOK ==
    /\ unmasked \subseteq {Line(irq) : irq \in Irqs}
    /\ chan_on \subseteq Grouped
    /\ flag \subseteq Irqs
    /\ irq_mask \in [GroupLines -> SUBSET Irqs]
    /\ handler \in [Irqs -> Drivers \cup {NoDriver}]
    /\ arg \in [Irqs -> Drivers \cup {NoDriver}]
    /\ op \in [Drivers -> OpType]
    /\ holds \in [Drivers -> SUBSET Irqs]
    /\ isr \in [pc : {"ack", "run"}, irq : Irqs] \cup {Idle}
    /\ calls \in [Drivers -> Nat]
    /\ raised \in 0..MaxRaise
    /\ raced \subseteq {Line(irq) : irq \in Irqs}
    /\ clashed \subseteq Irqs
    /\ owed \subseteq Irqs

Init ==    \* after interrupt_init
    /\ unmasked = {} /\ chan_on = {} /\ flag = {}
    /\ irq_mask = [l \in GroupLines |-> {}]
    /\ handler = [irq \in Irqs |-> NoDriver]
    /\ arg = [irq \in Irqs |-> NoDriver]
    /\ op = [d \in Drivers |-> Idle]
    /\ holds = [d \in Drivers |-> {}]
    /\ isr = Idle
    /\ calls = [d \in Drivers |-> 0] /\ raised = 0 /\ raced = {} /\ clashed = {} /\ owed = {}

-----------------------------------------------------------------------------
(***************************************************************************)
(* Driver calls.                                                           *)
(***************************************************************************)
Begin(d, pc, irq, call) ==
    /\ isr = Idle /\ op[d] = Idle /\ calls[d] < MaxCalls[d]
    /\ calls' = [calls EXCEPT ![d] = @ + 1]
    /\ op' = [op EXCEPT ![d] = [pc |-> pc, irq |-> irq, tmp |-> {}, call |-> call]]
    /\ raced' = IF \E e \in Drivers : op[e] # Idle /\ Line(op[e].irq) = Line(irq)
                THEN raced \cup {Line(irq)}
                ELSE raced
    /\ UNCHANGED <<unmasked, chan_on, flag, irq_mask, handler, arg, isr, raised, clashed, owed>>

RequestIrq(d) == \E irq \in Uses[d] \ holds[d] :
                     Begin(d, "check", irq, "table") /\ UNCHANGED holds
EnableIrq(d) == \E irq \in holds[d] : Begin(d, "unmask", irq, "irq") /\ UNCHANGED holds
DisableIrq(d) == \E irq \in holds[d] : Begin(d, "mask", irq, "irq") /\ UNCHANGED holds
FreeIrq(d) == \E irq \in holds[d] :
                  /\ Begin(d, "mask", irq, "table")
                  /\ holds' = [holds EXCEPT ![d] = @ \ {irq}]

At(d, pc) == isr = Idle /\ op[d].pc = pc    \* no thread runs below a handler
Goto(d, pc) == op' = [op EXCEPT ![d].pc = pc]
Return(d) == op' = [op EXCEPT ![d] = Idle]
devices == <<flag, isr, calls, raised, raced, owed>>

(* request_irq: the test of the entry, and the two stores to it.  The test and
   the store are not one step: a source is given to two drivers when the test
   succeeds while another request_irq is between its own test and its store of
   the handler (interrupt.c:144-148), or while free_irq is between its two stores
   (interrupt.c:158-159).  clashed records that, for as long as one of the other
   drivers has to do with the source. *)
Owns(e, irq) == \/ irq \in holds[e]
                \/ op[e].pc \notin {"idle", "check"} /\ op[e].irq = irq
InWindow(e, irq) == op[e].pc \in {"handler", "unarg"} /\ op[e].irq = irq
Clashes(d) ==
    LET irq == op[d].irq
        others == Drivers \ {d}
    IN  CASE \E e \in others : InWindow(e, irq) -> clashed \cup {irq}
          [] \A e \in others : ~ Owns(e, irq) -> clashed \ {irq}
          [] OTHER -> clashed

MutCheck(d) ==    \* mutant: the entry is not tested
    /\ At(d, "check")
    /\ Goto(d, "handler")
    /\ clashed' = Clashes(d)
    /\ UNCHANGED <<regs, table, holds, devices>>

Check(d) ==
    /\ At(d, "check")
    /\ IF handler[op[d].irq] = NoDriver
       THEN Goto(d, "handler") /\ clashed' = Clashes(d)
       ELSE Return(d) /\ UNCHANGED clashed
    /\ UNCHANGED <<regs, table, holds, devices>>

MutSetHandler(d) ==    \* mutant: the argument is forgotten
    /\ At(d, "handler")
    /\ handler' = [handler EXCEPT ![op[d].irq] = d]
    /\ Goto(d, "unmask")
    /\ UNCHANGED <<regs, arg, holds, clashed, devices>>

SetHandler(d) ==
    /\ At(d, "handler")
    /\ handler' = [handler EXCEPT ![op[d].irq] = d]
    /\ Goto(d, "arg")
    /\ UNCHANGED <<regs, arg, holds, clashed, devices>>

SetArg(d) ==
    /\ At(d, "arg")
    /\ arg' = [arg EXCEPT ![op[d].irq] = d]
    /\ Goto(d, "unmask")
    /\ UNCHANGED <<regs, handler, holds, clashed, devices>>

(* free_irq, once disable_irq has returned. *)
ResetHandler(d) ==
    /\ At(d, "unset")
    /\ handler' = [handler EXCEPT ![op[d].irq] = NoDriver]
    /\ Goto(d, "unarg")
    /\ UNCHANGED <<regs, arg, holds, clashed, devices>>

ResetArg(d) ==
    /\ At(d, "unarg")
    /\ arg' = [arg EXCEPT ![op[d].irq] = NoDriver]
    /\ Return(d)
    /\ UNCHANGED <<regs, handler, holds, clashed, devices>>

(* enable_irq: the channel, the load and the store of the mask word, the line. *)
MaskWord(d) == irq_mask[Line(op[d].irq)]
Load(d, pc, word) ==
    op' = [op EXCEPT ![d] = [pc |-> pc, irq |-> @.irq, tmp |-> word, call |-> @.call]]

UnmaskChannel(d) ==
    /\ At(d, "unmask") /\ op[d].irq \in Grouped
    /\ chan_on' = chan_on \cup {op[d].irq}
    /\ Load(d, "store", MaskWord(d))
    /\ UNCHANGED <<unmasked, irq_mask, table, holds, clashed, devices>>

MutStoreMask(d) ==    \* mutant: = instead of |=
    /\ At(d, "store")
    /\ irq_mask' = [irq_mask EXCEPT ![Line(op[d].irq)] = {op[d].irq}]
    /\ Goto(d, "line")
    /\ UNCHANGED <<unmasked, chan_on, table, holds, clashed, devices>>

StoreMask(d) ==
    /\ At(d, "store")
    /\ irq_mask' = [irq_mask EXCEPT ![Line(op[d].irq)] = op[d].tmp \cup {op[d].irq}]
    /\ Goto(d, "line")
    /\ UNCHANGED <<unmasked, chan_on, table, holds, clashed, devices>>

MutUnmaskLine(d) ==    \* mutant: the source's number instead of its group's line
    /\ At(d, "line")
    /\ unmasked' = unmasked \cup {op[d].irq}
    /\ holds' = [holds EXCEPT ![d] = @ \cup {op[d].irq}]
    /\ Return(d)
    /\ UNCHANGED <<chan_on, irq_mask, table, clashed, devices>>

UnmaskLine(d) ==
    /\ \/ At(d, "line")
       \/ At(d, "unmask") /\ op[d].irq \notin Grouped
    /\ unmasked' = unmasked \cup {Line(op[d].irq)}
    /\ holds' = [holds EXCEPT ![d] = @ \cup {op[d].irq}]
    /\ Return(d)
    /\ UNCHANGED <<chan_on, irq_mask, table, clashed, devices>>

(* disable_irq.  The compiler may test the word it stored or load it again. *)
Disabled(d) == IF op[d].call = "table" THEN Goto(d, "unset") ELSE Return(d)

MaskChannel(d) ==
    /\ At(d, "mask") /\ op[d].irq \in Grouped
    /\ chan_on' = chan_on \ {op[d].irq}
    /\ Load(d, "unstore", MaskWord(d) \ {op[d].irq})
    /\ UNCHANGED <<unmasked, irq_mask, table, holds, clashed, devices>>

UnstoreMask(d) ==
    /\ At(d, "unstore")
    /\ irq_mask' = [irq_mask EXCEPT ![Line(op[d].irq)] = op[d].tmp]
    /\ Goto(d, "unline")
    /\ UNCHANGED <<unmasked, chan_on, table, holds, clashed, devices>>

MaskLine(d) ==
    /\ \/ /\ At(d, "unline")
          /\ \E word \in {op[d].tmp, MaskWord(d)} :
                 unmasked' = IF word = {} THEN unmasked \ {Line(op[d].irq)} ELSE unmasked
       \/ /\ At(d, "mask") /\ op[d].irq \notin Grouped
          /\ unmasked' = unmasked \ {op[d].irq}
    /\ Disabled(d)
    /\ UNCHANGED <<chan_on, irq_mask, table, holds, clashed, devices>>

DriverStep(d) ==
    \/ Check(d) \/ SetHandler(d) \/ SetArg(d) \/ ResetHandler(d) \/ ResetArg(d)
    \/ UnmaskChannel(d) \/ StoreMask(d) \/ UnmaskLine(d)
    \/ MaskChannel(d) \/ UnstoreMask(d) \/ MaskLine(d)

-----------------------------------------------------------------------------
(***************************************************************************)
(* Devices and the handler.  A pin sets its PXFLG bit whether it is masked *)
(* or not (__gpio_as_irq_* clears the flag before it unmasks the pin); a   *)
(* DMA channel interrupts only with TIE set, and its DMAIPR bit stays      *)
(* until somebody clears it.  The lines are levels: a line is raised while *)
(* a device behind it holds its flag, so the write of __intc_ack_irq does  *)
(* not outlast the flag (ack_irq has to clear the TCU's).                  *)
(***************************************************************************)
Raise(irq) ==
    /\ raised < MaxRaise
    /\ irq \in DmaIrqs => irq \in chan_on
    /\ flag' = flag \cup {irq}
    /\ owed' = owed \cup {irq}
    /\ raised' = raised + 1
    /\ UNCHANGED <<regs, table, op, holds, isr, calls, raced, clashed>>

Raising(line) == \E irq \in flag :
                     Line(irq) = line /\ (irq \in GpioIrqs => irq \in chan_on)
Pending == {line \in unmasked : Raising(line)}    \* REG_INTC_IPR

LargestOf(S) == CHOOSE x \in S : \A y \in S : y <= x
SmallestOf(S) == CHOOSE x \in S : \A y \in S : x <= y

(* Both look at every flag of the group, enabled or not. *)
Flagged(line) == {irq \in flag : Line(irq) = line}
gpio_group_irq(line) == LargestOf(Flagged(line))
dmac_get_irq == SmallestOf(Flagged(IRQ_DMAC))

intc_irq ==
    LET line == LargestOf(Pending)
    IN  CASE line = IRQ_DMAC -> dmac_get_irq
          [] line \in GroupLines \ {IRQ_DMAC} -> gpio_group_irq(line)
          [] OTHER -> line

Interrupt ==
    /\ isr = Idle /\ Pending # {}
    /\ isr' = [pc |-> "ack", irq |-> intc_irq]
    /\ UNCHANGED <<regs, flag, table, op, holds, calls, raised, raced, clashed, owed>>

MutAckGroup ==    \* mutant: clears every flag of the group
    /\ isr.pc = "ack"
    /\ flag' = IF isr.irq \in GpioIrqs \cup {IRQ_TCU0}
               THEN {irq \in flag : Line(irq) # Line(isr.irq)} ELSE flag
    /\ isr' = [isr EXCEPT !.pc = "run"]
    /\ UNCHANGED <<regs, table, op, holds, calls, raised, raced, clashed, owed>>

MutAckTcu ==    \* mutant: the full-match flag of TCU0 is not cleared
    /\ isr.pc = "ack"
    /\ flag' = IF isr.irq \in GpioIrqs THEN flag \ {isr.irq} ELSE flag
    /\ isr' = [isr EXCEPT !.pc = "run"]
    /\ UNCHANGED <<regs, table, op, holds, calls, raised, raced, clashed, owed>>

AckIrq ==
    /\ isr.pc = "ack"
    /\ flag' = IF isr.irq \in GpioIrqs \cup {IRQ_TCU0} THEN flag \ {isr.irq} ELSE flag
    /\ isr' = [isr EXCEPT !.pc = "run"]
    /\ UNCHANGED <<regs, table, op, holds, calls, raised, raced, clashed, owed>>

(* A driver's handler clears the flag of its device (JZ_timerHandler clears
   the TCU's, a DMA handler the channel's); default_handler does nothing. *)
RunHandler ==
    /\ isr.pc = "run"
    /\ flag' = IF handler[isr.irq] # NoDriver /\ isr.irq \notin GpioIrqs \cup {IRQ_TCU0}
               THEN flag \ {isr.irq} ELSE flag
    /\ owed' = owed \ {isr.irq}
    /\ isr' = Idle
    /\ UNCHANGED <<regs, table, op, holds, calls, raised, raced, clashed>>

Isr == Interrupt \/ AckIrq \/ RunHandler

Next ==
    \/ Isr
    \/ \E irq \in Irqs : Raise(irq)
    \/ \E d \in Drivers : RequestIrq(d) \/ EnableIrq(d) \/ DisableIrq(d) \/ FreeIrq(d)
                          \/ DriverStep(d)

Spec == Init /\ [][Next]_vars /\ WF_vars(Isr) /\ \A d \in Drivers : WF_vars(DriverStep(d))

-----------------------------------------------------------------------------
(***************************************************************************)
(* Properties.                                                             *)
(***************************************************************************)
Quiet(line) == line \notin raced /\ \A d \in Drivers : op[d] = Idle \/ Line(op[d].irq) # line

(* The three records of what is enabled agree: between calls, the software
   mask word of a group holds exactly its enabled channels or pins, and the
   group's line is open exactly while the word is not zero (interrupt.c:26-56
   keeps them by hand).  Excepted are the lines on which two calls have ever
   overlapped (raced): there a lost update of the word may leave a pin enabled
   that the word does not have, and close the line over it. *)
GroupsMatch ==
    \A line \in GroupLines :
        Quiet(line) =>
            /\ irq_mask[line] = {irq \in chan_on : Line(irq) = line}
            /\ line \in unmasked <=> irq_mask[line] # {}

(* A driver whose request_irq returned 0 owns the entry, handler and argument,
   until it frees it (interrupt.c:138-160): nobody else is given the source,
   whatever calls on other sources, calls on this one and interrupts come between
   two steps.  The code does not keep this when request_irq tests the entry
   (interrupt.c:144) while another request_irq for the same source has tested it
   and not yet stored its handler (:148), or while free_irq of the same source is
   between its stores (:158-159): both callers get 0 and the last store wins.
   Exactly those sources are in clashed, until the drivers concerned have freed
   them; every other overlap of calls is covered. *)
HolderOwnsEntry ==
    \A d \in Drivers : \A irq \in holds[d] \ clashed :
        handler[irq] = d /\ arg[irq] = d

(* interrupt_handler calls a driver's handler with that driver's argument
   (interrupt.c:178), although request_irq stores the two one after the other with
   interrupts enabled: the source is enabled last.  Two cases are excepted.  The
   source was given to two drivers (clashed).  Or request_irq is between its two
   stores to the entry of a masked pin or channel: a pin's flag is raised while it
   is masked and a freed channel's bit stays set, __gpio_group_irq and
   __dmac_get_irq do not look at the masks, and the interrupt of another member of
   the group delivers it. *)
HandlerHasArg ==
    isr # Idle /\ handler[isr.irq] \notin {NoDriver, arg[isr.irq]} =>
        \/ isr.irq \in clashed
        \/ /\ isr.irq \in Grouped \ chan_on
           /\ \E d \in Drivers : op[d].pc = "arg" /\ op[d].irq = isr.irq

(* No interrupt is lost: what a device has raised since its handler last ran is
   still in its flag, or is being handled.  ack_irq clears the flag before the
   handler runs (interrupt.c:177-178), so that an event that arrives between the
   two raises it again. *)
NoEventLost == \A irq \in owed : irq \in flag \/ (isr # Idle /\ isr.irq = irq)

(* A source with its flag set, and its line and its pin or channel open, is
   handled, or it is starved for ever by an event that nobody clears.  The handler
   takes the highest pending line (interrupt.c:93-97) and of a DMA group the first
   bit, enabled or not (jz4740.h:3686).  An event that reaches default_handler is cleared only if it is
   a pin's or TCU0's, by ack_irq; a DMA channel that was freed with its bit set
   while another channel is enabled, or a source whose entry one of two drivers
   that were given it has reset, interrupts again and again, and hides the
   channels after it and every line below its own.  Nothing else starves a source
   as long as the devices do not raise interrupts without end (MaxRaise). *)
Deliverable(irq) ==
    /\ irq \in flag /\ Line(irq) \in unmasked /\ handler[irq] # NoDriver
    /\ irq \in Grouped => irq \in chan_on
Stuck(irq) ==
    /\ irq \in flag /\ Line(irq) \in unmasked /\ handler[irq] = NoDriver
    /\ irq \notin GpioIrqs \cup {IRQ_TCU0}
Hidden(irq) ==
    \E first \in Irqs :
        /\ Stuck(first)
        /\ \/ Line(irq) < Line(first)
           \/ {irq, first} \subseteq DmaIrqs /\ first < irq
Served == \A irq \in Irqs : <>[]Deliverable(irq) => <>[]Hidden(irq)
=============================================================================
