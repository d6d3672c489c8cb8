-------------------------- MODULE InterruptsProofs --------------------------
(***************************************************************************)
(* Theorems about Interrupts: its safety invariants hold for every set of  *)
(* drivers and sources, however many calls and interrupts there are.       *)
(***************************************************************************)
EXTENDS Interrupts, WellFoundedInduction, TLAPS

USE DEF IRQ_DMAC, IRQ_TCU0, IRQ_GPIO0, IRQ_DMA_0, NUM_DMA, IRQ_GPIO_0, NUM_GPIO,
        IRQ_MAX, GroupLines, DmaIrqs, GpioIrqs

-----------------------------------------------------------------------------
(***************************************************************************)
(* Sources and lines.                                                      *)
(***************************************************************************)

\* A source is behind a group line exactly if it is a channel or a pin; any
\* other source is its own line.
LEMMA LineOf ==
  ASSUME NEW irq \in Irqs
  PROVE  /\ irq \in 0..175
         /\ Line(irq) \in 0..31
         /\ irq \in Grouped <=> Line(irq) \in GroupLines
         /\ irq \notin Grouped => Line(irq) = irq
         /\ irq \in GpioIrqs => Line(irq) \in GroupLines \ {IRQ_DMAC}
         /\ irq \in DmaIrqs => Line(irq) = IRQ_DMAC
<1>1. irq \in ((0..31) \ GroupLines) \cup DmaIrqs \cup GpioIrqs
  BY IrqsAssumption
<1>2. CASE irq \in GpioIrqs
  <2>1. irq \in 48..175
    BY <1>2
  <2>2. (irq - 48) \div 32 \in 0..3
    BY <2>1, SMT
  <2>3. Line(irq) = 28 - (irq - 48) \div 32
    BY <1>2 DEF Line
  <2> QED
    BY <1>2, <2>1, <2>2, <2>3, SMT DEF Grouped
<1>3. CASE irq \in DmaIrqs
  <2>1. irq \in 32..37
    BY <1>3
  <2>2. Line(irq) = 20
    BY <1>3, <2>1 DEF Line
  <2> QED
    BY <1>3, <2>1, <2>2, SMT DEF Grouped
<1>4. CASE irq \in (0..31) \ GroupLines
  <2>1. irq \in 0..31 /\ irq \notin GpioIrqs /\ irq \notin DmaIrqs
    BY <1>4
  <2>2. Line(irq) = irq
    BY <2>1 DEF Line
  <2> QED
    BY <1>4, <2>1, <2>2, SMT DEF Grouped
<1> QED
  BY <1>1, <1>2, <1>3, <1>4

\* A set of natural numbers that is not empty has a least element ...
LEMMA Least ==
  ASSUME NEW S, S \subseteq Nat, S # {}
  PROVE  \E x \in S : \A y \in S : x <= y
<1> DEFINE R == {ss \in Nat \X Nat : ss[1] < ss[2]}
<1>1. IsWellFoundedOn(R, Nat)
  BY NatLessThanWellFounded DEF OpToRel
<1>2. \E x \in S : \A y \in S : ~ (<<y, x>> \in R)
  <2> HIDE DEF R
  <2> QED BY <1>1, WFMin
<1>3. PICK x \in S : \A y \in S : ~ (<<y, x>> \in R)
  BY <1>2
<1>4. ASSUME NEW y \in S PROVE x <= y
  <2>1. x \in Nat /\ y \in Nat
    BY <1>3
  <2>2. SUFFICES ASSUME y < x PROVE <<y, x>> \in R
    BY <1>3, <2>1
  <2>3. <<y, x>> \in Nat \X Nat /\ <<y, x>>[1] = y /\ <<y, x>>[2] = x
    BY <2>1
  <2> QED BY <2>2, <2>3
<1> QED BY <1>4

\* ... and, if no element exceeds 175, a largest one, which makes the two
\* CHOOSE expressions of the handler defined.
LEMMA Extremes ==
  ASSUME NEW S, S \subseteq 0..175, S # {}
  PROVE  SmallestOf(S) \in S /\ LargestOf(S) \in S
<1>1. \E x \in S : \A y \in S : x <= y
  <2>1. S \subseteq Nat
    OBVIOUS
  <2> QED BY <2>1, Least
<1>2. \E x \in S : \A y \in S : y <= x
  <2> DEFINE T == {175 - y : y \in S}
  <2>1. T \subseteq Nat /\ T # {}
    <3>1. \A y \in S : y \in 0..175 /\ 175 - y \in Nat
      OBVIOUS
    <3> QED BY <3>1
  <2>2. \E x \in T : \A y \in T : x <= y
    <3> HIDE DEF T
    <3> QED BY <2>1, Least
  <2>3. PICK x \in S : \A y \in T : 175 - x <= y
    BY <2>2
  <2>4. \A y \in S : y <= x
    <3> TAKE y \in S
    <3>1. 175 - x <= 175 - y
      BY <2>3
    <3>2. x \in 0..175 /\ y \in 0..175
      OBVIOUS
    <3> QED BY <3>1, <3>2
  <2> QED BY <2>4
<1> QED
  BY <1>1, <1>2 DEF SmallestOf, LargestOf

\* What intc_irq returns is a source in use, its flag is set, and its line is
\* open; if it has no group, its own mask bit is clear.
LEMMA IntcIrq ==
  ASSUME unmasked \subseteq {Line(irq) : irq \in Irqs}, flag \subseteq Irqs,
         Pending # {}
  PROVE  /\ intc_irq \in Irqs
         /\ Line(intc_irq) \in unmasked
<1> DEFINE line == LargestOf(Pending)
<1>1. Pending \subseteq unmasked
  BY DEF Pending
<1>2. Pending \subseteq 0..175
  BY <1>1, LineOf
<1>3. line \in Pending
  <2> HIDE DEF line
  <2> QED BY <1>2, Extremes DEF line
<1> HIDE DEF line
<1>4. line \in unmasked /\ Raising(line)
  BY <1>3 DEF Pending
<1>5. PICK irq \in flag : Line(irq) = line
  BY <1>4 DEF Raising
<1>6. irq \in Irqs
  BY <1>5
<1>7. Flagged(line) # {} /\ Flagged(line) \subseteq Irqs
  BY <1>5 DEF Flagged
<1>8. Flagged(line) \subseteq 0..175
  BY <1>7, LineOf
<1>9. /\ SmallestOf(Flagged(line)) \in Flagged(line)
      /\ LargestOf(Flagged(line)) \in Flagged(line)
  BY <1>7, <1>8, Extremes
<1>10. CASE line = IRQ_DMAC
  <2>1. intc_irq = SmallestOf(Flagged(line))
    BY <1>10 DEF intc_irq, dmac_get_irq, line
  <2> QED BY <1>4, <1>7, <1>9, <2>1 DEF Flagged
<1>11. CASE line \in GroupLines \ {IRQ_DMAC}
  <2>1. intc_irq = LargestOf(Flagged(line))
    BY <1>11 DEF intc_irq, gpio_group_irq, line
  <2> QED BY <1>4, <1>7, <1>9, <2>1 DEF Flagged
<1>12. CASE line \notin GroupLines
  <2>1. intc_irq = line
    BY <1>12 DEF intc_irq, line
  <2>2. line = irq
    BY <1>5, <1>6, <1>12, LineOf
  <2> QED BY <1>4, <1>5, <1>6, <2>1, <2>2
<1> QED BY <1>10, <1>11, <1>12

-----------------------------------------------------------------------------
(***************************************************************************)
(* Type correctness.                                                       *)
(***************************************************************************)

\* An unmoved operation, a moved one and a finished one stay in OpType.
LEMMA OpTypes ==
  ASSUME op \in [Drivers -> OpType], NEW d \in Drivers, op[d].pc \in Steps
  PROVE  /\ op[d] # Idle
         /\ op[d].irq \in Irqs /\ op[d].tmp \subseteq Irqs
         /\ op[d].call \in {"irq", "table"}
         /\ \A pc \in Steps : Goto(d, pc) =>
               /\ op' \in [Drivers -> OpType]
               /\ \A e \in Drivers \ {d} : op'[e] = op[e]
               /\ op'[d] = [pc |-> pc, irq |-> op[d].irq, tmp |-> op[d].tmp,
                            call |-> op[d].call]
         /\ \A pc \in Steps, tmp \in SUBSET Irqs :
               Load(d, pc, tmp) =>
                 /\ op' \in [Drivers -> OpType]
                 /\ \A e \in Drivers \ {d} : op'[e] = op[e]
                 /\ op'[d] = [pc |-> pc, irq |-> op[d].irq, tmp |-> tmp,
                              call |-> op[d].call]
         /\ Return(d) =>
               /\ op' \in [Drivers -> OpType]
               /\ \A e \in Drivers \ {d} : op'[e] = op[e]
               /\ op'[d] = Idle
<1>1. op[d] # Idle
  BY DEF Idle, Steps
<1>2. op[d] \in [pc : Steps, irq : Irqs, tmp : SUBSET Irqs, call : {"irq", "table"}]
  BY <1>1 DEF OpType
<1>3. ASSUME NEW pc \in Steps, Goto(d, pc)
      PROVE  /\ op' \in [Drivers -> OpType]
             /\ \A e \in Drivers \ {d} : op'[e] = op[e]
             /\ op'[d] = [pc |-> pc, irq |-> op[d].irq, tmp |-> op[d].tmp,
                          call |-> op[d].call]
  BY <1>2, <1>3 DEF Goto, OpType
<1>4. ASSUME Return(d)
      PROVE  /\ op' \in [Drivers -> OpType]
             /\ \A e \in Drivers \ {d} : op'[e] = op[e]
             /\ op'[d] = Idle
  BY <1>4 DEF Return, OpType
<1>5. ASSUME NEW pc \in Steps, NEW tmp \in SUBSET Irqs, Load(d, pc, tmp)
      PROVE  /\ op' \in [Drivers -> OpType]
             /\ \A e \in Drivers \ {d} : op'[e] = op[e]
             /\ op'[d] = [pc |-> pc, irq |-> op[d].irq, tmp |-> tmp,
                          call |-> op[d].call]
  BY <1>2, <1>5 DEF Load, OpType
<1> QED
  BY <1>1, <1>2, <1>3, <1>4, <1>5

LEMMA TypeInit == Init => TypeOK
<1> SUFFICES ASSUME Init PROVE TypeOK
  OBVIOUS
<1>1. op \in [Drivers -> OpType]
  BY DEF Init, OpType
<1>2. irq_mask \in [GroupLines -> SUBSET Irqs]
  BY DEF Init
<1> QED
  BY <1>1, <1>2, BoundsAssumption DEF Init, TypeOK

LEMMA TypeBegin ==
  ASSUME TypeOK, NEW d \in Drivers, NEW pc \in Steps, NEW irq \in Irqs,
         NEW call \in {"irq", "table"}, Begin(d, pc, irq, call),
         holds' \in [Drivers -> SUBSET Irqs]
  PROVE  TypeOK'
<1>1. op' \in [Drivers -> OpType]
  BY DEF TypeOK, Begin, OpType
<1>2. raced' \subseteq {Line(i) : i \in Irqs}
  BY DEF TypeOK, Begin
<1>3. calls' \in [Drivers -> Nat]
  BY DEF TypeOK, Begin
<1> QED
  BY <1>1, <1>2, <1>3 DEF TypeOK, Begin

LEMMA TypeCalls ==
  ASSUME TypeOK, NEW d \in Drivers,
         RequestIrq(d) \/ EnableIrq(d) \/ DisableIrq(d) \/ FreeIrq(d)
  PROVE  TypeOK'
<1> USE DEF Steps
<1>0. Uses[d] \subseteq Irqs /\ holds[d] \subseteq Irqs
  BY UsesAssumption DEF TypeOK
<1>1. CASE RequestIrq(d)
  BY <1>0, <1>1, TypeBegin DEF RequestIrq, TypeOK
<1>2. CASE EnableIrq(d)
  BY <1>0, <1>2, TypeBegin DEF EnableIrq, TypeOK
<1>3. CASE DisableIrq(d)
  BY <1>0, <1>3, TypeBegin DEF DisableIrq, TypeOK
<1>4. CASE FreeIrq(d)
  <2>1. PICK irq \in holds[d] : Begin(d, "mask", irq, "table")
                              /\ holds' = [holds EXCEPT ![d] = @ \ {irq}]
    BY <1>4 DEF FreeIrq
  <2>2. holds' \in [Drivers -> SUBSET Irqs]
    BY <2>1 DEF TypeOK
  <2> QED BY <1>0, <2>1, <2>2, TypeBegin
<1> QED BY <1>1, <1>2, <1>3, <1>4

LEMMA TypeDriverStep ==
  ASSUME TypeOK, NEW d \in Drivers, DriverStep(d)
  PROVE  TypeOK'
<1> USE DEF Steps, At
<1>0. op \in [Drivers -> OpType]
  BY DEF TypeOK
<1>1. CASE Check(d)
  <2>1. op' \in [Drivers -> OpType]
    BY <1>0, <1>1, OpTypes DEF Check
  <2>2. clashed' \subseteq Irqs
    <3>1. op[d].irq \in Irqs /\ clashed \subseteq Irqs
      BY <1>0, <1>1, OpTypes DEF Check, TypeOK
    <3> QED BY <1>1, <3>1 DEF Check, Clashes
  <2> QED BY <1>1, <2>1, <2>2 DEF TypeOK, Check, regs, table, devices
<1>2. CASE SetHandler(d)
  <2>1. op' \in [Drivers -> OpType]
    BY <1>0, <1>2, OpTypes DEF SetHandler
  <2>2. handler' \in [Irqs -> Drivers \cup {NoDriver}]
    BY <1>2 DEF TypeOK, SetHandler
  <2> QED BY <1>2, <2>1, <2>2 DEF TypeOK, SetHandler, regs, devices
<1>3. CASE SetArg(d)
  <2>1. op' \in [Drivers -> OpType]
    BY <1>0, <1>3, OpTypes DEF SetArg
  <2>2. arg' \in [Irqs -> Drivers \cup {NoDriver}]
    BY <1>3 DEF TypeOK, SetArg
  <2> QED BY <1>3, <2>1, <2>2 DEF TypeOK, SetArg, regs, devices
<1>4. CASE ResetHandler(d)
  <2>1. op' \in [Drivers -> OpType]
    BY <1>0, <1>4, OpTypes DEF ResetHandler
  <2>2. handler' \in [Irqs -> Drivers \cup {NoDriver}]
    BY <1>4 DEF TypeOK, ResetHandler
  <2> QED BY <1>4, <2>1, <2>2 DEF TypeOK, ResetHandler, regs, devices
<1>5. CASE ResetArg(d)
  <2>1. op' \in [Drivers -> OpType]
    BY <1>0, <1>5, OpTypes DEF ResetArg
  <2>2. arg' \in [Irqs -> Drivers \cup {NoDriver}]
    BY <1>5 DEF TypeOK, ResetArg
  <2> QED BY <1>5, <2>1, <2>2 DEF TypeOK, ResetArg, regs, devices
<1>6. CASE UnmaskChannel(d)
  <2>1. op[d].irq \in Grouped /\ MaskWord(d) \subseteq Irqs
    BY <1>0, <1>6, LineOf, OpTypes DEF UnmaskChannel, TypeOK, MaskWord, Grouped
  <2>2. op' \in [Drivers -> OpType]
    BY <1>0, <1>6, <2>1, OpTypes DEF UnmaskChannel
  <2>3. chan_on' \subseteq Grouped
    BY <1>6, <2>1 DEF TypeOK, UnmaskChannel
  <2> QED BY <1>6, <2>2, <2>3 DEF TypeOK, UnmaskChannel, table, devices
<1>7. CASE StoreMask(d)
  <2>1. op' \in [Drivers -> OpType]
    BY <1>0, <1>7, OpTypes DEF StoreMask
  <2>2. op[d].irq \in Irqs /\ op[d].tmp \subseteq Irqs
    BY <1>0, <1>7, OpTypes DEF StoreMask
  <2>3. irq_mask' \in [GroupLines -> SUBSET Irqs]
    BY <1>7, <2>2 DEF StoreMask, TypeOK
  <2> QED BY <1>7, <2>1, <2>3 DEF TypeOK, StoreMask, table, devices
<1>8. CASE UnmaskLine(d)
  <2>1. op[d].irq \in Irqs /\ op' \in [Drivers -> OpType]
    BY <1>0, <1>8, OpTypes DEF UnmaskLine
  <2>2. holds' \in [Drivers -> SUBSET Irqs]
    BY <1>8, <2>1 DEF TypeOK, UnmaskLine
  <2>3. unmasked' \subseteq {Line(irq) : irq \in Irqs}
    BY <1>8, <2>1 DEF TypeOK, UnmaskLine
  <2> QED BY <1>8, <2>1, <2>2, <2>3 DEF TypeOK, UnmaskLine, table, devices
<1>9. CASE MaskChannel(d)
  <2> DEFINE word == MaskWord(d) \ {op[d].irq}
  <2>1. op[d].irq \in Grouped /\ word \in SUBSET Irqs
    BY <1>0, <1>9, LineOf, OpTypes DEF MaskChannel, TypeOK, MaskWord, Grouped
  <2>2. op' \in [Drivers -> OpType]
    <3>1. Load(d, "unstore", word)
      BY <1>9 DEF MaskChannel
    <3>2. op[d].pc \in Steps
      BY <1>9 DEF MaskChannel
    <3> HIDE DEF word
    <3> QED BY <1>0, <2>1, <3>1, <3>2, OpTypes
  <2>3. chan_on' \subseteq Grouped
    BY <1>9, <2>1 DEF TypeOK, MaskChannel
  <2> QED BY <1>9, <2>2, <2>3 DEF TypeOK, MaskChannel, table, devices
<1>10. CASE UnstoreMask(d)
  <2>1. op' \in [Drivers -> OpType]
    BY <1>0, <1>10, OpTypes DEF UnstoreMask
  <2>2. op[d].tmp \subseteq Irqs
    BY <1>0, <1>10, OpTypes DEF UnstoreMask
  <2>3. irq_mask' \in [GroupLines -> SUBSET Irqs]
    BY <1>10, <2>2 DEF UnstoreMask, TypeOK
  <2> QED BY <1>10, <2>1, <2>3 DEF TypeOK, UnstoreMask, table, devices
<1>11. CASE MaskLine(d)
  <2>1. op' \in [Drivers -> OpType]
    BY <1>0, <1>11, OpTypes DEF MaskLine, Disabled
  <2>2. unmasked' \subseteq unmasked
    BY <1>11 DEF MaskLine
  <2>3. UNCHANGED <<chan_on, irq_mask, table, holds, clashed, devices>>
    BY <1>11 DEF MaskLine
  <2> QED BY <2>1, <2>2, <2>3 DEF TypeOK, table, devices
<1> QED
  BY <1>1, <1>2, <1>3, <1>4, <1>5, <1>6, <1>7, <1>8, <1>9, <1>10, <1>11
     DEF DriverStep

LEMMA TypeDevices ==
  ASSUME TypeOK, Isr \/ \E irq \in Irqs : Raise(irq)
  PROVE  TypeOK'
<1>1. CASE Interrupt
  <2>1. isr' \in [pc : {"ack", "run"}, irq : Irqs]
    BY <1>1, IntcIrq DEF Interrupt, TypeOK
  <2> QED BY <1>1, <2>1 DEF TypeOK, Interrupt, regs, table
<1>2. CASE AckIrq
  <2>1. isr \in [pc : {"ack", "run"}, irq : Irqs]
    BY <1>2 DEF AckIrq, TypeOK, Idle
  <2>2. isr' \in [pc : {"ack", "run"}, irq : Irqs]
    BY <1>2, <2>1 DEF AckIrq
  <2>3. flag' \subseteq flag
    BY <1>2 DEF AckIrq
  <2> QED BY <1>2, <2>2, <2>3 DEF TypeOK, AckIrq, regs, table
<1>3. CASE RunHandler
  <2>1. flag' \subseteq flag /\ owed' \subseteq owed /\ isr' = Idle
    BY <1>3 DEF RunHandler
  <2> QED BY <1>3, <2>1 DEF TypeOK, RunHandler, regs, table
<1>4. ASSUME NEW irq \in Irqs, Raise(irq) PROVE TypeOK'
  <2>1. raised' \in 0..MaxRaise
    BY <1>4, BoundsAssumption DEF TypeOK, Raise
  <2> QED BY <1>4, <2>1 DEF TypeOK, Raise, regs, table
<1> QED BY <1>1, <1>2, <1>3, <1>4 DEF Isr

LEMMA TypeNext == TypeOK /\ [Next]_vars => TypeOK'
<1> SUFFICES ASSUME TypeOK, [Next]_vars PROVE TypeOK'
  OBVIOUS
<1>1. CASE UNCHANGED vars
  BY <1>1 DEF TypeOK, vars
<1>2. CASE Next
  BY <1>2, TypeCalls, TypeDriverStep, TypeDevices DEF Next
<1> QED BY <1>1, <1>2

(* The variables keep their types; in particular intc_irq always finds a
   source that is in use (interrupt.c:169-179 indexes irq_table with it). *)
THEOREM TypeCorrect == Spec => []TypeOK
<1> QED BY TypeInit, TypeNext, PTL DEF Spec

-----------------------------------------------------------------------------
(***************************************************************************)
(* No interrupt is lost.                                                   *)
(***************************************************************************)

\* No call of a driver touches the flags of the devices or the handler's state.
LEMMA CallsKeepFlags ==
  ASSUME NEW d \in Drivers,
         RequestIrq(d) \/ EnableIrq(d) \/ DisableIrq(d) \/ FreeIrq(d) \/ DriverStep(d)
  PROVE  UNCHANGED <<flag, owed, isr>>
<1>1. CASE DriverStep(d)
  BY <1>1 DEF DriverStep, devices, Check, SetHandler, SetArg, ResetHandler, ResetArg,
     UnmaskChannel, StoreMask, UnmaskLine, MaskChannel, UnstoreMask, MaskLine
<1>2. CASE RequestIrq(d) \/ EnableIrq(d) \/ DisableIrq(d) \/ FreeIrq(d)
  BY <1>2 DEF RequestIrq, EnableIrq, DisableIrq, FreeIrq, Begin
<1> QED BY <1>1, <1>2

LEMMA LostNext == TypeOK /\ NoEventLost /\ [Next]_vars => NoEventLost'
<1> SUFFICES ASSUME TypeOK, NoEventLost, [Next]_vars PROVE NoEventLost'
  OBVIOUS
<1> USE DEF NoEventLost
<1>1. CASE Interrupt
  BY <1>1 DEF Interrupt, Idle
<1>2. CASE AckIrq
  \* The one source whose flag ack_irq clears is the one being handled.
  <2>1. isr \in [pc : {"ack", "run"}, irq : Irqs]
    BY <1>2 DEF AckIrq, TypeOK, Idle
  <2>2. isr'.irq = isr.irq /\ isr' # Idle
    BY <1>2, <2>1 DEF AckIrq, Idle
  <2>3. flag \ {isr.irq} \subseteq flag' /\ owed' = owed
    BY <1>2 DEF AckIrq
  <2> QED BY <2>2, <2>3
<1>3. CASE RunHandler
  <2>1. flag \ {isr.irq} \subseteq flag' /\ owed' = owed \ {isr.irq}
    BY <1>3 DEF RunHandler
  <2> QED BY <2>1
<1>4. ASSUME NEW irq \in Irqs, Raise(irq) PROVE NoEventLost'
  BY <1>4 DEF Raise
<1>5. ASSUME NEW d \in Drivers,
             RequestIrq(d) \/ EnableIrq(d) \/ DisableIrq(d) \/ FreeIrq(d) \/ DriverStep(d)
      PROVE  NoEventLost'
  BY <1>5, CallsKeepFlags
<1>6. CASE UNCHANGED vars
  BY <1>6 DEF vars
<1> QED BY <1>1, <1>2, <1>3, <1>4, <1>5, <1>6 DEF Next, Isr

(* What a device has raised since its handler last ran is still flagged or is
   being handled: ack_irq before the handler (interrupt.c:177-178) loses nothing,
   whatever arrives between the two. *)
THEOREM NothingLost == Spec => []NoEventLost
<1>1. Init => NoEventLost
  BY DEF Init, NoEventLost
<1> QED BY <1>1, TypeInit, TypeNext, LostNext, PTL DEF Spec

-----------------------------------------------------------------------------
(***************************************************************************)
(* The holder of a source owns its entry.  While the holder makes no call, *)
(* that is HolderOwnsEntry itself; the strengthening says what the entry   *)
(* holds at each step of a call, that a call which is to change the entry  *)
(* is made by a driver that does not hold the source, and that of two      *)
(* calls on one source, unless it is clashed, one has not passed its test. *)
(***************************************************************************)

TableSteps == {"check", "handler", "arg", "unset", "unarg"}

\* Two calls on one line at a time: the line is raced.
OneCall ==
  \A d, e \in Drivers :
    d # e /\ op[d] # Idle /\ op[e] # Idle /\ Line(op[d].irq) = Line(op[e].irq)
      => Line(op[d].irq) \in raced

CallKind ==
  \A d \in Drivers : op[d] # Idle =>
    /\ op[d].pc \in TableSteps => op[d].call = "table"
    /\ op[d].call = "table" => op[d].irq \notin holds[d]
    /\ op[d].pc \in {"store", "line", "unstore", "unline"} => op[d].irq \in Grouped

\* The entry at each step of the call of driver d.
EntryAt(d) ==
  /\ op[d].pc \in {"handler", "unarg"} => handler[op[d].irq] = NoDriver
  /\ op[d].pc = "arg" => handler[op[d].irq] = d
  /\ op[d].pc \notin {"check", "handler", "arg", "unarg"} =>
       handler[op[d].irq] = d /\ arg[op[d].irq] = d

\* Of two calls on a source that is not clashed, one is at its test.
Alone ==
  \A d, e \in Drivers :
    /\ d # e /\ op[d] # Idle /\ op[e] # Idle
    /\ op[d].irq = op[e].irq /\ op[d].irq \notin clashed
    => op[d].pc = "check" \/ op[e].pc = "check"

EntryInv ==
  /\ TypeOK /\ OneCall /\ CallKind /\ HolderOwnsEntry /\ Alone
  /\ \A d \in Drivers :
       op[d] # Idle /\ op[d].irq \notin clashed => EntryAt(d)

LEMMA EntryInit == Init => EntryInv
<1> SUFFICES ASSUME Init PROVE EntryInv
  OBVIOUS
<1>1. TypeOK
  BY TypeInit
<1>2. \A d \in Drivers : op[d] = Idle /\ holds[d] = {}
  BY DEF Init
<1> QED
  BY <1>1, <1>2 DEF EntryInv, OneCall, CallKind, HolderOwnsEntry, Alone

\* A call begins.
LEMMA EntryBegin ==
  ASSUME EntryInv, NEW d \in Drivers,
         RequestIrq(d) \/ EnableIrq(d) \/ DisableIrq(d) \/ FreeIrq(d)
  PROVE  EntryInv'
<1> USE DEF Steps
<1>1. PICK irq \in Irqs, pc \in {"check", "unmask", "mask"}, call \in {"irq", "table"} :
        /\ Begin(d, pc, irq, call)
        /\ holds' \in [Drivers -> SUBSET Irqs]
        /\ \A e \in Drivers : holds'[e] \subseteq holds[e]
        /\ pc = "check" => call = "table"
        /\ pc # "check" => irq \in holds[d]
        /\ call = "table" => irq \notin holds'[d]
  <2>0. Uses[d] \subseteq Irqs /\ holds \in [Drivers -> SUBSET Irqs]
    BY UsesAssumption DEF EntryInv, TypeOK
  <2>1. CASE RequestIrq(d)
    BY <2>0, <2>1 DEF RequestIrq
  <2>2. CASE EnableIrq(d)
    BY <2>0, <2>2 DEF EnableIrq
  <2>3. CASE DisableIrq(d)
    BY <2>0, <2>3 DEF DisableIrq
  <2>4. CASE FreeIrq(d)
    <3>1. PICK irq \in holds[d] : Begin(d, "mask", irq, "table")
                                /\ holds' = [holds EXCEPT ![d] = @ \ {irq}]
      BY <2>4 DEF FreeIrq
    <3>2. /\ holds' \in [Drivers -> SUBSET Irqs]
          /\ irq \notin holds'[d]
          /\ \A e \in Drivers : holds'[e] \subseteq holds[e]
      BY <2>0, <3>1
    <3> QED BY <2>0, <3>1, <3>2
  <2> QED BY <2>1, <2>2, <2>3, <2>4
<1>2. TypeOK'
  BY TypeCalls DEF EntryInv
<1> DEFINE new == [pc |-> pc, irq |-> irq, tmp |-> {}, call |-> call]
<1>3. /\ op[d] = Idle /\ op'[d] = new
      /\ \A e \in Drivers \ {d} : op'[e] = op[e]
      /\ UNCHANGED <<handler, arg, clashed>>
      /\ raced \subseteq raced'
      /\ \A e \in Drivers : op[e] # Idle /\ Line(op[e].irq) = Line(irq)
            => Line(irq) \in raced'
  BY <1>1 DEF Begin, EntryInv, TypeOK
<1>4. new # Idle /\ new.pc = pc /\ new.irq = irq /\ new.call = call
  BY DEF Idle
<1> HIDE DEF new
<1>5. OneCall'
  BY <1>3, <1>4 DEF EntryInv, OneCall
<1>6. CallKind'
  BY <1>1, <1>3, <1>4 DEF EntryInv, CallKind, TableSteps
<1>7. HolderOwnsEntry'
  BY <1>1, <1>3 DEF EntryInv, HolderOwnsEntry
<1>0. irq \notin clashed /\ pc # "check" => handler[irq] = d /\ arg[irq] = d
  BY <1>1 DEF EntryInv, HolderOwnsEntry
<1>8. ASSUME NEW e \in Drivers, op'[e] # Idle, op'[e].irq \notin clashed'
      PROVE  EntryAt(e)'
  <2>1. CASE e = d
    BY <1>0, <1>3, <1>4, <1>8, <2>1 DEF EntryAt
  <2>2. CASE e # d
    <3>1. op'[e] = op[e] /\ EntryAt(e)
      BY <1>3, <1>8, <2>2 DEF EntryInv
    <3> QED BY <1>3, <3>1 DEF EntryAt
  <2> QED BY <2>1, <2>2
<1>9. Alone'
  \* The call of d is at its test, or d holds the source.
  <2>1. ASSUME NEW e \in Drivers \ {d}, op[e] # Idle, op[e].irq = irq,
               irq \notin clashed
        PROVE  pc = "check" \/ op[e].pc = "check"
    <3>1. EntryAt(e) /\ e # NoDriver /\ d # NoDriver
      BY <2>1, DriversAssumption DEF EntryInv
    <3> QED BY <1>0, <2>1, <3>1 DEF EntryAt
  <2> QED BY <1>3, <1>4, <2>1 DEF EntryInv, Alone
<1> QED BY <1>2, <1>5, <1>6, <1>7, <1>8, <1>9 DEF EntryInv

\* What a step leaves of the call it is a step of.
LEMMA Moves ==
  ASSUME TypeOK, NEW d \in Drivers, op[d].pc \in Steps
  PROVE  /\ \A pc \in Steps : Goto(d, pc) =>
               /\ op'[d] # Idle /\ op'[d].pc = pc
               /\ op'[d].irq = op[d].irq /\ op'[d].call = op[d].call
               /\ op'[d].tmp = op[d].tmp
         /\ \A pc \in Steps, word \in SUBSET Irqs : Load(d, pc, word) =>
               /\ op'[d] # Idle /\ op'[d].pc = pc
               /\ op'[d].irq = op[d].irq /\ op'[d].call = op[d].call
               /\ op'[d].tmp = word
<1>0. op \in [Drivers -> OpType]
  BY DEF TypeOK
<1>1. \A p, i, t, c : p \in Steps => [pc |-> p, irq |-> i, tmp |-> t, call |-> c] # Idle
  <2> SUFFICES ASSUME NEW p \in Steps, NEW i, NEW t, NEW c,
                      [pc |-> p, irq |-> i, tmp |-> t, call |-> c] = Idle
               PROVE  FALSE
    OBVIOUS
  <2>1. [pc |-> p, irq |-> i, tmp |-> t, call |-> c].pc = "idle"
    BY DEF Idle
  <2> QED BY <2>1 DEF Steps
<1>2. ASSUME NEW pc \in Steps, Goto(d, pc)
      PROVE  /\ op'[d] # Idle /\ op'[d].pc = pc
             /\ op'[d].irq = op[d].irq /\ op'[d].call = op[d].call
             /\ op'[d].tmp = op[d].tmp
  <2>1. op'[d] = [pc |-> pc, irq |-> op[d].irq, tmp |-> op[d].tmp, call |-> op[d].call]
    BY <1>0, <1>2, OpTypes
  <2> QED BY <1>1, <2>1
<1>3. ASSUME NEW pc \in Steps, NEW word \in SUBSET Irqs, Load(d, pc, word)
      PROVE  /\ op'[d] # Idle /\ op'[d].pc = pc
             /\ op'[d].irq = op[d].irq /\ op'[d].call = op[d].call
             /\ op'[d].tmp = word
  <2>1. op'[d] = [pc |-> pc, irq |-> op[d].irq, tmp |-> word, call |-> op[d].call]
    BY <1>0, <1>3, OpTypes
  <2> QED BY <1>1, <2>1
<1> QED BY <1>2, <1>3

\* Which step follows which.
LEMMA StepOp ==
  ASSUME TypeOK, NEW d \in Drivers, DriverStep(d)
  PROVE  /\ op[d] # Idle /\ op[d].irq \in Irqs
         /\ \A e \in Drivers \ {d} : op'[e] = op[e]
         /\ \/ op'[d] = Idle
            \/ \E pc \in Steps : Goto(d, pc)
            \/ \E pc \in Steps, word \in SUBSET Irqs : Load(d, pc, word)
<1> USE DEF Steps, At
<1>0. op \in [Drivers -> OpType]
  BY DEF TypeOK
<1>1. op[d].pc \in Steps
  BY DEF DriverStep, Check, SetHandler, SetArg, ResetHandler, ResetArg,
     UnmaskChannel, StoreMask, UnmaskLine, MaskChannel, UnstoreMask, MaskLine
<1>2. op[d] # Idle /\ op[d].irq \in Irqs
  BY <1>0, <1>1, OpTypes
<1>3. MaskWord(d) \in SUBSET Irqs \/ op[d].irq \notin Grouped
  BY <1>2, LineOf DEF MaskWord, TypeOK
<1>4. \/ Return(d)
      \/ \E pc \in Steps : Goto(d, pc)
      \/ \E pc \in Steps, word \in SUBSET Irqs : Load(d, pc, word)
  <2>1. CASE UnmaskChannel(d)
    BY <1>3, <2>1 DEF UnmaskChannel
  <2>2. CASE MaskChannel(d)
    <3>1. MaskWord(d) \ {op[d].irq} \in SUBSET Irqs
      BY <1>3, <2>2 DEF MaskChannel
    <3> QED BY <2>2, <3>1 DEF MaskChannel
  <2>3. CASE ~ UnmaskChannel(d) /\ ~ MaskChannel(d)
    BY <2>3 DEF DriverStep, Check, SetHandler, SetArg, ResetHandler, ResetArg,
       StoreMask, UnmaskLine, UnstoreMask, MaskLine, Disabled
  <2> QED BY <2>1, <2>2, <2>3
<1>5. \A e \in Drivers \ {d} : op'[e] = op[e]
  BY <1>0, <1>4 DEF Return, Goto, Load
<1>6. Return(d) => op'[d] = Idle
  BY <1>0 DEF Return
<1> QED BY <1>2, <1>4, <1>5, <1>6

\* What every step of a call has in common: it is about one source.
LEMMA StepShape ==
  ASSUME TypeOK, NEW d \in Drivers, DriverStep(d)
  PROVE  /\ op[d] # Idle /\ op[d].irq \in Irqs
         /\ raced' = raced /\ isr = Idle /\ isr' = isr
         /\ clashed' \ {op[d].irq} = clashed \ {op[d].irq}
         /\ ~ Check(d) => clashed' = clashed
         /\ holds[d] \subseteq holds'[d]
         /\ \A e \in Drivers \ {d} : op'[e] = op[e] /\ holds'[e] = holds[e]
         /\ op'[d] # Idle => op'[d].irq = op[d].irq /\ op'[d].call = op[d].call
         /\ \A irq \in Irqs \ {op[d].irq} :
               /\ handler'[irq] = handler[irq] /\ arg'[irq] = arg[irq]
               /\ irq \in holds'[d] => irq \in holds[d]
<1>1. op[d].pc \in Steps
  BY DEF DriverStep, Check, SetHandler, SetArg, ResetHandler, ResetArg,
     UnmaskChannel, StoreMask, UnmaskLine, MaskChannel, UnstoreMask, MaskLine, At, Steps
<1>2. op'[d] # Idle => op'[d].irq = op[d].irq /\ op'[d].call = op[d].call
  BY <1>1, StepOp, Moves
<1>3. UNCHANGED devices /\ isr = Idle
  BY DEF DriverStep, Check, SetHandler, SetArg, ResetHandler, ResetArg,
     UnmaskChannel, StoreMask, UnmaskLine, MaskChannel, UnstoreMask, MaskLine, At
<1>4. /\ handler \in [Irqs -> Drivers \cup {NoDriver}]
      /\ arg \in [Irqs -> Drivers \cup {NoDriver}]
      /\ holds \in [Drivers -> SUBSET Irqs]
  BY DEF TypeOK
<1>5. \A irq \in Irqs \ {op[d].irq} : handler'[irq] = handler[irq] /\ arg'[irq] = arg[irq]
  BY <1>4 DEF DriverStep, Check, SetHandler, SetArg, ResetHandler, ResetArg, table,
     UnmaskChannel, StoreMask, UnmaskLine, MaskChannel, UnstoreMask, MaskLine
<1>6. holds' = holds \/ holds' = [holds EXCEPT ![d] = @ \cup {op[d].irq}]
  BY DEF DriverStep, Check, SetHandler, SetArg, ResetHandler, ResetArg,
     UnmaskChannel, StoreMask, UnmaskLine, MaskChannel, UnstoreMask, MaskLine
<1>8. /\ ~ Check(d) => clashed' = clashed
      /\ clashed' \ {op[d].irq} = clashed \ {op[d].irq}
  <2>1. ~ Check(d) => clashed' = clashed
    BY DEF DriverStep, SetHandler, SetArg, ResetHandler, ResetArg,
       UnmaskChannel, StoreMask, UnmaskLine, MaskChannel, UnstoreMask, MaskLine
  <2>2. Check(d) => clashed' \ {op[d].irq} = clashed \ {op[d].irq}
    BY DEF Check, Clashes
  <2> QED BY <2>1, <2>2
<1>7. /\ holds[d] \subseteq holds'[d]
      /\ \A e \in Drivers \ {d} : holds'[e] = holds[e]
      /\ \A irq \in Irqs \ {op[d].irq} : irq \in holds'[d] => irq \in holds[d]
  BY <1>4, <1>6
<1> QED
  BY <1>2, <1>3, <1>5, <1>7, <1>8, StepOp DEF devices

\* The test of the entry.  If it succeeds and the source is not clashed after it,
\* nobody holds the source and no other call has passed its test.
LEMMA CheckEntry ==
  ASSUME EntryInv, NEW d \in Drivers, Check(d), op[d].irq \notin clashed'
  PROVE  /\ UNCHANGED <<handler, arg, holds>>
         /\ \/ op'[d] = Idle /\ op[d].irq \notin clashed
            \/ /\ op'[d] # Idle /\ op'[d].pc = "handler"
               /\ handler[op[d].irq] = NoDriver
               /\ \A e \in Drivers : op[d].irq \notin holds[e]
               /\ \A e \in Drivers \ {d} :
                     op[e] # Idle /\ op[e].irq = op[d].irq => op[e].pc = "check"
<1> DEFINE irq == op[d].irq
<1>0. /\ TypeOK /\ op \in [Drivers -> OpType] /\ op[d] # Idle
      /\ op[d].pc = "check" /\ op[d].pc \in Steps
      /\ NoDriver \notin Drivers
      /\ UNCHANGED <<handler, arg, holds>>
  BY DriversAssumption DEF EntryInv, TypeOK, Check, At, table, DriverStep, Steps, Idle
<1>1. CASE handler[irq] # NoDriver
  BY <1>0, <1>1 DEF Check, Return
<1>2. CASE handler[irq] = NoDriver
  <2>1. op'[d] # Idle /\ op'[d].pc = "handler" /\ clashed' = Clashes(d)
    BY <1>0, <1>2, Moves DEF Check, Steps
  <2>2. irq \notin holds[d]
    BY <1>0 DEF EntryInv, CallKind, TableSteps
  <2>3. \A e \in Drivers \ {d} : ~ InWindow(e, irq)
    <3>1. ASSUME NEW e \in Drivers \ {d}, InWindow(e, irq)
          PROVE  irq \in Clashes(d)
      <4>1. Owns(e, irq)
        BY <3>1 DEF InWindow, Owns
      <4>2. Clashes(d) = clashed \cup {irq}
        BY <3>1, <4>1 DEF Clashes
      <4> QED BY <4>2
    <3>2. irq \notin Clashes(d)
      BY <2>1
    <3> QED BY <3>1, <3>2
  <2>4. ASSUME NEW e \in Drivers \ {d}
        PROVE  /\ irq \notin holds[e]
               /\ op[e] # Idle /\ op[e].irq = irq => op[e].pc = "check"
    <3>1. CASE irq \in clashed
      <4>1. ~ Owns(e, irq)
        BY <2>1, <2>3, <3>1 DEF Clashes
      <4>2. op[e] # Idle => op[e].pc # "idle"
        BY <1>0 DEF OpType, Steps
      <4> QED BY <4>1, <4>2 DEF Owns
    <3>2. CASE irq \notin clashed
      <4>1. irq \in holds[e] => handler[irq] = e
        BY <3>2 DEF EntryInv, HolderOwnsEntry
      <4>2. op[e] # Idle /\ op[e].irq = irq => EntryAt(e)
        BY <3>2 DEF EntryInv
      <4> QED BY <1>0, <1>2, <2>3, <4>1, <4>2 DEF EntryAt, InWindow
    <3> QED BY <3>1, <3>2
  <2> QED BY <1>0, <1>2, <2>1, <2>2, <2>4
<1> QED BY <1>1, <1>2

\* The entry of the source a later step is about.
LEMMA OwnEntry ==
  ASSUME EntryInv, NEW d \in Drivers, DriverStep(d), ~ Check(d),
         op[d].irq \notin clashed
  PROVE  /\ op'[d] # Idle => EntryAt(d)'
         /\ \A e \in Drivers : op[d].irq \in holds'[e] =>
               handler'[op[d].irq] = e /\ arg'[op[d].irq] = e
<1> USE DEF Steps, At, TableSteps, EntryAt
<1>0. /\ op \in [Drivers -> OpType] /\ op[d] # Idle /\ op[d].irq \in Irqs
      /\ handler \in [Irqs -> Drivers \cup {NoDriver}]
      /\ arg \in [Irqs -> Drivers \cup {NoDriver}]
      /\ NoDriver \notin Drivers
      /\ holds \in [Drivers -> SUBSET Irqs]
      /\ EntryAt(d)
  BY StepShape, DriversAssumption DEF EntryInv, TypeOK
<1>a. \A e \in Drivers : op[d].irq \in holds[e] =>
        handler[op[d].irq] = e /\ arg[op[d].irq] = e
  BY DEF EntryInv, HolderOwnsEntry
<1>b. op[d].pc \in TableSteps => op[d].irq \notin holds[d]
  BY <1>0 DEF EntryInv, CallKind
<1>2. CASE SetHandler(d)
  <2>1. \A e \in Drivers : op[d].irq \notin holds[e]
    BY <1>0, <1>a, <1>2 DEF SetHandler
  <2>2. op'[d].pc = "arg" /\ op'[d].irq = op[d].irq
    BY <1>0, <1>2, Moves DEF SetHandler, EntryInv
  <2> QED BY <1>0, <1>2, <2>1, <2>2 DEF SetHandler
<1>3. CASE SetArg(d)
  <2>1. \A e \in Drivers : op[d].irq \notin holds[e]
    BY <1>0, <1>a, <1>b, <1>3 DEF SetArg
  <2>2. op'[d].pc = "unmask" /\ op'[d].irq = op[d].irq
    BY <1>0, <1>3, Moves DEF SetArg, EntryInv
  <2> QED BY <1>0, <1>3, <2>1, <2>2 DEF SetArg
<1>4. CASE ResetHandler(d)
  <2>1. \A e \in Drivers : op[d].irq \notin holds[e]
    BY <1>0, <1>a, <1>b, <1>4 DEF ResetHandler
  <2>2. op'[d].pc = "unarg" /\ op'[d].irq = op[d].irq
    BY <1>0, <1>4, Moves DEF ResetHandler, EntryInv
  <2> QED BY <1>0, <1>4, <2>1, <2>2 DEF ResetHandler
<1>5. CASE ResetArg(d)
  <2>1. \A e \in Drivers : op[d].irq \notin holds[e]
    BY <1>0, <1>a, <1>5 DEF ResetArg
  <2> QED BY <1>0, <1>5, <2>1, OpTypes DEF ResetArg
<1>6. CASE UnmaskChannel(d)
  BY <1>0, <1>a, <1>6, OpTypes DEF UnmaskChannel, Load, table
<1>7. CASE StoreMask(d)
  <2>1. op'[d].pc = "line" /\ op'[d].irq = op[d].irq
    BY <1>7, Moves DEF StoreMask, EntryInv
  <2> QED BY <1>0, <1>a, <1>7, <2>1 DEF StoreMask, table
<1>8. CASE UnmaskLine(d)
  <2>1. handler[op[d].irq] = d /\ arg[op[d].irq] = d
    BY <1>0, <1>8 DEF UnmaskLine
  <2>2. \A e \in Drivers \ {d} : holds'[e] = holds[e]
    BY <1>0, <1>8 DEF UnmaskLine
  <2> QED BY <1>0, <1>a, <1>8, <2>1, <2>2, OpTypes DEF UnmaskLine, table
<1>9. CASE MaskChannel(d)
  BY <1>0, <1>a, <1>9, OpTypes DEF MaskChannel, Load, table
<1>10. CASE UnstoreMask(d)
  <2>1. op'[d].pc = "unline" /\ op'[d].irq = op[d].irq
    BY <1>10, Moves DEF UnstoreMask, EntryInv
  <2> QED BY <1>0, <1>a, <1>10, <2>1 DEF UnstoreMask, table
<1>11. CASE MaskLine(d)
  <2>1. op[d].pc \in {"mask", "unline"} /\ UNCHANGED <<handler, arg, holds>>
    BY <1>11 DEF MaskLine, table
  <2>2. op'[d] # Idle => op'[d].pc = "unset" /\ op'[d].irq = op[d].irq
    BY <1>0, <1>11, <2>1, Moves DEF MaskLine, Disabled, Return, EntryInv
  <2> QED BY <1>0, <1>a, <2>1, <2>2
<1> QED
  BY <1>2, <1>3, <1>4, <1>5, <1>6, <1>7, <1>8, <1>9, <1>10, <1>11
     DEF DriverStep

LEMMA EntryStep ==
  ASSUME EntryInv, NEW d \in Drivers, DriverStep(d)
  PROVE  EntryInv'
<1>0. TypeOK
  BY DEF EntryInv
<1>1. TypeOK'
  BY <1>0, TypeDriverStep
<1>2. OneCall'
  BY <1>0, StepShape DEF EntryInv, OneCall
<1>3. CallKind'
  <2>1. ASSUME NEW e \in Drivers \ {d}, op'[e] # Idle
        PROVE  /\ op'[e].pc \in TableSteps => op'[e].call = "table"
               /\ op'[e].call = "table" => op'[e].irq \notin holds'[e]
               /\ op'[e].pc \in {"store", "line", "unstore", "unline"}
                    => op'[e].irq \in Grouped
    BY <1>0, <2>1, StepShape DEF EntryInv, CallKind
  <2>2. ASSUME op'[d] # Idle
        PROVE  /\ op'[d].pc \in TableSteps => op'[d].call = "table"
               /\ op'[d].call = "table" => op'[d].irq \notin holds'[d]
               /\ op'[d].pc \in {"store", "line", "unstore", "unline"}
                    => op'[d].irq \in Grouped
    <3> USE DEF At, Steps, TableSteps
    <3>1. op[d] # Idle /\ op'[d].irq = op[d].irq /\ op'[d].call = op[d].call
      BY <1>0, <2>2, StepShape
    <3>2. /\ op[d].pc \in TableSteps => op[d].call = "table"
          /\ op[d].call = "table" => op[d].irq \notin holds[d]
          /\ op[d].pc \in {"store", "line", "unstore", "unline"}
               => op[d].irq \in Grouped
      BY <3>1 DEF EntryInv, CallKind
    <3>3. CASE Check(d)
      <4>1. op[d].pc = "check" /\ op'[d].pc = "handler" /\ holds' = holds
        BY <1>0, <2>2, <3>3, StepOp, Moves DEF Check, Return, TypeOK
      <4> QED BY <3>1, <3>2, <4>1
    <3>4. CASE SetHandler(d)
      <4>1. op[d].pc = "handler" /\ op'[d].pc = "arg" /\ holds' = holds
        BY <1>0, <3>4, Moves DEF SetHandler
      <4> QED BY <3>1, <3>2, <4>1
    <3>5. CASE SetArg(d)
      <4>1. op[d].pc = "arg" /\ op'[d].pc = "unmask" /\ holds' = holds
        BY <1>0, <3>5, Moves DEF SetArg
      <4> QED BY <3>1, <3>2, <4>1
    <3>6. CASE ResetHandler(d)
      <4>1. op[d].pc = "unset" /\ op'[d].pc = "unarg" /\ holds' = holds
        BY <1>0, <3>6, Moves DEF ResetHandler
      <4> QED BY <3>1, <3>2, <4>1
    <3>7. CASE UnmaskChannel(d)
      <4>1. /\ op[d].irq \in Grouped /\ holds' = holds
            /\ \E pc \in Steps, word \in SUBSET Irqs : pc = "store" /\ Load(d, pc, word)
        BY <1>0, <3>1, <3>7, StepOp, LineOf DEF UnmaskChannel, MaskWord, TypeOK
      <4>2. op'[d].pc = "store"
        BY <1>0, <3>7, <4>1, Moves DEF UnmaskChannel
      <4> QED BY <3>1, <3>2, <4>1, <4>2
    <3>8. CASE StoreMask(d)
      <4>1. op[d].pc = "store" /\ op'[d].pc = "line" /\ holds' = holds
        BY <1>0, <3>8, Moves DEF StoreMask
      <4> QED BY <3>1, <3>2, <4>1
    <3>9. CASE MaskChannel(d)
      <4>1. op[d].irq \in Grouped /\ holds' = holds
        BY <3>9 DEF MaskChannel
      <4>2. MaskWord(d) \ {op[d].irq} \in SUBSET Irqs
        BY <1>0, <4>1, StepOp, LineOf DEF MaskWord, TypeOK
      <4>3. op'[d].pc = "unstore"
        BY <1>0, <3>9, <4>2, Moves DEF MaskChannel
      <4> QED BY <3>1, <3>2, <4>1, <4>3
    <3>10. CASE UnstoreMask(d)
      <4>1. op[d].pc = "unstore" /\ op'[d].pc = "unline" /\ holds' = holds
        BY <1>0, <3>10, Moves DEF UnstoreMask
      <4> QED BY <3>1, <3>2, <4>1
    <3>11. CASE MaskLine(d)
      <4>1. op[d].call = "table" /\ op'[d].pc = "unset" /\ holds' = holds
        BY <1>0, <2>2, <3>11, StepOp, Moves DEF MaskLine, Disabled, Return, TypeOK
      <4> QED BY <3>1, <3>2, <4>1
    <3>12. CASE ResetArg(d) \/ UnmaskLine(d)
      <4>1. op'[d] = Idle
        BY <1>0, <3>12, StepOp DEF ResetArg, UnmaskLine, Return, TypeOK
      <4> QED BY <2>2, <4>1
    <3> QED
      BY <3>3, <3>4, <3>5, <3>6, <3>7, <3>8, <3>9, <3>10, <3>11, <3>12 DEF DriverStep
  <2> QED BY <2>1, <2>2 DEF CallKind
<1>4. /\ op[d] # Idle /\ op[d].irq \in Irqs
      /\ clashed' \ {op[d].irq} = clashed \ {op[d].irq}
      /\ ~ Check(d) => clashed' = clashed /\ op[d].pc # "check"
      /\ \A e \in Drivers \ {d} : op'[e] = op[e] /\ holds'[e] = holds[e]
      /\ op'[d] # Idle => op'[d].irq = op[d].irq
  <2>1. ~ Check(d) => op[d].pc # "check"
    BY DEF DriverStep, SetHandler, SetArg, ResetHandler, ResetArg, At,
       UnmaskChannel, StoreMask, UnmaskLine, MaskChannel, UnstoreMask, MaskLine
  <2> QED BY <1>0, <2>1, StepShape
\* Another call on the same source is at its test after the step.
<1>5. ASSUME NEW e \in Drivers \ {d}, op[e] # Idle, op[e].irq = op[d].irq,
             op[d].irq \notin clashed', op'[d] # Idle
      PROVE  op[e].pc = "check"
  <2>1. CASE Check(d)
    BY <1>5, <2>1, CheckEntry
  <2>2. CASE ~ Check(d)
    BY <1>4, <1>5, <2>2 DEF EntryInv, Alone
  <2> QED BY <2>1, <2>2
<1>6. HolderOwnsEntry'
  <2>1. SUFFICES ASSUME NEW e \in Drivers, NEW irq \in holds'[e], irq \notin clashed'
                 PROVE  handler'[irq] = e /\ arg'[irq] = e
    BY DEF HolderOwnsEntry
  <2>2. irq \in Irqs
    BY <1>1, <2>1 DEF TypeOK
  <2>3. CASE irq = op[d].irq /\ ~ Check(d)
    BY <1>4, <2>1, <2>3, OwnEntry
  <2>4. CASE irq = op[d].irq /\ Check(d)
    BY <2>1, <2>4, CheckEntry DEF EntryInv, HolderOwnsEntry
  <2>5. CASE irq # op[d].irq
    <3>1. irq \in holds[e] /\ irq \notin clashed
      BY <1>0, <1>4, <2>1, <2>2, <2>5, StepShape
    <3>2. handler[irq] = e /\ arg[irq] = e
      BY <3>1 DEF EntryInv, HolderOwnsEntry
    <3> QED BY <1>0, <2>2, <2>5, <3>2, StepShape
  <2> QED BY <2>3, <2>4, <2>5
<1>7. ASSUME NEW e \in Drivers, op'[e] # Idle, op'[e].irq \notin clashed'
      PROVE  EntryAt(e)'
  <2>1. CASE e = d /\ ~ Check(d)
    BY <1>4, <1>7, <2>1, OwnEntry
  <2>2. CASE e = d /\ Check(d)
    <3>1. /\ op'[d].pc = "handler" /\ handler'[op[d].irq] = NoDriver
          /\ op'[d].irq = op[d].irq
      BY <1>4, <1>7, <2>2, CheckEntry
    <3> QED BY <2>2, <3>1 DEF EntryAt
  <2>3. CASE e # d /\ op[e].irq # op[d].irq
    <3>1. op'[e] = op[e] /\ EntryAt(e)
      BY <1>4, <1>7, <2>3 DEF EntryInv
    <3>2. op[e].irq \in Irqs
      BY <1>0, <1>7, <3>1 DEF TypeOK, OpType
    <3>3. handler'[op[e].irq] = handler[op[e].irq] /\ arg'[op[e].irq] = arg[op[e].irq]
      BY <1>0, <2>3, <3>2, StepShape
    <3> QED BY <3>1, <3>3 DEF EntryAt
  <2>4. CASE e # d /\ op[e].irq = op[d].irq
    <3>1. op'[e] = op[e]
      BY <1>4, <2>4
    <3>2. CASE op[e].pc = "check"
      BY <3>1, <3>2 DEF EntryAt
    <3>3. CASE op[e].pc # "check"
      \* Then the step was a test that failed.
      <4>1. Check(d) /\ op'[d] = Idle
        <5>1. op'[d] = Idle
          BY <1>5, <1>7, <2>4, <3>1, <3>3
        <5>2. Check(d)
          BY <1>4, <1>7, <2>4, <3>1, <3>3 DEF EntryInv, Alone
        <5> QED BY <5>1, <5>2
      <4>2. UNCHANGED <<handler, arg>> /\ op[e].irq \notin clashed
        BY <1>7, <2>4, <3>1, <4>1, CheckEntry
      <4>3. EntryAt(e)
        BY <1>7, <3>1, <4>2 DEF EntryInv
      <4> QED BY <3>1, <4>2, <4>3 DEF EntryAt
    <3> QED BY <3>2, <3>3
  <2> QED BY <2>1, <2>2, <2>3, <2>4
<1>8. Alone'
  <2>1. SUFFICES ASSUME NEW e \in Drivers, NEW f \in Drivers, e # f,
                        op'[e] # Idle, op'[f] # Idle, op'[e].irq = op'[f].irq,
                        op'[e].irq \notin clashed'
                 PROVE  op'[e].pc = "check" \/ op'[f].pc = "check"
    BY DEF Alone
  <2>2. CASE e = d \/ f = d
    BY <1>4, <1>5, <2>1, <2>2
  <2>3. CASE e # d /\ f # d
    <3>1. op'[e] = op[e] /\ op'[f] = op[f]
      BY <1>4, <2>3
    <3>2. CASE op[e].irq \notin clashed
      BY <2>1, <3>1, <3>2 DEF EntryInv, Alone
    <3>3. CASE op[e].irq \in clashed
      <4>1. op[e].irq = op[d].irq /\ Check(d)
        BY <1>4, <2>1, <3>1, <3>3
      <4> QED BY <2>1, <2>3, <3>1, <3>3, <4>1, CheckEntry
    <3> QED BY <3>2, <3>3
  <2> QED BY <2>2, <2>3
<1> QED BY <1>1, <1>2, <1>3, <1>6, <1>7, <1>8 DEF EntryInv

\* The devices and the handler leave calls and entries alone.
LEMMA DevicesKeepCalls ==
  ASSUME Isr \/ (\E irq \in Irqs : Raise(irq)) \/ UNCHANGED vars
  PROVE  UNCHANGED <<unmasked, chan_on, irq_mask, handler, arg, op, holds, raced,
                     clashed>>
BY DEF Isr, Interrupt, AckIrq, RunHandler, Raise, vars, regs, table

LEMMA EntryNext == EntryInv /\ [Next]_vars => EntryInv'
<1> SUFFICES ASSUME EntryInv, [Next]_vars PROVE EntryInv'
  OBVIOUS
<1>1. CASE Isr \/ (\E irq \in Irqs : Raise(irq)) \/ UNCHANGED vars
  <2>1. TypeOK'
    BY TypeNext DEF EntryInv
  <2> QED
    BY <1>1, <2>1, DevicesKeepCalls
       DEF EntryInv, OneCall, CallKind, HolderOwnsEntry, Alone, EntryAt
<1> QED BY <1>1, EntryBegin, EntryStep DEF Next

(* Whoever request_irq returned 0 to owns the handler and the argument of the
   source until he frees it, whatever calls the other drivers make and whatever
   interrupts come between the steps (interrupt.c:138-160).  The sources in clashed
   are excepted: those for which another request_irq passed its test between this
   one's test and its store of the handler, or between the two stores of free_irq,
   and which one of the drivers concerned has not freed yet. *)
THEOREM HolderOwns == Spec => []HolderOwnsEntry
<1>1. EntryInv => HolderOwnsEntry
  BY DEF EntryInv
<1> QED BY <1>1, EntryInit, EntryNext, PTL DEF Spec

-----------------------------------------------------------------------------
(***************************************************************************)
(* A handler runs with its argument.  A source is enabled by the bit of    *)
(* its own level alone: its channel's or pin's, or else its line's.        *)
(***************************************************************************)

Enabled(irq) == IF irq \in Grouped THEN irq \in chan_on ELSE irq \in unmasked

\* The steps at which the source of the call is not enabled.
ClosedSteps == {"handler", "arg", "unstore", "unline", "unset", "unarg"}

\* Whoever opened the source holds it, or is about to close it.
Opened(irq) ==
  \E d \in Drivers : \/ irq \in holds[d]
                     \/ op[d].pc \in {"store", "line", "mask"} /\ op[d].irq = irq

\* The handler's argument is there, or about to be stored.
Paired(irq) ==
  \/ handler[irq] \in {NoDriver, arg[irq]}
  \/ \E d \in Drivers : op[d].pc = "arg" /\ op[d].irq = irq

ArgInv ==
  /\ EntryInv
  /\ \A irq \in Irqs : Enabled(irq) => Opened(irq)
  /\ \A irq \in Irqs \ clashed : Paired(irq)
  /\ \A d \in Drivers :
       op[d] # Idle /\ op[d].irq \notin clashed /\ op[d].pc \in ClosedSteps
       => ~ Enabled(op[d].irq)
  /\ isr # Idle /\ isr.irq \notin Grouped => isr.irq \in unmasked

\* A step of a call enables no source but its own.
LEMMA EnablesOwn ==
  ASSUME TypeOK, NEW d \in Drivers, DriverStep(d),
         NEW irq \in Irqs, irq # op[d].irq, Enabled(irq)'
  PROVE  Enabled(irq)
<1>1. op[d].irq \in Irqs
  BY StepOp
<1>2. chan_on' \subseteq chan_on \cup {op[d].irq}
  BY DEF DriverStep, Check, SetHandler, SetArg, ResetHandler, ResetArg, regs,
     UnmaskChannel, StoreMask, UnmaskLine, MaskChannel, UnstoreMask, MaskLine
<1>3. unmasked' \subseteq unmasked \cup {Line(op[d].irq)}
  BY DEF DriverStep, Check, SetHandler, SetArg, ResetHandler, ResetArg, regs,
     UnmaskChannel, StoreMask, UnmaskLine, MaskChannel, UnstoreMask, MaskLine
<1>4. irq \notin Grouped => Line(op[d].irq) # irq
  BY <1>1, LineOf
<1> QED BY <1>2, <1>3, <1>4 DEF Enabled

\* Who opened the source a step is about.
LEMMA OwnOpened ==
  ASSUME ArgInv, NEW d \in Drivers, DriverStep(d),
         NEW irq \in Irqs, irq = op[d].irq, Enabled(irq)'
  PROVE  Opened(irq)'
<1> USE DEF Steps, At
<1>0. /\ TypeOK /\ op[d] # Idle /\ holds[d] \subseteq holds'[d]
      /\ \A e \in Drivers \ {d} : op'[e] = op[e] /\ holds'[e] = holds[e]
  BY StepShape DEF ArgInv, EntryInv
\* What another driver, or d as the holder, has opened stays so.
<1>1. ASSUME Enabled(irq), op[d].pc \notin {"store", "line", "mask"}
      PROVE  Opened(irq)'
  BY <1>0, <1>1 DEF ArgInv, Opened
<1>2. CASE Check(d) \/ SetHandler(d) \/ SetArg(d) \/ ResetHandler(d) \/ ResetArg(d)
  <2>1. UNCHANGED regs /\ op[d].pc \notin {"store", "line", "mask"}
    BY <1>2 DEF Check, SetHandler, SetArg, ResetHandler, ResetArg
  <2>2. Enabled(irq)
    BY <2>1 DEF Enabled, regs
  <2> QED BY <1>1, <2>1, <2>2
<1>3. CASE UnmaskChannel(d) \/ StoreMask(d)
  <2>1. op'[d].pc \in {"store", "line"} /\ op'[d].irq = irq
    <3>1. CASE UnmaskChannel(d)
      <4>1. MaskWord(d) \in SUBSET Irqs
        BY <1>0, <3>1, LineOf DEF UnmaskChannel, MaskWord, TypeOK
      <4> QED BY <1>0, <3>1, <4>1, Moves DEF UnmaskChannel
    <3>2. CASE StoreMask(d)
      BY <1>0, <3>2, Moves DEF StoreMask
    <3> QED BY <1>3, <3>1, <3>2
  <2> QED BY <2>1 DEF Opened
<1>4. CASE UnmaskLine(d)
  <2>1. irq \in holds'[d]
    BY <1>0, <1>4 DEF UnmaskLine, TypeOK
  <2> QED BY <2>1 DEF Opened
<1>5. CASE MaskChannel(d)
  BY <1>5 DEF MaskChannel, Enabled
<1>6. CASE UnstoreMask(d)
  BY <1>1, <1>6 DEF UnstoreMask, Enabled
<1>7. CASE MaskLine(d)
  <2>1. CASE op[d].pc = "mask"
    BY <1>7, <2>1 DEF MaskLine, Enabled
  <2>2. CASE op[d].pc = "unline"
    <3>1. irq \in Grouped
      BY <1>0, <2>2 DEF ArgInv, EntryInv, CallKind
    <3>2. Enabled(irq)
      BY <1>7, <3>1 DEF MaskLine, Enabled
    <3> QED BY <1>1, <2>2, <3>2
  <2> QED BY <1>7, <2>1, <2>2 DEF MaskLine
<1> QED
  BY <1>2, <1>3, <1>4, <1>5, <1>6, <1>7 DEF DriverStep

\* A source that is free when its entry is tested is not enabled.
LEMMA FreeClosed ==
  ASSUME ArgInv, NEW d \in Drivers, Check(d),
         NEW irq \in Irqs, irq = op[d].irq, irq \notin clashed', op'[d] # Idle
  PROVE  ~ Enabled(irq)
<1>1. op[d].pc = "check" /\ Idle.pc = "idle"
  BY DEF Check, At, Idle
<1>2. /\ \A e \in Drivers : irq \notin holds[e]
      /\ \A e \in Drivers \ {d} :
            op[e] # Idle /\ op[e].irq = irq => op[e].pc = "check"
  BY CheckEntry DEF ArgInv
<1>3. ~ Opened(irq)
  BY <1>1, <1>2 DEF Opened
<1> QED BY <1>3 DEF ArgInv

\* The source a step is about: the argument, and the steps at which it is closed.
LEMMA OwnArg ==
  ASSUME ArgInv, NEW d \in Drivers, DriverStep(d),
         NEW irq \in Irqs, irq = op[d].irq, irq \notin clashed'
  PROVE  /\ Paired(irq)'
         /\ op'[d] # Idle /\ op'[d].pc \in ClosedSteps => ~ Enabled(irq)'
<1> USE DEF Steps, At
<1>0. /\ TypeOK /\ EntryInv /\ op[d] # Idle /\ op[d].irq = irq
      /\ op \in [Drivers -> OpType]
      /\ handler \in [Irqs -> Drivers \cup {NoDriver}]
      /\ arg \in [Irqs -> Drivers \cup {NoDriver}]
      /\ \A e \in Drivers \ {d} : op'[e] = op[e]
  BY StepShape DEF ArgInv, EntryInv, TypeOK
<1>a. ~ Check(d) => irq \notin clashed /\ EntryAt(d)
  BY <1>0, StepShape DEF EntryInv
<1>b. irq \notin clashed => Paired(irq)
  BY DEF ArgInv
<1>c. op[d].pc \in ClosedSteps /\ irq \notin clashed => ~ Enabled(irq)
  BY <1>0 DEF ArgInv
\* A step that is not at "arg" and leaves the entry alone keeps the pair.
<1>d. ASSUME UNCHANGED table, op[d].pc # "arg", irq \notin clashed
      PROVE  Paired(irq)'
  BY <1>0, <1>b, <1>d DEF Paired, table
<1>1. CASE Check(d)
  <2>1. CASE op'[d] = Idle
    BY <1>d, <1>1, <2>1, CheckEntry DEF Check, EntryInv, ArgInv
  <2>2. CASE op'[d] # Idle
    <3>1. ~ Enabled(irq) /\ handler'[irq] = NoDriver
      BY <1>0, <1>1, <2>2, FreeClosed, CheckEntry
    <3> QED BY <1>1, <3>1 DEF Paired, Enabled, Check, regs
  <2> QED BY <2>1, <2>2
<1>2. CASE SetHandler(d)
  <2>1. op'[d].pc = "arg" /\ op'[d].irq = irq
    BY <1>0, <1>2, Moves DEF SetHandler
  <2>2. ~ Enabled(irq) /\ UNCHANGED regs
    BY <1>2, <1>a, <1>c DEF SetHandler, ClosedSteps, Check
  <2> QED BY <2>1, <2>2 DEF Paired, Enabled, regs
<1>3. CASE SetArg(d)
  <2>1. handler[irq] = d /\ handler' = handler /\ arg'[irq] = d
    BY <1>0, <1>3, <1>a DEF SetArg, EntryAt, Check
  <2>2. op'[d].pc = "unmask"
    BY <1>0, <1>3, Moves DEF SetArg
  <2> QED BY <2>1, <2>2 DEF Paired, ClosedSteps
<1>4. CASE ResetHandler(d) \/ ResetArg(d)
  <2>1. handler'[irq] = NoDriver
    BY <1>0, <1>4, <1>a DEF ResetHandler, ResetArg, EntryAt, Check
  <2>2. ~ Enabled(irq) /\ UNCHANGED regs
    BY <1>4, <1>a, <1>c DEF ResetHandler, ResetArg, ClosedSteps, Check
  <2> QED BY <2>1, <2>2 DEF Paired, Enabled, regs
<1>5. CASE UnmaskChannel(d) \/ StoreMask(d) \/ UnmaskLine(d)
  <2>1. UNCHANGED table /\ op[d].pc # "arg" /\ ~ Check(d)
    BY <1>5 DEF UnmaskChannel, StoreMask, UnmaskLine, Check
  <2>2. op'[d] # Idle => op'[d].pc \in {"store", "line"}
    <3>1. CASE UnmaskChannel(d)
      <4>1. MaskWord(d) \in SUBSET Irqs
        BY <1>0, <3>1, LineOf DEF UnmaskChannel, MaskWord, TypeOK
      <4> QED BY <1>0, <3>1, <4>1, Moves DEF UnmaskChannel
    <3>2. CASE StoreMask(d)
      BY <1>0, <3>2, Moves DEF StoreMask
    <3>3. CASE UnmaskLine(d)
      BY <1>0, <3>3 DEF UnmaskLine, Return
    <3> QED BY <1>5, <3>1, <3>2, <3>3
  <2> QED BY <1>a, <1>d, <2>1, <2>2 DEF ClosedSteps
<1>6. CASE MaskChannel(d) \/ UnstoreMask(d) \/ MaskLine(d)
  \* The channel, or a line without channels, is closed from here on.
  <2>1. UNCHANGED table /\ op[d].pc # "arg" /\ ~ Check(d)
    BY <1>6 DEF MaskChannel, UnstoreMask, MaskLine, Check
  <2>2. ~ Enabled(irq)'
    <3>1. CASE MaskChannel(d)
      BY <3>1 DEF MaskChannel, Enabled
    <3>2. CASE UnstoreMask(d)
      BY <1>a, <1>c, <2>1, <3>2 DEF UnstoreMask, Enabled, ClosedSteps
    <3>3. CASE MaskLine(d)
      <4>1. CASE op[d].pc = "unline"
        <5>1. irq \in Grouped
          BY <1>0, <4>1 DEF EntryInv, CallKind
        <5>2. ~ Enabled(irq)
          BY <1>a, <1>c, <2>1, <4>1 DEF ClosedSteps
        <5> QED BY <3>3, <5>1, <5>2 DEF MaskLine, Enabled
      <4>2. CASE op[d].pc = "mask"
        BY <3>3, <4>2 DEF MaskLine, Enabled
      <4> QED BY <3>3, <4>1, <4>2 DEF MaskLine
    <3> QED BY <1>6, <3>1, <3>2, <3>3
  <2> QED BY <1>a, <1>d, <2>1, <2>2
<1> QED BY <1>1, <1>2, <1>3, <1>4, <1>5, <1>6 DEF DriverStep

LEMMA ArgStep ==
  ASSUME ArgInv, NEW d \in Drivers, DriverStep(d)
  PROVE  ArgInv'
<1>0. /\ TypeOK /\ EntryInv /\ op[d] # Idle /\ op[d].irq \in Irqs
      /\ isr = Idle /\ isr' = isr
      /\ clashed' \ {op[d].irq} = clashed \ {op[d].irq}
      /\ holds[d] \subseteq holds'[d]
      /\ \A e \in Drivers \ {d} : op'[e] = op[e] /\ holds'[e] = holds[e]
      /\ op'[d] # Idle => op'[d].irq = op[d].irq
  BY StepShape DEF ArgInv, EntryInv
<1>1. EntryInv'
  BY <1>0, EntryStep
<1>2. ASSUME NEW irq \in Irqs, Enabled(irq)'
      PROVE  Opened(irq)'
  <2>1. CASE irq = op[d].irq
    BY <1>2, <2>1, OwnOpened
  <2>2. CASE irq # op[d].irq
    <3>1. Opened(irq)
      BY <1>0, <1>2, <2>2, EnablesOwn DEF ArgInv
    <3> QED BY <1>0, <2>2, <3>1 DEF Opened
  <2> QED BY <2>1, <2>2
<1>3. ASSUME NEW irq \in Irqs \ clashed'
      PROVE  Paired(irq)'
  <2>1. CASE irq = op[d].irq
    BY <1>3, <2>1, OwnArg
  <2>2. CASE irq # op[d].irq
    <3>1. irq \notin clashed /\ handler'[irq] = handler[irq] /\ arg'[irq] = arg[irq]
      BY <1>0, <1>3, <2>2, StepShape
    <3>2. Paired(irq)
      BY <1>3, <3>1 DEF ArgInv
    <3> QED BY <1>0, <2>2, <3>1, <3>2 DEF Paired
  <2> QED BY <2>1, <2>2
<1>4. ASSUME NEW e \in Drivers, op'[e] # Idle, op'[e].irq \notin clashed',
             op'[e].pc \in ClosedSteps, NEW irq \in Irqs, irq = op'[e].irq
      PROVE  ~ Enabled(irq)'
  <2>1. CASE e = d
    BY <1>0, <1>4, <2>1, OwnArg
  <2>2. CASE e # d /\ irq # op[d].irq
    BY <1>0, <1>4, <2>2, EnablesOwn DEF ArgInv
  <2>3. CASE e # d /\ irq = op[d].irq
    \* The step can only be a test, which enables nothing.
    <3>1. op'[e] = op[e] /\ op[e].pc # "check"
      BY <1>0, <1>4, <2>3 DEF ClosedSteps
    <3>2. Check(d) /\ irq \notin clashed
      <4>1. CASE Check(d)
        <5>1. op[e] # Idle /\ op[e].irq = op[d].irq /\ op[d].irq \notin clashed'
          BY <1>4, <2>3, <3>1
        <5> QED BY <1>0, <2>3, <3>1, <4>1, <5>1, CheckEntry
      <4>2. CASE ~ Check(d)
        <5>1. irq \notin clashed
          BY <1>4, <4>2, StepShape, <1>0
        <5>2. op[d].pc = "check"
          BY <1>0, <1>4, <2>3, <3>1, <5>1 DEF EntryInv, Alone
        <5> QED
          BY <4>2, <5>2 DEF DriverStep, SetHandler, SetArg, ResetHandler, ResetArg, At,
             UnmaskChannel, StoreMask, UnmaskLine, MaskChannel, UnstoreMask, MaskLine
      <4> QED BY <4>1, <4>2
    <3>3. ~ Enabled(irq)
      BY <1>4, <3>1, <3>2 DEF ArgInv
    <3> QED BY <3>2, <3>3 DEF Check, Enabled, regs
  <2> QED BY <2>1, <2>2, <2>3
<1>5. ASSUME NEW e \in Drivers, op'[e] # Idle, op'[e].irq \notin clashed',
             op'[e].pc \in ClosedSteps
      PROVE  ~ Enabled(op[e].irq)'
  <2>1. PICK irq \in Irqs : irq = op'[e].irq
    BY <1>1, <1>5 DEF EntryInv, TypeOK, OpType
  <2>2. ~ Enabled(irq)'
    BY <1>4, <1>5, <2>1
  <2> QED BY <2>1, <2>2 DEF Enabled
<1> QED BY <1>0, <1>1, <1>2, <1>3, <1>5 DEF ArgInv

LEMMA ArgBegin ==
  ASSUME ArgInv, NEW d \in Drivers,
         RequestIrq(d) \/ EnableIrq(d) \/ DisableIrq(d) \/ FreeIrq(d)
  PROVE  ArgInv'
<1>1. EntryInv'
  BY EntryBegin DEF ArgInv
<1>2. UNCHANGED <<unmasked, chan_on, handler, arg, isr, clashed>>
  BY DEF RequestIrq, EnableIrq, DisableIrq, FreeIrq, Begin
<1>3. /\ op[d] = Idle /\ op'[d].pc \in {"check", "unmask", "mask"}
      /\ \A e \in Drivers \ {d} : op'[e] = op[e] /\ holds'[e] = holds[e]
      /\ \A irq \in holds[d] :
            irq \in holds'[d] \/ (op'[d].pc = "mask" /\ op'[d].irq = irq)
  <2>1. op \in [Drivers -> OpType] /\ holds \in [Drivers -> SUBSET Irqs]
    BY DEF ArgInv, EntryInv, TypeOK
  <2>4. ASSUME NEW pc \in {"check", "unmask", "mask"}, NEW irq \in Irqs,
               NEW call \in {"irq", "table"},
               Begin(d, pc, irq, call)
        PROVE  /\ op[d] = Idle /\ op'[d].pc = pc /\ op'[d].irq = irq
               /\ \A e \in Drivers \ {d} : op'[e] = op[e]
    BY <2>1, <2>4 DEF Begin
  <2>2. CASE FreeIrq(d)
    <3>1. PICK irq \in holds[d] : Begin(d, "mask", irq, "table")
                                /\ holds' = [holds EXCEPT ![d] = @ \ {irq}]
      BY <2>2 DEF FreeIrq
    <3>2. /\ op[d] = Idle /\ op'[d].pc = "mask" /\ op'[d].irq = irq
          /\ \A e \in Drivers \ {d} : op'[e] = op[e]
      BY <2>1, <2>4, <3>1
    <3>3. /\ \A e \in Drivers \ {d} : holds'[e] = holds[e]
          /\ holds'[d] = holds[d] \ {irq}
      BY <2>1, <3>1
    <3> QED BY <3>2, <3>3
  <2>3. CASE RequestIrq(d) \/ EnableIrq(d) \/ DisableIrq(d)
    <3>0. Uses[d] \subseteq Irqs
      BY UsesAssumption
    <3>1. PICK pc \in {"check", "unmask", "mask"}, irq \in Irqs, call \in {"irq", "table"} :
            Begin(d, pc, irq, call)
      BY <2>1, <2>3, <3>0 DEF RequestIrq, EnableIrq, DisableIrq
    <3>2. holds' = holds
      BY <2>3 DEF RequestIrq, EnableIrq, DisableIrq
    <3> QED BY <2>4, <3>1, <3>2
  <2> QED BY <2>2, <2>3
<1>4. Idle.pc = "idle"
  BY DEF Idle
<1>5. ASSUME NEW irq \in Irqs, Enabled(irq)'
      PROVE  Opened(irq)'
  <2>1. Opened(irq)
    BY <1>2, <1>5 DEF ArgInv, Enabled
  <2> QED BY <1>3, <1>4, <2>1 DEF Opened
<1>6. ASSUME NEW irq \in Irqs \ clashed'
      PROVE  Paired(irq)'
  <2>1. Paired(irq)
    BY <1>2, <1>6 DEF ArgInv
  <2> QED BY <1>2, <1>3, <1>4, <2>1 DEF Paired
<1>7. ASSUME NEW e \in Drivers, op'[e] # Idle, op'[e].irq \notin clashed',
             op'[e].pc \in ClosedSteps
      PROVE  ~ Enabled(op[e].irq)'
  <2>1. e # d /\ op'[e] = op[e]
    BY <1>3, <1>7 DEF ClosedSteps
  <2> QED BY <1>2, <1>7, <2>1 DEF ArgInv, Enabled
<1> QED BY <1>1, <1>2, <1>5, <1>6, <1>7 DEF ArgInv, Enabled

LEMMA ArgNext == ArgInv /\ [Next]_vars => ArgInv'
<1> SUFFICES ASSUME ArgInv, [Next]_vars PROVE ArgInv'
  OBVIOUS
<1>1. CASE Isr \/ (\E irq \in Irqs : Raise(irq)) \/ UNCHANGED vars
  <2>1. EntryInv'
    BY EntryNext DEF ArgInv
  <2>2. isr' # Idle /\ isr'.irq \notin Grouped => isr'.irq \in unmasked
    <3>1. CASE Interrupt
      <4>1. isr'.irq = intc_irq
        BY <3>1 DEF Interrupt
      <4>2. intc_irq \in Irqs /\ Line(intc_irq) \in unmasked
        BY <3>1, IntcIrq DEF Interrupt, ArgInv, EntryInv, TypeOK
      <4> QED BY <4>1, <4>2, LineOf
    <3>2. CASE AckIrq
      <4>1. isr \in [pc : {"ack", "run"}, irq : Irqs]
        BY <3>2 DEF AckIrq, ArgInv, EntryInv, TypeOK, Idle
      <4>2. isr # Idle /\ isr'.irq = isr.irq
        BY <3>2, <4>1 DEF AckIrq, Idle
      <4> QED BY <4>2 DEF ArgInv
    <3>3. CASE RunHandler
      BY <3>3 DEF RunHandler
    <3>4. CASE (\E irq \in Irqs : Raise(irq)) \/ UNCHANGED vars
      BY <3>4 DEF Raise, vars, ArgInv
    <3> QED BY <1>1, <3>1, <3>2, <3>3, <3>4 DEF Isr
  <2> QED
    BY <1>1, <2>1, <2>2, DevicesKeepCalls DEF ArgInv, Enabled, Opened, Paired
<1> QED BY <1>1, ArgBegin, ArgStep DEF Next, ArgInv

(* A driver's handler is run with its argument, although request_irq stores the
   two with interrupts enabled (interrupt.c:148-149): a source is enabled only while
   both are there.  Excepted are a source that two drivers were given (clashed),
   and a masked pin or channel that the group readers deliver between the two
   stores, since they do not look at the masks. *)
THEOREM HandlersHaveArgs == Spec => []HandlerHasArg
<1>1. Init => ArgInv
  <2> SUFFICES ASSUME Init PROVE ArgInv
    OBVIOUS
  <2>1. EntryInv
    BY EntryInit
  <2> QED BY <2>1 DEF Init, ArgInv, Enabled, Paired
<1>2. ArgInv => HandlerHasArg
  <2> SUFFICES ASSUME ArgInv, isr # Idle, isr.irq \notin clashed,
                      handler[isr.irq] \notin {NoDriver, arg[isr.irq]}
               PROVE  /\ isr.irq \in Grouped \ chan_on
                      /\ \E d \in Drivers : op[d].pc = "arg" /\ op[d].irq = isr.irq
    BY DEF HandlerHasArg
  <2>1. isr.irq \in Irqs /\ Idle.pc = "idle"
    BY DEF ArgInv, EntryInv, TypeOK, Idle
  <2>2. PICK d \in Drivers : op[d].pc = "arg" /\ op[d].irq = isr.irq
    BY <2>1 DEF ArgInv, Paired
  <2>3. ~ Enabled(isr.irq)
    BY <2>1, <2>2 DEF ArgInv, ClosedSteps, Enabled
  <2> QED BY <2>2, <2>3 DEF ArgInv, Enabled
<1> QED BY <1>1, <1>2, ArgNext, PTL DEF Spec

-----------------------------------------------------------------------------
(***************************************************************************)
(* The mask word of a group, its channels or pins and its line.            *)
(***************************************************************************)

On(line) == {irq \in chan_on : Line(irq) = line}

Match(line) == /\ irq_mask[line] = On(line)
               /\ line \in unmasked <=> irq_mask[line] # {}

UpdateSteps == {"store", "line", "unstore", "unline"}

\* How far the three are apart at each step of the call of driver d.
GroupAt(d, line) ==
  /\ op[d].pc = "store" =>
       /\ On(line) = irq_mask[line] \cup {op[d].irq} /\ op[d].tmp = irq_mask[line]
       /\ line \in unmasked <=> irq_mask[line] # {}
  /\ op[d].pc = "line" => irq_mask[line] = On(line) /\ op[d].irq \in irq_mask[line]
  /\ op[d].pc = "unstore" =>
       /\ On(line) = irq_mask[line] \ {op[d].irq} /\ op[d].tmp = On(line)
       /\ line \in unmasked <=> irq_mask[line] # {}
  /\ op[d].pc = "unline" =>
       /\ irq_mask[line] = On(line) /\ op[d].tmp = irq_mask[line]
       /\ irq_mask[line] # {} => line \in unmasked
  /\ op[d].pc \notin UpdateSteps => Match(line)

GroupInv ==
  /\ EntryInv
  /\ \A line \in GroupLines \ raced :
       /\ Quiet(line) => Match(line)
       /\ \A d \in Drivers : op[d] # Idle /\ Line(op[d].irq) = line => GroupAt(d, line)

\* A step leaves the groups of the other lines alone ...
LEMMA OtherGroups ==
  ASSUME TypeOK, NEW d \in Drivers, DriverStep(d),
         NEW line \in GroupLines, line # Line(op[d].irq)
  PROVE  /\ irq_mask'[line] = irq_mask[line]
         /\ On(line)' = On(line)
         /\ line \in unmasked' <=> line \in unmasked
<1>0. /\ op[d].irq \in Irqs /\ op[d].irq # line
      /\ irq_mask \in [GroupLines -> SUBSET Irqs]
  BY StepOp, LineOf DEF TypeOK, Grouped
<1>1. irq_mask'[line] = irq_mask[line]
  BY <1>0 DEF DriverStep, Check, SetHandler, SetArg, ResetHandler, ResetArg, regs,
     UnmaskChannel, StoreMask, UnmaskLine, MaskChannel, UnstoreMask, MaskLine
<1>2. chan_on' \ {op[d].irq} = chan_on \ {op[d].irq}
  BY DEF DriverStep, Check, SetHandler, SetArg, ResetHandler, ResetArg, regs,
     UnmaskChannel, StoreMask, UnmaskLine, MaskChannel, UnstoreMask, MaskLine
<1>3. \/ unmasked' = unmasked
      \/ unmasked' = unmasked \cup {Line(op[d].irq)}
      \/ unmasked' = unmasked \ {Line(op[d].irq)}
      \/ unmasked' = unmasked \ {op[d].irq}
  BY DEF DriverStep, Check, SetHandler, SetArg, ResetHandler, ResetArg, regs,
     UnmaskChannel, StoreMask, UnmaskLine, MaskChannel, UnstoreMask, MaskLine
<1>4. On(line)' = On(line)
  BY <1>0, <1>2 DEF On
<1> QED BY <1>0, <1>1, <1>3, <1>4

\* ... and changes its own as GroupAt says.
LEMMA OwnGroup ==
  ASSUME GroupInv, NEW d \in Drivers, DriverStep(d),
         NEW line \in GroupLines \ raced, line = Line(op[d].irq)
  PROVE  /\ op'[d] = Idle => Match(line)'
         /\ op'[d] # Idle => GroupAt(d, line)'
<1> USE DEF Steps, At, UpdateSteps, GroupAt, Match
<1>0. /\ TypeOK /\ EntryInv /\ op[d] # Idle /\ op[d].irq \in Irqs
      /\ op[d].irq \in Grouped
      /\ irq_mask \in [GroupLines -> SUBSET Irqs]
      /\ op \in [Drivers -> OpType]
      /\ GroupAt(d, line)
      /\ op'[d] # Idle => op'[d].irq = op[d].irq
  BY StepShape, LineOf DEF GroupInv, EntryInv, TypeOK
<1>1. CASE Check(d) \/ SetHandler(d) \/ SetArg(d) \/ ResetHandler(d) \/ ResetArg(d)
  <2>1. Match(line) /\ UNCHANGED regs
    BY <1>0, <1>1 DEF Check, SetHandler, SetArg, ResetHandler, ResetArg
  <2>2. op'[d] # Idle => op'[d].pc \in {"handler", "arg", "unmask", "unarg"}
    BY <1>0, <1>1, Moves DEF Check, SetHandler, SetArg, ResetHandler, ResetArg, Return
  <2> QED BY <2>1, <2>2 DEF regs, On
<1>2. CASE UnmaskChannel(d)
  <2>1. /\ Match(line) /\ MaskWord(d) = irq_mask[line] /\ MaskWord(d) \in SUBSET Irqs
        /\ UNCHANGED <<unmasked, irq_mask>> /\ chan_on' = chan_on \cup {op[d].irq}
    BY <1>0, <1>2 DEF UnmaskChannel, MaskWord
  <2>2. op'[d] # Idle /\ op'[d].pc = "store" /\ op'[d].tmp = irq_mask[line]
    BY <1>0, <1>2, <2>1, Moves DEF UnmaskChannel
  <2>3. On(line)' = On(line) \cup {op[d].irq}
    BY <2>1 DEF On
  <2> QED BY <1>0, <2>1, <2>2, <2>3
<1>3. CASE StoreMask(d)
  <2>1. /\ irq_mask'[line] = op[d].tmp \cup {op[d].irq}
        /\ chan_on' = chan_on /\ op[d].pc = "store"
    BY <1>0, <1>3 DEF StoreMask
  <2>2. op'[d] # Idle /\ op'[d].pc = "line"
    BY <1>0, <1>3, Moves DEF StoreMask
  <2> QED BY <1>0, <2>1, <2>2 DEF On
<1>4. CASE UnmaskLine(d)
  <2>1. /\ op[d].pc = "line" /\ line \in unmasked' /\ UNCHANGED <<irq_mask, chan_on>>
    BY <1>0, <1>4 DEF UnmaskLine
  <2>2. op'[d] = Idle
    BY <1>0, <1>4 DEF UnmaskLine, Return
  <2> QED BY <1>0, <2>1, <2>2 DEF On
<1>5. CASE MaskChannel(d)
  <2> DEFINE word == MaskWord(d) \ {op[d].irq}
  <2>1. /\ Match(line) /\ word = irq_mask[line] \ {op[d].irq} /\ word \in SUBSET Irqs
        /\ UNCHANGED <<unmasked, irq_mask>> /\ chan_on' = chan_on \ {op[d].irq}
    BY <1>0, <1>5 DEF MaskChannel, MaskWord
  <2>2. op'[d] # Idle /\ op'[d].pc = "unstore" /\ op'[d].tmp = word
    BY <1>0, <1>5, <2>1, Moves DEF MaskChannel
  <2>3. On(line)' = On(line) \ {op[d].irq}
    BY <2>1 DEF On
  <2> QED BY <1>0, <2>1, <2>2, <2>3
<1>6. CASE UnstoreMask(d)
  <2>1. /\ irq_mask'[line] = op[d].tmp /\ UNCHANGED <<chan_on, unmasked>>
        /\ op[d].pc = "unstore"
    BY <1>0, <1>6 DEF UnstoreMask
  <2>2. op'[d] # Idle /\ op'[d].pc = "unline" /\ op'[d].tmp = op[d].tmp
    BY <1>0, <1>6, Moves DEF UnstoreMask
  <2> QED BY <1>0, <2>1, <2>2 DEF On
<1>7. CASE MaskLine(d)
  \* The stored word and the word loaded again are the same here.
  <2>1. /\ op[d].pc = "unline" /\ UNCHANGED <<irq_mask, chan_on>>
        /\ unmasked' = IF irq_mask[line] = {} THEN unmasked \ {line} ELSE unmasked
    BY <1>0, <1>7 DEF MaskLine, MaskWord
  <2>2. op'[d] # Idle => op'[d].pc = "unset"
    BY <1>0, <1>7, Moves DEF MaskLine, Disabled, Return
  <2> QED BY <1>0, <2>1, <2>2 DEF On
<1> QED BY <1>1, <1>2, <1>3, <1>4, <1>5, <1>6, <1>7 DEF DriverStep

LEMMA GroupStep ==
  ASSUME GroupInv, NEW d \in Drivers, DriverStep(d)
  PROVE  GroupInv'
<1>0. /\ TypeOK /\ EntryInv /\ op[d] # Idle /\ raced' = raced
      /\ \A e \in Drivers \ {d} : op'[e] = op[e]
      /\ op'[d] # Idle => op'[d].irq = op[d].irq
  BY StepShape DEF GroupInv, EntryInv
<1>1. EntryInv'
  BY <1>0, EntryStep
<1>2. ASSUME NEW line \in GroupLines \ raced
      PROVE  /\ Quiet(line)' => Match(line)'
             /\ \A e \in Drivers : op'[e] # Idle /\ Line(op'[e].irq) = line
                  => GroupAt(e, line)'
  <2>1. CASE line = Line(op[d].irq)
    <3>1. /\ op'[d] = Idle => Match(line)'
          /\ op'[d] # Idle => GroupAt(d, line)'
      BY <2>1, OwnGroup
    <3>2. \A e \in Drivers \ {d} : op'[e] = Idle \/ Line(op'[e].irq) # line
      BY <1>0, <2>1 DEF EntryInv, OneCall
    <3>3. Quiet(line)' => op'[d] = Idle
      BY <1>0, <2>1 DEF Quiet
    <3> QED BY <3>1, <3>2, <3>3
  <2>2. CASE line # Line(op[d].irq)
    <3>1. /\ irq_mask'[line] = irq_mask[line] /\ On(line)' = On(line)
          /\ line \in unmasked' <=> line \in unmasked
      BY <1>0, <2>2, OtherGroups
    <3>2. Quiet(line)' => Quiet(line)
      BY <1>0, <2>2 DEF Quiet
    <3>3. \A e \in Drivers : op'[e] # Idle /\ Line(op'[e].irq) = line => op'[e] = op[e]
      BY <1>0, <2>2
    <3> QED BY <3>1, <3>2, <3>3 DEF GroupInv, GroupAt, Match
  <2> QED BY <2>1, <2>2
<1> QED BY <1>0, <1>1, <1>2 DEF GroupInv

LEMMA GroupBegin ==
  ASSUME GroupInv, NEW d \in Drivers,
         RequestIrq(d) \/ EnableIrq(d) \/ DisableIrq(d) \/ FreeIrq(d)
  PROVE  GroupInv'
<1>1. EntryInv'
  BY EntryBegin DEF GroupInv
<1>2. PICK irq \in Irqs :
        /\ op[d] = Idle /\ op'[d].irq = irq /\ op'[d].pc \notin UpdateSteps
        /\ op'[d] # Idle
        /\ \A e \in Drivers \ {d} : op'[e] = op[e]
        /\ UNCHANGED <<unmasked, chan_on, irq_mask>>
        /\ raced \subseteq raced'
        /\ \A e \in Drivers : op[e] # Idle /\ Line(op[e].irq) = Line(irq)
              => Line(irq) \in raced'
  <2>1. op \in [Drivers -> OpType] /\ Uses[d] \subseteq Irqs /\ holds[d] \subseteq Irqs
    BY UsesAssumption DEF GroupInv, EntryInv, TypeOK
  <2>2. PICK irq \in Irqs, pc \in {"check", "unmask", "mask"}, call \in {"irq", "table"} :
          Begin(d, pc, irq, call)
    BY <2>1 DEF RequestIrq, EnableIrq, DisableIrq, FreeIrq
  <2>3. op'[d] = [pc |-> pc, irq |-> irq, tmp |-> {}, call |-> call]
    BY <2>1, <2>2 DEF Begin
  <2>4. op'[d].irq = irq /\ op'[d].pc \notin UpdateSteps /\ op'[d] # Idle
    BY <2>3 DEF UpdateSteps, Idle
  <2> QED BY <2>1, <2>2, <2>4 DEF Begin
<1>3. ASSUME NEW line \in GroupLines \ raced'
      PROVE  /\ Quiet(line)' => Match(line)'
             /\ \A e \in Drivers : op'[e] # Idle /\ Line(op'[e].irq) = line
                  => GroupAt(e, line)'
  <2>1. CASE line = Line(irq)
    <3>1. Quiet(line)
      BY <1>2, <1>3, <2>1 DEF Quiet
    <3>2. Match(line)
      BY <1>2, <1>3, <3>1 DEF GroupInv
    <3>3. \A e \in Drivers \ {d} : op'[e] = Idle \/ Line(op'[e].irq) # line
      BY <1>2, <3>1 DEF Quiet
    <3>4. Match(line)'
      BY <1>2, <3>2 DEF Match, On
    <3>5. GroupAt(d, line)'
      BY <1>2, <3>4 DEF GroupAt, UpdateSteps
    <3> QED BY <3>3, <3>4, <3>5
  <2>2. CASE line # Line(irq)
    <3>1. Quiet(line)' => Quiet(line)
      BY <1>2, <1>3, <2>2 DEF Quiet
    <3>2. \A e \in Drivers : op'[e] # Idle /\ Line(op'[e].irq) = line => op'[e] = op[e]
      BY <1>2, <2>2
    <3> QED BY <1>2, <1>3, <3>1, <3>2 DEF GroupInv, GroupAt, Match, On
  <2> QED BY <2>1, <2>2
<1> QED BY <1>1, <1>3 DEF GroupInv

LEMMA GroupNext == GroupInv /\ [Next]_vars => GroupInv'
<1> SUFFICES ASSUME GroupInv, [Next]_vars PROVE GroupInv'
  OBVIOUS
<1>1. CASE Isr \/ (\E irq \in Irqs : Raise(irq)) \/ UNCHANGED vars
  <2>1. EntryInv'
    BY EntryNext DEF GroupInv
  <2> QED BY <1>1, <2>1, DevicesKeepCalls DEF GroupInv, Quiet, Match, On, GroupAt
<1> QED BY <1>1, GroupBegin, GroupStep DEF Next, GroupInv

(* Between calls the software mask word, the channels or pins and the line of a
   group agree (interrupt.c:23-56), on every line on which no two calls have
   overlapped. *)
THEOREM GroupsAgree == Spec => []GroupsMatch
<1>1. Init => GroupInv
  <2> SUFFICES ASSUME Init PROVE GroupInv
    OBVIOUS
  <2>1. EntryInv
    BY EntryInit
  <2> QED BY <2>1 DEF Init, GroupInv, Quiet, Match, On
<1>2. GroupInv => GroupsMatch
  BY DEF GroupInv, GroupsMatch, Match, On, Quiet
<1> QED BY <1>1, <1>2, GroupNext, PTL DEF Spec
=============================================================================
