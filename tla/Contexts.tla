------------------------------ MODULE Contexts ------------------------------
(***************************************************************************)
(* Saving and restoring the processor: mips_port.S and the macros of       *)
(* context.h.  The processor is its Status bits IE and EXL, EPC, the       *)
(* program counter, k0, LO (which stands for LO and HI) and the general    *)
(* registers.  A thread's context lies on its own stack.                   *)
(*                                                                         *)
(* STORE_REG_RET runs with interrupts off, so it is part of the step that  *)
(* runs it.  The end of RESTORE_REG_ERET and of restore_context is one     *)
(* step per instruction that counts: from the write of Status on, an       *)
(* interrupt may be taken if the restored word has IE set and EXL clear.   *)
(* That is so for a thread that runs for the first time, and for no other: *)
(* a preempted thread is saved with EXL set, a thread that blocks with IE  *)
(* clear.                                                                  *)
(*                                                                         *)
(* What threads compute is the business of the module that instantiates   *)
(* this one: UserPoints are the addresses of their code.                        *)
(***************************************************************************)
EXTENDS Integers, Sequences

CONSTANTS
    Threads,        \* threads with a stack made by init_thread_stack
    UserPoints,     \* addresses of the threads' code
    func,           \* the one where a thread starts
    Regs,           \* contents of the general registers
    reg0,           \* the contents init_thread_stack gives them
    Junk            \* an address, word or register contents of another use

VARIABLES
    current_thread,
    ie, exl,        \* the bits of Status
    epc, pc, k0, lo, regs,
    stack,          \* saved contexts of each thread, the one at sp first
    frame,          \* cpu_sr and the return address of schedule(), kept in its frame
    own,            \* history: where each thread last was in its own code
    hit             \* history: threads interrupted where k0 or EPC were in use

cpu == <<current_thread, ie, exl, epc, pc, k0, lo, regs>>
ctxVars == <<cpu, stack, frame, own, hit>>

(* RESTORE_REG_ERET: before the write of Status; before each of: the load of the
   pc, the write of EPC, that of LO and HI, eret.  restore_context: likewise. *)
EretPoints == {"eret_status", "eret_loadpc", "eret_epc", "eret_lo", "eret"}
JumpPoints == {"jr_status", "jr_loadlo", "jr_lo", "jr_loadpc", "jr"}
Points == UserPoints \cup EretPoints \cup JumpPoints \cup {"handler", "schedule", "switched"}

Context == [ie : BOOLEAN, exl : BOOLEAN, pc : Points, lo : Threads \cup {Junk},
            regs : Regs \cup {Junk}]

(* No stack ever holds more than two contexts. *)
CtxTypeOK ==
    /\ current_thread \in Threads
    /\ ie \in BOOLEAN /\ exl \in BOOLEAN
    /\ epc \in Points \cup {Junk} /\ pc \in Points \cup {Junk}
    /\ k0 \in Points \cup Threads \cup {Junk}
    /\ lo \in Threads \cup {Junk} /\ regs \in Regs \cup {Junk}
    /\ stack \in [Threads -> Seq(Context)] /\ \A t \in Threads : Len(stack[t]) <= 2
    /\ frame \in [Threads -> [cpu_sr : BOOLEAN, ra : UserPoints]]
    /\ own \in [Threads -> [pc : UserPoints, regs : Regs]]
    /\ hit \subseteq Threads

(* init_thread_stack: Status with IE set, as it was in main but for that. *)
init_thread_stack(t) == <<[ie |-> TRUE, exl |-> FALSE, pc |-> func, lo |-> t, regs |-> reg0]>>

frame0 == [cpu_sr |-> FALSE, ra |-> func]    \* no frame

CtxInit ==    \* start_curt has called restore_context
    /\ current_thread \in Threads
    /\ ie = FALSE /\ exl = FALSE
    /\ epc = Junk /\ pc = "jr_status" /\ k0 = Junk /\ lo = Junk /\ regs = Junk
    /\ stack = [t \in Threads |-> init_thread_stack(t)]
    /\ frame = [t \in Threads |-> frame0]
    /\ own = [t \in Threads |-> [pc |-> func, regs |-> reg0]]
    /\ hit = {}

-----------------------------------------------------------------------------
Saved == stack[current_thread][1]
Push(at, off) ==
    stack' = [stack EXCEPT ![current_thread] =
                 <<[ie |-> ie, exl |-> off, pc |-> at, lo |-> lo, regs |-> regs]>> \o @]

At(point) == pc = point /\ (point \in EretPoints \cup JumpPoints => stack[current_thread] # <<>>)

(* The processor takes an interrupt and irq_service_routine saves the context
   with the Status it finds: EXL is set. *)
InUse == {"eret_epc", "eret_lo", "eret", "jr_lo", "jr"}
MutInterrupt ==    \* mutant: the Status of before the exception is saved
    /\ ie /\ ~ exl /\ pc # Junk
    /\ Push(pc, FALSE)
    /\ exl' = TRUE /\ epc' = pc
    /\ pc' = "handler"
    /\ k0' = Junk /\ lo' = Junk /\ regs' = Junk
    /\ hit' = IF pc \in InUse THEN hit \cup {current_thread} ELSE hit
    /\ UNCHANGED <<current_thread, ie, frame, own>>

Interrupt ==
    /\ ie /\ ~ exl /\ pc # Junk
    /\ Push(pc, TRUE)
    /\ exl' = TRUE /\ epc' = pc
    /\ pc' = "handler"
    /\ k0' = Junk /\ lo' = Junk /\ regs' = Junk
    /\ hit' = IF pc \in InUse THEN hit \cup {current_thread} ELSE hit
    /\ UNCHANGED <<current_thread, ie, frame, own>>

(* exit_interrupt goes back to the thread, or context_switch_in_interrupt to next. *)
ExitInterrupt(next) ==
    /\ pc = "handler"
    /\ current_thread' = next
    /\ pc' = "eret_status"
    /\ UNCHANGED <<ie, exl, epc, k0, lo, regs, stack, frame, own, hit>>

(* schedule(), called by a thread: save_cpu_sr, then context_switch or nothing,
   then restore_cpu_sr. *)
CallSchedule ==
    /\ pc \in UserPoints
    /\ frame' = [frame EXCEPT ![current_thread] = [cpu_sr |-> ie, ra |-> pc]]
    /\ ie' = FALSE
    /\ pc' = "schedule"
    /\ UNCHANGED <<current_thread, exl, epc, k0, lo, regs, stack, own, hit>>

context_switch(next) ==
    /\ pc = "schedule"
    /\ Push("switched", exl)
    /\ current_thread' = next
    /\ pc' = "eret_status"
    /\ UNCHANGED <<ie, exl, epc, k0, lo, regs, frame, own, hit>>

ReturnFromSchedule ==
    /\ pc \in {"schedule", "switched"}
    /\ ie' = frame[current_thread].cpu_sr
    /\ pc' = frame[current_thread].ra
    /\ frame' = [frame EXCEPT ![current_thread] = frame0]
    /\ UNCHANGED <<current_thread, exl, epc, k0, lo, regs, stack, own, hit>>

-----------------------------------------------------------------------------
RestoreStatus ==
    /\ At("eret_status") \/ At("jr_status")
    /\ regs' = Saved.regs /\ ie' = Saved.ie /\ exl' = Saved.exl
    /\ k0' = Junk
    /\ pc' = IF pc = "jr_status" THEN "jr_loadlo" ELSE "eret_loadpc"
    /\ UNCHANGED <<current_thread, epc, lo, stack, frame, own, hit>>

LoadPc ==
    /\ At("eret_loadpc") \/ At("jr_loadpc")
    /\ k0' = Saved.pc
    /\ pc' = IF pc = "jr_loadpc" THEN "jr" ELSE "eret_epc"
    /\ UNCHANGED <<current_thread, ie, exl, epc, lo, regs, stack, frame, own, hit>>

SetEpc ==
    /\ At("eret_epc")
    /\ epc' = k0
    /\ pc' = "eret_lo"
    /\ UNCHANGED <<current_thread, ie, exl, k0, lo, regs, stack, frame, own, hit>>

MutRestoreLo ==    \* mutant: LO and HI are not restored
    /\ At("eret_lo")
    /\ k0' = Junk
    /\ pc' = "eret"
    /\ UNCHANGED <<current_thread, ie, exl, epc, lo, regs, stack, frame, own, hit>>

RestoreLo ==
    /\ At("eret_lo")
    /\ lo' = Saved.lo /\ k0' = Junk
    /\ pc' = "eret"
    /\ UNCHANGED <<current_thread, ie, exl, epc, regs, stack, frame, own, hit>>

LoadLo ==
    /\ At("jr_loadlo")
    /\ k0' = Saved.lo
    /\ pc' = "jr_lo"
    /\ UNCHANGED <<current_thread, ie, exl, epc, lo, regs, stack, frame, own, hit>>

SetLo ==
    /\ At("jr_lo")
    /\ lo' = k0
    /\ pc' = "jr_loadpc"
    /\ UNCHANGED <<current_thread, ie, exl, epc, k0, regs, stack, frame, own, hit>>

Pop == stack' = [stack EXCEPT ![current_thread] = Tail(@)]

Eret ==
    /\ At("eret")
    /\ Pop
    /\ pc' = epc /\ exl' = FALSE
    /\ UNCHANGED <<current_thread, ie, epc, k0, lo, regs, frame, own, hit>>

Jump ==
    /\ At("jr")
    /\ Pop
    /\ pc' = k0
    /\ UNCHANGED <<current_thread, ie, exl, epc, k0, lo, regs, frame, own, hit>>

Restore == RestoreStatus \/ LoadPc \/ SetEpc \/ RestoreLo \/ LoadLo \/ SetLo \/ Eret \/ Jump

-----------------------------------------------------------------------------
(* "Restore the registers of thread": a thread that runs its own code, or is in
   schedule(), has its own registers and LO, is where it was, has an empty stack
   above it, and takes interrupts unless it is in schedule() -- after any number
   of preemptions, blocks and switches, for every thread no interrupt has hit
   between the write of Status and the end of its first dispatch
   (context.h:152-161, mips_port.S:96-104). *)
ResumesWhereSaved ==
    current_thread \notin hit =>
        /\ pc # Junk
        /\ pc \in UserPoints =>
               /\ pc = own[current_thread].pc
               /\ ie /\ ~ exl
        /\ pc \in UserPoints \cup {"schedule", "switched"} =>
               /\ regs = own[current_thread].regs /\ lo = current_thread
               /\ stack[current_thread] = <<>>
=============================================================================
