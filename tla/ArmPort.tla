------------------------------ MODULE ArmPort ------------------------------
(***************************************************************************)
(* The ARM port (src/arch/arm/mach-pxa) up to the first thread it runs:    *)
(* main creates threads, start_curt takes the first one off the ready list *)
(* and calls restore_context.  asm_port.S reads and writes the word at     *)
(* offset 8 of a thread_struct; thread.h and list.h put node.prev there.   *)
(* The fields of the nodes are those of LinkedLists, with the ready list   *)
(* of the threads' priority as its Target.                                 *)
(***************************************************************************)
EXTENDS LinkedLists

VARIABLES
    stack_ptr,       \* of each thread_struct
    current_thread,  \* Null before start_curt
    sp,
    pc               \* "main", "restore_context", "func" (a thread's) or "lost"

armVars == <<stack_ptr, current_thread, sp, pc>>

(* thread_struct: stack_ptr, then node, whose fields are next and prev. *)
Word(t, offset) ==
    CASE offset = 0 -> stack_ptr[t]
      [] offset = 4 -> mem.next[t]
      [] offset = 8 -> mem.prev[t]

(* The address of the context that init_thread_stack has put on t's stack. *)
init_thread_stack(t) == <<"stack", t>>

ArmInit ==     \* init_curt has run; its idle thread is on another ready list
    /\ Init
    /\ stack_ptr = [t \in Nodes |-> Null]
    /\ current_thread = Null /\ sp = Null /\ pc = "main"

thread_create(t) ==
    /\ pc = "main" /\ ~ Linked(t)
    /\ stack_ptr' = [stack_ptr EXCEPT ![t] = init_thread_stack(t)]
    /\ Store(InsertBackList(mem, Target, t))
    /\ UNCHANGED <<count, current_thread, sp, pc>>

start_curt ==
    /\ pc = "main" /\ ~ IsEmpty(mem, Target)
    /\ current_thread' = BeginList(mem, Target)
    /\ Store(DeleteList(mem, BeginList(mem, Target)))
    /\ pc' = "restore_context"
    /\ UNCHANGED <<count, stack_ptr, sp>>

(* ldr r4, =current_thread; ldr r4, [r4]; add r4, r4, #8; ldr sp, [r4]     *)
restore_context ==
    /\ pc = "restore_context"
    /\ sp' = Word(current_thread, 8)
    /\ pc' = IF sp' = init_thread_stack(current_thread) THEN "func" ELSE "lost"
    /\ UNCHANGED <<vars, stack_ptr, current_thread>>

ArmNext == start_curt \/ restore_context \/ \E t \in Nodes : thread_create(t)
ArmSpec == ArmInit /\ [][ArmNext]_<<vars, armVars>>

-----------------------------------------------------------------------------
(* restore_context loads "sp = current_thread->sp" (asm_port.S:119): the   *)
(* first thread gets the stack thread_create made for it, wherever it is   *)
(* and was on the ready list.                                              *)
FirstThreadStarts ==
    current_thread # Null /\ pc # "restore_context" =>
        sp = stack_ptr[current_thread] /\ pc = "func"
=============================================================================
