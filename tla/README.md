# A verification of the CuRT kernel

CuRT is a small real-time kernel in C for one processor: threads with 32
priorities, round robin within a priority, delays, suspension, semaphores,
mailboxes and message queues. This directory holds TLA+ modules translated
from its source, TLC configurations that check them, and proofs that TLAPS
checks. `src/Makefile` builds the MIPS jz4740 port (`app/shell_mips`); the
kernel is modelled as that port runs it.

## 1. Inventory

| part | source | state | operations | modules | status |
|---|---|---|---|---|---|
| scheduler | `kernel/kernel.c` | ready, delayed, blocked and termination lists, `prio_exist_flag`, `current_thread`, `thread_table`, `total_thread_cnt` | `init_curt`, `start_curt`, `schedule`, `advance_time_tick`, `exit_interrupt`, `idle_thread_func`, `get_tid`, `get_top_prio` | `Scheduler`, `PriorityScheduler` | modelled |
| threads | `kernel/thread.c` | `thread_struct`: state, priority, quantum, delay, id | `thread_create`, `_delete`, `_yield`, `_delay`, `_suspend`, `_resume` | `Threads` | modelled |
| lists | `kernel/list.c` | `prev`/`next` pointers, sentinels | insert, delete, traverse | `LinkedLists`, `SequenceLists` | modelled |
| semaphores | `kernel/sync.c` | 8-bit value, wait list | `sem_pend`, `sem_try_pend`, `sem_post` | `Semaphores`, `CountingSemaphore` | modelled |
| mailboxes, queues | `kernel/ipc.c` | one message / list of messages, wait list, `thread_struct.msg` | send, receive, try-receive | `Ipc`, `Channel` | modelled |
| MIPS context and interrupt entry | `arch/mips/jz4740/mips_port.S`, `context.h`, `port.c` | Status, EPC, registers, saved contexts | `context_switch`, `context_switch_in_interrupt`, `irq_service_routine`, `restore_context`, `save_cpu_sr`, `restore_cpu_sr` | `Contexts`, `Port` | modelled |
| timer | `timer.c` | count, match flag, `jz_timer_h` | `JZ_GetTimer`, `JZ_timerHandler`, `tick_handler`, `JZ_DiffTimer`, `JZ_StartTicker` | `Port`, `Scheduler`, `Startup`, `Clocks` | partly |
| interrupt controller | `interrupt.c`, register access in `jz4740.h` | `irq_table`, mask words, INTC, GPIO and DMAC registers | `request_irq`, `free_irq`, `enable_irq`, `disable_irq`, `ack_irq`, `intc_irq`, `interrupt_handler` | `Interrupts` | modelled |
| C library | `lib/stdio.c` | the pointer strtok keeps | `printf`, strings, memory, `strtok`, `strtoul`, `gets` | `Stdio` | partly |
| shell | `app/shell_mips/main.c` | the line buffer | line editor, command loop | `Shell` | partly |
| NAND boot loader | `nandboot/` | pages in memory, corrections | `nand_load`, `nand_read_page`, `nand_read_oob`, `rs_correct`, `pll_init`, `sdram_init` | `NandBoot`, `Clocks` | partly |
| exceptions, start-up | `exception.c`, `start.S` | | start-up loops, halt | `Startup`, `Scheduler` | partly |
| drivers | `jz_serial.c`, `clock.c`, `cache.c`, `gpio.c` | device registers | `serial_putc`, `serial_setbrg`, `detect_clock`, `udelay`, `dma_cache_wback_inv` | `Startup`, `Clocks` | partly |
| ARM PXA port | `arch/arm/mach-pxa` | `thread_struct` | `init_thread_stack`, `start_curt`, `restore_context` | `ArmPort` | partly |
| images, dumps, build files | `*.dump`, `*.map`, `*.bin` | | | | generated |

How the parts interact. Everything shares the scheduler's lists: a service
changes the state of a thread and moves its one embedded list node inside a
critical section (`save_cpu_sr` ... `restore_cpu_sr` clears and restores the
interrupt enable bit IE), and then, outside it, calls
`schedule(SCHED_THREAD_REQUEST)`. The timer interrupt calls
`advance_time_tick`, which wakes delayed threads and counts the quantum down,
and `exit_interrupt`, which calls `schedule(SCHED_TIME_EXPIRE)` when the
quantum is used up. Each thread has a Status value of its own, saved and
restored with its context, so a thread is resumed with the IE bit it was
switched out with.

What is hard here. All state is shared with one interrupt, which may come at
any instruction outside the critical sections: between the two halves of a
service, before a thread that has left calls `schedule()`, between a check and
the section that relies on it. The scheduler decides by `prio_exist_flag`
alone, so the flags have to follow the lists in nine places. A node linked
twice destroys two lists. Counters are unsigned, and narrow. The interrupt
controller's calls and `JZ_GetTimer` mask nothing, and the instructions that
restore a context can be interrupted for a thread that runs for the first
time. `PROJECT.json` lists each of these at its line with the properties that
are about it.

What makes each part correct:

- scheduler: a thread is on exactly the list of its state, a non-empty ready
  list is flagged, `schedule()` always finds a thread, a switch is to the
  highest priority, round robin starves nobody, delays end;
- threads: table, ids and the thread count agree, a service gives back the IE
  bit it found, a terminated thread is reaped;
- lists: the pointer operations are the sequence operations;
- semaphores: tokens and posts balance, no waiter is forgotten, wake-ups are in
  priority order;
- mailboxes and queues: a message is received once, in order, by one receiver;
- contexts: a thread gets back the processor as it left it;
- interrupt controller: one handler per source, called with its own argument;
  the three records of what is enabled agree; no interrupt is lost;
- sequential code: the result is the one a reference definition gives.

## 2. Modules

### The kernel: `Scheduler`, `Threads`, `PriorityScheduler`

`Scheduler` holds the kernel's state and the operators and actions of
`kernel.c`. A list is a sequence of threads; all lists are in one function
`list`, indexed by numbers: `0 .. MaxPrio-1` are the ready lists, then come
`delayed_list`, `blocked_list`, `termination_wait_list` and `NumWait` wait
lists for semaphores, mailboxes and queues. `ie` is the IE bit, `saved_ie` the
bit in each saved context. `pc` says where each thread is between critical
sections:

| `pc` | the thread is |
|---|---|
| `none` | not created, or reaped: the structure is free |
| `user` | in its own code (the idle thread: at the top of its loop) |
| `sched` | about to call `schedule()`, still RUNNING |
| `leave` | about to call `schedule()`, already on the list it leaves for |
| `create`, `suspend`, `resume` | in that service, before its critical section; `arg` holds the new structure or the tid |

One critical section is one action. `ScheduleRequest` and `ScheduleExpire` are
the two kinds of `schedule()` with the context switch; the tick is `TickBegin`,
one `TickStep` per thread of `delayed_list`, and `TickEnd` with
`exit_interrupt`; nothing else runs while `cursor > 0`. `IdleLoop` is one turn
of the idle thread. The code unlinks a woken thread one iteration late; in the
sequence view it keeps its successor, so the traversal goes on at the same
position (`CursorAfterMove`); `LinkedLists` shows that this is right.

`Threads` adds the services. `MainCreate` is `thread_create` before
`start_curt`; `CreateFill` and `CreateInsert` are its halves in a running
thread. `DeleteOther` is `thread_delete` of another thread, which fails and
leaves interrupts off. `SuspendCheck`/`SuspendSection` and
`ResumeCheck`/`ResumeSection` are the check of the table and the critical
section. `thread_table[MAX_THREAD]`, which the range checks let through, is a
word of `prio_exist_flag` in the built image and so a pointer to nowhere when
set.

`PriorityScheduler` says what all this is for: a queue of ready threads for each
priority and one thread that runs. It has no flags, states, delays, quanta or
other lists. A thread that waits for something is in no queue (`GiveUp`), comes
back behind its equals (`Wake`), and `Switch` takes the first of the highest
priority, never a lower one than that of a thread that can go on.
`PrioritySpec` instantiates it with `list` restricted to the ready lists,
`current_thread`, and whether that thread's state is RUNNING.

How the model stops. `fault` records that `schedule()` popped an empty list or
`ready_list[MAX_PRIO]`, or that a service used a dead thread pointer: the
processor raises an exception and `exception_handler` never returns. When a
node is linked twice (`~NodesOnce`) the pointers no longer form lists and the
model goes no further either. `Halted` is the stutter of both; it is why the
kernel's configurations do not need deadlock checking off.

Abstractions. Names, stacks and registers are left out. `get_tid` reads the
table with interrupts on; the model reads it in one step, which is exact for
callers above the idle priority, since slots are only given back by the idle
thread and a slot filled behind the scan changes nothing. The prints in the
services are not steps. A thread's function returning is not modelled: the
initial return address is 0 and the shell's threads end in `thread_delete`.

### Objects: `Semaphores`, `Ipc`

Both extend the kernel, so that every interleaving of `Threads` is there too.
An object is named by the number of its wait list; `kind` says whether a
semaphore, a mailbox or a queue is behind it, and a semaphore starts with any
value of its `u8_t`. Two habits of the code shape these modules.
`insert_before_list` links the new node *behind* the given one
(`InsertBefore`), so a newcomer of higher priority is second in line. And
`sem_pend`, when it blocks, and `msgq_try_recv`, when the queue is empty, leave
their critical section without `restore_cpu_sr`: the thread goes on with
interrupts off (`masked` remembers it). `receiving` holds the threads inside
the blocking path of a receive, `fetching` the structure that `msgq_recv` has
unlinked and reads after its critical section, `got` who received each message.

`CountingSemaphore` says what a semaphore promises: a count of tokens and a set
of waiters. `Channel` says what all mailboxes and queues promise together: a
first-in first-out store of messages per object and a hand per receiver.
`SemaphoreSpec`, about the first object, and `ChannelSpec`, about all of them,
instantiate these with the refinement mapping: the waiting set is the wait
list's threads, the store is `mbox->msg` or the messages behind `msg_list`, the
hand of a receiver is the structure it is reading or, once it is woken,
`thread_struct.msg`.

### Lists: `LinkedLists`, `SequenceLists`

`LinkedLists` has the cells of `list.c` with their two fields; each function is
an operator from one memory to the next with its assignments in the order of
the source. The walk of `advance_time_tick` is there with its late unlinking
(`readyed`). `SequenceLists` is the abstract specification: insert at a
position, take from a position, a walk that visits each node once. `ListSpec`
is the refinement; the mapping shows the lists as they will be when the node
still held in `readyed` has been moved.

### Processor: `Contexts`, `Port`

`Contexts` models the entry and the exit of the kernel at the level of the
instructions that count: IE, EXL, EPC, the program counter, `k0`, LO (for LO
and HI) and one value for the general registers. `RESTORE_REG_ERET` and
`restore_context` are a step per instruction from the write of Status on; what
runs with interrupts off is part of the step that runs it. `own` records where
each thread was; `hit` the threads that an interrupt met between the write of
Status and the end of their *first* dispatch, where `k0` or EPC are in use. A
context that was pushed by an interrupt has EXL set and one that was pushed by
`context_switch` has IE clear, so only a thread made by `init_thread_stack`,
with IE set and EXL clear, has this window. Who runs next is free here: which
thread the kernel picks is the business of `Scheduler`.

`Port` instantiates it with threads that call `JZ_GetTimer`: two loads, of
`jz_timer_h` and of the 16-bit count, and a store, which divides the count by
`PerMicro` (`EXTAL_CLK/1000000/4`, 3 on the board), so that it is whole
microseconds, and adds `PeriodMicros` (20000) for each period of the current
second. `Period` is the product of the two. The count runs on; a period
that ends sets the flag, and `JZ_timerHandler` counts it when the interrupt is
taken.

### Interrupt controller: `Interrupts`

The calls mask nothing, so each is a sequence of steps, held in `op`:
`request_irq` is `Check`, `SetHandler`, `SetArg` and then `enable_irq`, which
is `UnmaskChannel` with the load of the mask word, `StoreMask` and
`UnmaskLine`; `disable_irq` and `free_irq` are the reverse. `Interrupt`,
`AckIrq`, `RunHandler` are `intc_irq`, `ack_irq` and the handler; no driver
steps while `isr` is not `Idle`, but devices raise flags at any time. Two
history variables name what overlapping calls may spoil: `raced`
the lines on which two calls have ever overlapped, and `clashed` the
sources that two drivers were given, because one `request_irq` tested the entry
between the test and the store of another, or between the two stores of
`free_irq` (`Clashes`). A source leaves `clashed` when it is granted to a driver
and no other has to do with it any more.

External, since the repository only uses them: the INTC lines are levels, a
pin sets its PXFLG bit masked or not, a channel's DMAIPR bit stays until it is
cleared, a driver's handler clears the flag of its device.

### Sequential code: `Stdio`, `Shell`, `NandBoot`, `Clocks`, `Startup`, `Library`

Functions that run to their end are operators, named as in the source.
`Library` calls them: one action per call on inputs from small sets, the
result kept in `res`, and each property compares it with a reference
definition written from what the function is for. Two parts keep state over
calls and take several steps: `strtok`, and the line editor, whose second line
is typed over what the first left in the buffer.

### ARM: `ArmPort`

Over the nodes of `LinkedLists`: `thread_create`, `start_curt` and
`restore_context` by the words of `thread_struct`.

## 3. Runs

| run | shows |
|---|---|
| `preempt` | all services, the tick anywhere outside critical sections: `TypeOK`, `ReadyFlagged`, `StaleFlagBlocked`, `CountersPositive`, `DispatchHighest`, `NoRefillUnderInversion` hold |
| `live` | the tick not in the windows `leave` and `create`, no suspension or deletion of another thread: `ListsMatchStates`, `TableExact`, `InterruptsOn`, `NoCrash`, `ReadyRuns`, `DelayEnds`, `TerminatedReaped` and the refinement `PrioritySpec` hold |
| `ipc` | three threads and one object, of any kind: `IpcTypeOK`, `InterruptsFollowThread`, `WaitersMeanEmpty`, `MessageInOnePlace`, and the refinements `SemaphoreSpec`, `ChannelSpec` |
| `lists` | `TypeOK`, `ListsIntact` and the refinement `ListSpec` |
| `interrupts` | `TypeOK`, `GroupsMatch`, `HolderOwnsEntry`, `HandlerHasArg`, `NoEventLost`, `Served` |
| `port` | `TypeOK` (two contexts on a stack at most), `ResumesWhereSaved`, `ReadingExact` |
| `library` | `PrintfRight`, `StringsRight`, `NumbersRight`, `LineRight`, `LoadRight`, `PortRight`, `ClocksRight` |
| `stale_flag` | `NoCrash` is violated: no tick, no deletion of another |
| `leave_window` | `LinkedAtHome` is violated: the tick everywhere |
| `ie_leak` | `InterruptsOn` is violated: all services, no tick |
| `wait_order` | `HighestWaiterFirst` is violated |
| `arm_start` | `FirstThreadStarts` is violated |

### Bounds

*Kernel.* Two user threads besides the idle thread, three priorities (one of
them the idle thread's, which a user thread may share), three slots in the
table, a quantum of 2, delays of 1 or 2: enough for two threads of one priority
to round-robin, for one to preempt the other, for both to be on one list, for a
table that is full, for a delay that ends before, with and after a quantum, and
for each of the windows. User threads are interchangeable in `Spec` (symmetry);
the run with fairness uses none. `UMax = 7` stands for 2^32 - 1: an unsigned
counter that wraps is far above every quantum and delay. In `live` priorities
are 0 and 1 and delays are 1, and the calls are those of `SoundCalls`.
`live` leaves out the calls and interrupt points of the three findings; the
theorems cover `ListsMatchStates` and `TableExact` for *all* services outside
the two windows.

*`ipc`.* Three user threads and three roles: a waiter, a second one of another
priority, and the one that posts or sends; two messages and two structures show
a message overtaking another; `SemMax = 2` lets the value wrap. The tick keeps
out of `leave`, the window `leave_window` is about, which `mbox_recv` and
`msgq_recv` share.

*`lists`.* Three nodes, the walked list and its target, counts up to 2: heads,
interiors and tails are different nodes, and the node due is the first, the
last, or between.

*`interrupts`.* UART0 on line 9, the timer on line 23, two channels of the DMA line
20 and two pins of the GPIO line 28; one driver makes three calls, the other one,
and both want one of the pins; two raises. Two updates of one word overlap, two
tests of one entry overlap, a source is freed under a pending flag, and a pin is
delivered masked between the two stores of its `request_irq`. A channel that is
freed with its bit set hides the other channel, and UART0 below it, but not the
timer and the pins above: without either disjunct of `Hidden`, `Served` fails, and
so do `HolderOwnsEntry` and `HandlerHasArg` without their exceptions. A source
that leaves `clashed` needs more calls; the proofs cover it. The raises are
bounded, in the module as in the run, because a source that never falls silent
starves every lower one; bounded calls and raises are also why deadlock is not
checked.

*`port`.* Two threads, of which one reads; 2 counts to a microsecond, so that the
division drops something, a period of 2 microseconds, a second of 2 periods, 2
periods in a run (after which the clock stops, so deadlock is not
checked). A preemption of a preempted thread, in its first dispatch too, and a
period that ends before, between and after the loads are in it.

*`library`.* Each set has the values at which its function changes course:
widths and precisions below, at and above the length of the numerals, values
at the sign boundary of a word of 8 bits (and a short of 4); copies that
overlap from both sides; lines longer than the buffer; bad blocks anywhere;
faulty symbols at each offset in a byte; the
speed and the SDRAM timings of the board's header (`pavo.h`) and others beside
them. Each call is a behaviour of its own that ends:
deadlock is not checked.

### Fairness

`Fairness` in `Threads`: the processor executes the instructions of the running
thread, so an action of the kernel that the running thread has come to is
taken, but the tick can interrupt and change the running thread before: strong
fairness of `ScheduleRequest` and `Section` for each thread and of `IdleLoop`.
A timer interrupt stays pending while interrupts are off and is taken when they
come on: strong fairness of `TickBegin`. The handler runs to its end and `main`
calls `start_curt`: weak fairness. Nothing is assumed of the application: a
thread may compute for ever without calling a service.

`Spec` in `Interrupts`: a pending interrupt is taken and its handler ends, and a
call a driver has begun goes on (weak fairness of `Isr` and of each driver's
steps). Nothing makes a driver call or a device raise; the raises are bounded,
without which a higher line that never falls silent would starve a lower one.

### What the violations are

Each is a behaviour of the code against what its own text says; `PROJECT.json`
quotes the lines.

- `stale_flag`: `thread_suspend` of a READY thread leaves the flag of an emptied
  ready list set, and the next `schedule()` pops an empty list.
- `leave_window`: a quantum that ends between `restore_cpu_sr` and `schedule()`
  links a thread that has left on its ready list too.
- `ie_leak`: `thread_delete` of another thread returns with interrupts off.
- `wait_order`: a waiter of higher priority is woken after the first one.
- `arm_start`: the ARM port takes offset 8 of `thread_struct`, `node.prev`, for
  the stack pointer that `thread.h` puts at offset 0.

### What the conditions in the properties say of the code

Several properties hold under a condition, or describe a result nobody would
ask for; these are defects a maintainer should know of.

- `nand_load` notices a bad block at page 0 and goes on with page 1 of the
  *next* block: that block's page 0 is skipped (and its mark not looked at) and
  the image is shorter. Hence "up to the first bad block".
- `nand_read_page` corrects every sub-block at the start of the page buffer, so
  only faults of the first one are repaired.
- `printf`: a precision counts the sign and the prefix, and `h` extends the sign
  of an unsigned argument. `serial_putc` sends one more CR after the CR LF of
  `printf`.
- `gets` does not know the length of its buffer; `LineRight` says that it stays
  inside exactly when no prefix of what is typed is a line longer than it.
- `strtoul` ignores its `base` and `endptr`. `memcpy` repeats the start of the
  source when the target overlaps it from above.
- `dma_cache_wback_inv(aligned, 0)` walks the address space. The loops of
  `start.S` act at their end address too: one word behind bss is cleared.
- `JZ_StartTicker`: the latch for a rate below 46 a second does not fit the
  16-bit TDFR. For the configured `OS_TICKS_PER_SEC` of 1, 3,000,000 is cut to
  50,880 and the ticks come 59 times a second.
- `sdram_init` rounds down: RAS is active less than a cycle too short, the
  refresh less than one count late.
- `JZ_GetTimer` is a period short when one ends between its loads.
- Two `request_irq` for one source can both return 0 (`interrupt.c:144-148`):
  the test and the store are apart, with interrupts on. The last store to the
  handler and the last to the argument win, which may be of different drivers.
  `HolderOwnsEntry` and `HandlerHasArg` leave out these sources (`clashed`), for
  as long as both have to do with them.
- An interrupt of another member of a group delivers a channel or pin that is
  masked. Between the two stores of `request_irq` its handler runs with the
  argument that was there before: the other exception of `HandlerHasArg`.
- Two updates of one mask word that overlap lose one, and `disable_irq` may then
  close the line over a pin that is enabled: `GroupsMatch` leaves out every line
  on which two calls have overlapped (`raced`).
- `default_handler` clears nothing. A DMA channel that was freed with its flag set
  keeps line 20 pending while another channel is enabled; the channels after it
  and every source on a lower line (UART0 for one) are never served again
  (`Hidden` in `Served`).

A property with such a condition does not catch the defect its condition
describes; the hazards in `PROJECT.json` say so where it is the case. The same
holds for what the kernel's runs keep out: the cases of `thread.c:44`,
`thread.c:122`, `thread.c:129`, `thread.c:137` and `kernel.c:197` are described
there, and no property of a passing run would catch them.

## 4. Proofs

Everything here is for every value of the constants. Assumed are the named
assumptions on constants that the modules state (`ValuesAssumption`: a thread
is no address; `ListAssumption`, `CellAssumption`: finitely many nodes, which
overlap neither sentinels nor NULL; `IrqsAssumption`: no source is a group line; `UsesAssumption`,
`DriversAssumption`, `TimerAssumption`, `IpcAssumption`, `SemAssumption` and
those of `Scheduler` and `Threads`); TLC evaluates them in the runs.

| theorem | property | services | tick |
|---|---|---|---|
| `TypeCorrect` | `TypeOK` | all | anywhere |
| `FlagsCorrect` | `ReadyFlagged` | all | anywhere |
| `StaleCorrect` | `StaleFlagBlocked` | all | anywhere |
| `CountersCorrect` | `CountersPositive` | all | anywhere |
| `DispatchCorrect` | `DispatchHighest` | all | anywhere |
| `NoRefill` | `NoRefillUnderInversion` | all | anywhere |
| `InterruptsStayOn` | `InterruptsOn` | no deletion of another | anywhere |
| `ListsCorrect`, `TableCorrect` | `ListsMatchStates`, `TableExact` | all | outside the windows |
| `NeverCrashes`, `IpcNeverCrashes` | `NoCrash` | no suspension of another, ids in range, user threads above idle | anywhere |
| `SchedulesByPriority` | `PrioritySpec` | all | outside the windows |
| `IpcTypeCorrect`, `NoWakeupLost` | `IpcTypeOK`, `WaitersMeanEmpty` | all | anywhere |
| `InterruptsStay` | `InterruptsFollowThread` | no deletion | anywhere |
| `SemaphoreImplemented` | `SemaphoreSpec` | all | anywhere |
| `MessagesKept` | `MessageInOnePlace` | all | anywhere |
| `WaitListsCorrect` | `ListsMatchStates`, with objects | all | outside the windows |
| `ChannelImplemented` | `ChannelSpec` | all | outside the windows |
| `IpcSchedulesByPriority` | `PrioritySpec`, with objects | all | outside the windows |
| `TypeCorrect`, `ListsAlwaysIntact`, `ImplementsSequences` | `TypeOK`, `ListsIntact`, `ListSpec` of `LinkedLists` | | |
| `PortTypeCorrect`, `ContextsRight`, `ReadingsExact` | `TypeOK`, `ResumesWhereSaved`, `ReadingExact` of `Port` | | |
| `TypeCorrect`, `NothingLost`, `HolderOwns`, `HandlersHaveArgs`, `GroupsAgree` | of `Interrupts` | | |

"The windows" are the points `leave` and `create`. "Anywhere" includes them, but
a tick there can link a node twice, and where that has happened the model goes
no further (section 2): the theorems of those rows speak of every behaviour up
to that point, which is as far as the lists are lists.

### Kernel: `ThreadsProofs`, `ListsProofs`, `DispatchProofs`

`TypeCorrect`: `Spec => []TypeOK`, for every set of threads, every `MAX_PRIO`,
`MAX_THREAD`, `TIME_QUANTUM`, every set of services in use, those of the
findings too, and every set of interrupt points. The inductive invariant `TInv`
adds to `TypeOK` what `arg` holds inside each service and that a set flag means
a ready thread until `start_curt` ran, without which the first
`delete_front_list` would not be defined.

`FlagsCorrect`: `Spec => []ReadyFlagged`. Inductive with `TInv` alone:
insertions set the flag of the list they extend, the scheduler clears a flag
only when it took the last thread, and `delete_list` only makes lists shorter
(which is how `thread_suspend` leaves a flag behind, the opposite direction,
`StaleFlagBlocked`).

`ListsCorrect`: `Spec => []ListsMatchStates`, every set of services, and every
set of interrupt points that leaves out `leave` and `create`. `leave_window`
shows that the first condition is needed; the second keeps two threads under
creation from taking one slot of the table. `ListsMatchStates` is far from
inductive. `LInv` adds

- `AtHome`: `LinkedAtHome` and `NoThreadLost`, thread by thread;
- `WindowOK`: only the running thread is in one of the windows, and never
  while the tick handler works, so the thread whose quantum ends is RUNNING,
  as `SCHED_TIME_EXPIRE` takes for granted;
- `CurrentOK`: the running thread is RUNNING, or has put itself on a list and
  is about to call `schedule()`; so the thread that `schedule()` takes, which
  is READY, is another one, and the late test of `current_thread->state` sees
  the state it should;
- `TableOK` and `CreateOK`: the slot of a tid holds that thread, and a thread
  under creation is on no list and in no slot, so `thread_suspend` and
  `thread_resume` move the node they mean to.

`TableCorrect` (`TableExact`) follows from `LInv` and the cardinality of the
slots in use. Lemmas at the start of `ThreadsProofs` say what the list operators
return, list by list, and where each thread is afterwards; the proofs use only
these facts about sequences.

`DispatchProofs` is about what holds wherever the tick comes. `LInv` does not
survive a tick in a window: a thread that has left is put back on its ready list
while the service has already moved it. What survives is the weaker `HInv`: a
thread *may* be on a list only if its state and priority allow that list, a
delayed thread has ticks left there (`Lodged`), what the table holds lives and
has the number of its slot, structures under creation are not in use, and the
running thread has quantum left. `Lodged` is claimed only while no node is
linked twice (`Once(list)`), since it is the pointers that fail first: every
step that would break it links a node twice.

- `CountersCorrect` (`CountersPositive`) is part of `HInv`: `schedule()` gives a
  thread whose quantum is used up a new one before it is enqueued or goes on,
  and the tick moves a thread off `delayed_list` at zero.
- `StaleCorrect` (`StaleFlagBlocked`) is inductive next to `HInv`. Inside
  `thread_suspend` the flag may be over a list that the step itself empties, so
  the invariant `StaleOK` has the thread on `blocked_list` as its way out and is
  proved for each step that unlinks.
- `DispatchCorrect` (`DispatchHighest`) and `NoRefill`
  (`NoRefillUnderInversion`) are action properties from `DInv`, which is `HInv`
  with `ReadyFlagged`: `schedule()` compares flags, so no ready list is
  overlooked, and the thread it pops has the priority of the list it was on.
- `InterruptsStayOn` (`InterruptsOn`), from `OnInv`: the bits saved for all
  threads are set, and so is the bit of the running one from `start_curt` on.
- `NeverCrashes` (`NoCrash`), wherever the tick comes: `CInv` is `DInv` and
  `StaleOK` without its way out (nobody suspends another, so a set flag *is* a
  thread), no fault so far, and, as long as no node is linked twice: the idle
  thread is READY or RUNNING at the lowest priority, every other thread is above
  it, and while a thread is inside `thread_suspend` or `thread_resume` the idle
  thread does not run. What is left of `LInv` with a tick in the windows is
  `Settled`: a READY thread is on its ready list, only the executing thread is
  RUNNING, and it is READY or RUNNING until it leaves. Hence some flag is set
  whenever the running thread cannot go on, and the slot a service has checked
  is still filled in its critical section. Two creations may take one slot, so
  `thread_suspend` may find another thread in the caller's slot than the caller:
  that thread is either on no list, or the step links it twice. The three
  conditions are needed: `stale_flag` shows the first;
  `thread_table[MAX_THREAD]` is no thread; and an idle thread that takes turns
  with a user thread of its own priority can reap the victim between the check
  and the section.

`SchedulesByPriority` (`Spec => PrioritySpec`) is a refinement proof step by step.
`LInv` gives where each thread is and that a ready list holds each of its threads
once, `DInv` that the scheduler overlooks none. There is one lemma for each kind of abstract step (`AdmitStep`,
`WakeStep`, `WithdrawStep`, `GiveUpStep`, `RetireStep`, `SwitchStep`), saying
which change of the kernel's variables is that step, and one lemma per action of
the kernel that uses it. `schedule()` is one `Switch` whatever it was called
for: a thread that calls it RUNNING is enqueued behind its equals, one that has
left is not; when it finds nobody to switch to it only renews a quantum, which
is a stutter. With a tick in the windows the property fails (TLC finds that in six
states): a thread that has given the processor up would be found in a queue.

### Lists: `LinkedListsProofs`

`Represents(m, s)` relates the memory to one sequence of nodes per list: `next`
and `prev` chain the head, the nodes in order and the tail, and no node occurs
twice. `LinkRepresents` and `UnlinkRepresents` say, once for all insertions and
deletions, what four and two pointer writes do to the sequences; the functions of
`list.c` are instances. What the walk along `next` finds (`Contents`) is the
sequence that is represented (`ContentsAre`); that it does so at every position is
an induction along the list, by the least position at which it would not, and
that the walk reaches the tail within the number of nodes is a counting argument
(`ShortLists`), which is why the set of nodes is finite. `ListInv` (some
sequences are represented, and the position of the walk and `readyed` are on
the walked list, one behind the other) is inductive and gives all three theorems;
in `ImplementsSequences` the abstract lists are those in which `readyed` has
already moved.

### Objects: `IpcProofs`, `MessagesProofs`

`IpcTypeCorrect` and `NoWakeupLost` (`WaitersMeanEmpty`) from `IpcInv`, which is
`TInv` with the types and kinds of the objects and the statement itself: a
thread waits only when there is nothing, and what is sent or posted while one
waits goes to a thread. The kernel's own steps touch wait lists only by making
them shorter (`KernelShrinks`). `InterruptsStay` (`InterruptsFollowThread`) from `MaskInv`: the bit the
running thread has, and the bits saved for the others, are clear exactly for
`masked`, no thread is terminated, and a free structure is not in `masked`. It
needs that the application calls neither form of
`thread_delete`: deletion of another leaks the bit, and a structure that is
used again would start with IE set while `masked` still names its last user.

`SemaphoreImplemented` (`IpcSpec => SemaphoreSpec`): each step of the whole
system is a step of the counting semaphore or leaves its value and its waiters
alone. It rests on `IpcInv`, `HInv` and on where `delete_front_list`, `insert_back_list`
and `insert_before_list` put threads (`PutIn`); nothing is assumed but that
there is an object.

`MessagesKept` (`MessageInOnePlace`): `MessageInv` says, as long as no node is
linked twice,

- `AwaitInv`: a thread in EVENT_WAIT is on a wait list, and the threads on the
  list of a mailbox or queue are those inside a receive;
- `ReceiverOK`: a receiver that has been woken has an accepted message in its
  `thread_struct.msg`, and reads no structure;
- `StructOK`, `SlotsOK`: a structure is on one queue, once, or being read by one
  thread, so `node->msg` is not overwritten under its reader;
- `Located`: an accepted message is in one place, one not yet accepted in none.

The condition is what makes it true wherever the tick comes: a tick in the
window `leave` makes a waiting receiver READY while it is still on the wait
list, but that links its node twice.

`WaitListsCorrect` carries `LInv` through the calls of `Ipc`, which move threads
to and from the wait lists. `ChannelImplemented` (`IpcSpec => ChannelSpec`) uses
all of these: a step that takes from a store puts the oldest message in the
taker's hand, a send to waiters finds the store empty (`NoWakeupLost`) and the
first waiter's hand empty, and the return gives away what is in the hand. The
windows have to be closed here: a receiver whose quantum ends between
`restore_cpu_sr` and `schedule()` goes on without being woken and returns what
its `thread_struct` held before. With the window open TLC finds that violation
in seven states. `IpcNeverCrashes` carries `CInv` through the same calls, with the
tick anywhere. `IpcSchedulesByPriority` is `SchedulesByPriority` for the whole
system: a thread that waits on an object gives up, the thread that a post or a
send takes off a wait list is woken, and everything else the objects do leaves
the scheduler alone.

### Processor: `PortProofs`

`ContextsRight` (`ResumesWhereSaved`). `ContextInv` follows one thread's stack
through all program points: which Status word lies on top (EXL for an
interrupt, IE clear for a switch, both otherwise only for a thread that never
ran), and, while a context is being restored, which of `k0`, EPC and LO already
hold the thread's values. `ReadingsExact` (`ReadingExact`) adds `TimerInv`
(ended periods are counted or their flag is set) and `ReadInv` (what the two
loads saw lies between the timer at the start and now); what the division and the
seconds make of it is arithmetic (`Truncated`), for every number of counts to a
microsecond, of microseconds to a period and of periods to a second.
`PortTypeCorrect` needs more than types, as `TypeOK` bounds the stacks: `StackInv`
says which contexts are on each stack at each program point, of the threads in
the window of their first dispatch too, so that an interrupt finds at most one
context there before it pushes its own.

### Interrupt controller: `InterruptsProofs`

`TypeCorrect`; `NothingLost`, inductive with types; `HolderOwns` from
`EntryInv` (what the entry of a source that is not `clashed` holds at each step of
a call, and that of two calls on such a source one is still at its test);
`HandlersHaveArgs` from `ArgInv` (handler and argument are of one driver or the
argument is about to be stored, and then the source is not enabled); `GroupsAgree` from `GroupInv`, which
says how far the word, the channels and the line may differ at each step of a
call.

### Only model-checked

- Liveness (`ReadyRuns`, `DelayEnds`, `TerminatedReaped`, `Served`): beyond the
  prover.
- All of `Library`: its modules use folds over strings and `Bitwise`, and what
  a recursive definition computes for every input needs induction over data.

## 5. Not modelled

- The register headers (`jz4740.h`, `mips-archdefs.h`, `mipsregs.h`, `mips.h`,
  `sysdefs.h`, `pxa255.h` and the like): nearly ten thousand of the
  repository's sixteen thousand lines, which define names for addresses and
  bits. The macros with a meaning that the code uses (clocks, interrupt
  numbers, groups and acknowledgement) are in `Clocks` and `Interrupts`.
- The ARM port beyond its first dispatch: no thread ever starts, so the rest of
  `asm_port.S` and its interrupt entry cannot be reached; its `start.S` and
  drivers write registers once.
- Busy waits on a status bit (serial line, flash, decoder), pin set-up and the
  order of writes to the memory controller: their effect is the hardware's and
  not defined in the repository.
- The dump of registers of `except_handler`, and the rest of `start.S`: no
  reader.
- Of `stdio.c`: `%n`, `%X`, the long and floating modifiers (which change
  nothing), `putchar`, `puts`; `_PrintDec`, `_PrintHex`, `DecToLong`, which
  nothing calls. Of `timer.c`: stopping a timer, which nothing calls.
- The counters only the shell's statistics print (`os_time_tick`,
  `total_csw_cnt`) and the shell's threads as such: the calls they make are
  made in every order by the threads of `Threads` and `Ipc`.

## 6. What could come next

- The properties of `Library` as theorems. They need `Clocks` and the start-up
  calls in modules of their own, apart from the folds over characters.
- An application that sends a `msg_struct` again while it is still on a queue:
  `MayUse` lets it use one again only when the kernel has finished with it.
