----------------------------- MODULE Processor -----------------------------
(***************************************************************************)
(* How threads share the processor: the segment and interrupt tables       *)
(* (descriptortables.c), interrupts and the system call gate (isr.c,       *)
(* timer.c, handle_syscall, with arch/i386/interrupt.asm and task.asm),    *)
(* and the context switch of process.c (end_context, start_context,        *)
(* thread_switch_to).  Which thread comes next is the Scheduler module's   *)
(* matter; here it is any.                                                 *)
(*                                                                         *)
(* The general registers and the instruction pointer are one value, ax.    *)
(* A stack pointer is [of, depth]: so many frames deep on the kernel stack *)
(* of a thread; a push drops what was deeper.  What runs with interrupts   *)
(* disabled is one action.                                                 *)
(***************************************************************************)
EXTENDS Integers, Sequences, FiniteSets

CONSTANTS
    UserThreads,    \* memory for the threads of processes
    IdleThread,     \* the thread of tasking_initialize, on the boot stack
    Lines,          \* interrupt lines with a handler, besides the timer's
    Values,         \* contents of the registers
    MaxTicks,       \* bound: timer ticks
    nothing         \* a null pointer; no stack

ASSUME ProcessorAssumption ==
    /\ IdleThread \notin UserThreads /\ nothing \notin UserThreads \cup {IdleThread}
    /\ Lines \subseteq 1 .. 15
    /\ 0 \in Values /\ MaxTicks \in Nat

VARIABLES
    cpu,            \* cs, ax, esp and if, the interrupt flag
    tss,            \* g_tss.esp0
    cr3,            \* whose page directory is loaded
    stack,          \* the frames on each kernel stack, the oldest first
    regs,           \* thread->regs
    kstack,         \* thread->kstack.esp0
    threads,        \* the thread list
    g_current,      \* g_current_thread
    dying,          \* threads with a signal that ends the process
    serving,        \* lines whose in-service bit is set
    tick,           \* g_system_tick_count
    contextStart,   \* context_start_time
    consumed,       \* consumed_cpu_time_ms
    own,            \* history: the registers as the thread last set them
    ran             \* history: the ticks that came while the thread ran

cpuVars == <<cpu, tss, cr3, stack, regs, kstack, threads, g_current, dying, serving,
             tick, contextStart, consumed, own, ran>>

AllThreads == UserThreads \cup {IdleThread}
KERNEL_CS == 8
USER_CS == 27

\* A pointer to no kernel stack: that of user code, or a null esp0.
NotIn == [of |-> nothing, depth |-> 0]

-----------------------------------------------------------------------------
(* Descriptor tables.  Numbers of 32 bits are pairs <<high, low>> of 16. *)

\* set_gdt_entry
set_gdt_entry(base, limit, access, gran) ==
    [base_low |-> base[2], base_middle |-> base[1] % 256, base_high |-> base[1] \div 256,
     limit_low |-> limit[2], granularity |-> (limit[1] % 16) + 16 * (gran \div 16),
     access |-> access]

\* gdt_initialize, the segments of code and data.
Flat == <<65535, 65535>>
gdt == [n \in 0 .. 4 |->
           IF n = 0 THEN set_gdt_entry(<<0, 0>>, <<0, 0>>, 0, 0)
           ELSE set_gdt_entry(<<0, 0>>, Flat, <<154, 146, 250, 242>>[n], 207)]

\* The privilege that the processor reads in the descriptor of a selector.
Privilege(sel) == (gdt[sel \div 8].access \div 32) % 4

\* The controllers' vectors after idt_initialize has moved them.
VectorOf(line) == IF line < 8 THEN 32 + line ELSE 40 + (line - 8)

\* set_idt_entry: whatever the flags say, user mode may call the gate.
set_idt_entry(stub, sel, flags) ==
    [stub |-> stub, sel |-> sel,
     flags |-> IF (flags \div 32) % 4 = 3 THEN flags ELSE flags + 96]

\* idt_initialize: a stub knows its number.
idt == [v \in 0 .. 47 \cup {128} |-> set_idt_entry(v, KERNEL_CS, 142)]

\* A gate of type 14 disables interrupts, one of type 15 does not.
MasksInterrupts(gate) == gate.flags % 16 = 14

-----------------------------------------------------------------------------
(* Entering and leaving the kernel *)

\* Where the processor pushes: ss0:esp0 of the TSS, unless it is in the kernel.
EntryStack == IF Privilege(cpu.cs) = 3 THEN tss ELSE cpu.esp

\* An interrupt through gate v: what is pushed by the processor and SAVE_REGS.
FrameOf(v) ==
    [cs |-> cpu.cs, ax |-> cpu.ax, esp |-> cpu.esp, if |-> cpu.if, vector |-> idt[v].stub]

Push(frame) ==
    stack' = [stack EXCEPT ![EntryStack.of] =
                 Append(SubSeq(@, 1, EntryStack.depth), frame)]

Entered(v) ==
    [cs |-> idt[v].sel, ax |-> cpu.ax, if |-> cpu.if /\ ~MasksInterrupts(idt[v]),
     esp |-> [of |-> EntryStack.of, depth |-> EntryStack.depth + 1]]

TopFrame == stack[cpu.esp.of][cpu.esp.depth]

\* The gate that the code which runs was entered by, -1 for the threads' own.
Innermost == IF cpu.esp.depth = 0 THEN -1 ELSE TopFrame.vector

\* RESTORE_REGS and iret.
Returned(frame) ==
    [cs |-> frame.cs, ax |-> frame.ax, esp |-> frame.esp, if |-> frame.if]

\* An interrupt can come: enabled, and no line of this or a higher priority is
\* in service.
Accepts(line) ==
    /\ cpu.if
    /\ \A n \in serving : IF line < 8 THEN line < n ELSE 2 < n /\ line < n

\* The line at the first controller that the second one is behind.
InService(line) == IF line < 8 THEN {line} ELSE {line, 2}

-----------------------------------------------------------------------------
(* Steps of the thread that runs *)

unchangedThreads == UNCHANGED <<regs, kstack, threads, g_current, dying>>
unchangedTime == UNCHANGED <<tick, contextStart, consumed, ran>>

\* The thread computes, in user mode or in a system call.
Compute(v) ==
    /\ g_current \notin dying \cup {nothing}
    /\ Innermost \in {-1, 128}
    /\ cpu' = [cpu EXCEPT !.ax = v]
    /\ own' = [own EXCEPT ![g_current] = v]
    /\ UNCHANGED <<tss, cr3, stack, serving>> /\ unchangedThreads /\ unchangedTime

\* int 0x80: handle_isr and handle_syscall.
Syscall ==
    /\ cpu.esp = NotIn
    /\ Push(FrameOf(128))
    /\ cpu' = Entered(128)
    /\ UNCHANGED <<tss, cr3, serving, own>> /\ unchangedThreads /\ unchangedTime

\* A blocking call enables interrupts and halts.
HaltInCall ==
    /\ g_current # nothing /\ Innermost = 128 /\ ~cpu.if
    /\ cpu' = [cpu EXCEPT !.if = TRUE]
    /\ UNCHANGED <<tss, cr3, stack, serving, own>> /\ unchangedThreads /\ unchangedTime

\* handle_syscall returns: regs->eax = ret.
SyscallReturn(v) ==
    /\ g_current \notin dying \cup {nothing} /\ Innermost = 128
    /\ cpu' = Returned([TopFrame EXCEPT !.ax = v])
    /\ own' = [own EXCEPT ![g_current] = v]
    /\ UNCHANGED <<tss, cr3, stack, serving>> /\ unchangedThreads /\ unchangedTime

\* handle_general_protection_fault for user code, syscall_exit: a signal that
\* ends the process, and wait_for_schedule.
EndItself(v) ==
    /\ g_current \in UserThreads \ dying
    /\ v = 13 => cpu.esp = NotIn
    /\ v = 128 => Innermost = 128
    /\ dying' = dying \cup {g_current}
    /\ IF v = 13
       THEN Push(FrameOf(13)) /\ cpu' = [Entered(13) EXCEPT !.if = TRUE]
       ELSE UNCHANGED stack /\ cpu' = [cpu EXCEPT !.if = TRUE]
    /\ UNCHANGED <<tss, cr3, serving, own, regs, kstack, threads, g_current>>
    /\ unchangedTime

\* process_create_ex: the new thread begins in user mode with its own stack.
CreateThread(t) ==
    /\ g_current \notin dying \cup {nothing} /\ Innermost \in {-1, 128} /\ ~cpu.if
    /\ t \notin threads
    /\ threads' = threads \cup {t}
    /\ regs' = [regs EXCEPT ![t] = [cs |-> USER_CS, ax |-> 0, esp |-> NotIn, if |-> FALSE]]
    /\ kstack' = [kstack EXCEPT ![t] = [of |-> t, depth |-> 0]]
    /\ stack' = [stack EXCEPT ![t] = <<>>]
    /\ own' = [own EXCEPT ![t] = 0]
    /\ contextStart' = [contextStart EXCEPT ![t] = 0]
    /\ consumed' = [consumed EXCEPT ![t] = 0]
    /\ ran' = [ran EXCEPT ![t] = 0]
    /\ UNCHANGED <<cpu, tss, cr3, g_current, dying, serving, tick>>

\* kmain after scheduler_enable: interrupts are enabled for good.
BootEnds ==
    /\ g_current = IdleThread /\ ~cpu.if /\ Innermost = -1
    /\ cpu' = [cpu EXCEPT !.if = TRUE]
    /\ UNCHANGED <<tss, cr3, stack, serving, own>> /\ unchangedThreads /\ unchangedTime

\* syscall_execve: process_destroy of the current process, whose stack stays
\* in use until the next tick.
DestroySelf ==
    /\ g_current \in UserThreads \ dying /\ Innermost = 128
    /\ threads' = threads \ {g_current}
    /\ g_current' = nothing
    /\ cpu' = [cpu EXCEPT !.if = TRUE]
    /\ UNCHANGED <<tss, cr3, stack, regs, kstack, dying, serving, own>> /\ unchangedTime

-----------------------------------------------------------------------------
(* Device interrupts *)

\* handle_irq sends the end of interrupt before it calls the handler.
EndOfInterrupt(lines, vector) ==
    LET first(set) == {n \in set : \A k \in set : n <= k}
        second == {n \in lines : n >= 8}
    IN  (lines \ first(lines \ second)) \ (IF vector >= 40 THEN first(second) ELSE {})

\* The stub, handle_irq up to the handler.
Irq(line) ==
    /\ Accepts(line)
    /\ Push(FrameOf(VectorOf(line)))
    /\ cpu' = [Entered(VectorOf(line)) EXCEPT !.ax = 0]
    /\ serving' = EndOfInterrupt(serving \cup InService(line), idt[VectorOf(line)].stub)
    /\ UNCHANGED <<tss, cr3, own>> /\ unchangedThreads /\ unchangedTime

\* The handler returns.
IrqReturn ==
    /\ Innermost \in {VectorOf(n) : n \in Lines}
    /\ cpu' = Returned(TopFrame)
    /\ UNCHANGED <<tss, cr3, stack, serving, own>> /\ unchangedThreads /\ unchangedTime

-----------------------------------------------------------------------------
(* The timer interrupt and the context switch *)

\* The registers that end_context copies from the frame: esp and ss are pushed
\* only when the privilege changes, otherwise esp is computed.
Saved(frame) == [cs |-> frame.cs, ax |-> frame.ax, esp |-> frame.esp, if |-> frame.if]

\* The stacks when the timer's frame has been pushed, without the frame: the
\* code that runs on it leaves it behind.
Entering == [stack EXCEPT ![EntryStack.of] = SubSeq(@, 1, EntryStack.depth)]

\* Faulty variant: the TSS keeps the stack of the thread before.
thread_switch_toKeepsTss(t, r) ==
    LET at == IF r.cs # KERNEL_CS THEN kstack'[t] ELSE r.esp
    IN  /\ tss' = tss
        /\ stack' = [Entering EXCEPT ![at.of] = SubSeq(@, 1, at.depth)]
        /\ cr3' = t
        /\ cpu' = [cs |-> r.cs, ax |-> r.ax, esp |-> r.esp, if |-> TRUE]

\* thread_switch_to and switch_task: the frame for iret is built on the kernel
\* stack, from its start for user mode and where it was left for kernel mode;
\* interrupts are enabled whatever eflags says.
thread_switch_to(t, r) ==
    LET at == IF r.cs # KERNEL_CS THEN kstack'[t] ELSE r.esp
    IN  /\ tss' = kstack'[t]
        /\ stack' = [Entering EXCEPT ![at.of] = SubSeq(@, 1, at.depth)]
        /\ cr3' = t
        /\ cpu' = [cs |-> r.cs, ax |-> r.ax, esp |-> r.esp, if |-> TRUE]

\* end_context of the current thread, if it was not destroyed.
end_context ==
    /\ regs' = IF g_current = nothing THEN regs
               ELSE [regs EXCEPT ![g_current] = Saved(FrameOf(32))]
    /\ kstack' = IF g_current = nothing THEN kstack
                 ELSE [kstack EXCEPT ![g_current] = tss]

\* start_context
start_context(t) ==
    /\ g_current' = t
    /\ contextStart' = [contextStart EXCEPT ![t] = tick + 1]
    /\ thread_switch_to(t, regs'[t])

\* The times that end_context and the count of ticks leave.
TimesAfterTick ==
    /\ tick < MaxTicks
    /\ tick' = tick + 1
    /\ ran' = IF g_current = nothing THEN ran ELSE [ran EXCEPT ![g_current] = @ + 1]

\* handle_timer_irq while there is nothing to switch to: schedule returns.
TickAlone ==
    /\ Accepts(0) /\ threads = {IdleThread} /\ g_current = IdleThread
    /\ TimesAfterTick
    /\ UNCHANGED <<cpu, tss, cr3, stack, serving, own, contextStart, consumed>>
    /\ unchangedThreads

\* handle_timer_irq with schedule: the thread that look_threads finds, t, goes
\* on unless its signal ends it; then another one, u, goes on.
TimerTick(t, u) ==
    /\ Accepts(0) /\ ~(threads = {IdleThread} /\ g_current = IdleThread)
    /\ t \in threads /\ u \in threads
    /\ IF t \in dying THEN u # t ELSE u = t
    /\ TimesAfterTick
    /\ end_context
    /\ consumed' = IF g_current = nothing THEN consumed
                   ELSE [consumed EXCEPT ![g_current] =
                            @ + tick + 1 - contextStart[g_current]]
    /\ start_context(u)
    /\ threads' = threads \ (dying \cap {t})
    /\ dying' = dying \ {t}
    /\ UNCHANGED <<serving, own>>

ProcessorInit ==
    /\ threads = {IdleThread} /\ g_current = IdleThread /\ dying = {} /\ serving = {}
    /\ cpu = [cs |-> KERNEL_CS, ax |-> 0, esp |-> [of |-> IdleThread, depth |-> 0],
              if |-> FALSE]
    /\ tss = NotIn /\ cr3 = IdleThread
    /\ stack = [t \in AllThreads |-> <<>>]
    /\ regs = [t \in AllThreads |-> [cs |-> KERNEL_CS, ax |-> 0, esp |-> NotIn, if |-> FALSE]]
    /\ kstack = [t \in AllThreads |-> NotIn]
    /\ tick = 0
    /\ contextStart = [t \in AllThreads |-> 0]
    /\ consumed = [t \in AllThreads |-> 0]
    /\ own = [t \in AllThreads |-> 0]
    /\ ran = [t \in AllThreads |-> 0]

ProcessorNext ==
    \/ \E v \in Values : Compute(v) \/ SyscallReturn(v)
    \/ Syscall \/ HaltInCall \/ BootEnds \/ DestroySelf \/ IrqReturn \/ TickAlone
    \/ \E v \in {13, 128} : EndItself(v)
    \/ \E t \in UserThreads : CreateThread(t)
    \/ \E line \in Lines : Irq(line)
    \/ \E t, u \in AllThreads : TimerTick(t, u)

ProcessorSpec == ProcessorInit /\ [][ProcessorNext]_cpuVars

-----------------------------------------------------------------------------
(* Properties *)

\* Every thread finds its registers as it left them, on its own kernel stack
\* and in its own memory, however often it was switched away from in user mode
\* and inside system calls, and whichever threads ended meanwhile.  User code
\* runs with interrupts enabled, none in service and the TSS at the empty
\* kernel stack of its thread; the time that schedule charges to a thread is
\* the time that it ran.
ContextKept ==
    /\ g_current # nothing /\ Innermost \in {-1, 13, 128} => cpu.ax = own[g_current]
    /\ \A t \in threads \ {g_current} :
          /\ regs[t].ax = own[t]
          /\ regs[t].esp # NotIn => regs[t].esp.of = t /\ regs[t].cs = KERNEL_CS
    /\ g_current # nothing => cr3 = g_current /\ (cpu.esp = NotIn \/ cpu.esp.of = g_current)
    /\ cpu.esp = NotIn => /\ cpu.if /\ serving = {} /\ Privilege(cpu.cs) = 3
                          /\ tss = [of |-> g_current, depth |-> 0]
    /\ \A t \in threads :
          ran[t] = consumed[t] + (IF t = g_current THEN tick - contextStart[t] ELSE 0)
=============================================================================
