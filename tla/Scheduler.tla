----------------------------- MODULE Scheduler -----------------------------
(***************************************************************************)
(* Processes, threads, signals and the round-robin scheduler of            *)
(* kernel/process.c, with the system calls of kernel/syscalls.c that       *)
(* create, end and block processes.                                        *)
(*                                                                         *)
(* The kernel runs on one processor.  A system call enters with interrupts *)
(* disabled and, in the calls modelled here, changes the scheduling state  *)
(* in one uninterrupted stretch, so each call is one action of the current *)
(* thread.  Only the timer interrupt switches threads.                     *)
(*                                                                         *)
(* A user process has exactly one thread and both are allocated and freed  *)
(* together, so one slot stands for the two blocks of kernel heap memory.  *)
(* A freed slot can be allocated again: kmalloc is first fit.  The idle    *)
(* thread, first in the kernel's list and never freed, is Idle; list holds *)
(* the threads behind it.                                                  *)
(***************************************************************************)
EXTENDS Integers, Sequences, FiniteSets

CONSTANTS
    Slot,           \* memory for user processes, each with its thread
    Idle,           \* the idle thread and the kernel process that owns it
    NULL,           \* the null pointer
    BootCount,      \* how many processes kmain starts before scheduling
    Sent,           \* the signals processes send each other
    SIGNAL_QUEUE_SIZE,
    MaxSleep,       \* the longest sleep, in timer ticks
    PipeSharing     \* whether a pipe end may be open in several threads

ASSUME SchedulerAssumption ==
    /\ Idle \notin Slot /\ NULL \notin Slot /\ Idle # NULL
    /\ BootCount \in Nat
    /\ Sent \subseteq {"TERM", "STOP", "CONT", "OTHER"}
    /\ SIGNAL_QUEUE_SIZE \in Nat \ {0}
    /\ MaxSleep \in Nat
    /\ PipeSharing \in BOOLEAN

VARIABLES
    list,           \* the thread list behind g_first_thread
    state,          \* thread->state, "FREE" for memory not in use
    signals,        \* thread->signals, oldest first
    parent,         \* process->parent, never cleared when the parent ends
    sleep,          \* ticks until the target uptime of a sleeping thread
    where,          \* what the thread executes: see Where
    current         \* g_current_thread

vars == <<list, state, signals, parent, sleep, where, current>>

\* SIGTERM, SIGKILL, SIGSEGV, SIGINT and SIGILL are treated alike, and so are
\* SIGSTOP and SIGTSTP; the scheduler ignores every other signal.
Signal == {"TERM", "STOP", "CONT", "OTHER"}

ThreadState == {"RUN", "WAITIO", "WAITCHILD", "SLEEP", "SELECT", "SUSPEND"}

\* "user": user mode; "kernel": inside a blocking system call; "halted": in
\* wait_for_schedule, which it leaves only by being destroyed.
Where == {"user", "kernel", "halted"}

TypeOK ==
    /\ list \in Seq(Slot)
    /\ state \in [Slot -> ThreadState \cup {"FREE"}]
    /\ signals \in [Slot -> Seq(Signal)]
    /\ \A t \in Slot : Len(signals[t]) <= SIGNAL_QUEUE_SIZE
    /\ parent \in [Slot -> Slot \cup {Idle, NULL}]
    /\ sleep \in [Slot -> 0 .. MaxSleep]
    /\ where \in [Slot -> Where]
    /\ current \in Slot \cup {Idle, NULL}

Members(seq) == {seq[i] : i \in 1 .. Len(seq)}

Live == Members(list)

-----------------------------------------------------------------------------
(* Helpers *)

\* Faulty variant: the successor is unlinked instead.
UnlinkNext(seq, i) == SubSeq(seq, 1, i) \o SubSeq(seq, i + 2, Len(seq))

\* list without its element i: previous->next = thread->next.
Unlink(seq, i) == SubSeq(seq, 1, i - 1) \o SubSeq(seq, i + 1, Len(seq))

\* process_create_ex puts the new thread at the end of the list.
Link(seq, t) == Append(seq, t)

Position(t) == CHOOSE i \in 1 .. Len(list) : list[i] = t

\* Faulty variant: every search from the first thread.
SearchOrderFromFirst(from) == list

\* The order in which look_threads visits the list: from the thread behind
\* the given one to the end, then from the start up to and including it.
SearchOrder(from) ==
    IF from \in Live
    THEN SubSeq(list, Position(from) + 1, Len(list)) \o SubSeq(list, 1, Position(from))
    ELSE list

\* look_threads over a search order.  A visited thread whose sleep or select
\* is over (due) is resumed first; the search ends at the first thread in
\* TS_RUN and falls back on the idle thread.
LookThreads(order, st, due) ==
    LET Updated(t) == IF t \in due THEN "RUN" ELSE st[t]
        Visited(i) == \A j \in 1 .. i - 1 : Updated(order[j]) # "RUN"
        Found(i) == Visited(i) /\ Updated(order[i]) = "RUN"
        At == 1 .. Len(order)
    IN  [thread |-> IF \E i \in At : Found(i)
                    THEN order[CHOOSE i \in At : Found(i)] ELSE Idle,
         state  |-> [t \in Slot |->
                       IF \E i \in At : order[i] = t /\ Visited(i)
                       THEN Updated(t) ELSE st[t]]]

\* Faulty variant: the waiting parent is not resumed.
StateAfterDestroyNoWake(st, p, woken) ==
    [t \in Slot |-> IF t = p THEN "FREE" ELSE IF t \in woken THEN "RUN" ELSE st[t]]

\* The states process_destroy(p) leaves: the thread is freed, closing its
\* files resumes the threads in woken, and threads of the parent that wait
\* for a child are resumed.
StateAfterDestroy(st, p, woken) ==
    [t \in Slot |->
        IF t = p THEN "FREE"
        ELSE IF t \in woken \/ (t = parent[p] /\ st[t] = "WAITCHILD") THEN "RUN"
        ELSE st[t]]

Waiting(st) == {t \in Slot : st[t] = "WAITIO"}

\* thread_signal(t, sig): SIGCONT resumes a suspended thread even when its
\* queue is full; a queued signal also ends a wait for input or output.
StateAfterSignal(t, sig) ==
    LET queued == Len(signals[t]) < SIGNAL_QUEUE_SIZE
    IN  IF \/ sig = "CONT" /\ state[t] = "SUSPEND"
           \/ queued /\ state[t] = "WAITIO"
        THEN "RUN" ELSE state[t]

thread_signal(t, sig) ==
    /\ signals' = [signals EXCEPT ![t] =
                     IF Len(@) < SIGNAL_QUEUE_SIZE THEN Append(@, sig) ELSE @]
    /\ state' = [state EXCEPT ![t] = StateAfterSignal(t, sig)]

\* process_signal: the thread whose owner has the number.
process_signal(target, sig) == target \in Live /\ thread_signal(target, sig)

-----------------------------------------------------------------------------
\* kmain starts BootCount processes, then enables the scheduler.
Init ==
    /\ list \in [1 .. BootCount -> Slot]
    /\ \A i, j \in 1 .. BootCount : list[i] = list[j] => i = j
    /\ state = [t \in Slot |-> IF t \in Live THEN "RUN" ELSE "FREE"]
    /\ signals = [t \in Slot |-> <<>>]
    /\ parent = [t \in Slot |-> IF t \in Live THEN Idle ELSE NULL]
    /\ sleep = [t \in Slot |-> 0]
    /\ where = [t \in Slot |-> "user"]
    /\ current = Idle

\* Thread t runs user code and may enter the kernel.
InUser(t) == current = t /\ where[t] = "user"

\* syscall_execute: a child process, at the end of the thread list.  A bad
\* image makes process_create_ex return NULL before anything is allocated.
Execute(t, child) ==
    /\ InUser(t)
    /\ state[child] = "FREE"
    /\ list' = Link(list, child)
    /\ state' = [state EXCEPT ![child] = "RUN"]
    /\ parent' = [parent EXCEPT ![child] = t]
    /\ UNCHANGED <<signals, sleep, where, current>>

\* syscall_execve: the new process takes over the pid but has no parent; the
\* calling process is destroyed, which leaves no current thread until the
\* next timer interrupt.
Execve(t, new, woken) ==
    /\ InUser(t)
    /\ state[new] = "FREE"
    /\ woken \subseteq Waiting(state) \ {t}
    /\ list' = Link(Unlink(list, Position(t)), new)
    /\ state' = [StateAfterDestroy(state, t, woken) EXCEPT ![new] = "RUN"]
    /\ signals' = [signals EXCEPT ![t] = <<>>]
    /\ parent' = [parent EXCEPT ![t] = NULL, ![new] = NULL]
    /\ sleep' = [sleep EXCEPT ![t] = 0]
    /\ where' = [where EXCEPT ![t] = "user"]
    /\ current' = NULL

\* A thread raises a fatal signal on itself and halts until it is destroyed.
\* The result of thread_signal is not looked at.
RaiseAndHalt(t) ==
    /\ thread_signal(t, "TERM")
    /\ where' = [where EXCEPT ![t] = "halted"]
    /\ UNCHANGED <<list, parent, sleep, current>>

\* syscall_exit and syscall_exit_group.
Exit(t) == InUser(t) /\ RaiseAndHalt(t)

\* handle_page_fault and handle_general_protection_fault for a user thread.
Fault(t) == InUser(t) /\ RaiseAndHalt(t)

\* syscall_kill: process_signal finds the thread of the process.
Kill(t, target, sig) ==
    /\ InUser(t)
    /\ process_signal(target, sig)
    /\ UNCHANGED <<list, parent, sleep, where, current>>

\* master_write, called by the keyboard interrupt: Ctrl-C, Ctrl-Z and Ctrl-\
\* signal the foreground process of the terminal, whoever is running.
TerminalSignal(target, sig) ==
    /\ process_signal(target, sig)
    /\ UNCHANGED <<list, parent, sleep, where, current>>

\* syscall_wait and syscall_wait4: the thread waits if some live process has
\* this process's address as its parent; otherwise the call returns at once.
Wait(t, child) ==
    /\ InUser(t)
    /\ child \in Live
    /\ parent[child] = t
    /\ state' = [state EXCEPT ![t] = "WAITCHILD"]
    /\ where' = [where EXCEPT ![t] = "kernel"]
    /\ UNCHANGED <<list, signals, parent, sleep, current>>

\* sleep_ms.
Sleep(t, ticks) ==
    /\ InUser(t)
    /\ state' = [state EXCEPT ![t] = "SLEEP"]
    /\ sleep' = [sleep EXCEPT ![t] = ticks]
    /\ where' = [where EXCEPT ![t] = "kernel"]
    /\ UNCHANGED <<list, signals, parent, current>>

\* syscall_select, when nothing is ready yet.
Select(t) ==
    /\ InUser(t)
    /\ state' = [state EXCEPT ![t] = "SELECT"]
    /\ where' = [where EXCEPT ![t] = "kernel"]
    /\ UNCHANGED <<list, signals, parent, sleep, current>>

\* A blocking read or write.  A pipe blocks every thread that has the same
\* end open (block_accessing_threads), whatever that thread is doing.
BlockOnIo(t, others) ==
    /\ InUser(t)
    /\ others \subseteq Live
    /\ PipeSharing \/ others = {}
    /\ state' = [s \in Slot |-> IF s = t \/ s \in others THEN "WAITIO" ELSE state[s]]
    /\ sleep' = [s \in Slot |-> IF s \in others THEN 0 ELSE sleep[s]]
    /\ where' = [where EXCEPT ![t] = "kernel"]
    /\ UNCHANGED <<list, signals, parent, current>>

\* A device interrupt or another thread's call ends a wait: thread_resume.
IoWake(t) ==
    /\ state[t] = "WAITIO"
    /\ state' = [state EXCEPT ![t] = "RUN"]
    /\ UNCHANGED <<list, signals, parent, sleep, where, current>>

\* The loop of a blocking call sees that the thread is resumed.
Return(t) ==
    /\ current = t
    /\ where[t] = "kernel"
    /\ state[t] = "RUN"
    /\ where' = [where EXCEPT ![t] = "user"]
    /\ UNCHANGED <<list, state, signals, parent, sleep, current>>

-----------------------------------------------------------------------------
(* schedule(), called by the timer interrupt *)

\* One tick of the uptime every sleeping thread compares its target with.
SleepAfterTick ==
    [t \in Slot |-> IF sleep[t] > 0 THEN sleep[t] - 1 ELSE 0]

\* Faulty variant: the uptime must be exactly the target.
DueExactly(finished) == {t \in Slot : state[t] = "SLEEP" /\ sleep[t] = 1} \cup finished

\* The threads thread_update_state resumes if it visits them; whether a
\* select is finished depends on the files it watches.
Due(finished) ==
    {t \in Slot : state[t] = "SLEEP" /\ SleepAfterTick[t] = 0} \cup finished

HasSignal(t) == t # Idle /\ signals[t] # <<>>

\* Faulty variant: the examined signal is not taken out of the queue.
ScheduleRunPeeks(pick) ==
    /\ HasSignal(pick.thread) => Head(signals[pick.thread]) \in {"CONT", "OTHER"}
    /\ state' = pick.state
    /\ sleep' = SleepAfterTick
    /\ current' = pick.thread
    /\ UNCHANGED <<list, signals, parent, where>>

\* The picked thread has no signal, or one the scheduler ignores.  With no
\* thread behind the idle one, schedule() returns early: Idle goes on.
ScheduleRun(pick) ==
    /\ HasSignal(pick.thread) => Head(signals[pick.thread]) \in {"CONT", "OTHER"}
    /\ signals' = [t \in Slot |-> IF t = pick.thread /\ HasSignal(t)
                                  THEN Tail(signals[t]) ELSE signals[t]]
    /\ state' = pick.state
    /\ sleep' = SleepAfterTick
    /\ current' = pick.thread
    /\ UNCHANGED <<list, parent, where>>

\* The picked thread has a fatal signal: its process is destroyed and the
\* search starts over from the idle thread, this time without looking at
\* the signals of the thread it finds.
ScheduleKill(pick, due) ==
    LET p == pick.thread
    IN  /\ HasSignal(p)
        /\ Head(signals[p]) = "TERM"
        /\ \E woken \in SUBSET (Waiting(pick.state) \ {p}) :
             \E again \in {LookThreads(Unlink(list, Position(p)),
                             StateAfterDestroy(pick.state, p, woken), due \ {p})} :
                /\ state' = again.state
                /\ current' = again.thread
        /\ list' = Unlink(list, Position(p))
        /\ signals' = [signals EXCEPT ![p] = <<>>]
        /\ parent' = [parent EXCEPT ![p] = NULL]
        /\ sleep' = [SleepAfterTick EXCEPT ![p] = 0]
        /\ where' = [where EXCEPT ![p] = "user"]

\* Faulty variant: the suspended thread is switched to without a new search.
ScheduleStopNoSearch(pick, due) ==
    LET p == pick.thread
    IN  /\ HasSignal(p)
        /\ Head(signals[p]) = "STOP"
        /\ state' = [pick.state EXCEPT ![p] = "SUSPEND"]
        /\ current' = p
        /\ signals' = [signals EXCEPT ![p] = Tail(@)]
        /\ sleep' = SleepAfterTick
        /\ UNCHANGED <<list, parent, where>>

\* The picked thread has a stop signal: it is suspended and the search
\* starts over from the idle thread.
ScheduleStop(pick, due) ==
    LET p == pick.thread
    IN  /\ HasSignal(p)
        /\ Head(signals[p]) = "STOP"
        /\ \E again \in {LookThreads(list, [pick.state EXCEPT ![p] = "SUSPEND"],
                                     due \ {p})} :
                /\ state' = again.state
                /\ current' = again.thread
        /\ signals' = [signals EXCEPT ![p] = Tail(@)]
        /\ sleep' = SleepAfterTick
        /\ UNCHANGED <<list, parent, where>>

TimerInterrupt ==
    \E finished \in SUBSET {t \in Slot : state[t] = "SELECT"} :
        \E due \in {Due(finished)} :
            \E pick \in {LookThreads(SearchOrder(current), state, due)} :
                \/ ScheduleRun(pick)
                \/ ScheduleKill(pick, due)
                \/ ScheduleStop(pick, due)

-----------------------------------------------------------------------------
SystemCall(t) ==
    \/ \E child \in Slot : Execute(t, child)
    \/ \E new \in Slot, woken \in SUBSET Slot : Execve(t, new, woken)
    \/ Exit(t)
    \/ Fault(t)
    \/ \E target \in Slot, sig \in Sent : Kill(t, target, sig)
    \/ \E child \in Slot : Wait(t, child)
    \/ \E ticks \in 0 .. MaxSleep : Sleep(t, ticks)
    \/ Select(t)
    \/ \E others \in SUBSET Slot : BlockOnIo(t, others)
    \/ Return(t)

Next ==
    \/ TimerInterrupt
    \/ \E t \in Slot : SystemCall(t) \/ IoWake(t)
    \/ \E t \in Slot, sig \in Sent \ {"CONT"} : TerminalSignal(t, sig)

Spec == Init /\ [][Next]_vars

\* The timer interrupt keeps coming.  Nothing is assumed of the processes.
FairSpec == Spec /\ WF_vars(TimerInterrupt)

-----------------------------------------------------------------------------
(* Properties *)

\* The thread list stays well formed while schedule(), execve and execute
\* relink it: every allocated thread is in it exactly once and no freed one
\* is, so a search never follows a pointer into freed memory.
ListIntact ==
    /\ \A i, j \in 1 .. Len(list) : list[i] = list[j] => i = j
    /\ \A t \in Slot : t \in Live <=> state[t] # "FREE"

\* g_current_thread is the idle thread, a thread of the list, or NULL;
\* process_destroy never leaves it pointing to the freed thread.
CurrentIsAllocated == current \in Live \cup {Idle, NULL}

\* Nobody waits for a child that can no longer end: while a thread is in
\* TS_WAITCHILD some live process still names it as parent, so a later
\* process_destroy will resume it.
WaiterHasChild ==
    \A t \in Live : state[t] = "WAITCHILD" => \E c \in Live : parent[c] = t

\* The processor is handed only to a thread in TS_RUN, also on the paths
\* where a signal makes schedule() search a second time.
SwitchesToRunnable ==
    [][(current' # current /\ current' \in Slot) => state'[current'] = "RUN"]_vars

\* Round robin: without stop signals every runnable thread gets the processor
\* or stops being runnable, whatever the others create, destroy or wake.
RunnableGetsProcessor ==
    \A t \in Slot : (state[t] = "RUN") ~> (current = t \/ state[t] # "RUN")

\* A thread that has exited or faulted, and whose fatal signal was queued, is
\* eventually destroyed.
ExitedIsDestroyed ==
    \A t \in Slot :
        (where[t] = "halted" /\ "TERM" \in Members(signals[t])) ~> (state[t] = "FREE")

\* A sleeping thread does not sleep for ever, although only the threads that
\* look_threads happens to visit have their sleep examined.
SleepEnds ==
    \A t \in Slot : (state[t] = "SLEEP") ~> (state[t] # "SLEEP")

=============================================================================
