-------------------------------- MODULE Pipe --------------------------------
(***************************************************************************)
(* A named pipe of kernel/pipe.c with the threads that have it open.       *)
(*                                                                         *)
(* A system call enters with interrupts disabled, so the first pass of the *)
(* loop in pipe_read and pipe_write, from the readiness test to the halt   *)
(* in block_accessing_threads, is one action.  The halt enables            *)
(* interrupts and nothing disables them again before the loop starts over: *)
(* every test of a later pass is a step of its own, between which the      *)
(* timer can switch threads.                                               *)
(*                                                                         *)
(* The ring buffer is abstracted to its fill level (FifoBuffer shows that  *)
(* it is a queue), the scheduler to a choice among the threads in TS_RUN,  *)
(* and a signal to one that schedule() takes out of the queue and ignores, *)
(* or one that destroys the process.  A thread opens one end at a time.    *)
(***************************************************************************)
EXTENDS Integers

CONSTANTS
    Thread,         \* the threads that may use the pipe
    Idle,           \* the idle thread
    Capacity,       \* the buffer size given to pipe_create
    MaxPending      \* the size of a signal queue

ASSUME PipeAssumption ==
    /\ Idle \notin Thread
    /\ Capacity \in Nat \ {0}
    /\ MaxPending \in Nat

VARIABLES
    exists,         \* g_pipe_list has the pipe
    used,           \* bytes in the buffer
    readers,        \* threads with the read end open
    writers,        \* threads with the write end open
    isBroken,       \* the readers are gone
    state,          \* thread->state
    pending,        \* thread->pending_signal_count
    pc,             \* where a thread is: see Step
    current         \* g_current_thread

vars == <<exists, used, readers, writers, isBroken, state, pending, pc, current>>

\* "user": not in a call of the pipe; "first": halted by the first pass of the
\* loop; "later": halted by a later pass; the others are the statements of a
\* later pass, in their order.
Step == {"user", "first", "later", "ready?", "broken?", "signal?", "block",
         "signal2?", "transfer"}

-----------------------------------------------------------------------------
\* pipe_read_test_ready and pipe_write_test_ready.
Ready(t) ==
    IF t \in readers THEN used > 0 ELSE used < Capacity /\ readers # {}

\* The threads a thread blocks with: those with the same end open.
Peers(t) == IF t \in readers THEN readers ELSE writers

\* block_accessing_threads: every thread of the list waits for the pipe.
Blocked(threads) ==
    [u \in Thread |-> IF u \in threads THEN "WAITIO" ELSE state[u]]

\* Faulty variant: nobody is resumed.
WokenNone(st, threads) == st

\* wakeup_accessing_threads.
Woken(st, threads) ==
    [u \in Thread |-> IF u \in threads /\ st[u] = "WAITIO" THEN "RUN" ELSE st[u]]

Runnable(st) == {t \in Thread : st[t] = "RUN"}

\* schedule() picks a thread in TS_RUN, or the idle thread if there is none,
\* and takes one signal out of the picked thread's queue.
SwitchTo(st) ==
    \E next \in IF Runnable(st) = {} THEN {Idle} ELSE Runnable(st) :
        /\ current' = next
        /\ pending' = [u \in Thread |-> IF u = next /\ pending[u] > 0
                                        THEN pending[u] - 1 ELSE pending[u]]

-----------------------------------------------------------------------------
Init ==
    /\ exists = FALSE
    /\ used = 0
    /\ readers = {}
    /\ writers = {}
    /\ isBroken = FALSE
    /\ state = [t \in Thread |-> "RUN"]
    /\ pending = [t \in Thread |-> 0]
    /\ pc = [t \in Thread |-> "user"]
    /\ current = Idle

At(t, step) == current = t /\ pc[t] = step

GoesTo(t, step) == pc' = [pc EXCEPT ![t] = step]

\* pipe_create: a pipe of this name must not exist yet.
PipeCreate(t) ==
    /\ At(t, "user")
    /\ ~exists
    /\ exists' = TRUE
    /\ used' = 0
    /\ isBroken' = FALSE
    /\ UNCHANGED <<readers, writers, state, pending, pc, current>>

\* pipe_destroy of a pipe that nobody has open; otherwise its memory would
\* go on to be used after it was freed.
PipeDestroy(t) ==
    /\ At(t, "user")
    /\ exists /\ readers = {} /\ writers = {}
    /\ exists' = FALSE
    /\ used' = 0
    /\ isBroken' = FALSE
    /\ UNCHANGED <<readers, writers, state, pending, pc, current>>

\* syscall_manage_pipe; pipe_exists changes nothing.
ManagePipe(t) == PipeCreate(t) \/ PipeDestroy(t)

\* pipe_open of the read end.
OpenRead(t) ==
    /\ At(t, "user")
    /\ exists
    /\ t \notin readers \cup writers
    /\ isBroken' = FALSE
    /\ readers' = readers \cup {t}
    /\ state' = Woken(state, writers)
    /\ UNCHANGED <<exists, used, writers, pending, pc, current>>

\* pipe_open of the write end.
OpenWrite(t) ==
    /\ At(t, "user")
    /\ exists
    /\ t \notin readers \cup writers
    /\ isBroken' = FALSE
    /\ writers' = writers \cup {t}
    /\ UNCHANGED <<exists, used, readers, state, pending, pc, current>>

\* pipe_close of the end t has open, on the thread states st.
CloseEnd(t, st) ==
    /\ readers' = readers \ {t}
    /\ writers' = writers \ {t}
    /\ isBroken' = (isBroken \/ readers' = {})
    /\ state' = IF readers' = {} THEN Woken(st, writers') ELSE st

Close(t) ==
    /\ At(t, "user")
    /\ t \in readers \cup writers
    /\ CloseEnd(t, state)
    /\ UNCHANGED <<exists, used, pending, pc, current>>

\* The end of pipe_read or pipe_write: size bytes at most, then the threads
\* at the other end are resumed.  A stale readiness test makes it move none.
Move(t, size) ==
    /\ used' = IF t \in readers
               THEN IF size < used THEN used - size ELSE 0
               ELSE IF used + size < Capacity THEN used + size ELSE Capacity
    /\ state' = Woken(state, IF t \in readers THEN writers ELSE readers)

\* pipe_read or pipe_write up to the return or the halt of its first pass.
\* The calls that fail (-EPIPE, -EINTR) return without an effect.
Call(t, size) ==
    /\ At(t, "user")
    /\ t \in readers \cup writers
    /\ pending[t] = 0
    /\ \/ /\ Ready(t)
          /\ Move(t, size)
          /\ UNCHANGED pc
       \/ /\ ~Ready(t)
          /\ ~isBroken
          /\ state' = Blocked(Peers(t))
          /\ GoesTo(t, "first")
          /\ UNCHANGED used
    /\ UNCHANGED <<exists, readers, writers, isBroken, pending, current>>

\* Any interrupt ends the halt of the current thread, whatever its state: the
\* loop starts over, now with interrupts enabled.
Resume(t) ==
    /\ At(t, "first") \/ At(t, "later")
    /\ GoesTo(t, "ready?")
    /\ UNCHANGED <<exists, used, readers, writers, isBroken, state, pending, current>>

\* The tests of a later pass.
Test(t) ==
    /\ \/ At(t, "ready?")   /\ GoesTo(t, IF Ready(t) THEN "signal2?" ELSE "broken?")
       \/ At(t, "broken?")  /\ GoesTo(t, IF isBroken THEN "user" ELSE "signal?")
       \/ At(t, "signal?")  /\ GoesTo(t, IF pending[t] > 0 THEN "user" ELSE "block")
       \/ At(t, "signal2?") /\ GoesTo(t, IF pending[t] > 0 THEN "user" ELSE "transfer")
    /\ UNCHANGED <<exists, used, readers, writers, isBroken, state, pending, current>>

BlockAgain(t) ==
    /\ At(t, "block")
    /\ state' = Blocked(Peers(t))
    /\ GoesTo(t, "later")
    /\ UNCHANGED <<exists, used, readers, writers, isBroken, pending, current>>

Transfer(t, size) ==
    /\ At(t, "transfer")
    /\ Move(t, size)
    /\ GoesTo(t, "user")
    /\ UNCHANGED <<exists, readers, writers, isBroken, pending, current>>

\* thread_signal, from an interrupt handler or another process.
Signal(t) ==
    /\ state[t] # "DEAD"
    /\ pending[t] < MaxPending
    /\ pending' = [pending EXCEPT ![t] = @ + 1]
    /\ state' = [state EXCEPT ![t] = IF @ = "WAITIO" THEN "RUN" ELSE @]
    /\ UNCHANGED <<exists, used, readers, writers, isBroken, pc, current>>

\* The timer interrupt.
Schedule ==
    /\ SwitchTo(state)
    /\ UNCHANGED <<exists, used, readers, writers, isBroken, state, pc>>

\* The timer interrupt when the picked thread has a fatal signal:
\* process_destroy closes its files.
Destroy(t) ==
    /\ state[t] = "RUN"
    /\ IF t \in readers \cup writers
       THEN CloseEnd(t, [state EXCEPT ![t] = "DEAD"])
       ELSE /\ state' = [state EXCEPT ![t] = "DEAD"]
            /\ UNCHANGED <<readers, writers, isBroken>>
    /\ SwitchTo(state')
    /\ GoesTo(t, "user")
    /\ UNCHANGED <<exists, used>>

Next ==
    \/ Schedule
    \/ \E t \in Thread :
        \/ ManagePipe(t) \/ OpenRead(t) \/ OpenWrite(t) \/ Close(t)
        \/ \E size \in 1 .. Capacity + 1 : Call(t, size) \/ Transfer(t, size)
        \/ Resume(t) \/ Test(t) \/ BlockAgain(t)
        \/ Signal(t) \/ Destroy(t)

Spec == Init /\ [][Next]_vars
=============================================================================
